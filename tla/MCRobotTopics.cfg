CONSTANTS
  s1 = s1
  s2 = s2
  c1 = c1
  c2 = c2
  Streams = {s1, s2}
  Calls = {c1, c2}
  Viewers <- MCViewers
  Topics = {"odom", "local", "secret"}
  Robots <- MCRobots
  RemoteRobots <- MCRemoteRobots
  AllowedTopics = {"odom", "local"}
  RemoteAllowedTopics = {"odom"}
  Configured <- MCConfigured
  RemoteSeed <- MCConfigured
  RemoteTenant = "a"
  RecentLimit = 2
  MaxRestarts = 1

SYMMETRY Symmetry

SPECIFICATION Spec

INVARIANTS
  StreamFaithful
  PublishesAccounted

CHECK_DEADLOCK FALSE
