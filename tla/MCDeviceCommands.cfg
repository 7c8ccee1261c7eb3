CONSTANTS
  s1 = s1
  s2 = s2
  Streams = {s1, s2}
  Viewers <- MCViewers
  Devices <- MCDevices
  ConfiguredCommands <- MCConfigured
  Topics <- MCTopics
  RecentLimit = 2
  MaxCommands = 3

SPECIFICATION FairSpec

INVARIANTS
  StreamComplete
  StreamsApart

PROPERTIES
  DepartedStreamsEnd

CHECK_DEADLOCK FALSE
