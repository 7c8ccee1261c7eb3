---------------------------- MODULE MCRobotTopics ----------------------------
(***************************************************************************)
(* Instance of RobotTopics for TLC: a visitor of the backend's tenant, the *)
(* owner of a robot of the same id in another tenant, a session of another *)
(* app; a topic only the gateway allows and one nobody does.               *)
(***************************************************************************)
EXTENDS RobotTopics, TLC

CONSTANTS s1, s2, c1, c2

Viewer(app, tenant, uid, anonymous) ==
  [app |-> app, tenant |-> tenant, uid |-> uid, anonymous |-> anonymous,
   anon_uid |-> anonymous]

MCViewers == {Viewer(App, "a", "visitor", TRUE), Viewer(App, "b", "v", FALSE),
              Viewer("blog", "a", "w", FALSE)}

MCRobots == <<[id |-> "r", tenant |-> "b", owner |-> "v"],
              [id |-> "r", tenant |-> "a", owner |-> "u"]>>

MCRemoteRobots == <<[id |-> "r", tenant |-> "a", owner |-> "u"]>>

MCConfigured == <<[number |-> 1, tenant |-> "a", topic |-> "odom", robot |-> "r",
                   issuer |-> "u", call |-> "seed"]>>

Symmetry == Permutations(Streams) \cup Permutations(Calls)
=============================================================================
