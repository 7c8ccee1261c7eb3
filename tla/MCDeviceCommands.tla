--------------------------- MODULE MCDeviceCommands ---------------------------
(***************************************************************************)
(* Instance of DeviceCommands for TLC: two streams, a device id in two     *)
(* tenants, an owner, a visitor of his tenant, a user of the other tenant  *)
(* with the owner's uid, and a session of another app.                     *)
(***************************************************************************)
EXTENDS DeviceCommands

CONSTANTS s1, s2

Viewer(app, tenant, uid, anonymous) ==
  [app |-> app, tenant |-> tenant, uid |-> uid, anonymous |-> anonymous]

MCViewers == {Viewer(App, "a", "u", FALSE), Viewer(App, "a", "visitor", TRUE),
              Viewer(App, "b", "u", FALSE), Viewer("blog", "a", "u", FALSE)}

MCDevices == <<[id |-> "d", tenant |-> "b", owner |-> "u"],
               [id |-> "d", tenant |-> "a", owner |-> "u"],
               [id |-> "e", tenant |-> "a", owner |-> "other"]>>

MCConfigured == <<[number |-> 1, device |-> "d", tenant |-> "a", issuer |-> "u"]>>

MCTopics == [tenant : {"a", "b"}, device : {"d"}]
=============================================================================
