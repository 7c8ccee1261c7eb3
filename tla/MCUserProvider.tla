---------------------------- MODULE MCUserProvider ----------------------------
(***************************************************************************)
(* Instance of UserProvider for TLC: two connections, two apps, the second *)
(* unknown until the launcher of the first has subscribed its methods, a   *)
(* registry whose clients are visitors, and a restart of either side.      *)
(***************************************************************************)
EXTENDS UserProvider, TLC

CONSTANTS t1, t2

MCServiceApps == <<"a", "b">>

MCMethods == <<"ensureAnonymousSession", "logout", "me">>

Of(ops, app, bearers, cookies) ==
  [op : ops, app : {app}, bearer : bearers, cookie : cookies]

Number(app, n) == {[app |-> app, number |-> n]}

\* Visitors of either app, a cookie of one sent to the other among them
MCRequests ==
  Of({"register", "anonymous"}, "a", {{}}, {{}}) \cup Of({"anonymous"}, "b", {{}}, {{}})
  \cup Of({"me", "logout"}, "a", {Number("a", 1)}, {{}})
  \cup Of({"me"}, "b", {{}}, {Number("a", 1)}) \cup Of({"logout"}, "b", {{}}, {Number("b", 1)})

Symmetry == Permutations(Threads)
=============================================================================
