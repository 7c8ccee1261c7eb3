---------------------------- MODULE SessionStore ----------------------------
(***************************************************************************)
(* What a session table promises its clients, with no user, request, lock  *)
(* or counter: a token is issued once, for one owner; it is renewed only   *)
(* while it lives and its lease has not run out; it ends by being revoked, *)
(* or by being found out of date, and an ended token never comes back.     *)
(* UserService and GatewaySessions are shown to implement it.              *)
(*                                                                         *)
(* The clock is the wall clock of a machine: it may be set, so it moves to *)
(* any time at any moment.                                                 *)
(***************************************************************************)
EXTENDS Functions, Integers

CONSTANTS Tokens,  \* strings that name a session
          Owners,  \* identities a session can belong to
          Times,   \* readings of the clock
          Lease    \* how long an unused session lasts

VARIABLES live,     \* the table: owner and expiry of every live token
          revoked,  \* tokens ended on request
          lapsed,   \* tokens ended because their lease had run out
          clock

storeVars == <<live, revoked, lapsed, clock>>

Init ==
  /\ live = [t \in {} |-> {}]
  /\ revoked = {}
  /\ lapsed = {}
  /\ clock \in Times

Session == [owner : Owners, expires : {now + Lease : now \in Times}]

\* The lease counts from some reading of the clock during the request.
Issue(t) ==
  /\ t \in Tokens \ (DOMAIN live \cup revoked \cup lapsed)
  /\ live'[t] \in Session
  /\ live' = [s \in DOMAIN live \cup {t} |-> IF s = t THEN live'[t] ELSE live[s]]
  /\ UNCHANGED <<revoked, lapsed, clock>>

Renew(t) ==
  /\ t \in DOMAIN live
  /\ live[t].expires > clock
  /\ live' = [live EXCEPT ![t].expires = clock + Lease]
  /\ UNCHANGED <<revoked, lapsed, clock>>

Without(t) == Restrict(live, DOMAIN live \ {t})

Revoke(t) ==
  /\ t \in DOMAIN live
  /\ live' = Without(t)
  /\ revoked' = revoked \cup {t}
  /\ UNCHANGED <<lapsed, clock>>

Lapse(t) ==
  /\ t \in DOMAIN live
  /\ live[t].expires <= clock
  /\ live' = Without(t)
  /\ lapsed' = lapsed \cup {t}
  /\ UNCHANGED <<revoked, clock>>

SetClock ==
  /\ clock' \in Times
  /\ UNCHANGED <<live, revoked, lapsed>>

Next ==
  \/ \E t \in DOMAIN live' : Issue(t)
  \/ \E t \in DOMAIN live : Renew(t) \/ Revoke(t) \/ Lapse(t)
  \/ SetClock

Spec == Init /\ [][Next]_storeVars
=============================================================================
