-------------------------- MODULE MCGatewaySessions --------------------------
(***************************************************************************)
(* Instance of GatewaySessions for TLC: two connections, an app that       *)
(* serves visitors and has configured users of two standings, an app that  *)
(* has neither, a configured uid that is the first visitor's too, and a    *)
(* registration under the key of another app's user.                       *)
(***************************************************************************)
EXTENDS GatewaySessions, TLC

CONSTANTS t1, t2

MCKeys == Apps \X Emails

\* As in format!("{app}:{email}"), two pairs have the same key.
MCUserKey == [x \in MCKeys |-> IF x = <<"a", "b:new">> THEN <<"a:b", "new">> ELSE x]

SeedConfig(email, form, number, standing) ==
  [app |-> "a", email |-> email, uid |-> [form |-> form, number |-> number],
   password |-> "p", standing |-> standing]

\* The first is replaced by the second, and still raises the user counter.
MCSeedUsers == <<SeedConfig("new", "u", 3, "boss"),
                 SeedConfig("new", "other", 0, "boss"),
                 SeedConfig("seed", "anon", 4, "member")>>

Tokens == [kind : {"session", "anon"}, app : {"a"}, number : 1..MaxSessions]
Unknown == [kind |-> "session", app |-> "a", number |-> 0]

RequestsOf(ops, app, email, password, bearers, cookies) ==
  [op : ops, app : {app}, email : {email}, password : {password},
   bearer : bearers, cookie : cookies]

\* What a request does not carry is given a fixed value.
MCRequests ==
  RequestsOf({"login"}, "a", "seed", "p", {{}}, {{}})
  \cup RequestsOf({"register"}, "a", "b:new", "p", {{}}, {{}})
  \cup RequestsOf({"login", "register"}, "a:b", "new", "p", {{}}, {{}})
  \cup RequestsOf({"login"}, "a:b", "new", "q", {{}}, {{}})
  \cup RequestsOf({"me", "logout", "app", "stream"}, "a", "new", "p", {{}},
                  {{t} : t \in Tokens})
  \cup RequestsOf({"me", "app"}, "a", "new", "p", {{}}, {{}, {Unknown}})
  \cup RequestsOf({"logout", "execute"}, "a", "new", "p", {{t} : t \in Tokens}, {{}})
  \cup RequestsOf({"app"}, "a:b", "new", "p", {{}}, {{}} \cup {{t} : t \in Tokens})

Symmetry == Permutations(Threads)
=============================================================================
