-------------------------- MODULE UserServiceProofs --------------------------
(***************************************************************************)
(* Proofs about UserService for every set of connections, apps, addresses  *)
(* and requests and every seed: type correctness, no user replaced, no     *)
(* identity shared, no revoked token served, one successful logout per     *)
(* session, and the implementation of the abstract session table.          *)
(***************************************************************************)
EXTENDS UserService, TLAPS

HasSubject(th) == pc[th] \in {"issue", "number", "store"}

\* An identity sessions may be issued for.
Genuine(owner) ==
  IF owner.anonymous THEN \A k \in DOMAIN users : users[k].uid # owner.uid
  ELSE \E k \in DOMAIN users : users[k].uid = owner.uid /\ users[k].app = owner.app

UsersConsistent ==
  /\ \A k \in DOMAIN users : users[k].uid < nextUser
  /\ \A j, k \in DOMAIN users : users[j].uid = users[k].uid => j = k

SessionsConsistent ==
  /\ \A t \in DOMAIN sessions :
       /\ t.number < nextSession
       /\ sessions[t].owner.uid < nextUser
       /\ Genuine(sessions[t].owner)
  /\ \A s, t \in DOMAIN sessions :
       /\ sessions[t].owner.anonymous
       /\ sessions[s].owner.uid = sessions[t].owner.uid
       => s = t

\* An ended token is out of the table and its number is used up.
EndedConsistent ==
  \A t \in revoked \cup lapsed : t \notin DOMAIN sessions /\ t.number < nextSession

\* A thread that is registering keeps the address free by holding the mutex.
Phase(th) ==
  /\ pc[th] # "idle" => request[th] \in Requests
  /\ pc[th] = "registering" =>
       holder["users"] = th /\ KeyOf(th) \notin DOMAIN users

\* What a thread is about to issue a session for, and under which number.
Subject(th) ==
  /\ HasSubject(th) =>
       /\ subject[th] \in Owner
       /\ subject[th].uid < nextUser
       /\ Genuine(subject[th])
       /\ subject[th].anonymous =>
            \A t \in DOMAIN sessions : sessions[t].owner.uid # subject[th].uid
  /\ pc[th] = "store" =>
       /\ serial[th] < nextSession
       /\ \A t \in DOMAIN sessions \cup revoked \cup lapsed : t.number # serial[th]

Served(th) ==
  /\ revokedBefore[th] \subseteq revoked
  /\ granted[th] \cap revokedBefore[th] = {}

ThreadOK(th) == Phase(th) /\ Subject(th) /\ Served(th)

\* Two threads never issue for one anonymous identity or under one number.
Apart(o, q) ==
  /\ HasSubject(o) /\ HasSubject(q) /\ subject[o].anonymous =>
       subject[q].uid # subject[o].uid
  /\ pc[o] = "store" /\ pc[q] = "store" => serial[o] # serial[q]

ThreadsConsistent ==
  /\ \A th \in Threads : ThreadOK(th)
  /\ \A o, q \in Threads : o # q => Apart(o, q)

IInv ==
  /\ TypeOK
  /\ UsersConsistent
  /\ SessionsConsistent
  /\ EndedConsistent
  /\ ThreadsConsistent
----------------------------------------------------------------------------
LEMMA InitIInv == Init => IInv
<1> SUFFICES ASSUME Init PROVE IInv
  OBVIOUS
<1> USE ServiceAssumption, SeedAssumption DEF Init
<1>1. TypeOK
  <2>1. /\ DOMAIN users \subseteq Keys /\ users \in [DOMAIN users -> User]
        /\ nextUser \in Nat /\ nextSession \in Nat \ {0}
        /\ holder \in [Locks -> Threads \cup {Free}]
        /\ clock \in 0..MaxTime
    OBVIOUS
  <2>2. DOMAIN sessions \subseteq Token /\ sessions \in [DOMAIN sessions -> Session]
    OBVIOUS
  <2>3. /\ pc \in [Threads -> Place]
        /\ request \in [Threads -> Requests \cup {NoRequest}]
        /\ subject \in [Threads -> Owner \cup {Nobody}]
    BY DEF Place
  <2>4. /\ stamp \in [Threads -> 0..MaxTime]
        /\ serial \in [Threads -> Nat]
    OBVIOUS
  <2>5. /\ ok \in [Threads -> BOOLEAN]
        /\ granted \in [Threads -> SUBSET Token]
        /\ revokedBefore \in [Threads -> SUBSET Token]
    BY Zenon
  <2>6. revoked \subseteq Token /\ lapsed \subseteq Token
    OBVIOUS
  <2> QED BY <2>1, <2>2, <2>3, <2>4, <2>5, <2>6 DEF TypeOK
<1>2. UsersConsistent
  BY DEF UsersConsistent, User
<1>3. SessionsConsistent /\ EndedConsistent
  BY DEF SessionsConsistent, EndedConsistent
<1>4. ThreadsConsistent
  BY DEF ThreadsConsistent, ThreadOK, Phase, Subject, Served, Apart, HasSubject
<1> QED BY <1>1, <1>2, <1>3, <1>4 DEF IInv
----------------------------------------------------------------------------
\* What the step of another thread leaves alone.
Same(o) ==
  /\ pc'[o] = pc[o] /\ request'[o] = request[o] /\ subject'[o] = subject[o]
  /\ serial'[o] = serial[o] /\ granted'[o] = granted[o]
  /\ revokedBefore'[o] = revokedBefore[o]

Others(th) == \A o \in Threads \ {th} : Same(o)

Steady == UNCHANGED <<users, sessions, nextUser, nextSession, revoked, lapsed>>

LEMMA GenuineStays ==
  ASSUME NEW o, users' = users
  PROVE  Genuine(o)' <=> Genuine(o)
BY DEF Genuine

\* A handler's return ends its thread's part in everything but the reply.
LEMMA ReturnEffect ==
  ASSUME TypeOK, NEW th \in Threads, NEW s \in BOOLEAN, NEW tokens \in SUBSET Token,
         Return(th, s, tokens), UNCHANGED revokedBefore
  PROVE  /\ pc' \in [Threads -> Place]
         /\ request' \in [Threads -> Requests \cup {NoRequest}]
         /\ subject' \in [Threads -> Owner \cup {Nobody}]
         /\ stamp' \in [Threads -> 0..MaxTime]
         /\ serial' \in [Threads -> Nat]
         /\ ok' \in [Threads -> BOOLEAN]
         /\ granted' \in [Threads -> SUBSET Token]
         /\ pc'[th] = "idle" /\ granted'[th] = tokens
         /\ Others(th)
<1> USE DEF TypeOK, Return, Goto
<1>1. pc' \in [Threads -> Place]
  BY DEF Place
<1>2. /\ request' \in [Threads -> Requests \cup {NoRequest}]
      /\ subject' \in [Threads -> Owner \cup {Nobody}]
  OBVIOUS
<1>3. stamp' \in [Threads -> 0..MaxTime] /\ serial' \in [Threads -> Nat]
  BY ServiceAssumption
<1>4. ok' \in [Threads -> BOOLEAN] /\ granted' \in [Threads -> SUBSET Token]
  BY Zenon
<1>5. pc'[th] = "idle" /\ granted'[th] = tokens
  OBVIOUS
<1>6. Others(th)
  BY DEF Others, Same
<1> QED BY <1>1, <1>2, <1>3, <1>4, <1>5, <1>6

\* A thread that is not touched stays consistent while the tables do.
LEMMA OtherThreadOK ==
  ASSUME NEW o \in Threads, ThreadOK(o), Same(o), Steady,
         holder["users"] = o => holder'["users"] = o
  PROVE  ThreadOK(o)'
<1>1. Phase(o)'
  BY DEF ThreadOK, Phase, Same, Steady, KeyOf
<1>2. Subject(o)'
  BY DEF ThreadOK, Subject, HasSubject, Genuine, Same, Steady
<1>3. Served(o)'
  BY DEF ThreadOK, Served, Same, Steady
<1> QED BY <1>1, <1>2, <1>3 DEF ThreadOK

\* A step that changes no table only has to keep its own thread consistent.
LEMMA SteadyIInv ==
  ASSUME IInv, TypeOK', NEW th \in Threads, Steady, Others(th),
         \A o \in Threads \ {th} : holder["users"] = o => holder'["users"] = o,
         ThreadOK(th)',
         \A o \in Threads \ {th} : Apart(th, o)' /\ Apart(o, th)'
  PROVE  IInv'
<1>1. UsersConsistent' /\ SessionsConsistent' /\ EndedConsistent'
  BY DEF IInv, UsersConsistent, SessionsConsistent, EndedConsistent, Genuine, Steady
<1>2. \A o \in Threads : ThreadOK(o)'
  BY OtherThreadOK DEF IInv, ThreadsConsistent, Others
<1>3. \A o, q \in Threads \ {th} : o # q => Apart(o, q)'
  BY DEF IInv, ThreadsConsistent, Others, Same, Apart, HasSubject
<1> QED BY <1>1, <1>2, <1>3 DEF IInv, ThreadsConsistent

\* Every refusal, and every success that changes no table, is such a step.
LEMMA ReplyIInv ==
  ASSUME IInv, NEW th \in Threads, NEW s \in BOOLEAN, NEW tokens \in SUBSET Token,
         Return(th, s, tokens), tokens \cap revokedBefore[th] = {},
         UNCHANGED <<state, holder, clock, history>>
  PROVE  IInv'
<1> USE DEF state, history
<1>1. TypeOK
  BY DEF IInv
<1>2. /\ pc'[th] = "idle" /\ granted'[th] = tokens /\ Others(th)
      /\ TypeOK'
  BY <1>1, ReturnEffect DEF TypeOK
<1>3. ThreadOK(th)
  BY DEF IInv, ThreadsConsistent
<1>4. ThreadOK(th)'
  BY <1>2, <1>3 DEF ThreadOK, Phase, Subject, HasSubject, Served
<1>5. \A o \in Threads \ {th} : Apart(th, o)' /\ Apart(o, th)'
  BY <1>2 DEF Apart, HasSubject
<1>6. Steady
  BY DEF Steady
<1> QED BY <1>2, <1>4, <1>5, <1>6, SteadyIInv

\* A step that moves a thread on, without a subject or number yet.
LEMMA MoveIInv ==
  ASSUME IInv, NEW th \in Threads, NEW place \in Place \ {"issue", "number", "store"},
         Goto(th, place), UNCHANGED <<state, clock, local, reply, history>>,
         holder' \in [Locks -> Threads \cup {Free}],
         \A o \in Threads \ {th} : holder["users"] = o => holder'["users"] = o,
         Phase(th)'
  PROVE  IInv'
<1> USE DEF state, local, reply, history
<1>1. TypeOK
  BY DEF IInv
<1>2. pc' \in [Threads -> Place] /\ pc'[th] = place
  BY <1>1 DEF TypeOK, Goto
<1>3. TypeOK'
  BY <1>1, <1>2 DEF TypeOK
<1>4. Others(th)
  BY <1>1 DEF TypeOK, Others, Same, Goto
<1>5. ThreadOK(th)
  BY DEF IInv, ThreadsConsistent
<1>6. ThreadOK(th)'
  BY <1>2, <1>5 DEF ThreadOK, Subject, HasSubject, Served
<1>7. \A o \in Threads \ {th} : Apart(th, o)' /\ Apart(o, th)'
  BY <1>2 DEF Apart, HasSubject
<1> QED BY <1>3, <1>4, <1>6, <1>7, SteadyIInv DEF Steady
----------------------------------------------------------------------------
LEMMA RefusalIInv ==
  ASSUME IInv, NEW th \in Threads,
         \/ RefuseLogin(th) \/ RefuseDuplicate(th) \/ RefuseForeignCookie(th)
         \/ RefuseUnknown(th) \/ RefuseForeign(th) \/ RefuseSecondLogout(th)
  PROVE  IInv'
<1>1. Fail(th) /\ UNCHANGED <<state, holder, clock, history>>
  BY DEF RefuseLogin, RefuseDuplicate, RefuseForeignCookie, RefuseUnknown,
         RefuseForeign, RefuseSecondLogout
<1>2. Return(th, FALSE, {})
  BY <1>1 DEF Fail
<1> QED BY <1>1, <1>2, ReplyIInv

\* The token of a session in the table is not a revoked one.
LEMMA LiveNotRevoked ==
  ASSUME IInv, NEW th \in Threads, Knows(th)
  PROVE  /\ request[th].token \in Token /\ request[th].token \in DOMAIN sessions
         /\ {request[th].token} \cap revokedBefore[th] = {}
<1>1. request[th].token \in Token /\ request[th].token \in DOMAIN sessions
  BY DEF IInv, TypeOK, Knows
<1>2. request[th].token \notin revoked /\ revokedBefore[th] \subseteq revoked
  BY <1>1 DEF IInv, EndedConsistent, ThreadsConsistent, ThreadOK, Served
<1> QED BY <1>1, <1>2

LEMMA CookieIInv ==
  ASSUME IInv, NEW th \in Threads, ReturnCookieSession(th)
  PROVE  IInv'
<1>1. PICK tokens \in SUBSET Token : tokens = {request[th].token}
  BY LiveNotRevoked DEF ReturnCookieSession
<1>2. tokens \cap revokedBefore[th] = {}
  BY <1>1, LiveNotRevoked DEF ReturnCookieSession
<1>3. Return(th, TRUE, tokens) /\ UNCHANGED <<state, holder, clock, history>>
  BY <1>1 DEF ReturnCookieSession
<1> QED BY <1>2, <1>3, ReplyIInv

LEMMA ClockIInv == ASSUME IInv, SetClock PROVE IInv'
<1> USE DEF SetClock, state, local, reply, history
<1>1. TypeOK'
  BY DEF IInv, TypeOK
<1>2. UsersConsistent' /\ SessionsConsistent' /\ EndedConsistent'
  BY DEF IInv, UsersConsistent, SessionsConsistent, EndedConsistent, Genuine
<1>3. \A o \in Threads : ThreadOK(o)'
  BY DEF IInv, ThreadsConsistent, ThreadOK, Phase, Subject, Served, HasSubject,
         Genuine, KeyOf
<1>4. \A o, q \in Threads : o # q => Apart(o, q)'
  BY DEF IInv, ThreadsConsistent, Apart, HasSubject
<1> QED BY <1>1, <1>2, <1>3, <1>4 DEF IInv, ThreadsConsistent

LEMMA BeginIInv ==
  ASSUME IInv, NEW th \in Threads, NEW r \in Requests, Begin(th, r)
  PROVE  IInv'
<1> USE DEF Begin, state, Goto
<1>1. TypeOK
  BY DEF IInv
<1>2. /\ pc' \in [Threads -> Place] /\ pc'[th] = "start"
      /\ request' \in [Threads -> Requests \cup {NoRequest}] /\ request'[th] = r
      /\ granted' \in [Threads -> SUBSET Token] /\ granted'[th] = {}
      /\ revokedBefore' \in [Threads -> SUBSET Token] /\ revokedBefore'[th] = revoked
  BY <1>1 DEF TypeOK, Place
<1>3. ok' \in [Threads -> BOOLEAN]
  BY <1>1, Zenon DEF TypeOK
<1>4. TypeOK'
  BY <1>1, <1>2, <1>3 DEF TypeOK
<1>5. Others(th)
  BY <1>1 DEF TypeOK, Others, Same
<1>6. ThreadOK(th)'
  BY <1>2 DEF ThreadOK, Phase, Subject, HasSubject, Served
<1>7. \A o \in Threads \ {th} : Apart(th, o)' /\ Apart(o, th)'
  BY <1>2 DEF Apart, HasSubject
<1> QED BY <1>4, <1>5, <1>6, <1>7, SteadyIInv DEF Steady

LEMMA StartRegisteringIInv ==
  ASSUME IInv, NEW th \in Threads, StartRegistering(th)
  PROVE  IInv'
<1> USE DEF StartRegistering, state, local
<1>1. TypeOK /\ ThreadOK(th)
  BY DEF IInv, ThreadsConsistent
<1>2. holder' \in [Locks -> Threads \cup {Free}] /\ holder'["users"] = th
  BY <1>1 DEF TypeOK, Locks
<1>3. \A o \in Threads \ {th} : holder["users"] # o
  BY FreeAssumption DEF CanTake
<1>4. Phase(th)'
  BY <1>1, <1>2 DEF ThreadOK, Phase, KeyOf, Asked
<1>5. "registering" \in Place \ {"issue", "number", "store"}
  BY DEF Place
<1> QED BY <1>2, <1>3, <1>4, <1>5, MoveIInv

LEMMA AnonymousMoveIInv ==
  ASSUME IInv, NEW th \in Threads, MissCookieSession(th) \/ ReadDefaultIdentity(th)
  PROVE  IInv'
<1> USE DEF state, local
<1>1. PICK place \in {"default identity", "anonymous user"} :
        Goto(th, place) /\ UNCHANGED <<state, holder, clock, local, reply, history>>
  BY DEF MissCookieSession, ReadDefaultIdentity
<1>2. pc[th] # "idle"
  BY DEF MissCookieSession, ReadDefaultIdentity, Asked
<1>3. TypeOK /\ ThreadOK(th)
  BY DEF IInv, ThreadsConsistent
<1>4. pc'[th] = place
  BY <1>1, <1>3 DEF TypeOK, Goto
<1>5. Phase(th)'
  BY <1>1, <1>2, <1>3, <1>4 DEF ThreadOK, Phase
<1>6. holder' \in [Locks -> Threads \cup {Free}] /\ place \in Place \ {"issue", "number", "store"}
  BY <1>1, <1>3 DEF TypeOK, Place
<1> QED BY <1>1, <1>5, <1>6, MoveIInv

LEMMA AcceptLoginIInv ==
  ASSUME IInv, NEW th \in Threads, AcceptLogin(th)
  PROVE  IInv'
<1> USE DEF AcceptLogin, state, reply, history
<1>1. TypeOK /\ ThreadOK(th) /\ UsersConsistent
  BY DEF IInv, ThreadsConsistent
<1>2. /\ request[th] \in Request /\ KeyOf(th) \in DOMAIN users
      /\ users[KeyOf(th)] \in User
  BY <1>1, ServiceAssumption DEF TypeOK, ThreadOK, Phase, GoodLogin, Asked
<1>3. PICK owner \in Owner :
        /\ owner = [app |-> users[KeyOf(th)].app, uid |-> users[KeyOf(th)].uid,
                    anonymous |-> FALSE]
        /\ owner.uid < nextUser /\ Genuine(owner) /\ ~owner.anonymous
  <2> DEFINE found == [app |-> users[KeyOf(th)].app, uid |-> users[KeyOf(th)].uid,
                       anonymous |-> FALSE]
  <2>1. found \in Owner
    BY <1>2 DEF Owner, User
  <2>2. found.uid < nextUser /\ found.uid = users[KeyOf(th)].uid
    BY <1>1, <1>2 DEF UsersConsistent
  <2>3. ~found.anonymous /\ found.app = users[KeyOf(th)].app
    BY <1>2
  <2>4. Genuine(found)
    <3> HIDE DEF found
    <3> QED BY <1>2, <2>2, <2>3 DEF Genuine
  <2> QED BY <2>1, <2>2, <2>3, <2>4
<1>4. /\ pc' \in [Threads -> Place] /\ pc'[th] = "issue"
      /\ subject' \in [Threads -> Owner \cup {Nobody}] /\ subject'[th] = owner
  BY <1>1, <1>3 DEF TypeOK, Place, Goto
<1>5. TypeOK'
  BY <1>1, <1>4 DEF TypeOK
<1>6. Others(th)
  BY <1>1 DEF TypeOK, Others, Same, Goto
<1>7. ThreadOK(th)'
  <2>1. Phase(th)' /\ Served(th)'
    BY <1>1, <1>4 DEF ThreadOK, Phase, Served, Asked
  <2>2. Genuine(owner)'
    BY <1>3 DEF Genuine
  <2>3. Subject(th)'
    BY <1>3, <1>4, <2>2 DEF Subject, Genuine
  <2> QED BY <2>1, <2>3 DEF ThreadOK
<1>8. \A o \in Threads \ {th} : Apart(th, o)' /\ Apart(o, th)'
  <2> SUFFICES ASSUME NEW o \in Threads \ {th} PROVE Apart(th, o)' /\ Apart(o, th)'
    OBVIOUS
  <2>1. ThreadOK(o) /\ Same(o)
    BY <1>6 DEF IInv, ThreadsConsistent, Others
  <2>2. HasSubject(o) /\ subject[o].anonymous => subject[o].uid # owner.uid
    BY <1>2, <1>3, <2>1 DEF ThreadOK, Subject, Genuine
  <2> QED BY <1>3, <1>4, <2>1, <2>2 DEF Apart, Same, HasSubject
<1> QED BY <1>5, <1>6, <1>7, <1>8, SteadyIInv DEF Steady

LEMMA ReadClockIInv ==
  ASSUME IInv, NEW th \in Threads, ReadClock(th)
  PROVE  IInv'
<1> USE DEF ReadClock, state, reply, history
<1>1. TypeOK /\ ThreadOK(th)
  BY DEF IInv, ThreadsConsistent
<1>2. /\ pc' \in [Threads -> Place] /\ pc'[th] = "number"
      /\ stamp' \in [Threads -> 0..MaxTime]
  BY <1>1 DEF TypeOK, Place, Goto
<1>3. TypeOK'
  BY <1>1, <1>2 DEF TypeOK
<1>4. Others(th)
  BY <1>1 DEF TypeOK, Others, Same, Goto
<1>5. ThreadOK(th)'
  BY <1>1, <1>2 DEF ThreadOK, Phase, Subject, Served, HasSubject, Genuine
<1>6. \A o \in Threads \ {th} : Apart(th, o)' /\ Apart(o, th)'
  BY <1>2, <1>4 DEF IInv, ThreadsConsistent, Apart, HasSubject, Others, Same
<1> QED BY <1>3, <1>4, <1>5, <1>6, SteadyIInv DEF Steady

LEMMA NumberAnonymousUserIInv ==
  ASSUME IInv, NEW th \in Threads, NumberAnonymousUser(th)
  PROVE  IInv'
<1>1. TypeOK /\ ThreadOK(th) /\ UsersConsistent /\ SessionsConsistent
  BY DEF IInv, ThreadsConsistent
<1>2. nextUser \in Nat
  BY <1>1 DEF TypeOK
<1>3. nextUser' = nextUser + 1
  BY DEF NumberAnonymousUser
<1>4. nextUser' \in Nat /\ \A n \in Nat : n < nextUser => n < nextUser' /\ n # nextUser
  BY <1>2, <1>3
<1>5. nextUser < nextUser'
  BY <1>2, <1>3
<1>6. /\ pc[th] = "anonymous user"
      /\ users' = users /\ sessions' = sessions /\ nextSession' = nextSession
      /\ holder' = holder /\ clock' = clock /\ request' = request
      /\ stamp' = stamp /\ serial' = serial /\ ok' = ok /\ granted' = granted
      /\ revoked' = revoked /\ lapsed' = lapsed /\ revokedBefore' = revokedBefore
      /\ Goto(th, "issue")
  BY DEF NumberAnonymousUser, reply, history
<1>7. /\ request[th] \in Request
      /\ \A k \in DOMAIN users : users[k].uid \in Nat
      /\ \A t \in DOMAIN sessions : sessions[t].owner.uid \in Nat
  BY <1>1, <1>6, ServiceAssumption
     DEF TypeOK, ThreadOK, Phase, User, Session, Owner
<1>8. PICK owner \in Owner :
        owner = [app |-> request[th].app, uid |-> nextUser, anonymous |-> TRUE]
  BY <1>7, <1>2 DEF Owner, Request
<1>9. owner.uid = nextUser /\ owner.anonymous
  BY <1>8
<1>10. /\ pc' \in [Threads -> Place] /\ pc'[th] = "issue"
      /\ subject' \in [Threads -> Owner \cup {Nobody}] /\ subject'[th] = owner
  BY <1>1, <1>8, <1>6 DEF TypeOK, Place, Goto, NumberAnonymousUser
<1>11. TypeOK'
  BY <1>1, <1>4, <1>10, <1>6 DEF TypeOK
<1>12. Others(th)
  BY <1>1, <1>6, <1>10 DEF TypeOK, Others, Same, Goto, NumberAnonymousUser
<1>13. UsersConsistent' /\ SessionsConsistent' /\ EndedConsistent'
  <2>1. UsersConsistent'
    BY <1>1, <1>7, <1>4, <1>6 DEF UsersConsistent
  <2>2. \A t \in DOMAIN sessions : sessions[t].owner.uid < nextUser'
    BY <1>1, <1>7, <1>4 DEF SessionsConsistent
  <2>3. SessionsConsistent' /\ EndedConsistent'
    BY <1>1, <1>6, <2>2 DEF IInv, SessionsConsistent, EndedConsistent, Genuine
  <2> QED BY <2>1, <2>3
<1>14. ThreadOK(th)'
  <2>1. /\ \A k \in DOMAIN users : users[k].uid # owner.uid
        /\ \A t \in DOMAIN sessions : sessions[t].owner.uid # owner.uid
        /\ owner.uid < nextUser'
    BY <1>1, <1>7, <1>9, <1>4, <1>5 DEF UsersConsistent, SessionsConsistent
  <2>2. Phase(th)' /\ Served(th)'
    BY <1>1, <1>10, <1>6 DEF ThreadOK, Phase, Served
  <2>3. Subject(th)'
    BY <1>8, <1>10, <1>6, <1>9, <2>1 DEF Subject, Genuine
  <2> QED BY <2>2, <2>3 DEF ThreadOK
<1>15. \A o \in Threads \ {th} : ThreadOK(o)' /\ Apart(th, o)' /\ Apart(o, th)'
  <2> SUFFICES ASSUME NEW o \in Threads \ {th}
               PROVE  ThreadOK(o)' /\ Apart(th, o)' /\ Apart(o, th)'
    OBVIOUS
  <2>1. ThreadOK(o) /\ Same(o)
    BY <1>12 DEF IInv, ThreadsConsistent, Others
  <2>2. HasSubject(o) => /\ subject[o].uid < nextUser /\ subject[o].uid \in Nat
                         /\ subject[o].uid < nextUser'
    BY <1>4, <2>1 DEF ThreadOK, Subject, Owner
  <2>3. Phase(o)' /\ Served(o)'
    BY <1>6, <2>1 DEF ThreadOK, Phase, Served, Same, KeyOf
  <2>4. Subject(o)'
    BY <1>6, <2>1, <2>2 DEF ThreadOK, Subject, Same, HasSubject, Genuine
  <2>5. Apart(th, o)' /\ Apart(o, th)'
    <3>1. HasSubject(o) => subject[o].uid # owner.uid
      BY <1>4, <1>9, <2>2
    <3> QED BY <1>10, <2>1, <3>1 DEF Apart, Same, HasSubject
  <2> QED BY <2>3, <2>4, <2>5 DEF ThreadOK
<1>16. \A o, q \in Threads \ {th} : o # q => Apart(o, q)'
  BY <1>12 DEF IInv, ThreadsConsistent, Others, Same, Apart, HasSubject
<1> QED BY <1>11, <1>13, <1>14, <1>15, <1>16 DEF IInv, ThreadsConsistent

LEMMA TakeNumberIInv ==
  ASSUME IInv, NEW th \in Threads, TakeNumber(th)
  PROVE  IInv'
<1> USE DEF TakeNumber, reply, history
<1>1. TypeOK /\ ThreadOK(th) /\ SessionsConsistent /\ EndedConsistent
  BY DEF IInv, ThreadsConsistent
<1>2. /\ nextSession \in Nat \ {0} /\ nextSession' = nextSession + 1
      /\ \A t \in DOMAIN sessions \cup revoked \cup lapsed :
           t.number \in Nat /\ t.number < nextSession
      /\ \A o \in Threads : serial[o] \in Nat
  BY <1>1 DEF TypeOK, Token, SessionsConsistent, EndedConsistent
<1>3. /\ pc' \in [Threads -> Place] /\ pc'[th] = "store"
      /\ serial' \in [Threads -> Nat] /\ serial'[th] = nextSession
  BY <1>1, <1>2 DEF TypeOK, Place, Goto
<1>4. TypeOK'
  BY <1>1, <1>2, <1>3 DEF TypeOK
<1>5. Others(th)
  BY <1>1 DEF TypeOK, Others, Same, Goto
<1>6. UsersConsistent' /\ SessionsConsistent' /\ EndedConsistent'
  <2>1. \A t \in DOMAIN sessions \cup revoked \cup lapsed : t.number < nextSession'
    BY <1>2
  <2> QED BY <1>1, <2>1
          DEF IInv, UsersConsistent, SessionsConsistent, EndedConsistent, Genuine
<1>7. ThreadOK(th)'
  <2>1. /\ \A t \in DOMAIN sessions \cup revoked \cup lapsed : t.number # nextSession
        /\ nextSession < nextSession'
    BY <1>2
  <2>2. Subject(th)'
    BY <1>1, <1>3, <2>1 DEF ThreadOK, Subject, HasSubject, Genuine
  <2> QED BY <1>1, <1>3, <2>2 DEF ThreadOK, Phase, Served
<1>8. \A o \in Threads \ {th} : ThreadOK(o)' /\ Apart(th, o)' /\ Apart(o, th)'
  <2> SUFFICES ASSUME NEW o \in Threads \ {th}
               PROVE  ThreadOK(o)' /\ Apart(th, o)' /\ Apart(o, th)'
    OBVIOUS
  <2>1. ThreadOK(o) /\ Same(o) /\ Apart(o, th) /\ Apart(th, o)
    BY <1>5 DEF IInv, ThreadsConsistent, Others
  <2>2. pc[o] = "store" => serial[o] < nextSession' /\ serial[o] # nextSession
    BY <1>2, <2>1 DEF ThreadOK, Subject
  <2>3. Phase(o)' /\ Served(o)'
    BY <2>1 DEF ThreadOK, Phase, Served, Same, KeyOf
  <2>4. Subject(o)'
    BY <2>1, <2>2 DEF ThreadOK, Subject, Same, HasSubject, Genuine
  <2>5. Apart(th, o)' /\ Apart(o, th)'
    BY <1>3, <2>1, <2>2 DEF Apart, Same, HasSubject
  <2> QED BY <2>3, <2>4, <2>5 DEF ThreadOK
<1>9. \A o, q \in Threads \ {th} : o # q => Apart(o, q)'
  BY <1>5 DEF IInv, ThreadsConsistent, Others, Same, Apart, HasSubject
<1> QED BY <1>4, <1>6, <1>7, <1>8, <1>9 DEF IInv, ThreadsConsistent

LEMMA InsertUserIInv ==
  ASSUME IInv, NEW th \in Threads, InsertUser(th)
  PROVE  IInv'
<1>1. TypeOK /\ ThreadOK(th) /\ UsersConsistent /\ SessionsConsistent
  BY DEF IInv, ThreadsConsistent
<1>2. nextUser \in Nat
  BY <1>1 DEF TypeOK
<1>3. nextUser' = nextUser + 1
  BY DEF InsertUser
<1>4. nextUser' \in Nat /\ \A n \in Nat : n < nextUser => n < nextUser' /\ n # nextUser
  BY <1>2, <1>3
<1>5. nextUser < nextUser'
  BY <1>2, <1>3
<1>6. /\ pc[th] = "registering"
      /\ sessions' = sessions /\ nextSession' = nextSession /\ clock' = clock
      /\ request' = request /\ stamp' = stamp /\ serial' = serial
      /\ ok' = ok /\ granted' = granted
      /\ revoked' = revoked /\ lapsed' = lapsed /\ revokedBefore' = revokedBefore
      /\ Goto(th, "issue")
  BY DEF InsertUser, reply, history
<1>7. /\ request[th] \in Request
      /\ \A k \in DOMAIN users : users[k].uid \in Nat
      /\ \A t \in DOMAIN sessions : sessions[t].owner.uid \in Nat
  BY <1>1, <1>6, ServiceAssumption
     DEF TypeOK, ThreadOK, Phase, User, Session, Owner
<1>8. PICK key \in Keys : key = KeyOf(th)
  BY <1>7, ServiceAssumption DEF Request, KeyOf
<1>9. PICK user \in User : user = [app |-> request[th].app, uid |-> nextUser,
                                    password |-> request[th].password]
  BY <1>2, <1>7 DEF User, Request
<1>10. PICK owner \in Owner :
         owner = [app |-> request[th].app, uid |-> nextUser, anonymous |-> FALSE]
  BY <1>2, <1>7 DEF Owner, Request
<1>11. /\ owner.uid = nextUser /\ ~owner.anonymous /\ owner.app = user.app
       /\ user.uid = nextUser
  BY <1>9, <1>10
<1>12. /\ key \notin DOMAIN users /\ DOMAIN users' = DOMAIN users \cup {key}
       /\ users'[key] = user /\ \A k \in DOMAIN users : users'[k] = users[k]
       /\ users' = [k \in DOMAIN users \cup {key} |-> IF k = key THEN user ELSE users[k]]
  BY <1>1, <1>6, <1>8, <1>9 DEF ThreadOK, Phase, InsertUser
<1>13. /\ pc' \in [Threads -> Place] /\ pc'[th] = "issue"
       /\ subject' \in [Threads -> Owner \cup {Nobody}] /\ subject'[th] = owner
  BY <1>1, <1>6, <1>10 DEF TypeOK, Place, Goto, InsertUser
<1>14. /\ holder' \in [Locks -> Threads \cup {Free}]
       /\ \A o \in Threads \ {th} : holder["users"] # o
  BY <1>1, <1>6 DEF TypeOK, ThreadOK, Phase, InsertUser
<1>15. TypeOK'
  <2>1. DOMAIN users' \subseteq Keys /\ users' \in [DOMAIN users' -> User]
    BY <1>1, <1>12 DEF TypeOK
  <2> QED BY <1>1, <1>4, <1>6, <1>13, <1>14, <2>1 DEF TypeOK
<1>16. Others(th)
  BY <1>1, <1>6, <1>10, <1>13 DEF TypeOK, Others, Same, Goto, InsertUser
<1>17. \A o : Genuine(o) /\ o.uid # nextUser => Genuine(o)'
  BY <1>11, <1>12 DEF Genuine
<1>18. UsersConsistent'
  <2>1. \A k \in DOMAIN users : users[k].uid < nextUser' /\ users[k].uid # nextUser
    BY <1>1, <1>4, <1>7 DEF UsersConsistent
  <2> QED BY <1>1, <1>5, <1>11, <1>12, <2>1 DEF UsersConsistent
<1>19. SessionsConsistent' /\ EndedConsistent'
  <2>1. \A t \in DOMAIN sessions :
          sessions[t].owner.uid < nextUser' /\ sessions[t].owner.uid # nextUser
    BY <1>1, <1>4, <1>7 DEF SessionsConsistent
  <2>2. SessionsConsistent'
    BY <1>1, <1>6, <1>17, <2>1 DEF SessionsConsistent
  <2> QED BY <1>6, <2>2 DEF IInv, EndedConsistent
<1>20. ThreadOK(th)'
  <2>1. Genuine(owner)'
    BY <1>11, <1>12 DEF Genuine
  <2>2. Phase(th)' /\ Served(th)'
    BY <1>1, <1>6, <1>13 DEF ThreadOK, Phase, Served
  <2>3. Subject(th)'
    BY <1>5, <1>11, <1>13, <2>1 DEF Subject, Genuine
  <2> QED BY <2>2, <2>3 DEF ThreadOK
<1>21. \A o \in Threads \ {th} : ThreadOK(o)' /\ Apart(th, o)' /\ Apart(o, th)'
  <2> SUFFICES ASSUME NEW o \in Threads \ {th}
               PROVE  ThreadOK(o)' /\ Apart(th, o)' /\ Apart(o, th)'
    OBVIOUS
  <2>1. ThreadOK(o) /\ Same(o)
    BY <1>16 DEF IInv, ThreadsConsistent, Others
  <2>2. HasSubject(o) => /\ subject[o].uid < nextUser'
                         /\ subject[o].uid # nextUser /\ Genuine(subject[o])
    BY <1>4, <2>1 DEF ThreadOK, Subject, Owner
  <2>3. Phase(o)' /\ Served(o)'
    BY <1>6, <1>14, <2>1 DEF ThreadOK, Phase, Served, Same
  <2>4. Subject(o)'
    <3>1. PICK other : other = subject[o]
      OBVIOUS
    <3>2. HasSubject(o) => Genuine(other)'
      BY <1>17, <2>2, <3>1
    <3>3. HasSubject(o) => Genuine(subject[o])'
      BY <2>1, <3>1, <3>2 DEF Same, Genuine
    <3> QED BY <1>6, <2>1, <2>2, <3>3 DEF ThreadOK, Subject, Same, HasSubject
  <2>5. Apart(th, o)' /\ Apart(o, th)'
    BY <1>11, <1>13, <2>1, <2>2 DEF Apart, Same, HasSubject
  <2> QED BY <2>3, <2>4, <2>5 DEF ThreadOK
<1>22. \A o, q \in Threads \ {th} : o # q => Apart(o, q)'
  BY <1>16 DEF IInv, ThreadsConsistent, Others, Same, Apart, HasSubject
<1> QED BY <1>15, <1>18, <1>19, <1>20, <1>21, <1>22 DEF IInv, ThreadsConsistent

LEMMA StoreSessionIInv ==
  ASSUME IInv, NEW th \in Threads, StoreSession(th)
  PROVE  /\ IInv'
         /\ IssuedToken(th) \in Token \ (DOMAIN sessions \cup revoked \cup lapsed)
<1>1. TypeOK /\ ThreadOK(th) /\ SessionsConsistent /\ EndedConsistent
  BY DEF IInv, ThreadsConsistent
<1>2. /\ pc[th] = "store" /\ users' = users
      /\ nextUser' = nextUser /\ nextSession' = nextSession /\ clock' = clock
      /\ revoked' = revoked /\ lapsed' = lapsed /\ revokedBefore' = revokedBefore
  BY DEF StoreSession, history
<1>3. /\ subject[th] \in Owner /\ subject[th].uid < nextUser /\ Genuine(subject[th])
      /\ subject[th].anonymous =>
           \A t \in DOMAIN sessions : sessions[t].owner.uid # subject[th].uid
      /\ serial[th] < nextSession
      /\ \A t \in DOMAIN sessions \cup revoked \cup lapsed : t.number # serial[th]
  BY <1>1, <1>2 DEF ThreadOK, Subject, HasSubject
<1>4. PICK token \in Token : token = IssuedToken(th) /\ token.number = serial[th]
  <2>1. subject[th].app \in Apps /\ serial[th] \in Nat
    BY <1>1, <1>3 DEF TypeOK, Owner
  <2>2. IssuedToken(th) \in Token /\ IssuedToken(th).number = serial[th]
    BY <2>1 DEF IssuedToken, Token
  <2> QED BY <2>2
<1>5. token \notin DOMAIN sessions \cup revoked \cup lapsed
  BY <1>3, <1>4
<1>6. PICK session \in Session :
        session = [owner |-> subject[th], expires |-> stamp[th] + Lease]
  <2>1. stamp[th] + Lease \in 0..(MaxTime + Lease)
    BY <1>1, ServiceAssumption DEF TypeOK
  <2> QED BY <1>3, <2>1 DEF Session
<1>7. session.owner = subject[th]
  BY <1>6
<1>8. /\ DOMAIN sessions' = DOMAIN sessions \cup {token} /\ sessions'[token] = session
      /\ \A t \in DOMAIN sessions : sessions'[t] = sessions[t]
      /\ sessions' = [t \in DOMAIN sessions \cup {token} |->
                        IF t = token THEN session ELSE sessions[t]]
  BY <1>4, <1>5, <1>6 DEF StoreSession
<1>9. /\ holder' \in [Locks -> Threads \cup {Free}]
      /\ holder'["users"] = holder["users"]
  BY <1>1 DEF TypeOK, StoreSession, Locks
<1>10. PICK tokens \in SUBSET Token : tokens = {token}
  OBVIOUS
<1>11. Return(th, TRUE, tokens)
  BY <1>4, <1>10 DEF StoreSession
<1>12. /\ pc' \in [Threads -> Place]
       /\ request' \in [Threads -> Requests \cup {NoRequest}]
       /\ subject' \in [Threads -> Owner \cup {Nobody}]
       /\ stamp' \in [Threads -> 0..MaxTime]
       /\ serial' \in [Threads -> Nat]
       /\ ok' \in [Threads -> BOOLEAN]
       /\ granted' \in [Threads -> SUBSET Token]
       /\ pc'[th] = "idle" /\ granted'[th] = {token} /\ Others(th)
  BY <1>1, <1>2, <1>10, <1>11, ReturnEffect
<1>13. TypeOK'
  <2>1. DOMAIN sessions' \subseteq Token /\ sessions' \in [DOMAIN sessions' -> Session]
    BY <1>1, <1>8 DEF TypeOK
  <2> QED BY <1>1, <1>2, <1>9, <1>12, <2>1 DEF TypeOK
<1>14. UsersConsistent'
  BY <1>2 DEF IInv, UsersConsistent
<1>15. SessionsConsistent'
  <2>1. \A t \in DOMAIN sessions' :
          /\ t.number < nextSession' /\ sessions'[t].owner.uid < nextUser'
          /\ Genuine(sessions'[t].owner)
    BY <1>1, <1>2, <1>3, <1>4, <1>7, <1>8 DEF SessionsConsistent
  <2>2. \A t \in DOMAIN sessions' : Genuine(sessions[t].owner)'
    BY <1>2, <2>1 DEF Genuine
  <2>3. ASSUME NEW t \in DOMAIN sessions, sessions[t].owner.anonymous
        PROVE  sessions[t].owner.uid # subject[th].uid
    <3>1. CASE subject[th].anonymous
      BY <1>3, <3>1
    <3>2. CASE ~subject[th].anonymous
      BY <1>1, <1>3, <2>3, <3>2 DEF SessionsConsistent, Genuine
    <3> QED BY <3>1, <3>2
  <2>4. \A s, t \in DOMAIN sessions' :
          sessions'[t].owner.anonymous /\ sessions'[s].owner.uid = sessions'[t].owner.uid
            => s = t
    <3> SUFFICES ASSUME NEW s \in DOMAIN sessions', NEW t \in DOMAIN sessions',
                        sessions'[t].owner.anonymous,
                        sessions'[s].owner.uid = sessions'[t].owner.uid
                 PROVE  s = t
      OBVIOUS
    <3>1. CASE s = token /\ t # token
      BY <1>7, <1>8, <2>3, <3>1
    <3>2. CASE s # token /\ t = token
      BY <1>3, <1>7, <1>8, <3>2
    <3>3. CASE s # token /\ t # token
      BY <1>1, <1>8, <3>3 DEF SessionsConsistent
    <3> QED BY <3>1, <3>2, <3>3
  <2> QED BY <2>1, <2>2, <2>4 DEF SessionsConsistent
<1>16. EndedConsistent'
  BY <1>1, <1>2, <1>5, <1>8 DEF EndedConsistent
<1>17. ThreadOK(th)'
  BY <1>1, <1>2, <1>5, <1>12 DEF ThreadOK, Phase, Subject, HasSubject, Served
<1>18. \A o \in Threads \ {th} : ThreadOK(o)' /\ Apart(th, o)' /\ Apart(o, th)'
  <2> SUFFICES ASSUME NEW o \in Threads \ {th}
               PROVE  ThreadOK(o)' /\ Apart(th, o)' /\ Apart(o, th)'
    OBVIOUS
  <2>1. ThreadOK(o) /\ Same(o) /\ Apart(o, th) /\ Apart(th, o)
    BY <1>12 DEF IInv, ThreadsConsistent, Others
  <2>2. Phase(o)' /\ Served(o)'
    BY <1>2, <1>9, <2>1 DEF ThreadOK, Phase, Served, Same, KeyOf
  <2>3. /\ HasSubject(o) /\ subject[o].anonymous =>
             \A t \in DOMAIN sessions' : sessions'[t].owner.uid # subject[o].uid
        /\ pc[o] = "store" =>
             \A t \in DOMAIN sessions' \cup revoked' \cup lapsed' : t.number # serial[o]
    <3>1. HasSubject(o) /\ subject[o].anonymous => session.owner.uid # subject[o].uid
      BY <1>2, <1>7, <2>1 DEF Apart, HasSubject
    <3>2. pc[o] = "store" => token.number # serial[o]
      BY <1>2, <1>4, <2>1 DEF Apart, HasSubject
    <3> QED BY <1>2, <1>8, <2>1, <3>1, <3>2 DEF ThreadOK, Subject, HasSubject
  <2>4. Subject(o)'
    BY <1>2, <2>1, <2>3 DEF ThreadOK, Subject, Same, HasSubject, Genuine
  <2>5. Apart(th, o)' /\ Apart(o, th)'
    BY <1>12 DEF Apart, HasSubject
  <2> QED BY <2>2, <2>4, <2>5 DEF ThreadOK
<1>19. \A o, q \in Threads \ {th} : o # q => Apart(o, q)'
  BY <1>12 DEF IInv, ThreadsConsistent, Others, Same, Apart, HasSubject
<1>20. IInv'
  BY <1>13, <1>14, <1>15, <1>16, <1>17, <1>18, <1>19 DEF IInv, ThreadsConsistent
<1> QED BY <1>4, <1>5, <1>20
----------------------------------------------------------------------------
\* A removal ends a live token; what it was for is no longer of concern.
LEMMA RemovalKeepsTables ==
  ASSUME IInv, NEW token \in DOMAIN sessions, sessions' = Without(token),
         revoked' \cup lapsed' = revoked \cup lapsed \cup {token},
         UNCHANGED <<users, nextUser, nextSession>>
  PROVE  /\ DOMAIN sessions' \subseteq Token /\ sessions' \in [DOMAIN sessions' -> Session]
         /\ UsersConsistent' /\ SessionsConsistent' /\ EndedConsistent'
<1>1. /\ DOMAIN sessions' = DOMAIN sessions \ {token}
      /\ \A t \in DOMAIN sessions' : sessions'[t] = sessions[t]
      /\ sessions' = [t \in DOMAIN sessions \ {token} |-> sessions[t]]
  BY DEF Without, Restrict
<1>2. DOMAIN sessions' \subseteq Token /\ sessions' \in [DOMAIN sessions' -> Session]
  BY <1>1 DEF IInv, TypeOK
<1>3. UsersConsistent' /\ SessionsConsistent'
  BY <1>1 DEF IInv, UsersConsistent, SessionsConsistent, Genuine
<1>4. EndedConsistent'
  BY <1>1 DEF IInv, EndedConsistent, SessionsConsistent
<1> QED BY <1>2, <1>3, <1>4

\* The same for a renewal: it changes when a session expires, not whose it is.
LEMMA RenewalKeepsTables ==
  ASSUME IInv, NEW token \in DOMAIN sessions,
         sessions' = [sessions EXCEPT ![token].expires = RenewedExpiry(token)],
         UNCHANGED <<users, nextUser, nextSession, revoked, lapsed>>
  PROVE  /\ DOMAIN sessions' = DOMAIN sessions /\ sessions' \in [DOMAIN sessions -> Session]
         /\ \A t \in DOMAIN sessions : sessions'[t].owner = sessions[t].owner
         /\ UsersConsistent' /\ SessionsConsistent' /\ EndedConsistent'
<1>1. clock + Lease \in 0..(MaxTime + Lease)
  BY ServiceAssumption DEF IInv, TypeOK
<1>2. /\ DOMAIN sessions' = DOMAIN sessions /\ sessions' \in [DOMAIN sessions -> Session]
      /\ \A t \in DOMAIN sessions : sessions'[t].owner = sessions[t].owner
  BY <1>1 DEF IInv, TypeOK, Session, RenewedExpiry
<1>3. UsersConsistent' /\ SessionsConsistent' /\ EndedConsistent'
  BY <1>2 DEF IInv, UsersConsistent, SessionsConsistent, EndedConsistent, Genuine
<1> QED BY <1>2, <1>3

\* A step on the live sessions keeps every other thread as it is: sessions
\* keep their owners, and a token that ends was one of them.
LEMMA SessionsStepIInv ==
  ASSUME IInv, TypeOK', NEW th \in Threads, Others(th), ThreadOK(th)', ~HasSubject(th)',
         UsersConsistent', SessionsConsistent', EndedConsistent',
         UNCHANGED <<users, nextUser, nextSession, holder, revokedBefore>>,
         DOMAIN sessions' \subseteq DOMAIN sessions,
         \A t \in DOMAIN sessions' : sessions'[t].owner = sessions[t].owner,
         revoked \subseteq revoked',
         revoked' \cup lapsed' \subseteq revoked \cup lapsed \cup DOMAIN sessions
  PROVE  IInv'
<1>1. \A o \in Threads \ {th} : ThreadOK(o)'
  <2> SUFFICES ASSUME NEW o \in Threads \ {th} PROVE ThreadOK(o)'
    OBVIOUS
  <2>1. ThreadOK(o) /\ Same(o)
    BY DEF IInv, ThreadsConsistent, Others
  <2>2. Phase(o)' /\ Served(o)'
    BY <2>1 DEF ThreadOK, Phase, Served, Same, KeyOf
  <2>3. Subject(o)'
    BY <2>1 DEF ThreadOK, Subject, Same, HasSubject, Genuine
  <2> QED BY <2>2, <2>3 DEF ThreadOK
<1>2. \A o \in Threads \ {th} : Apart(th, o)' /\ Apart(o, th)'
  BY DEF Apart, HasSubject
<1>3. \A o, q \in Threads \ {th} : o # q => Apart(o, q)'
  BY DEF IInv, ThreadsConsistent, Others, Same, Apart, HasSubject
<1> QED BY <1>1, <1>2, <1>3 DEF IInv, ThreadsConsistent

LEMMA RemovalIInv ==
  ASSUME IInv, NEW th \in Threads, RemoveExpired(th) \/ RemoveSession(th)
  PROVE  IInv'
<1>1. TypeOK /\ ThreadOK(th)
  BY DEF IInv, ThreadsConsistent
<1>2. PICK token \in DOMAIN sessions : token = request[th].token
  BY DEF RemoveExpired, RemoveSession, Knows
<1>3. /\ users' = users /\ nextUser' = nextUser /\ nextSession' = nextSession
      /\ holder' = holder /\ clock' = clock /\ revokedBefore' = revokedBefore
      /\ sessions' = Without(token)
      /\ revoked' \cup lapsed' = revoked \cup lapsed \cup {token}
      /\ revoked \subseteq revoked' /\ revoked' \subseteq revoked \cup {token}
      /\ lapsed' \subseteq lapsed \cup {token}
  BY <1>2 DEF RemoveExpired, RemoveSession
<1>4. PICK s \in BOOLEAN : Return(th, s, {})
  BY DEF RemoveExpired, RemoveSession, Fail
<1>5. /\ DOMAIN sessions' \subseteq Token /\ sessions' \in [DOMAIN sessions' -> Session]
      /\ UsersConsistent' /\ SessionsConsistent' /\ EndedConsistent'
  BY <1>3, RemovalKeepsTables
<1>6. {} \in SUBSET Token
  OBVIOUS
<1>7. /\ pc' \in [Threads -> Place]
      /\ request' \in [Threads -> Requests \cup {NoRequest}]
      /\ subject' \in [Threads -> Owner \cup {Nobody}]
      /\ stamp' \in [Threads -> 0..MaxTime]
      /\ serial' \in [Threads -> Nat]
      /\ ok' \in [Threads -> BOOLEAN]
      /\ granted' \in [Threads -> SUBSET Token]
      /\ pc'[th] = "idle" /\ granted'[th] = {} /\ Others(th)
  BY <1>1, <1>3, <1>4, <1>6, ReturnEffect
<1>8. TypeOK'
  BY <1>1, <1>2, <1>3, <1>5, <1>7 DEF TypeOK
<1>9. ThreadOK(th)' /\ ~HasSubject(th)'
  BY <1>1, <1>3, <1>7 DEF ThreadOK, Phase, Subject, HasSubject, Served
<1>10. /\ DOMAIN sessions' \subseteq DOMAIN sessions
       /\ \A t \in DOMAIN sessions' : sessions'[t].owner = sessions[t].owner
  BY <1>3 DEF Without, Restrict
<1>11. revoked' \cup lapsed' \subseteq revoked \cup lapsed \cup DOMAIN sessions
  BY <1>2, <1>3
<1> QED BY <1>3, <1>5, <1>7, <1>8, <1>9, <1>10, <1>11, SessionsStepIInv

LEMMA RenewSessionIInv ==
  ASSUME IInv, NEW th \in Threads, RenewSession(th)
  PROVE  IInv'
<1>1. TypeOK /\ ThreadOK(th)
  BY DEF IInv, ThreadsConsistent
<1>2. PICK token \in DOMAIN sessions : token = request[th].token
  BY DEF RenewSession, Knows
<1>3. /\ users' = users /\ nextUser' = nextUser /\ nextSession' = nextSession
      /\ holder' = holder /\ clock' = clock
      /\ revoked' = revoked /\ lapsed' = lapsed /\ revokedBefore' = revokedBefore
      /\ sessions' = [sessions EXCEPT ![token].expires = RenewedExpiry(token)]
      /\ pc[th] # "idle"
  BY <1>2 DEF RenewSession, history, Resolving, Asked
<1>4. /\ DOMAIN sessions' = DOMAIN sessions /\ sessions' \in [DOMAIN sessions -> Session]
      /\ \A t \in DOMAIN sessions : sessions'[t].owner = sessions[t].owner
      /\ UsersConsistent' /\ SessionsConsistent' /\ EndedConsistent'
  BY <1>3, RenewalKeepsTables
<1>5. /\ token \in Token /\ {token} \cap revokedBefore[th] = {}
  BY <1>2, LiveNotRevoked DEF RenewSession
<1>6. /\ pc' \in [Threads -> Place]
      /\ request' \in [Threads -> Requests \cup {NoRequest}]
      /\ subject' \in [Threads -> Owner \cup {Nobody}]
      /\ stamp' \in [Threads -> 0..MaxTime]
      /\ serial' \in [Threads -> Nat]
      /\ ok' \in [Threads -> BOOLEAN]
      /\ granted' \in [Threads -> SUBSET Token]
      /\ \/ pc'[th] = "idle"
         \/ pc'[th] = "remove" /\ request'[th] = request[th]
      /\ granted'[th] \cap revokedBefore[th] = {} /\ Others(th)
  <2>1. CASE request[th].op = "me"
    <3>1. PICK tokens \in SUBSET Token : tokens = {token}
      BY <1>5
    <3>2. Return(th, TRUE, tokens)
      BY <1>2, <2>1, <3>1 DEF RenewSession
    <3> QED BY <1>1, <1>3, <1>5, <3>1, <3>2, ReturnEffect
  <2>2. CASE request[th].op # "me"
    <3>1. /\ pc' = [pc EXCEPT ![th] = "remove"]
          /\ request' = request /\ subject' = subject /\ stamp' = stamp
          /\ serial' = serial /\ ok' = ok /\ granted' = granted
      BY <2>2 DEF RenewSession, Goto, local, reply
    <3>2. pc' \in [Threads -> Place] /\ pc'[th] = "remove"
      BY <1>1, <3>1 DEF TypeOK, Place
    <3>3. Others(th)
      BY <1>1, <1>3, <3>1 DEF TypeOK, Others, Same
    <3> QED BY <1>1, <3>1, <3>2, <3>3 DEF TypeOK, ThreadOK, Served
  <2> QED BY <2>1, <2>2
<1>7. TypeOK'
  BY <1>1, <1>3, <1>4, <1>6 DEF TypeOK
<1>8. ThreadOK(th)' /\ ~HasSubject(th)'
  BY <1>1, <1>3, <1>6 DEF ThreadOK, Phase, Subject, HasSubject, Served
<1> QED BY <1>3, <1>4, <1>6, <1>7, <1>8, SessionsStepIInv
----------------------------------------------------------------------------
\* The invariant is inductive: one case per action.
LEMMA Invariance == IInv /\ [Next]_vars => IInv'
<1> SUFFICES ASSUME IInv, [Next]_vars PROVE IInv'
  OBVIOUS
<1>1. CASE SetClock
  BY <1>1, ClockIInv
<1>2. ASSUME NEW th \in Threads, NEW r \in Requests, Begin(th, r) PROVE IInv'
  BY <1>2, BeginIInv
<1>3. ASSUME NEW th \in Threads, HandlerStep(th) PROVE IInv'
  <2>1. CASE \/ RefuseLogin(th) \/ RefuseDuplicate(th) \/ RefuseForeignCookie(th)
             \/ RefuseUnknown(th) \/ RefuseForeign(th) \/ RefuseSecondLogout(th)
    BY <2>1, RefusalIInv
  <2>2. CASE AcceptLogin(th)
    BY <2>2, AcceptLoginIInv
  <2>3. CASE StartRegistering(th)
    BY <2>3, StartRegisteringIInv
  <2>4. CASE InsertUser(th)
    BY <2>4, InsertUserIInv
  <2>5. CASE ReturnCookieSession(th)
    BY <2>5, CookieIInv
  <2>6. CASE MissCookieSession(th) \/ ReadDefaultIdentity(th)
    BY <2>6, AnonymousMoveIInv
  <2>7. CASE NumberAnonymousUser(th)
    BY <2>7, NumberAnonymousUserIInv
  <2>8. CASE ReadClock(th)
    BY <2>8, ReadClockIInv
  <2>9. CASE TakeNumber(th)
    BY <2>9, TakeNumberIInv
  <2>10. CASE StoreSession(th)
    BY <2>10, StoreSessionIInv
  <2>11. CASE RemoveExpired(th) \/ RemoveSession(th)
    BY <2>11, RemovalIInv
  <2>12. CASE RenewSession(th)
    BY <2>12, RenewSessionIInv
  <2> QED BY <1>3, <2>1, <2>2, <2>3, <2>4, <2>5, <2>6, <2>7, <2>8, <2>9, <2>10,
             <2>11, <2>12 DEF HandlerStep
<1>4. CASE UNCHANGED vars
  <2> USE <1>4 DEF vars
  <2>1. TypeOK'
    BY DEF IInv, TypeOK
  <2>2. UsersConsistent' /\ SessionsConsistent' /\ EndedConsistent'
    BY DEF IInv, UsersConsistent, SessionsConsistent, EndedConsistent, Genuine
  <2>3. \A o \in Threads : ThreadOK(o)'
    BY DEF IInv, ThreadsConsistent, ThreadOK, Phase, Subject, Served, HasSubject,
           Genuine, KeyOf
  <2>4. \A o, q \in Threads : o # q => Apart(o, q)'
    BY DEF IInv, ThreadsConsistent, Apart, HasSubject
  <2> QED BY <2>1, <2>2, <2>3, <2>4 DEF IInv, ThreadsConsistent
<1> QED BY <1>1, <1>2, <1>3, <1>4 DEF Next

LEMMA AlwaysIInv == Spec => []IInv
BY InitIInv, Invariance, PTL DEF Spec
----------------------------------------------------------------------------
\* Every variable keeps its type, whatever requests interleave.
THEOREM TypeCorrect == Spec => []TypeOK
<1>1. IInv => TypeOK
  BY DEF IInv
<1> QED BY AlwaysIInv, <1>1, PTL

\* No two users, and no anonymous visitor and anyone else, share a uid.
THEOREM IdentitiesStayDistinct == Spec => []IdentitiesDistinct
<1>1. IInv => IdentitiesDistinct
  BY DEF IInv, UsersConsistent, SessionsConsistent, Genuine, IdentitiesDistinct
<1> QED BY AlwaysIInv, <1>1, PTL

\* No request that begins after a successful logout is answered with its token.
THEOREM RevokedStaysDead == Spec => []RevokedNotServed
<1>1. IInv => RevokedNotServed
  BY DEF IInv, ThreadsConsistent, ThreadOK, Served, RevokedNotServed
<1> QED BY AlwaysIInv, <1>1, PTL

\* A registered user keeps its uid and password: nobody registers over it.
THEOREM UsersNeverReplaced == Spec => UsersStay
<1>1. IInv /\ [Next]_vars
        => [\A k \in DOMAIN users : k \in DOMAIN users' /\ users'[k] = users[k]]_vars
  <2> SUFFICES ASSUME IInv, Next
               PROVE  \A k \in DOMAIN users : k \in DOMAIN users' /\ users'[k] = users[k]
    OBVIOUS
  <2>1. CASE \E th \in Threads : InsertUser(th)
    <3>1. PICK th \in Threads : InsertUser(th)
      BY <2>1
    <3>2. KeyOf(th) \notin DOMAIN users
      BY <3>1 DEF IInv, ThreadsConsistent, ThreadOK, Phase, InsertUser
    <3> QED BY <3>1, <3>2 DEF InsertUser
  <2>2. CASE ~\E th \in Threads : InsertUser(th)
    <3>1. users' = users
      BY <2>2 DEF Next, HandlerStep, SetClock, Begin, RefuseLogin, AcceptLogin,
         RefuseDuplicate, StartRegistering, ReturnCookieSession,
         RefuseForeignCookie, MissCookieSession, ReadDefaultIdentity,
         NumberAnonymousUser, ReadClock, TakeNumber, StoreSession, RefuseUnknown,
         RemoveExpired, RefuseForeign, RenewSession, RefuseSecondLogout,
         RemoveSession, state
    <3> QED BY <3>1
  <2> QED BY <2>1, <2>2
<1> QED BY AlwaysIInv, <1>1, PTL DEF Spec, UsersStay

\* Of all logouts of one session, exactly the one that removes it succeeds.
THEOREM LogoutsSucceedOnce == Spec => LogoutOnce
<1>1. IInv /\ [Next]_vars
        => [\A th \in Threads :
              pc[th] = "remove" /\ pc'[th] = "idle" /\ ok'[th]
                => request[th].token \in revoked' \ revoked]_vars
  <2> SUFFICES ASSUME IInv, Next, NEW th \in Threads,
                      pc[th] = "remove", pc'[th] = "idle", ok'[th]
               PROVE  request[th].token \in revoked' \ revoked
    OBVIOUS
  <2>1. pc \in [Threads -> Place] /\ ok \in [Threads -> BOOLEAN]
    BY DEF IInv, TypeOK
  <2>2. pc' # pc
    BY <2>1
  <2>3. PICK o \in Threads : (\E r \in Requests : Begin(o, r)) \/ HandlerStep(o)
    BY <2>2 DEF Next, SetClock
  <2>4. \E place \in Place : pc' = [pc EXCEPT ![o] = place]
    BY <2>2, <2>3 DEF HandlerStep, Begin, RefuseLogin, AcceptLogin,
       RefuseDuplicate, StartRegistering, InsertUser, ReturnCookieSession,
       RefuseForeignCookie, MissCookieSession, ReadDefaultIdentity,
       NumberAnonymousUser, ReadClock, TakeNumber, StoreSession, RefuseUnknown,
       RemoveExpired, RefuseForeign, RenewSession, RefuseSecondLogout,
       RemoveSession, Goto, Return, Fail, Place
  <2>5. o = th
    BY <2>1, <2>4
  <2>6. RefuseSecondLogout(th) \/ RemoveSession(th)
    BY <2>3, <2>5 DEF HandlerStep, Begin, RefuseLogin, AcceptLogin,
       RefuseDuplicate, StartRegistering, InsertUser, ReturnCookieSession,
       RefuseForeignCookie, MissCookieSession, ReadDefaultIdentity,
       NumberAnonymousUser, ReadClock, TakeNumber, StoreSession, RefuseUnknown,
       RemoveExpired, RefuseForeign, RenewSession, Resolving, Asked
  <2>7. ok' = [ok EXCEPT ![th] = FALSE] \/ RemoveSession(th)
    BY <2>6 DEF RefuseSecondLogout, Fail, Return
  <2>8. RemoveSession(th)
    BY <2>1, <2>7
  <2> QED BY <2>8 DEF RemoveSession, Knows, IInv, EndedConsistent
<1> QED BY AlwaysIInv, <1>1, PTL DEF Spec, LogoutOnce
----------------------------------------------------------------------------
(* The user service implements SessionStore: of everything its threads do   *)
(* under the four mutexes, one action of a login, register or anonymous     *)
(* request is the Issue of the table, one of resolve_session is its Renew   *)
(* or Lapse, one of logout its Revoke, and every other action is invisible. *)

LEMMA InitSimulates == Init => Store!Init
BY DEF Init, Store!Init

LEMMA StoreSessionSimulates ==
  ASSUME IInv, NEW th \in Threads, StoreSession(th)
  PROVE  \E t \in DOMAIN sessions' : Store!Issue(t)
<1>1. PICK token \in Token \ (DOMAIN sessions \cup revoked \cup lapsed) :
        token = IssuedToken(th)
  BY StoreSessionIInv
<1>2. subject[th] \in Owner /\ stamp[th] \in 0..MaxTime
  BY DEF IInv, TypeOK, ThreadsConsistent, ThreadOK, Subject, HasSubject, StoreSession
<1>3. PICK session \in Store!Session :
        session = [owner |-> subject[th], expires |-> stamp[th] + Lease]
  BY <1>2 DEF Store!Session
<1>4. sessions' = [t \in DOMAIN sessions \cup {token} |->
                     IF t = token THEN session ELSE sessions[t]]
  BY <1>1, <1>3 DEF StoreSession
<1>5. token \in DOMAIN sessions' /\ sessions'[token] = session
  BY <1>4
<1>6. revoked' = revoked /\ lapsed' = lapsed /\ clock' = clock
  BY DEF StoreSession, history
<1>7. Store!Issue(token)
  BY <1>4, <1>5, <1>6 DEF Store!Issue
<1> QED BY <1>5, <1>7

LEMMA RenewSessionSimulates ==
  ASSUME IInv, NEW th \in Threads, RenewSession(th)
  PROVE  \E t \in DOMAIN sessions : Store!Renew(t)
<1>1. PICK token \in DOMAIN sessions : token = request[th].token
  BY DEF RenewSession, Knows
<1>2. sessions[token].expires \in Nat /\ clock \in Nat
  BY ServiceAssumption DEF IInv, TypeOK, Session
<1>3. sessions[token].expires > clock
  BY <1>1, <1>2 DEF RenewSession, Expired, TokenSession
<1>4. sessions' = [sessions EXCEPT ![token].expires = clock + Lease]
  BY <1>1 DEF RenewSession, RenewedExpiry
<1>5. revoked' = revoked /\ lapsed' = lapsed /\ clock' = clock
  BY DEF RenewSession, history
<1> QED BY <1>3, <1>4, <1>5 DEF Store!Renew

LEMMA RemoveExpiredSimulates ==
  ASSUME NEW th \in Threads, RemoveExpired(th)
  PROVE  \E t \in DOMAIN sessions : Store!Lapse(t)
<1>1. PICK token \in DOMAIN sessions : token = request[th].token
  BY DEF RemoveExpired, Knows
<1>2. sessions' = Store!Without(token)
  BY <1>1 DEF RemoveExpired, Without, Restrict, Store!Without, Store!Restrict
<1>3. /\ sessions[token].expires <= clock
      /\ lapsed' = lapsed \cup {token} /\ revoked' = revoked /\ clock' = clock
  BY <1>1 DEF RemoveExpired, Expired, TokenSession
<1> QED BY <1>2, <1>3 DEF Store!Lapse

LEMMA RemoveSessionSimulates ==
  ASSUME NEW th \in Threads, RemoveSession(th)
  PROVE  \E t \in DOMAIN sessions : Store!Revoke(t)
<1>1. PICK token \in DOMAIN sessions : token = request[th].token
  BY DEF RemoveSession, Knows
<1>2. sessions' = Store!Without(token)
  BY <1>1 DEF RemoveSession, Without, Restrict, Store!Without, Store!Restrict
<1>3. revoked' = revoked \cup {token} /\ lapsed' = lapsed /\ clock' = clock
  BY <1>1 DEF RemoveSession
<1> QED BY <1>2, <1>3 DEF Store!Revoke

LEMMA OtherSimulates ==
  ASSUME sessions' = sessions, revoked' = revoked, lapsed' = lapsed, clock' = clock
  PROVE  UNCHANGED Store!storeVars
BY DEF Store!storeVars

LEMMA StepSimulates ==
  ASSUME IInv, [Next]_vars
  PROVE  [Store!Next]_(Store!storeVars)
<1>1. ASSUME NEW th \in Threads, HandlerStep(th)
      PROVE  [Store!Next]_(Store!storeVars)
  <2>1. CASE StoreSession(th)
    BY <2>1, StoreSessionSimulates DEF Store!Next
  <2>2. CASE RenewSession(th)
    BY <2>2, RenewSessionSimulates DEF Store!Next
  <2>3. CASE RemoveExpired(th) \/ RemoveSession(th)
    BY <2>3, RemoveExpiredSimulates, RemoveSessionSimulates DEF Store!Next
  <2>4. CASE ~(\/ StoreSession(th) \/ RenewSession(th)
               \/ RemoveExpired(th) \/ RemoveSession(th))
    <3>1. sessions' = sessions /\ revoked' = revoked /\ lapsed' = lapsed
          /\ clock' = clock
      BY <1>1, <2>4 DEF HandlerStep, RefuseLogin, AcceptLogin, RefuseDuplicate,
         StartRegistering, InsertUser, ReturnCookieSession, RefuseForeignCookie,
         MissCookieSession, ReadDefaultIdentity, NumberAnonymousUser, ReadClock,
         TakeNumber, RefuseUnknown, RefuseForeign, RefuseSecondLogout, state,
         history
    <3> QED BY <3>1, OtherSimulates
  <2> QED BY <2>1, <2>2, <2>3, <2>4
<1>2. ASSUME NEW th \in Threads, NEW r \in Requests, Begin(th, r)
      PROVE  UNCHANGED Store!storeVars
  BY <1>2, OtherSimulates DEF Begin, state
<1>3. CASE SetClock
  BY <1>3 DEF SetClock, state, history, Store!Next, Store!SetClock
<1>4. CASE UNCHANGED vars
  BY <1>4, OtherSimulates DEF vars
<1> QED BY <1>1, <1>2, <1>3, <1>4 DEF Next

(* Whatever the requests and however their threads interleave over the four *)
(* mutexes, the sessions behave as one atomic session table: no token is     *)
(* issued twice, renewed after its expiry, or alive after it was removed.    *)
THEOREM SessionStoreImplemented == Spec => ImplementsSessionStore
<1>1. IInv /\ [Next]_vars => [Store!Next]_(Store!storeVars)
  BY StepSimulates
<1> QED BY <1>1, InitSimulates, AlwaysIInv, PTL
        DEF Spec, ImplementsSessionStore, Store!Spec
=============================================================================
