------------------------ MODULE GatewaySessionsProofs ------------------------
(***************************************************************************)
(* Proofs about GatewaySessions for every set of connections, apps, users  *)
(* of the configuration and requests: type correctness, fresh identities,  *)
(* visitors who stay who they are, no session left behind, and the session *)
(* table of SessionStore implemented.                                      *)
(***************************************************************************)
EXTENDS GatewaySessions, WellFoundedInduction, TLAPS

\* The standings a user or visitor of an app may have.
Due(app) ==
  SeedStandings(app) \cup (IF SeedStandings(app) = {} THEN {LocalStanding} ELSE {})

\* A uid is of the configuration or was made up for a user or a visitor.
Made(uid, form) ==
  uid.form = form /\ uid.number > HighestSeedId /\ uid.number < nextUser

\* Nor is it a visitor's, unless the configuration gave it to a user.
NoVisitor(uid) == uid.form # "anon" \/ uid \in SeedUids

UsersConsistent ==
  /\ HighestSeedId \in Nat /\ HighestSeedId < nextUser
  /\ \A k \in DOMAIN SeededUsers : k \in DOMAIN users /\ users[k] = SeededUsers[k]
  /\ \A k \in DOMAIN users :
       /\ \/ users[k].uid \in SeedUids /\ k \in DOMAIN SeededUsers
          \/ Made(users[k].uid, "u")
       /\ users[k].standing \in Due(users[k].app)
  /\ \A j, k \in DOMAIN users :
       users[j].uid = users[k].uid => j = k \/ users[j].uid \in SeedUids

SessionsConsistent ==
  /\ \A t \in DOMAIN sessions :
       /\ t.number # 0
       /\ sessions[t].owner.standing \in Due(sessions[t].owner.app)
       /\ t.kind = "anon" => Made(sessions[t].owner.uid, "anon")
       /\ t.kind = "session" => NoVisitor(sessions[t].owner.uid)
  /\ \A s, t \in DOMAIN sessions :
       s.kind = "anon" /\ sessions[s].owner.uid = sessions[t].owner.uid
       => s = t \/ (t.kind = "session" /\ sessions[t].owner.uid \in SeedUids)

\* Numbers in use are used up.
Numbered ==
  \A t \in DOMAIN sessions \cup revoked \cup lapsed \cup given : t.number < nextSession

\* The cookie of a visitor who is, or is to be, another one is no good.
Renounced(th) ==
  \A t \in (request[th].cookie \ session[th]) \cap DOMAIN sessions :
    sessions[t].owner.app # request[th].app

ThreadOK(th) ==
  /\ pc[th] # "idle" =>
       /\ request[th] \in Requests
       /\ \A t \in request[th].bearer \cup request[th].cookie : t \in given \/ t.number = 0
  /\ pc[th] # "handle" => session[th] = {}
  /\ \A t \in session[th] : t.number < nextSession /\ (t \in given \/ t.kind = "anon")
  /\ pc[th] = "anonymous" => Renounced(th)
  /\ pc[th] = "handle" /\ ByCookie(th) /\ session[th] # {} => Renounced(th)

IInv ==
  /\ TypeOK
  /\ UsersConsistent
  /\ SessionsConsistent
  /\ Numbered
  /\ SessionsReachClients
  /\ \A th \in Threads : ThreadOK(th)
----------------------------------------------------------------------------
\* What a call's own step leaves alone in the others, and in the sessions.
Others(th) == \A o \in Threads \ {th} :
  pc'[o] = pc[o] /\ request'[o] = request[o] /\ session'[o] = session[o]

\* The table gains nothing but new numbers, and no owner changes.
Monotone ==
  /\ nextSession' \in Nat \ {0} /\ nextSession <= nextSession'
  /\ given \subseteq given'
  /\ \A t \in DOMAIN sessions' : t.number < nextSession =>
       t \in DOMAIN sessions /\ sessions'[t].owner = sessions[t].owner

LEMMA RequestFields ==
  ASSUME NEW r \in Requests
  PROVE  /\ r.op \in Op /\ r.app \in Apps /\ r.email \in Emails
         /\ r.password \in Passwords
         /\ r.bearer \subseteq Token /\ r.cookie \subseteq Token
         /\ \A s, t \in r.bearer : s = t
         /\ \A s, t \in r.cookie : s = t
BY SessionsAssumption DEF Request

LEMMA NatMinimum ==
  ASSUME NEW S \in SUBSET Nat, S # {}
  PROVE  \E n \in S : \A m \in S : n <= m
<1> DEFINE R == OpToRel(<, Nat)
<1>1. IsWellFoundedOn(R, Nat)
  BY NatLessThanWellFounded
<1>2. PICK n \in S : \A m \in S : ~(<<m, n>> \in R)
  <2> HIDE DEF R
  <2> QED BY <1>1, WFMin
<1>3. \A m \in S : ~(m < n)
  BY <1>2 DEF OpToRel
<1> QED BY <1>3

\* The numbers of a list have a greatest one.
LEMMA ListMaximum ==
  ASSUME NEW n \in Nat, NEW f \in [1..n -> Nat], NEW b \in Nat, NEW C \in SUBSET (1..n)
  PROVE  LET S == {b} \cup {f[i] : i \in C} IN
         Max(S) \in S /\ \A x \in S : Max(S) >= x
<1> DEFINE S == {b} \cup {f[i] : i \in C}
           Within(k, u) == \A i \in C : i <= k => f[i] <= u
           Beyond == {k \in 0..n : \A u \in Nat : ~Within(k, u)}
           Bounds == {u \in Nat : \A x \in S : x <= u}
<1>0. S \subseteq Nat /\ S # {}
  OBVIOUS
<1>1. Beyond = {}
  <2> SUFFICES ASSUME Beyond # {} PROVE FALSE
    OBVIOUS
  <2>1. Beyond \in SUBSET Nat
    OBVIOUS
  <2>2. PICK k \in Beyond : \A m \in Beyond : k <= m
    <3> HIDE DEF Beyond
    <3> QED BY <2>1, NatMinimum
  <2>3. k # 0
    <3> SUFFICES ASSUME k = 0 PROVE FALSE
      OBVIOUS
    <3>1. Within(0, 0)
      OBVIOUS
    <3> QED BY <3>1
  <2>4. k \in 0..n
    BY <2>2
  <2>5. k \in 1..n /\ k - 1 \in 0..n
    BY <2>3, <2>4
  <2>6. k - 1 \notin Beyond
    <3>1. \A m \in Beyond : k <= m
      BY <2>2
    <3> HIDE DEF Beyond
    <3> QED BY <2>4, <3>1
  <2>7. PICK u \in Nat : Within(k - 1, u)
    BY <2>5, <2>6
  <2>8. f[k] \in Nat
    BY <2>5
  <2>9. PICK v \in Nat : v = f[k]
    BY <2>8
  <2> DEFINE w == u + v
  <2>a. w \in Nat /\ u <= w /\ v <= w
    OBVIOUS
  <2> HIDE DEF w
  <2>10. ASSUME NEW i \in C, i <= k PROVE f[i] <= w
    <3>1. i \in 1..n /\ f[i] \in Nat
      OBVIOUS
    <3>2. CASE i = k
      BY <2>9, <2>a, <3>2
    <3>3. CASE i # k
      <4>1. i <= k - 1
        BY <2>5, <2>10, <3>1, <3>3
      <4>2. f[i] <= u
        BY <2>7, <4>1
      <4>3. PICK x \in Nat : x = f[i]
        BY <3>1
      <4>4. x <= u
        BY <4>2, <4>3
      <4>5. x <= w
        <5> HIDE DEF S, Within, Beyond, Bounds
        <5> QED BY <2>a, <4>4
      <4> QED BY <4>3, <4>5
    <3> QED BY <3>2, <3>3
  <2>11. Within(k, w)
    BY <2>10
  <2>12. ~Within(k, w)
    BY <2>2, <2>a
  <2> QED BY <2>11, <2>12
<1>2. PICK u \in Nat : Within(n, u)
  <2>1. n \in 0..n /\ n \notin Beyond
    <3> HIDE DEF Beyond
    <3> QED BY <1>1
  <2> QED BY <2>1
<1>3. PICK w \in Nat : w >= u /\ w >= b
  OBVIOUS
<1>4. w \in Bounds
  BY <1>2, <1>3
<1>5. Bounds \in SUBSET Nat /\ Bounds # {}
  BY <1>4
<1>6. PICK m \in Bounds : \A v \in Bounds : m <= v
  <2> HIDE DEF Bounds
  <2> QED BY <1>5, NatMinimum
<1>7. m \in Nat /\ \A x \in S : x <= m
  BY <1>6
<1>8. m \in S
  <2> SUFFICES ASSUME m \notin S PROVE FALSE
    OBVIOUS
  <2>1. \A x \in S : x \in Nat /\ x < m
    BY <1>0, <1>7
  <2>2. b \in S /\ m - 1 \in Nat
    BY <2>1
  <2>3. \A x \in S : x <= m - 1
    BY <2>1, <1>7
  <2>4. m - 1 \in Bounds
    BY <2>2, <2>3
  <2> QED BY <2>4, <1>6, <1>7
<1>9. m \in S /\ \A x \in S : m >= x
  BY <1>0, <1>7, <1>8
<1>10. Max(S) \in S /\ \A x \in S : Max(S) >= x
  <2> HIDE DEF S
  <2> QED BY <1>9 DEF Max
<1> QED BY <1>10
----------------------------------------------------------------------------
SeedConfiguration == [app : Apps, email : Emails, uid : Uid,
                      password : Passwords, standing : Standings]

LEMMA SeedFields ==
  ASSUME NEW i \in DOMAIN SeedUsers
  PROVE  /\ SeedUsers[i] \in SeedConfiguration
         /\ SeedUsers[i].uid \in Uid /\ SeedUsers[i].uid.number \in Nat
         /\ SeedKey(i) \in Keys
<1>1. SeedUsers[i] \in SeedConfiguration
  <2>1. SeedUsers \in Seq(SeedConfiguration)
    BY SessionsAssumption DEF SeedConfiguration
  <2> QED BY <2>1
<1>2. SeedUsers[i].uid \in Uid
  BY <1>1 DEF SeedConfiguration
<1>3. SeedUsers[i].uid.number \in Nat
  BY <1>2 DEF Uid
<1>4. SeedKey(i) \in Keys
  BY <1>1, SessionsAssumption DEF SeedKey, SeedConfiguration
<1> QED BY <1>1, <1>2, <1>3, <1>4

LEMMA SeedDomain == Len(SeedUsers) \in Nat /\ DOMAIN SeedUsers = 1..Len(SeedUsers)
BY SessionsAssumption

LEMMA CounterAboveSeeds ==
  /\ HighestSeedId \in Nat
  /\ \A i \in DOMAIN SeedUsers :
       SeedUsers[i].uid.form = "u" => SeedUsers[i].uid.number <= HighestSeedId
<1> DEFINE n == Len(SeedUsers)
           f == [i \in 1..n |-> SeedUsers[i].uid.number]
           C == {j \in DOMAIN SeedUsers : SeedUsers[j].uid.form = "u"}
           S == {BaseUserId} \cup {f[i] : i \in C}
<1>1. n \in Nat /\ C \in SUBSET (1..n)
  BY SeedDomain
<1>2. f \in [1..n -> Nat]
  BY SeedDomain, SeedFields
<1>3. BaseUserId \in Nat
  BY SessionsAssumption
<1>4. Max(S) \in S /\ \A x \in S : Max(S) >= x
  <2> HIDE DEF f, C, n
  <2> QED BY <1>1, <1>2, <1>3, ListMaximum
<1>5. S = {BaseUserId} \cup {SeedUsers[i].uid.number : i \in C}
  BY SeedDomain
<1>6. HighestSeedId = Max(S)
  BY <1>5 DEF HighestSeedId
<1>7. S \subseteq Nat
  BY <1>3, <1>5, SeedFields
<1>8. ASSUME NEW i \in C PROVE SeedUsers[i].uid.number \in S
  BY <1>5
<1> QED BY <1>4, <1>6, <1>7, <1>8

LEMMA SeededUser ==
  ASSUME NEW k \in DOMAIN SeededUsers
  PROVE  \E i \in DOMAIN SeedUsers :
           /\ SeedKey(i) = k
           /\ SeededUsers[k] = [app |-> SeedUsers[i].app, uid |-> SeedUsers[i].uid,
                                password |-> SeedUsers[i].password,
                                standing |-> SeedUsers[i].standing]
<1> DEFINE n == Len(SeedUsers)
           f == [i \in 1..n |-> i]
           C == {i \in DOMAIN SeedUsers : SeedKey(i) = k}
           last == SeedUsers[Max(C)]
<1>1. PICK b \in DOMAIN SeedUsers : SeedKey(b) = k
  BY DEF SeededUsers
<1>2. n \in Nat /\ C \in SUBSET (1..n) /\ b \in Nat /\ b \in C
  BY <1>1, SeedDomain
<1>3. f \in [1..n -> Nat]
  OBVIOUS
<1>4. C = {b} \cup {f[i] : i \in C}
  BY <1>2
<1>5. Max(C) \in C
  <2>1. Max({b} \cup {f[i] : i \in C}) \in {b} \cup {f[i] : i \in C}
    <3> HIDE DEF f, C, n
    <3> QED BY <1>2, <1>3, ListMaximum
  <2> QED BY <1>4, <2>1
<1>6. SeededUsers[k] = [app |-> last.app, uid |-> last.uid,
                        password |-> last.password, standing |-> last.standing]
  BY DEF SeededUsers
<1> QED BY <1>5, <1>6

LEMMA InitIInv == Init => IInv
<1> SUFFICES ASSUME Init PROVE IInv
  OBVIOUS
<1> USE SessionsAssumption
<1>1. /\ users = SeededUsers /\ sessions = [t \in {} |-> {}]
      /\ nextUser = HighestSeedId + 1 /\ nextSession = 1 /\ clock \in 0..MaxTime
      /\ revoked = {} /\ lapsed = {} /\ given = {} /\ lost = {}
  BY DEF Init
<1>2. ASSUME NEW k \in DOMAIN users
      PROVE  /\ k \in Keys /\ users[k] \in User
             /\ users[k].uid \in SeedUids /\ users[k].standing \in Due(users[k].app)
  <2>1. PICK i \in DOMAIN SeedUsers :
          /\ SeedKey(i) = k
          /\ users[k] = [app |-> SeedUsers[i].app, uid |-> SeedUsers[i].uid,
                         password |-> SeedUsers[i].password,
                         standing |-> SeedUsers[i].standing]
    BY <1>1, <1>2, SeededUser
  <2>2. SeedUsers[i] \in SeedConfiguration /\ SeedKey(i) \in Keys
    BY SeedFields
  <2> QED BY <1>1, <2>1, <2>2 DEF User, SeedConfiguration, SeedUids, Due, SeedStandings
<1>3. users \in [DOMAIN users -> User]
  <2>1. users = [k \in DOMAIN users |-> users[k]]
    BY <1>1 DEF SeededUsers
  <2> QED BY <1>2, <2>1
<1>4. nextUser \in Nat /\ HighestSeedId \in Nat /\ HighestSeedId < nextUser
  BY <1>1, CounterAboveSeeds
<1>5. TypeOK
  <2>1. /\ pc \in [Threads -> {"idle", "start", "anonymous", "handle", "remove"}]
        /\ request \in [Threads -> Requests \cup {NoRequest}]
    BY DEF Init
  <2>2. session \in [Threads -> SUBSET Token] /\ granted \in [Threads -> SUBSET Token]
    BY Zenon DEF Init
  <2>3. DOMAIN sessions \subseteq Token /\ sessions \in [DOMAIN sessions -> Session]
    BY <1>1
  <2> QED BY <1>1, <1>2, <1>3, <1>4, <2>1, <2>2, <2>3 DEF TypeOK
<1>6. UsersConsistent
  BY <1>1, <1>2, <1>4 DEF UsersConsistent
<1>7. SessionsConsistent /\ Numbered /\ SessionsReachClients
  BY <1>1 DEF SessionsConsistent, Numbered, SessionsReachClients
<1>8. ASSUME NEW th \in Threads PROVE ThreadOK(th)
  BY DEF Init, ThreadOK
<1> QED BY <1>5, <1>6, <1>7, <1>8 DEF IInv
----------------------------------------------------------------------------
\* What other threads' calls know stays true in a monotone step.
LEMMA OthersOK ==
  ASSUME IInv, NEW th \in Threads, Others(th), Monotone
  PROVE  \A o \in Threads \ {th} : ThreadOK(o)'
<1> SUFFICES ASSUME NEW o \in Threads \ {th} PROVE ThreadOK(o)'
  OBVIOUS
<1>1. /\ pc'[o] = pc[o] /\ request'[o] = request[o] /\ session'[o] = session[o]
      /\ ThreadOK(o)
  BY DEF IInv, Others
<1>2. nextSession \in Nat \ {0} /\ session[o] \subseteq Token
  BY DEF IInv, TypeOK
<1>3. ASSUME NEW t \in session[o], t.number < nextSession
      PROVE  t.number < nextSession'
  <2>1. t.number \in Nat
    BY <1>2 DEF Token
  <2> QED BY <1>2, <1>3, <2>1 DEF Monotone
<1>4. ASSUME pc[o] # "idle", Renounced(o) PROVE Renounced(o)'
  <2> SUFFICES ASSUME NEW t \in (request[o].cookie \ session[o]) \cap DOMAIN sessions'
               PROVE  sessions'[t].owner.app # request[o].app
    BY <1>1 DEF Renounced
  <2>1. t \in given \/ t.number = 0
    BY <1>1, <1>4 DEF ThreadOK
  <2>2. t.number < nextSession
    BY <2>1, <1>2 DEF IInv, Numbered
  <2>3. t \in DOMAIN sessions /\ sessions'[t].owner = sessions[t].owner
    BY <2>2 DEF Monotone
  <2> QED BY <2>3, <1>4 DEF Renounced
<1>5. given \subseteq given'
  BY DEF Monotone
<1> QED BY <1>1, <1>3, <1>4, <1>5 DEF ThreadOK, ByCookie

\* The last step of a call, whatever token the answer carries.
LEMMA AnswerEffect ==
  ASSUME TypeOK, NEW th \in Threads, NEW tokens \in SUBSET Token, Answer(th, tokens)
  PROVE  /\ pc' \in [Threads -> {"idle", "start", "anonymous", "handle", "remove"}]
         /\ request' \in [Threads -> Requests \cup {NoRequest}]
         /\ session' \in [Threads -> SUBSET Token]
         /\ granted' \in [Threads -> SUBSET Token]
         /\ given' \subseteq Token /\ given' = given \cup tokens
         /\ pc'[th] = "idle" /\ session'[th] = {} /\ Others(th)
         /\ ThreadOK(th)'
<1> USE DEF TypeOK, Answer, Goto
<1>1. /\ pc' \in [Threads -> {"idle", "start", "anonymous", "handle", "remove"}]
      /\ request' \in [Threads -> Requests \cup {NoRequest}]
  OBVIOUS
<1>2. /\ session' \in [Threads -> SUBSET Token]
      /\ granted' \in [Threads -> SUBSET Token]
  BY Zenon
<1>3. given' \subseteq Token /\ given' = given \cup tokens
  OBVIOUS
<1>4. pc'[th] = "idle" /\ session'[th] = {}
  OBVIOUS
<1>5. Others(th)
  BY DEF Others
<1>6. ThreadOK(th)'
  BY <1>4 DEF ThreadOK
<1> QED BY <1>1, <1>2, <1>3, <1>4, <1>5, <1>6

\* What the others were given or hold, they still are or do.
LEMMA ReachKept ==
  ASSUME IInv, NEW th \in Threads, Others(th),
         given \subseteq given', lost \subseteq lost',
         session[th] \subseteq session'[th] \cup given' \cup lost',
         DOMAIN sessions' \subseteq DOMAIN sessions \cup given' \cup session'[th]
  PROVE  SessionsReachClients'
<1> SUFFICES ASSUME NEW t \in DOMAIN sessions',
                    ~(t \in given'), ~(\E o \in Threads : t \in session'[o])
             PROVE  t \in lost' /\ t.kind = "anon"
  BY DEF SessionsReachClients
<1>1. t \in DOMAIN sessions
  OBVIOUS
<1>2. CASE t \in session[th]
  BY <1>2 DEF IInv, ThreadOK
<1>3. CASE t \notin session[th]
  <2>1. \A o \in Threads : t \notin session[o]
    BY <1>3 DEF Others
  <2> QED BY <1>1, <2>1 DEF IInv, SessionsReachClients
<1> QED BY <1>2, <1>3

\* An identity made up stays made up while the counter grows.
LEMMA MadeKept ==
  ASSUME nextUser \in Nat, nextUser' \in Nat, nextUser <= nextUser',
         HighestSeedId \in Nat, NEW uid \in Uid, NEW form, Made(uid, form)
  PROVE  Made(uid, form)'
<1>1. uid.number \in Nat
  BY DEF Uid
<1>2. uid.number < nextUser'
  BY <1>1 DEF Made
<1> QED BY <1>2 DEF Made

LEMMA SessionUid ==
  ASSUME TypeOK, NEW t \in DOMAIN sessions
  PROVE  /\ t \in Token /\ sessions[t] \in Session /\ sessions[t].owner \in Owner
         /\ sessions[t].owner.uid \in Uid
<1>1. t \in Token /\ sessions[t] \in Session
  BY DEF TypeOK
<1>2. sessions[t].owner \in Owner
  BY <1>1 DEF Session
<1> QED BY <1>1, <1>2 DEF Owner

\* A step that issues no session keeps what is known of those there are.
LEMMA SessionsKept ==
  ASSUME IInv, nextUser' \in Nat, nextUser <= nextUser',
         DOMAIN sessions' \subseteq DOMAIN sessions,
         \A t \in DOMAIN sessions' : sessions'[t].owner = sessions[t].owner
  PROVE  SessionsConsistent'
<1>1. nextUser \in Nat /\ HighestSeedId \in Nat
  BY DEF IInv, TypeOK, UsersConsistent
<1>2. ASSUME NEW t \in DOMAIN sessions'
      PROVE  /\ t.number # 0
             /\ sessions'[t].owner.standing \in Due(sessions'[t].owner.app)
             /\ t.kind = "anon" => Made(sessions[t].owner.uid, "anon")'
             /\ t.kind = "session" => NoVisitor(sessions'[t].owner.uid)
  <2>1. t \in DOMAIN sessions /\ sessions'[t].owner = sessions[t].owner
    OBVIOUS
  <2>2. PICK uid \in Uid : uid = sessions[t].owner.uid
    BY <2>1, SessionUid DEF IInv
  <2>3. t.kind = "anon" => Made(uid, "anon")
    BY <2>1, <2>2 DEF IInv, SessionsConsistent
  <2>4. t.kind = "anon" => Made(uid, "anon")'
    BY <1>1, <2>3, MadeKept
  <2>5. uid = sessions'[t].owner.uid
    BY <2>1, <2>2
  <2>6. t.kind = "anon" => Made(sessions[t].owner.uid, "anon")'
    BY <2>4, <2>5 DEF Made
  <2> QED BY <2>1, <2>6 DEF IInv, SessionsConsistent
<1>3. ASSUME NEW s \in DOMAIN sessions', NEW t \in DOMAIN sessions',
             s.kind = "anon", sessions'[s].owner.uid = sessions'[t].owner.uid
      PROVE  s = t \/ (t.kind = "session" /\ sessions'[t].owner.uid \in SeedUids)
  BY <1>3 DEF IInv, SessionsConsistent
<1> QED BY <1>2, <1>3 DEF SessionsConsistent, NoVisitor, SeedUids

LEMMA UsersKept ==
  ASSUME IInv, users' = users, nextUser' \in Nat, nextUser <= nextUser'
  PROVE  UsersConsistent'
<1>1. nextUser \in Nat /\ HighestSeedId \in Nat /\ HighestSeedId < nextUser
  BY DEF IInv, TypeOK, UsersConsistent
<1>2. HighestSeedId < nextUser'
  BY <1>1
<1>3. ASSUME NEW k \in DOMAIN users, Made(users[k].uid, "u")
      PROVE  Made(users[k].uid, "u")'
  <2>1. PICK uid \in Uid : uid = users[k].uid
    BY DEF IInv, TypeOK, User
  <2>2. Made(uid, "u")'
    BY <1>1, <1>3, <2>1, MadeKept
  <2> QED BY <2>1, <2>2 DEF Made
<1> QED BY <1>1, <1>2, <1>3 DEF IInv, UsersConsistent

\* A step of a call that issues no token keeps the invariant.
LEMMA NothingIssued ==
  ASSUME IInv, NEW th \in Threads, Others(th), ThreadOK(th)',
         users' = users, nextUser' = nextUser, nextSession' = nextSession, clock' = clock,
         DOMAIN sessions' \subseteq DOMAIN sessions,
         sessions' \in [DOMAIN sessions' -> Session],
         \A t \in DOMAIN sessions' : sessions'[t].owner = sessions[t].owner,
         revoked' \cup lapsed' \subseteq revoked \cup lapsed \cup DOMAIN sessions,
         given \subseteq given',
         given' \subseteq given \cup DOMAIN sessions \cup session[th],
         lost \subseteq lost', lost' \subseteq Token,
         session[th] \subseteq session'[th] \cup given' \cup lost',
         pc' \in [Threads -> {"idle", "start", "anonymous", "handle", "remove"}],
         request' \in [Threads -> Requests \cup {NoRequest}],
         session' \in [Threads -> SUBSET Token],
         granted' \in [Threads -> SUBSET Token]
  PROVE  IInv'
<1>1. /\ nextUser \in Nat /\ nextSession \in Nat \ {0}
      /\ DOMAIN sessions \subseteq Token /\ session[th] \subseteq Token
      /\ revoked \cup lapsed \cup given \subseteq Token
  BY DEF IInv, TypeOK
<1>2. revoked' \cup lapsed' \cup given' \subseteq Token
  BY <1>1
<1>3. TypeOK'
  BY <1>1, <1>2 DEF IInv, TypeOK
<1>4. nextUser' \in Nat /\ nextUser <= nextUser'
  BY <1>1
<1>5. UsersConsistent'
  BY <1>4, UsersKept
<1>6. SessionsConsistent'
  BY <1>4, SessionsKept
<1>7. Numbered'
  <2>1. \A t \in session[th] : t.number < nextSession
    BY DEF IInv, ThreadOK
  <2> QED BY <2>1 DEF IInv, Numbered
<1>8. SessionsReachClients'
  BY ReachKept
<1>9. Monotone
  BY <1>1 DEF Monotone
<1>10. \A o \in Threads \ {th} : ThreadOK(o)'
  BY <1>9, OthersOK
<1> QED BY <1>3, <1>5, <1>6, <1>7, <1>8, <1>10 DEF IInv

\* A call that ends without a token, having removed nothing.
LEMMA FailIInv ==
  ASSUME IInv, NEW th \in Threads, Fail(th), UNCHANGED <<auth, clock>>
  PROVE  IInv'
<1>1. TypeOK /\ Answer(th, {})
  BY DEF IInv, Fail, AnswerWithout
<1>2. /\ pc' \in [Threads -> {"idle", "start", "anonymous", "handle", "remove"}]
      /\ request' \in [Threads -> Requests \cup {NoRequest}]
      /\ session' \in [Threads -> SUBSET Token]
      /\ granted' \in [Threads -> SUBSET Token]
      /\ given' = given \cup {} /\ Others(th) /\ ThreadOK(th)'
  BY <1>1, AnswerEffect
<1>3. /\ users' = users /\ sessions' = sessions /\ nextUser' = nextUser
      /\ nextSession' = nextSession /\ clock' = clock
      /\ revoked' = revoked /\ lapsed' = lapsed
      /\ lost' = lost \cup (session[th] \ given)
  BY DEF auth, Fail, AnswerWithout
<1>4. lost' \subseteq Token /\ sessions' \in [DOMAIN sessions' -> Session]
  BY <1>3 DEF IInv, TypeOK
<1>5. session[th] \subseteq given' \cup lost'
  BY <1>2, <1>3
<1> QED BY <1>2, <1>3, <1>4, <1>5, NothingIssued

\* A refused credential: a visitor's call goes on, any other ends.
LEMMA AfterRefusalIInv ==
  ASSUME IInv, NEW th \in Threads, AfterRefusal(th), pc[th] = "start",
         users' = users, nextUser' = nextUser, nextSession' = nextSession, clock' = clock,
         DOMAIN sessions' \subseteq DOMAIN sessions,
         sessions' \in [DOMAIN sessions' -> Session],
         \A t \in DOMAIN sessions' : sessions'[t].owner = sessions[t].owner,
         revoked' \cup lapsed' \subseteq revoked \cup lapsed \cup DOMAIN sessions,
         ByCookie(th) => \A t \in request[th].cookie \cap DOMAIN sessions' :
                           sessions'[t].owner.app # request[th].app
  PROVE  IInv'
<1>1. TypeOK /\ ThreadOK(th) /\ session[th] = {} /\ lost \subseteq Token
  BY DEF IInv, ThreadOK, TypeOK
<1>2. CASE ByCookie(th) /\ ServesVisitors(th)
  <2>1. /\ pc' = [pc EXCEPT ![th] = "anonymous"]
        /\ request' = request /\ session' = session /\ granted' = granted
        /\ given' = given /\ lost' = lost
    BY <1>2 DEF AfterRefusal, Goto
  <2>2. /\ pc' \in [Threads -> {"idle", "start", "anonymous", "handle", "remove"}]
        /\ request' \in [Threads -> Requests \cup {NoRequest}]
        /\ session' \in [Threads -> SUBSET Token]
        /\ granted' \in [Threads -> SUBSET Token]
    BY <1>1, <2>1 DEF TypeOK
  <2>3. Others(th) /\ pc'[th] = "anonymous"
    BY <1>1, <2>1 DEF Others, TypeOK
  <2>4. Renounced(th)'
    BY <1>2, <2>1 DEF Renounced
  <2>5. ThreadOK(th)'
    BY <1>1, <2>1, <2>3, <2>4 DEF ThreadOK
  <2> QED BY <1>1, <2>1, <2>2, <2>3, <2>5, NothingIssued
<1>3. CASE ~(ByCookie(th) /\ ServesVisitors(th))
  <2>1. Answer(th, {}) /\ lost' = lost \cup (session[th] \ given)
    BY <1>3 DEF AfterRefusal, AnswerWithout
  <2>2. /\ pc' \in [Threads -> {"idle", "start", "anonymous", "handle", "remove"}]
        /\ request' \in [Threads -> Requests \cup {NoRequest}]
        /\ session' \in [Threads -> SUBSET Token]
        /\ granted' \in [Threads -> SUBSET Token]
        /\ given' = given \cup {} /\ Others(th) /\ ThreadOK(th)'
    BY <1>1, <2>1, AnswerEffect
  <2> QED BY <1>1, <2>1, <2>2, NothingIssued
<1> QED BY <1>2, <1>3

LEMMA FailActionsIInv ==
  ASSUME IInv, NEW th \in Threads,
         \/ RefuseLogin(th) \/ RefuseRegister(th)
         \/ HandlerFails(th) \/ RefuseLogout(th)
  PROVE  IInv'
<1>1. Fail(th) /\ UNCHANGED <<auth, clock>>
  BY DEF RefuseLogin, RefuseRegister, HandlerFails, RefuseLogout
<1> QED BY <1>1, FailIInv

LEMMA PresentedTokens ==
  ASSUME IInv, NEW th \in Threads, Resolving(th)
  PROVE  /\ request[th] \in Requests /\ pc[th] = "start"
         /\ Presented(th) \subseteq Token /\ request[th].cookie \subseteq Token
         /\ \A s, t \in Presented(th) : s = t
         /\ \A s, t \in request[th].cookie : s = t
<1>1. request[th] \in Requests /\ pc[th] = "start"
  BY DEF IInv, ThreadOK, Resolving, Asked
<1> QED BY <1>1, RequestFields DEF Presented

LEMMA NoCredentialIInv ==
  ASSUME IInv, NEW th \in Threads, NoCredential(th)
  PROVE  IInv'
<1>1. pc[th] = "start" /\ Presented(th) = {}
  BY PresentedTokens DEF NoCredential
<1>2. /\ users' = users /\ sessions' = sessions /\ nextUser' = nextUser
      /\ nextSession' = nextSession /\ clock' = clock
      /\ revoked' = revoked /\ lapsed' = lapsed
  BY DEF NoCredential, auth
<1>3. TypeOK /\ ThreadOK(th) /\ session[th] = {} /\ lost \subseteq Token
      /\ sessions' \in [DOMAIN sessions' -> Session]
  BY <1>1, <1>2 DEF IInv, ThreadOK, TypeOK
<1>4. CASE request[th].op \in {"app", "stream"} /\ ~ServesVisitors(th)
  <2>1. /\ pc' = [pc EXCEPT ![th] = "handle"]
        /\ request' = request /\ session' = session /\ granted' = granted
        /\ given' = given /\ lost' = lost
    BY <1>4 DEF NoCredential, Goto
  <2>2. /\ pc' \in [Threads -> {"idle", "start", "anonymous", "handle", "remove"}]
        /\ request' \in [Threads -> Requests \cup {NoRequest}]
        /\ session' \in [Threads -> SUBSET Token]
        /\ granted' \in [Threads -> SUBSET Token]
    BY <1>3, <2>1 DEF TypeOK
  <2>3. Others(th) /\ pc'[th] = "handle"
    BY <1>3, <2>1 DEF Others, TypeOK
  <2>4. ThreadOK(th)'
    BY <1>1, <1>3, <2>1, <2>3 DEF ThreadOK
  <2> QED BY <1>2, <1>3, <2>1, <2>2, <2>3, <2>4, NothingIssued
<1>5. CASE ~(request[th].op \in {"app", "stream"} /\ ~ServesVisitors(th))
  <2>1. AfterRefusal(th)
    BY <1>5 DEF NoCredential
  <2>2. ByCookie(th) => request[th].cookie = {} \/ request[th].op = "execute"
    BY <1>1 DEF Presented
  <2>3. CASE request[th].op # "execute"
    <3>1. ByCookie(th) => \A t \in request[th].cookie \cap DOMAIN sessions' :
                            sessions'[t].owner.app # request[th].app
      BY <2>2, <2>3
    <3> QED BY <1>1, <1>2, <1>3, <2>1, <3>1, AfterRefusalIInv
  <2>4. CASE request[th].op = "execute"
    <3>1. Fail(th)
      BY <1>2, <2>1, <2>4 DEF AfterRefusal, ServesVisitors, Fail
    <3> QED BY <1>2, <3>1, FailIInv DEF auth
  <2> QED BY <2>3, <2>4
<1> QED BY <1>4, <1>5

LEMMA RefuseUnknownIInv ==
  ASSUME IInv, NEW th \in Threads, RefuseUnknown(th)
  PROVE  IInv'
<1>1. /\ pc[th] = "start" /\ AfterRefusal(th)
      /\ Presented(th) \cap DOMAIN sessions = {}
  BY PresentedTokens DEF RefuseUnknown
<1>2. /\ users' = users /\ sessions' = sessions /\ nextUser' = nextUser
      /\ nextSession' = nextSession /\ clock' = clock
      /\ revoked' = revoked /\ lapsed' = lapsed
  BY DEF RefuseUnknown, auth
<1>3. sessions' \in [DOMAIN sessions' -> Session]
  BY <1>2 DEF IInv, TypeOK
<1>4. CASE request[th].op # "execute"
  <2>1. ByCookie(th) => Presented(th) = request[th].cookie
    BY <1>4 DEF Presented, ByCookie
  <2>2. ByCookie(th) => \A t \in request[th].cookie \cap DOMAIN sessions' :
                          sessions'[t].owner.app # request[th].app
    BY <1>1, <1>2, <2>1
  <2> QED BY <1>1, <1>2, <1>3, <2>2, AfterRefusalIInv
<1>5. CASE request[th].op = "execute"
  <2>1. Fail(th)
    BY <1>1, <1>2, <1>5 DEF AfterRefusal, ServesVisitors, Fail
  <2> QED BY <1>2, <2>1, FailIInv DEF auth
<1> QED BY <1>4, <1>5

\* Removing a token keeps the rest of the table.
LEMMA Removal ==
  ASSUME TypeOK, NEW t \in DOMAIN sessions, sessions' = Without(t)
  PROVE  /\ DOMAIN sessions' = DOMAIN sessions \ {t}
         /\ sessions' \in [DOMAIN sessions' -> Session]
         /\ \A s \in DOMAIN sessions' : sessions'[s].owner = sessions[s].owner
         /\ sessions' = Store!Without(t)
<1>1. sessions' = [s \in DOMAIN sessions \ {t} |-> sessions[s]]
  BY DEF Without, Restrict
<1>2. \A s \in DOMAIN sessions : sessions[s] \in Session
  BY DEF TypeOK
<1>3. sessions' = Store!Without(t)
  BY <1>1 DEF Store!Without, Store!Restrict
<1> QED BY <1>1, <1>2, <1>3

LEMMA RemoveExpiredIInv ==
  ASSUME IInv, NEW th \in Threads, RemoveExpired(th)
  PROVE  IInv'
<1>1. PICK t \in Presented(th) \cap DOMAIN sessions :
        /\ sessions' = Without(t) /\ lapsed' = lapsed \cup {t} /\ AfterRefusal(th)
        /\ users' = users /\ nextUser' = nextUser /\ nextSession' = nextSession
        /\ clock' = clock /\ revoked' = revoked
  BY DEF RemoveExpired
<1>2. /\ pc[th] = "start" /\ \A s \in Presented(th) : s = t
  BY <1>1, PresentedTokens DEF RemoveExpired
<1>3. /\ DOMAIN sessions' = DOMAIN sessions \ {t}
      /\ sessions' \in [DOMAIN sessions' -> Session]
      /\ \A s \in DOMAIN sessions' : sessions'[s].owner = sessions[s].owner
  BY <1>1, Removal DEF IInv
<1>4. revoked' \cup lapsed' \subseteq revoked \cup lapsed \cup DOMAIN sessions
  BY <1>1
<1>5. ByCookie(th) => \A s \in request[th].cookie \cap DOMAIN sessions' :
                        sessions'[s].owner.app # request[th].app
  BY <1>1, <1>2, <1>3 DEF Presented, ByCookie
<1> QED BY <1>1, <1>2, <1>3, <1>4, <1>5, AfterRefusalIInv

LEMMA RefuseForeignIInv ==
  ASSUME IInv, NEW th \in Threads, RefuseForeign(th)
  PROVE  IInv'
<1>1. PICK t \in Presented(th) \cap DOMAIN sessions :
        /\ Foreign(th, t) /\ AfterRefusal(th)
        /\ UNCHANGED <<auth, clock, revoked, lapsed>>
  BY DEF RefuseForeign
<1>2. pc[th] = "start" /\ \A s \in Presented(th) : s = t
  BY <1>1, PresentedTokens DEF RefuseForeign
<1>3. /\ users' = users /\ sessions' = sessions /\ nextUser' = nextUser
      /\ nextSession' = nextSession /\ clock' = clock
      /\ revoked' = revoked /\ lapsed' = lapsed
  BY <1>1 DEF auth
<1>4. sessions' \in [DOMAIN sessions' -> Session]
  BY <1>3 DEF IInv, TypeOK
<1>5. ByCookie(th) => \A s \in request[th].cookie \cap DOMAIN sessions' :
                        sessions'[s].owner.app # request[th].app
  BY <1>1, <1>2, <1>3 DEF Presented, ByCookie, Foreign
<1> QED BY <1>1, <1>2, <1>3, <1>4, <1>5, AfterRefusalIInv

LEMMA RenewalKeeps ==
  ASSUME IInv, NEW t \in DOMAIN sessions,
         sessions' = [sessions EXCEPT ![t].expires = RenewedExpiry(t)]
  PROVE  /\ DOMAIN sessions' = DOMAIN sessions
         /\ sessions' \in [DOMAIN sessions' -> Session]
         /\ \A s \in DOMAIN sessions' : sessions'[s].owner = sessions[s].owner
<1>1. DOMAIN sessions' = DOMAIN sessions
  OBVIOUS
<1>2. clock + Lease \in 0..(MaxTime + Lease)
  BY SessionsAssumption DEF IInv, TypeOK
<1>3. PICK e \in 0..(MaxTime + Lease) : e = RenewedExpiry(t)
  BY <1>2 DEF RenewedExpiry
<1>4. ASSUME NEW s \in DOMAIN sessions
      PROVE  sessions'[s] \in Session /\ sessions'[s].owner = sessions[s].owner
  <2>1. sessions[s] \in Session
    BY DEF IInv, TypeOK
  <2> QED BY <1>3, <2>1 DEF Session
<1>5. sessions' = [s \in DOMAIN sessions |-> sessions'[s]]
  OBVIOUS
<1> QED BY <1>1, <1>4, <1>5

LEMMA RenewIInv ==
  ASSUME IInv, NEW th \in Threads, Renew(th)
  PROVE  IInv'
<1>1. PICK t \in Presented(th) \cap DOMAIN sessions :
        /\ ~Foreign(th, t)
        /\ sessions' = [sessions EXCEPT ![t].expires = RenewedExpiry(t)]
        /\ CASE request[th].op = "me" -> Answer(th, {t}) /\ UNCHANGED lost
             [] request[th].op = "logout" ->
                  Goto(th, "remove") /\ UNCHANGED <<request, session, granted, given, lost>>
             [] OTHER -> /\ Goto(th, "handle")
                         /\ session' = [session EXCEPT ![th] = {t}]
                         /\ UNCHANGED <<request, granted, given, lost>>
        /\ UNCHANGED <<users, nextUser, nextSession, clock, revoked, lapsed>>
  BY DEF Renew
<1>2. /\ request[th] \in Requests /\ pc[th] = "start"
      /\ t \in Token /\ Presented(th) \subseteq Token
      /\ \A s \in request[th].cookie : \A u \in request[th].cookie : s = u
  BY <1>1, PresentedTokens DEF Renew
<1>3. /\ DOMAIN sessions' = DOMAIN sessions
      /\ sessions' \in [DOMAIN sessions' -> Session]
      /\ \A s \in DOMAIN sessions' : sessions'[s].owner = sessions[s].owner
  BY <1>1, RenewalKeeps
<1>4. TypeOK /\ ThreadOK(th) /\ session[th] = {} /\ lost \subseteq Token
      /\ Numbered /\ t.number < nextSession
  BY <1>1, <1>2 DEF IInv, ThreadOK, TypeOK, Numbered
<1>5. t \in given
  <2>1. t.number # 0
    BY <1>1 DEF IInv, SessionsConsistent
  <2> QED BY <1>1, <1>2, <1>4, <2>1 DEF ThreadOK, Presented
<1>6. CASE request[th].op = "me"
  <2>1. Answer(th, {t}) /\ lost' = lost
    BY <1>1, <1>6
  <2>2. {t} \in SUBSET Token
    BY <1>2
  <2>3. /\ pc' \in [Threads -> {"idle", "start", "anonymous", "handle", "remove"}]
        /\ request' \in [Threads -> Requests \cup {NoRequest}]
        /\ session' \in [Threads -> SUBSET Token]
        /\ granted' \in [Threads -> SUBSET Token]
        /\ given' = given \cup {t} /\ Others(th) /\ ThreadOK(th)'
    BY <1>4, <2>1, <2>2, AnswerEffect
  <2> QED BY <1>1, <1>3, <1>4, <2>1, <2>3, NothingIssued
<1>7. CASE request[th].op = "logout"
  <2>1. /\ pc' = [pc EXCEPT ![th] = "remove"]
        /\ request' = request /\ session' = session /\ granted' = granted
        /\ given' = given /\ lost' = lost
    BY <1>1, <1>7 DEF Goto
  <2>2. /\ pc' \in [Threads -> {"idle", "start", "anonymous", "handle", "remove"}]
        /\ request' \in [Threads -> Requests \cup {NoRequest}]
        /\ session' \in [Threads -> SUBSET Token]
        /\ granted' \in [Threads -> SUBSET Token]
    BY <1>4, <2>1 DEF TypeOK
  <2>3. Others(th) /\ pc'[th] = "remove"
    BY <1>4, <2>1 DEF Others, TypeOK
  <2>4. ThreadOK(th)'
    BY <1>2, <1>4, <2>1, <2>3 DEF ThreadOK
  <2> QED BY <1>1, <1>3, <1>4, <2>1, <2>2, <2>3, <2>4, NothingIssued
<1>8. CASE request[th].op \notin {"me", "logout"}
  <2>1. /\ pc' = [pc EXCEPT ![th] = "handle"]
        /\ session' = [session EXCEPT ![th] = {t}]
        /\ request' = request /\ granted' = granted
        /\ given' = given /\ lost' = lost
    BY <1>1, <1>8 DEF Goto
  <2>2. /\ pc' \in [Threads -> {"idle", "start", "anonymous", "handle", "remove"}]
        /\ request' \in [Threads -> Requests \cup {NoRequest}]
        /\ session' \in [Threads -> SUBSET Token]
        /\ granted' \in [Threads -> SUBSET Token]
    BY <1>2, <1>4, <2>1 DEF TypeOK
  <2>3. Others(th) /\ pc'[th] = "handle" /\ session'[th] = {t}
    BY <1>4, <2>1 DEF Others, TypeOK
  <2>4. ByCookie(th) => request[th].cookie \subseteq {t}
    BY <1>1, <1>2 DEF ByCookie, Presented
  <2>5. (ByCookie(th) => Renounced(th))'
    BY <2>1, <2>3, <2>4 DEF Renounced, ByCookie
  <2>6. ThreadOK(th)'
    <3>1. nextSession' = nextSession
      BY <1>1
    <3> QED BY <1>2, <1>4, <1>5, <2>1, <2>3, <2>5, <3>1 DEF ThreadOK
  <2> QED BY <1>1, <1>3, <1>4, <2>1, <2>2, <2>3, <2>6, NothingIssued
<1> QED BY <1>6, <1>7, <1>8

LEMMA HandleIInv ==
  ASSUME IInv, NEW th \in Threads, Handle(th)
  PROVE  IInv'
<1>1. CASE request[th].op = "app"
  <2>1. /\ Answer(th, session[th]) /\ lost' = lost
        /\ UNCHANGED <<auth, clock, revoked, lapsed>>
    BY <1>1 DEF Handle
  <2>2. TypeOK /\ session[th] \in SUBSET Token /\ lost \subseteq Token
    BY DEF IInv, TypeOK
  <2>3. /\ pc' \in [Threads -> {"idle", "start", "anonymous", "handle", "remove"}]
        /\ request' \in [Threads -> Requests \cup {NoRequest}]
        /\ session' \in [Threads -> SUBSET Token]
        /\ granted' \in [Threads -> SUBSET Token]
        /\ given' = given \cup session[th] /\ Others(th) /\ ThreadOK(th)'
    <3>1. PICK tokens \in SUBSET Token : tokens = session[th]
      BY <2>2
    <3> QED BY <2>1, <2>2, <3>1, AnswerEffect
  <2>4. sessions' = sessions /\ sessions' \in [DOMAIN sessions' -> Session]
    BY <2>1, <2>2 DEF auth, TypeOK
  <2> QED BY <2>1, <2>2, <2>3, <2>4, NothingIssued DEF auth
<1>2. CASE request[th].op # "app"
  <2>1. Fail(th) /\ UNCHANGED <<auth, clock>>
    BY <1>2 DEF Handle, Fail
  <2> QED BY <2>1, FailIInv
<1> QED BY <1>1, <1>2

LEMMA LogoutIInv ==
  ASSUME IInv, NEW th \in Threads, Logout(th)
  PROVE  IInv'
<1>1. PICK t \in DOMAIN sessions :
        /\ sessions' = Without(t) /\ revoked' = revoked \cup {t}
        /\ Answer(th, {}) /\ pc[th] = "remove"
        /\ UNCHANGED <<users, nextUser, nextSession, clock, lapsed, lost>>
  BY DEF Logout
<1>2. TypeOK /\ session[th] = {} /\ lost \subseteq Token
  BY <1>1 DEF IInv, TypeOK, ThreadOK
<1>3. /\ DOMAIN sessions' = DOMAIN sessions \ {t}
      /\ sessions' \in [DOMAIN sessions' -> Session]
      /\ \A s \in DOMAIN sessions' : sessions'[s].owner = sessions[s].owner
  BY <1>1, <1>2, Removal
<1>4. /\ pc' \in [Threads -> {"idle", "start", "anonymous", "handle", "remove"}]
      /\ request' \in [Threads -> Requests \cup {NoRequest}]
      /\ session' \in [Threads -> SUBSET Token]
      /\ granted' \in [Threads -> SUBSET Token]
      /\ given' = given \cup {} /\ Others(th) /\ ThreadOK(th)'
  BY <1>1, <1>2, AnswerEffect
<1> QED BY <1>1, <1>2, <1>3, <1>4, NothingIssued

LEMMA BeginIInv ==
  ASSUME IInv, NEW th \in Threads, NEW r \in Requests, Begin(th, r)
  PROVE  IInv'
<1>1. /\ pc[th] = "idle" /\ pc' = [pc EXCEPT ![th] = "start"]
      /\ \A t \in r.bearer \cup r.cookie : t \in given \/ t.number = 0
      /\ request' = [request EXCEPT ![th] = r]
      /\ granted' = [granted EXCEPT ![th] = {}]
      /\ session' = session
  BY DEF Begin, Goto
<1>2. /\ users' = users /\ sessions' = sessions /\ nextUser' = nextUser
      /\ nextSession' = nextSession /\ clock' = clock
      /\ revoked' = revoked /\ lapsed' = lapsed /\ given' = given /\ lost' = lost
  BY DEF Begin, auth, history
<1>3. TypeOK /\ session[th] = {} /\ lost \subseteq Token
      /\ sessions' \in [DOMAIN sessions' -> Session]
  BY <1>1, <1>2 DEF IInv, TypeOK, ThreadOK
<1>4. /\ pc' \in [Threads -> {"idle", "start", "anonymous", "handle", "remove"}]
      /\ request' \in [Threads -> Requests \cup {NoRequest}]
      /\ session' \in [Threads -> SUBSET Token]
  BY <1>1, <1>3 DEF TypeOK
<1>5. granted' \in [Threads -> SUBSET Token]
  BY <1>1, <1>3, Zenon DEF TypeOK
<1>6. Others(th) /\ pc'[th] = "start" /\ request'[th] = r
  BY <1>1, <1>3 DEF Others, TypeOK
<1>7. ThreadOK(th)'
  BY <1>1, <1>2, <1>3, <1>6 DEF ThreadOK
<1> QED BY <1>2, <1>3, <1>4, <1>5, <1>6, <1>7, NothingIssued

\* Of the invariant only the type speaks of the clock and the answers.
LEMMA SetClockIInv == ASSUME IInv, SetClock \/ UNCHANGED vars PROVE IInv'
<1>1. /\ users' = users /\ sessions' = sessions /\ nextUser' = nextUser
      /\ nextSession' = nextSession /\ pc' = pc /\ request' = request
      /\ session' = session /\ granted' = granted
      /\ revoked' = revoked /\ lapsed' = lapsed /\ given' = given /\ lost' = lost
      /\ clock' \in 0..MaxTime
  BY DEF SetClock, auth, history, vars, IInv, TypeOK
<1>2. TypeOK'
  BY <1>1 DEF IInv, TypeOK
<1>3. UsersConsistent' /\ SessionsConsistent'
  BY <1>1 DEF IInv, UsersConsistent, SessionsConsistent, Made
<1>4. Numbered' /\ SessionsReachClients'
  BY <1>1 DEF IInv, Numbered, SessionsReachClients
<1>5. ASSUME NEW th \in Threads PROVE ThreadOK(th)'
  BY <1>1 DEF IInv, ThreadOK, Renounced, ByCookie
<1> QED BY <1>2, <1>3, <1>4, <1>5 DEF IInv

----------------------------------------------------------------------------
\* A new session: its token is new, and nobody else's changes.
LEMMA IssueEffect ==
  ASSUME IInv, NEW token \in Token, NEW owner \in Owner, token.number = nextSession,
         sessions' = WithSession(token, owner), nextSession' = nextSession + 1,
         revoked' = revoked, lapsed' = lapsed, clock' = clock,
         given \subseteq given', given' \subseteq given \cup {token}
  PROVE  /\ token \notin DOMAIN sessions \cup revoked \cup lapsed \cup given
         /\ DOMAIN sessions' = DOMAIN sessions \cup {token}
         /\ sessions'[token].owner = owner
         /\ \A t \in DOMAIN sessions : sessions'[t] = sessions[t]
         /\ sessions' \in [DOMAIN sessions' -> Session]
         /\ Monotone /\ Numbered'
         /\ Store!Issue(token)
<1>1. /\ nextSession \in Nat \ {0} /\ DOMAIN sessions \subseteq Token
      /\ DOMAIN sessions \cup revoked \cup lapsed \cup given \subseteq Token
      /\ clock \in 0..MaxTime
  BY DEF IInv, TypeOK
<1>2. token \notin DOMAIN sessions \cup revoked \cup lapsed \cup given
  <2>1. ~(nextSession < nextSession)
    BY <1>1
  <2> QED BY <2>1 DEF IInv, Numbered
<1>3. clock + Lease \in 0..(MaxTime + Lease)
  BY <1>1, SessionsAssumption
<1>4. PICK session_ \in Session : session_ = [owner |-> owner, expires |-> clock + Lease]
  BY <1>3 DEF Session
<1>5. sessions' = [t \in DOMAIN sessions \cup {token} |->
                     IF t = token THEN session_ ELSE sessions[t]]
  BY <1>4 DEF WithSession
<1>6. /\ DOMAIN sessions' = DOMAIN sessions \cup {token}
      /\ sessions'[token] = session_
      /\ \A t \in DOMAIN sessions : sessions'[t] = sessions[t]
  BY <1>2, <1>5
<1>7. sessions'[token].owner = owner
  BY <1>4, <1>6
<1>8. sessions' \in [DOMAIN sessions' -> Session]
  BY <1>5, <1>6 DEF IInv, TypeOK
<1>9. nextSession' \in Nat \ {0} /\ nextSession <= nextSession' /\ nextSession < nextSession'
  BY <1>1
<1>10. Monotone
  <2>1. ~(token.number < nextSession)
    BY <1>1
  <2> QED BY <1>6, <1>9, <2>1 DEF Monotone
<1>11. Numbered'
  <2>1. ASSUME NEW t \in DOMAIN sessions \cup revoked \cup lapsed \cup given
        PROVE  t.number < nextSession'
    <3>1. t.number < nextSession /\ t.number \in Nat
      BY <1>1 DEF IInv, Numbered, Token
    <3> QED BY <1>1, <1>9, <3>1
  <2>2. token.number < nextSession'
    BY <1>9
  <2> QED BY <1>6, <2>1, <2>2 DEF Numbered
<1>12. Store!Issue(token)
  <2>1. session_ \in Store!Session
    BY <1>1, <1>4 DEF Store!Session
  <2> QED BY <1>2, <1>5, <1>6, <2>1 DEF Store!Issue
<1> QED BY <1>2, <1>6, <1>7, <1>8, <1>10, <1>11, <1>12

\* The new owner is due his standing, and a visitor's uid is a new one.
LEMMA SessionsIssued ==
  ASSUME IInv, NEW token \in Token, NEW owner \in Owner, token.number # 0,
         DOMAIN sessions' = DOMAIN sessions \cup {token},
         sessions'[token].owner = owner,
         \A t \in DOMAIN sessions : sessions'[t] = sessions[t],
         nextUser' \in Nat, nextUser <= nextUser',
         owner.standing \in Due(owner.app),
         token.kind = "session" => NoVisitor(owner.uid),
         token.kind = "anon" =>
           owner.uid = [form |-> "anon", number |-> nextUser] /\ nextUser < nextUser'
  PROVE  SessionsConsistent'
<1>1. nextUser \in Nat /\ HighestSeedId \in Nat /\ HighestSeedId < nextUser
  BY DEF IInv, TypeOK, UsersConsistent
<1>2. token.kind \in {"session", "anon"}
  BY DEF Token
<1>3. token.kind = "anon" => Made(owner.uid, "anon")'
  <2> SUFFICES ASSUME token.kind = "anon" PROVE Made(owner.uid, "anon")'
    OBVIOUS
  <2>1. owner.uid.form = "anon" /\ owner.uid.number = nextUser
    OBVIOUS
  <2> QED BY <1>1, <2>1 DEF Made
<1>4. ASSUME NEW t \in DOMAIN sessions
      PROVE  /\ t.number # 0
             /\ sessions[t].owner.standing \in Due(sessions[t].owner.app)
             /\ t.kind = "anon" => Made(sessions[t].owner.uid, "anon")'
             /\ t.kind = "anon" =>
                  sessions[t].owner.uid # owner.uid \/ owner.uid \in SeedUids
             /\ t.kind = "session" => NoVisitor(sessions[t].owner.uid)
             /\ t.kind = "anon" /\ token.kind = "anon" => sessions[t].owner.uid # owner.uid
             /\ t.kind \in {"session", "anon"}
  <2>1. PICK uid \in Uid : uid = sessions[t].owner.uid
    BY SessionUid DEF IInv
  <2>2. t.kind = "anon" => Made(uid, "anon")
    BY <2>1 DEF IInv, SessionsConsistent
  <2>3. t.kind = "anon" => Made(uid, "anon")'
    BY <1>1, <2>2, MadeKept
  <2>4. t.kind = "anon" => Made(sessions[t].owner.uid, "anon")'
    BY <2>1, <2>3 DEF Made
  <2>5. ASSUME t.kind = "anon"
        PROVE  /\ uid # owner.uid \/ owner.uid \in SeedUids
               /\ token.kind = "anon" => uid # owner.uid
    <3>1. uid.form = "anon" /\ uid.number < nextUser /\ uid.number \in Nat
      BY <2>2, <2>5 DEF Made, Uid
    <3>2. CASE token.kind = "anon"
      <4>1. owner.uid.number = nextUser
        BY <3>2
      <4>2. uid.number # nextUser
        BY <1>1, <3>1
      <4> QED BY <4>1, <4>2
    <3>3. CASE token.kind = "session"
      BY <3>1, <3>3 DEF NoVisitor
    <3> QED BY <1>2, <3>2, <3>3
  <2>6. t.kind \in {"session", "anon"}
    BY SessionUid DEF IInv, Token
  <2> QED BY <2>1, <2>4, <2>5, <2>6 DEF IInv, SessionsConsistent
<1>5. ASSUME NEW t \in DOMAIN sessions'
      PROVE  /\ t.number # 0
             /\ sessions'[t].owner.standing \in Due(sessions'[t].owner.app)
             /\ t.kind = "anon" => Made(sessions[t].owner.uid, "anon")'
             /\ t.kind = "session" => NoVisitor(sessions'[t].owner.uid)
  <2>1. CASE t = token
    BY <1>3, <2>1 DEF Made
  <2>2. CASE t \in DOMAIN sessions
    BY <1>4, <2>2 DEF Made
  <2> QED BY <2>1, <2>2
<1>6. ASSUME NEW s \in DOMAIN sessions', NEW t \in DOMAIN sessions', s.kind = "anon",
             sessions'[s].owner.uid = sessions'[t].owner.uid
      PROVE  s = t \/ (t.kind = "session" /\ sessions'[t].owner.uid \in SeedUids)
  <2>1. CASE s \in DOMAIN sessions /\ t \in DOMAIN sessions
    BY <1>6, <2>1 DEF IInv, SessionsConsistent
  <2>2. CASE s \in DOMAIN sessions /\ t = token
    BY <1>2, <1>4, <1>6, <2>2
  <2>3. CASE s = token /\ t \in DOMAIN sessions
    <3>1. sessions[t].owner.uid = owner.uid
      BY <1>6, <2>3
    <3>2. owner.uid.form = "anon"
      BY <1>6, <2>3
    <3>3. t.kind # "anon" /\ t.kind \in {"session", "anon"}
      BY <1>4, <1>6, <2>3, <3>1
    <3> QED BY <1>4, <2>3, <3>1, <3>2, <3>3 DEF NoVisitor
  <2>4. s \in DOMAIN sessions \cup {token} /\ t \in DOMAIN sessions \cup {token}
    OBVIOUS
  <2> QED BY <2>1, <2>2, <2>3, <2>4
<1> QED BY <1>5, <1>6 DEF SessionsConsistent, NoVisitor, SeedUids

\* default_identity_for_app gives a standing that is due.
LEMMA DefaultsDue ==
  ASSUME IInv, NEW app \in Apps, NEW standing \in DefaultStandings(app)
  PROVE  standing \in Standings /\ standing \in Due(app)
<1> DEFINE known == {users[k].standing : k \in {j \in DOMAIN users : users[j].app = app}}
<1>1. ASSUME NEW k \in DOMAIN users, users[k].app = app
      PROVE  users[k].standing \in Standings /\ users[k].standing \in Due(app)
  BY <1>1 DEF IInv, TypeOK, User, UsersConsistent
<1>2. CASE known # {}
  BY <1>1, <1>2 DEF DefaultStandings
<1>3. CASE known = {}
  <2>1. standing = LocalStanding
    BY <1>3 DEF DefaultStandings
  <2>2. ASSUME NEW k \in DOMAIN SeededUsers, SeededUsers[k].app = app PROVE FALSE
    <3>1. k \in DOMAIN users /\ users[k].app = app
      BY <2>2 DEF IInv, UsersConsistent
    <3> QED BY <1>3, <3>1
  <2>3. SeedStandings(app) = {}
    BY <2>2 DEF SeedStandings
  <2> QED BY <2>1, <2>3, SessionsAssumption DEF Due
<1> QED BY <1>2, <1>3

\* What an action that issues one session has to show.
LEMMA Issued ==
  ASSUME IInv, NEW th \in Threads, NEW token \in Token, NEW owner \in Owner,
         token.number = nextSession,
         sessions' = WithSession(token, owner), nextSession' = nextSession + 1,
         owner.standing \in Due(owner.app),
         token.kind = "session" => NoVisitor(owner.uid),
         token.kind = "anon" =>
           owner.uid = [form |-> "anon", number |-> nextUser] /\ nextUser < nextUser',
         nextUser' \in Nat, nextUser <= nextUser',
         DOMAIN users' \subseteq Keys, users' \in [DOMAIN users' -> User],
         UsersConsistent', Others(th), ThreadOK(th)',
         revoked' = revoked, lapsed' = lapsed, lost' = lost, clock' = clock,
         given \subseteq given', given' \subseteq given \cup {token},
         session[th] = {}, token \in given' \cup session'[th],
         pc' \in [Threads -> {"idle", "start", "anonymous", "handle", "remove"}],
         request' \in [Threads -> Requests \cup {NoRequest}],
         session' \in [Threads -> SUBSET Token],
         granted' \in [Threads -> SUBSET Token]
  PROVE  IInv'
<1>1. /\ DOMAIN sessions' = DOMAIN sessions \cup {token}
      /\ sessions'[token].owner = owner
      /\ \A t \in DOMAIN sessions : sessions'[t] = sessions[t]
      /\ sessions' \in [DOMAIN sessions' -> Session]
      /\ Monotone /\ Numbered'
  BY IssueEffect
<1>2. /\ nextSession \in Nat \ {0} /\ DOMAIN sessions \subseteq Token
      /\ revoked \cup lapsed \cup given \cup lost \subseteq Token
      /\ clock \in 0..MaxTime
  BY DEF IInv, TypeOK
<1>3. nextSession' \in Nat \ {0} /\ token.number # 0
  BY <1>2
<1>4. TypeOK'
  BY <1>1, <1>2, <1>3 DEF TypeOK
<1>5. SessionsConsistent'
  BY <1>1, <1>3, SessionsIssued
<1>6. SessionsReachClients'
  <2>1. DOMAIN sessions' \subseteq DOMAIN sessions \cup given' \cup session'[th]
    BY <1>1
  <2> QED BY <2>1, ReachKept
<1>7. \A o \in Threads \ {th} : ThreadOK(o)'
  BY <1>1, OthersOK
<1> QED BY <1>1, <1>4, <1>5, <1>6, <1>7 DEF IInv

LEMMA NewTokens ==
  ASSUME IInv, NEW th \in Threads, request[th] \in Requests,
         NEW kind \in {"session", "anon"}
  PROVE  /\ NewToken(th, kind) \in Token /\ NewToken(th, kind).number = nextSession
         /\ NewToken(th, kind).kind = kind
<1>1. nextSession \in Nat /\ request[th].app \in Apps
  BY RequestFields DEF IInv, TypeOK
<1> QED BY <1>1 DEF NewToken, Token

LEMMA LoginEffect ==
  ASSUME IInv, NEW th \in Threads, Login(th)
  PROVE  IInv' /\ \E t \in DOMAIN sessions' : Store!Issue(t)
<1>1. /\ request[th] \in Requests /\ session[th] = {} /\ KeyOf(th) \in DOMAIN users
  BY DEF IInv, ThreadOK, Login, Asked, GoodLogin
<1>2. PICK token \in Token : token = NewToken(th, "session")
  BY <1>1, NewTokens
<1>3. token.number = nextSession /\ token.kind = "session"
  BY <1>1, <1>2, NewTokens
<1>4. PICK user \in User : user = users[KeyOf(th)]
  BY <1>1 DEF IInv, TypeOK
<1>5. PICK owner \in Owner : owner = OwnerOf(user)
  BY <1>4 DEF OwnerOf, Owner, User
<1>6. /\ sessions' = WithSession(token, owner) /\ nextSession' = nextSession + 1
      /\ Answer(th, {token})
      /\ users' = users /\ nextUser' = nextUser /\ clock' = clock
      /\ revoked' = revoked /\ lapsed' = lapsed /\ lost' = lost
  BY <1>2, <1>4, <1>5 DEF Login
<1>7. owner.standing \in Due(owner.app) /\ NoVisitor(owner.uid)
  <2>1. /\ user.standing \in Due(user.app)
        /\ user.uid \in SeedUids \/ Made(user.uid, "u")
    BY <1>1, <1>4 DEF IInv, UsersConsistent
  <2>2. NoVisitor(user.uid)
    BY <2>1 DEF NoVisitor, Made
  <2> QED BY <1>5, <2>1, <2>2 DEF OwnerOf
<1>8. /\ pc' \in [Threads -> {"idle", "start", "anonymous", "handle", "remove"}]
      /\ request' \in [Threads -> Requests \cup {NoRequest}]
      /\ session' \in [Threads -> SUBSET Token]
      /\ granted' \in [Threads -> SUBSET Token]
      /\ given' = given \cup {token} /\ Others(th) /\ ThreadOK(th)'
  BY <1>6, AnswerEffect DEF IInv
<1>9. /\ nextUser' \in Nat /\ nextUser <= nextUser'
      /\ DOMAIN users' \subseteq Keys /\ users' \in [DOMAIN users' -> User]
  BY <1>6 DEF IInv, TypeOK
<1>10. UsersConsistent'
  BY <1>6, <1>9, UsersKept
<1>11. given \subseteq given' /\ given' \subseteq given \cup {token}
       /\ token \in given' \cup session'[th]
  BY <1>8
<1>12. IInv'
  BY <1>1, <1>3, <1>6, <1>7, <1>8, <1>9, <1>10, <1>11, Issued
<1>13. token \in DOMAIN sessions' /\ Store!Issue(token)
  BY <1>3, <1>6, <1>11, IssueEffect
<1> QED BY <1>12, <1>13

LEMMA EnsureAnonymousEffect ==
  ASSUME IInv, NEW th \in Threads, EnsureAnonymous(th)
  PROVE  IInv' /\ \E t \in DOMAIN sessions' : Store!Issue(t)
<1>1. /\ request[th] \in Requests /\ session[th] = {} /\ Renounced(th)
      /\ request[th].app \in Apps
      /\ \A t \in request[th].bearer \cup request[th].cookie : t \in given \/ t.number = 0
  BY RequestFields DEF IInv, ThreadOK, EnsureAnonymous
<1>2. PICK token \in Token : token = NewToken(th, "anon")
  BY <1>1, NewTokens
<1>3. token.number = nextSession /\ token.kind = "anon"
  BY <1>1, <1>2, NewTokens
<1>4. PICK standing \in DefaultStandings(request[th].app) :
        sessions' = WithSession(token,
          [app |-> request[th].app, uid |-> [form |-> "anon", number |-> nextUser],
           standing |-> standing])
  BY <1>2 DEF EnsureAnonymous
<1>5. standing \in Standings /\ standing \in Due(request[th].app)
  BY <1>1, DefaultsDue
<1>6. nextUser \in Nat
  BY DEF IInv, TypeOK
<1>7. PICK owner \in Owner :
        owner = [app |-> request[th].app, uid |-> [form |-> "anon", number |-> nextUser],
                 standing |-> standing]
  BY <1>1, <1>5, <1>6 DEF Owner, Uid
<1>8. /\ sessions' = WithSession(token, owner) /\ nextSession' = nextSession + 1
      /\ nextUser' = nextUser + 1
      /\ session' = [session EXCEPT ![th] = {token}]
      /\ pc' = [pc EXCEPT ![th] = "handle"]
      /\ users' = users /\ clock' = clock /\ request' = request /\ granted' = granted
      /\ revoked' = revoked /\ lapsed' = lapsed /\ given' = given /\ lost' = lost
  BY <1>2, <1>4, <1>7 DEF EnsureAnonymous, Goto, history
<1>9. /\ owner.standing \in Due(owner.app)
      /\ owner.uid = [form |-> "anon", number |-> nextUser]
  BY <1>5, <1>7
<1>10. /\ nextUser' \in Nat /\ nextUser <= nextUser' /\ nextUser < nextUser'
       /\ DOMAIN users' \subseteq Keys /\ users' \in [DOMAIN users' -> User]
  BY <1>6, <1>8 DEF IInv, TypeOK
<1>11. UsersConsistent'
  BY <1>8, <1>10, UsersKept
<1>12. /\ pc' \in [Threads -> {"idle", "start", "anonymous", "handle", "remove"}]
       /\ request' \in [Threads -> Requests \cup {NoRequest}]
       /\ session' \in [Threads -> SUBSET Token]
       /\ granted' \in [Threads -> SUBSET Token]
  BY <1>8 DEF IInv, TypeOK
<1>13. Others(th) /\ pc'[th] = "handle" /\ session'[th] = {token}
  BY <1>8 DEF Others, IInv, TypeOK
<1>14. given \subseteq given' /\ given' \subseteq given \cup {token}
  BY <1>8
<1>15. /\ token \notin given /\ DOMAIN sessions' = DOMAIN sessions \cup {token}
       /\ \A t \in DOMAIN sessions : sessions'[t] = sessions[t]
       /\ Monotone /\ Store!Issue(token) /\ Numbered'
  BY <1>3, <1>8, <1>14, IssueEffect
<1>16. Renounced(th)'
  BY <1>1, <1>8, <1>13, <1>15 DEF Renounced
<1>17. token.number < nextSession'
  <2>1. nextSession \in Nat
    BY DEF IInv, TypeOK
  <2> QED BY <1>3, <1>8, <2>1
<1>18. ThreadOK(th)'
  BY <1>1, <1>3, <1>8, <1>13, <1>16, <1>17 DEF ThreadOK
<1>19. token \in given' \cup session'[th]
  BY <1>13
<1>20. IInv'
  BY <1>1, <1>3, <1>8, <1>9, <1>10, <1>11, <1>12, <1>13, <1>14, <1>18, <1>19, Issued
<1> QED BY <1>15, <1>20

LEMMA RegisterEffect ==
  ASSUME IInv, NEW th \in Threads, Register(th)
  PROVE  IInv' /\ \E t \in DOMAIN sessions' : Store!Issue(t)
<1>1. request[th] \in Requests /\ session[th] = {}
  BY DEF IInv, ThreadOK, Register, Asked
<1>2. /\ request[th].app \in Apps /\ request[th].email \in Emails
      /\ request[th].password \in Passwords
  BY <1>1, RequestFields
<1>3. PICK key \in Keys : key = KeyOf(th)
  BY <1>2, SessionsAssumption DEF KeyOf
<1>4. PICK token \in Token : token = NewToken(th, "session")
  BY <1>1, NewTokens
<1>5. token.number = nextSession /\ token.kind = "session"
  BY <1>1, <1>4, NewTokens
<1>6. PICK standing \in DefaultStandings(request[th].app) :
        LET user == [app |-> request[th].app,
                     uid |-> [form |-> "u", number |-> nextUser],
                     password |-> request[th].password, standing |-> standing] IN
        /\ users' = [k \in DOMAIN users \cup {KeyOf(th)} |->
                       IF k = KeyOf(th) THEN user ELSE users[k]]
        /\ sessions' = WithSession(NewToken(th, "session"), OwnerOf(user))
  BY DEF Register
<1>7. standing \in Standings /\ standing \in Due(request[th].app)
  BY <1>2, DefaultsDue
<1>8. nextUser \in Nat /\ HighestSeedId \in Nat /\ HighestSeedId < nextUser
  BY DEF IInv, TypeOK, UsersConsistent
<1>9. PICK user \in User :
        user = [app |-> request[th].app, uid |-> [form |-> "u", number |-> nextUser],
                password |-> request[th].password, standing |-> standing]
  BY <1>2, <1>7, <1>8 DEF User, Uid
<1>10. PICK owner \in Owner : owner = OwnerOf(user)
  BY DEF OwnerOf, Owner, User
<1>11. /\ users' = [k \in DOMAIN users \cup {key} |-> IF k = key THEN user ELSE users[k]]
       /\ sessions' = WithSession(token, owner)
  BY <1>3, <1>4, <1>6, <1>9, <1>10
<1>12. /\ nextSession' = nextSession + 1 /\ nextUser' = nextUser + 1
       /\ Answer(th, {token}) /\ clock' = clock
       /\ revoked' = revoked /\ lapsed' = lapsed /\ lost' = lost
       /\ key \notin DOMAIN users
  BY <1>3, <1>4 DEF Register
<1>13. /\ owner.standing \in Due(owner.app) /\ NoVisitor(owner.uid)
       /\ user.uid.form = "u" /\ user.uid.number = nextUser
       /\ user.standing \in Due(user.app)
  BY <1>7, <1>9, <1>10 DEF OwnerOf, NoVisitor
<1>14. nextUser' \in Nat /\ nextUser <= nextUser' /\ HighestSeedId < nextUser'
       /\ nextUser < nextUser'
  BY <1>8, <1>12
<1>15. /\ DOMAIN users' = DOMAIN users \cup {key} /\ users'[key] = user
       /\ \A k \in DOMAIN users : users'[k] = users[k]
  BY <1>11, <1>12
<1>16. DOMAIN users' \subseteq Keys /\ users' \in [DOMAIN users' -> User]
  BY <1>11, <1>15 DEF IInv, TypeOK
<1>17. Made(user.uid, "u")'
  BY <1>8, <1>13, <1>14 DEF Made
<1>18. user.uid \notin SeedUids
  <2>1. ASSUME NEW i \in DOMAIN SeedUsers, SeedUsers[i].uid = user.uid PROVE FALSE
    <3>1. nextUser <= HighestSeedId
      BY <1>13, <2>1, CounterAboveSeeds
    <3> QED BY <1>8, <3>1
  <2> QED BY <2>1 DEF SeedUids
<1>19. ASSUME NEW k \in DOMAIN users
       PROVE  /\ \/ users[k].uid \in SeedUids /\ k \in DOMAIN SeededUsers
                 \/ Made(users[k].uid, "u")'
              /\ users[k].uid # user.uid
  <2>1. PICK uid \in Uid : uid = users[k].uid
    BY DEF IInv, TypeOK, User
  <2>2. CASE uid \in SeedUids /\ k \in DOMAIN SeededUsers
    BY <1>18, <2>1, <2>2
  <2>3. CASE Made(uid, "u")
    <3>1. Made(uid, "u")'
      BY <1>8, <1>14, <2>3, MadeKept
    <3>2. Made(users[k].uid, "u")'
      BY <1>15, <2>1, <3>1 DEF Made
    <3>3. uid.number < nextUser /\ uid.number \in Nat
      BY <2>3 DEF Made, Uid
    <3>4. uid.number # user.uid.number
      BY <1>8, <1>13, <3>3
    <3> QED BY <2>1, <3>2, <3>4
  <2> QED BY <2>1, <2>2, <2>3 DEF IInv, UsersConsistent
<1>20. UsersConsistent'
  <2>1. \A k \in DOMAIN SeededUsers : k \in DOMAIN users' /\ users'[k] = SeededUsers[k]
    BY <1>15 DEF IInv, UsersConsistent
  <2>2. ASSUME NEW k \in DOMAIN users'
        PROVE  /\ \/ users'[k].uid \in SeedUids /\ k \in DOMAIN SeededUsers
                  \/ Made(users[k].uid, "u")'
               /\ users'[k].standing \in Due(users'[k].app)
    <3>1. CASE k = key
      BY <1>13, <1>15, <1>17, <3>1 DEF Made
    <3>2. CASE k \in DOMAIN users
      BY <1>15, <1>19, <3>2 DEF IInv, UsersConsistent
    <3> QED BY <1>15, <3>1, <3>2
  <2>3. ASSUME NEW j \in DOMAIN users', NEW k \in DOMAIN users',
               users'[j].uid = users'[k].uid
        PROVE  j = k \/ users'[j].uid \in SeedUids
    <3>1. CASE j \in DOMAIN users /\ k \in DOMAIN users
      BY <1>15, <2>3, <3>1 DEF IInv, UsersConsistent
    <3>2. CASE j = key /\ k \in DOMAIN users
      BY <1>15, <1>19, <2>3, <3>2
    <3>3. CASE j \in DOMAIN users /\ k = key
      BY <1>15, <1>19, <2>3, <3>3
    <3> QED BY <1>15, <3>1, <3>2, <3>3
  <2> QED BY <1>8, <1>14, <2>1, <2>2, <2>3 DEF UsersConsistent
<1>21. /\ pc' \in [Threads -> {"idle", "start", "anonymous", "handle", "remove"}]
       /\ request' \in [Threads -> Requests \cup {NoRequest}]
       /\ session' \in [Threads -> SUBSET Token]
       /\ granted' \in [Threads -> SUBSET Token]
       /\ given' = given \cup {token} /\ Others(th) /\ ThreadOK(th)'
  BY <1>12, AnswerEffect DEF IInv
<1>22. given \subseteq given' /\ given' \subseteq given \cup {token}
       /\ token \in given' \cup session'[th]
  BY <1>21
<1>23. IInv'
  BY <1>1, <1>5, <1>11, <1>12, <1>13, <1>14, <1>16, <1>20, <1>21, <1>22, Issued
<1>24. token \in DOMAIN sessions' /\ Store!Issue(token)
  BY <1>5, <1>11, <1>12, <1>22, IssueEffect
<1> QED BY <1>23, <1>24

LEMMA NextIInv == IInv /\ [Next]_vars => IInv'
<1> SUFFICES ASSUME IInv, [Next]_vars PROVE IInv'
  OBVIOUS
<1>1. ASSUME NEW th \in Threads, ThreadStep(th) PROVE IInv'
  BY <1>1, FailActionsIInv, LoginEffect, RegisterEffect, NoCredentialIInv,
     RefuseUnknownIInv, RemoveExpiredIInv, RefuseForeignIInv, RenewIInv,
     EnsureAnonymousEffect, HandleIInv, LogoutIInv DEF ThreadStep
<1>2. ASSUME NEW th \in Threads, NEW r \in Requests, Begin(th, r) PROVE IInv'
  BY <1>2, BeginIInv
<1>3. CASE SetClock \/ UNCHANGED vars
  BY <1>3, SetClockIInv
<1> QED BY <1>1, <1>2, <1>3 DEF Next

LEMMA AlwaysIInv == Spec => []IInv
BY InitIInv, NextIInv, PTL DEF Spec
----------------------------------------------------------------------------
(* The gateway's users, sessions and calls keep their types whatever the     *)
(* threads do between a call's holds of the mutex.                           *)
THEOREM TypeCorrect == Spec => []TypeOK
<1>1. IInv => TypeOK
  BY DEF IInv
<1> QED BY <1>1, AlwaysIInv, PTL

(* A uid the gateway makes up, for a registered user or a visitor, is nobody *)
(* else's, unless the configuration itself gives a user a uid of the form    *)
(* visitors get; and the standing copied to it is one of its own app's       *)
(* users (from_user_configs, register, ensure_anonymous_session).            *)
THEOREM IdentitiesAlwaysFresh == Spec => []IdentitiesFresh
<1>1. IInv => IdentitiesFresh
  <2> SUFFICES ASSUME IInv PROVE IdentitiesFresh
    OBVIOUS
  <2>1. ASSUME NEW k \in DOMAIN users, users[k].uid \in SeedUids
        PROVE  k \in DOMAIN SeededUsers
    <3> SUFFICES ASSUME Made(users[k].uid, "u") PROVE FALSE
      BY <2>1 DEF IInv, UsersConsistent
    <3>1. PICK i \in DOMAIN SeedUsers : SeedUsers[i].uid = users[k].uid
      BY <2>1 DEF SeedUids
    <3>2. PICK n \in Nat : n = SeedUsers[i].uid.number
      BY SeedFields
    <3>3. n <= HighestSeedId /\ n > HighestSeedId /\ HighestSeedId \in Nat
      BY <3>1, <3>2, CounterAboveSeeds DEF Made
    <3> QED BY <3>3
  <2> QED BY <2>1 DEF IInv, UsersConsistent, SessionsConsistent, Due, IdentitiesFresh
<1> QED BY <1>1, AlwaysIInv, PTL

(* Every live session was handed to a client, or is held by a running call,  *)
(* or is a visitor's whose call failed or opened a stream.                   *)
THEOREM SessionsAlwaysReachClients == Spec => []SessionsReachClients
<1>1. IInv => SessionsReachClients
  BY DEF IInv
<1> QED BY <1>1, AlwaysIInv, PTL

\* A call's step leaves the place of the others alone.
LEMMA StepIsOwn ==
  ASSUME IInv, NEW th \in Threads, ThreadStep(th), NEW o \in Threads \ {th}
  PROVE  pc'[o] = pc[o]
<1>1. pc' = pc \/ \E place : pc' = [pc EXCEPT ![th] = place]
  BY DEF ThreadStep, RefuseLogin, Login, RefuseRegister, Register, NoCredential,
     RefuseUnknown, RemoveExpired, RefuseForeign, Renew, EnsureAnonymous, Handle,
     HandlerFails, RefuseLogout, Logout, Fail, AfterRefusal, AnswerWithout, Answer, Goto
<1> QED BY <1>1 DEF IInv, TypeOK

LEMMA IdentityKeptStep ==
  ASSUME IInv, [Next]_vars, NEW th \in Threads,
         pc[th] = "handle", request[th].op = "app", ByCookie(th),
         pc'[th] = "idle", granted'[th] # {},
         NEW t \in (request[th].cookie \ granted'[th]) \cap DOMAIN sessions
  PROVE  sessions[t].owner.app # request[th].app
<1>1. pc \in [Threads -> {"idle", "start", "anonymous", "handle", "remove"}]
  BY DEF IInv, TypeOK
<1>2. granted \in [Threads -> SUBSET Token] /\ session[th] \in SUBSET Token
  BY DEF IInv, TypeOK
<1>3. CASE SetClock \/ UNCHANGED vars
  BY <1>3 DEF SetClock, vars
<1>4. ASSUME NEW o \in Threads, NEW r \in Requests, Begin(o, r) PROVE FALSE
  BY <1>1, <1>4 DEF Begin, Goto
<1>5. ASSUME NEW o \in Threads, o # th, ThreadStep(o) PROVE FALSE
  BY <1>5, StepIsOwn
<1>6. CASE HandlerFails(th)
  BY <1>2, <1>6 DEF HandlerFails, Fail, AnswerWithout, Answer
<1>7. CASE Handle(th)
  <2>1. granted' = [granted EXCEPT ![th] = session[th]]
    BY <1>7 DEF Handle, Answer
  <2>2. granted'[th] = session[th]
    BY <1>2, <2>1, Zenon
  <2>3. Renounced(th)
    BY <2>2 DEF IInv, ThreadOK
  <2> QED BY <2>2, <2>3 DEF Renounced
<1>8. CASE ThreadStep(th) /\ ~HandlerFails(th) /\ ~Handle(th)
  BY <1>8 DEF ThreadStep, RefuseLogin, Login, RefuseRegister, Register, NoCredential,
     RefuseUnknown, RemoveExpired, RefuseForeign, Renew, EnsureAnonymous,
     RefuseLogout, Logout, Asked, Resolving
<1> QED BY <1>3, <1>4, <1>5, <1>6, <1>7, <1>8 DEF Next

(* An app's answer carries another session than the cookie's only when that  *)
(* one is gone or is of another app, at the moment of the answer.            *)
THEOREM IdentityIsKept == Spec => IdentityKept
<1>1. IInv /\ [Next]_vars =>
        [\A th \in Threads :
           pc[th] = "handle" /\ request[th].op = "app" /\ ByCookie(th)
           /\ pc'[th] = "idle" /\ granted'[th] # {}
           => \A t \in (request[th].cookie \ granted'[th]) \cap DOMAIN sessions :
                sessions[t].owner.app # request[th].app]_vars
  BY IdentityKeptStep
<1> QED BY <1>1, AlwaysIInv, PTL DEF Spec, IdentityKept
----------------------------------------------------------------------------
LEMMA InitSimulates == Init => Store!Init
BY DEF Init, Store!Init

LEMMA RenewSimulates ==
  ASSUME IInv, NEW th \in Threads, Renew(th)
  PROVE  \E t \in DOMAIN sessions : Store!Renew(t)
<1>1. PICK t \in DOMAIN sessions :
        /\ ~Expired(t) /\ sessions' = [sessions EXCEPT ![t].expires = RenewedExpiry(t)]
        /\ clock' = clock /\ revoked' = revoked /\ lapsed' = lapsed
  BY DEF Renew
<1>2. sessions[t].expires \in Nat /\ clock \in Nat
  BY SessionsAssumption DEF IInv, TypeOK, Session
<1>3. sessions[t].expires > clock
  BY <1>1, <1>2 DEF Expired
<1> QED BY <1>1, <1>3 DEF RenewedExpiry, Store!Renew

LEMMA RemoveExpiredSimulates ==
  ASSUME IInv, NEW th \in Threads, RemoveExpired(th)
  PROVE  \E t \in DOMAIN sessions : Store!Lapse(t)
<1>1. PICK t \in DOMAIN sessions :
        /\ Expired(t) /\ sessions' = Without(t) /\ lapsed' = lapsed \cup {t}
        /\ clock' = clock /\ revoked' = revoked
  BY DEF RemoveExpired
<1>2. sessions' = Store!Without(t)
  BY <1>1, Removal DEF IInv
<1> QED BY <1>1, <1>2 DEF Expired, Store!Lapse

LEMMA LogoutSimulates ==
  ASSUME IInv, NEW th \in Threads, Logout(th)
  PROVE  \E t \in DOMAIN sessions : Store!Revoke(t)
<1>1. PICK t \in DOMAIN sessions :
        /\ sessions' = Without(t) /\ revoked' = revoked \cup {t}
        /\ clock' = clock /\ lapsed' = lapsed
  BY DEF Logout
<1>2. sessions' = Store!Without(t)
  BY <1>1, Removal DEF IInv
<1> QED BY <1>1, <1>2 DEF Store!Revoke

LEMMA OtherSimulates ==
  ASSUME sessions' = sessions, revoked' = revoked, lapsed' = lapsed, clock' = clock
  PROVE  UNCHANGED Store!storeVars
BY DEF Store!storeVars

LEMMA StepSimulates ==
  ASSUME IInv, [Next]_vars
  PROVE  [Store!Next]_(Store!storeVars)
<1>1. ASSUME NEW th \in Threads, ThreadStep(th)
      PROVE  [Store!Next]_(Store!storeVars)
  <2>1. CASE Login(th) \/ Register(th) \/ EnsureAnonymous(th)
    BY <2>1, LoginEffect, RegisterEffect, EnsureAnonymousEffect DEF Store!Next
  <2>2. CASE Renew(th) \/ RemoveExpired(th) \/ Logout(th)
    BY <2>2, RenewSimulates, RemoveExpiredSimulates, LogoutSimulates DEF Store!Next
  <2>3. CASE \/ RefuseLogin(th) \/ RefuseRegister(th) \/ NoCredential(th)
             \/ RefuseUnknown(th) \/ RefuseForeign(th) \/ Handle(th)
             \/ HandlerFails(th) \/ RefuseLogout(th)
    <3>1. sessions' = sessions /\ revoked' = revoked /\ lapsed' = lapsed
          /\ clock' = clock
      BY <2>3 DEF RefuseLogin, RefuseRegister, NoCredential, RefuseUnknown,
         RefuseForeign, Handle, HandlerFails, RefuseLogout, Fail, auth
    <3> QED BY <3>1, OtherSimulates
  <2> QED BY <1>1, <2>1, <2>2, <2>3 DEF ThreadStep
<1>2. ASSUME NEW th \in Threads, NEW r \in Requests, Begin(th, r)
      PROVE  UNCHANGED Store!storeVars
  BY <1>2, OtherSimulates DEF Begin, auth, history
<1>3. CASE SetClock
  BY <1>3 DEF SetClock, auth, history, Store!Next, Store!SetClock
<1>4. CASE UNCHANGED vars
  BY <1>4, OtherSimulates DEF vars
<1> QED BY <1>1, <1>2, <1>3, <1>4 DEF Next

(* However the holds of the mutex of several calls interleave, and whether   *)
(* or not their handlers fail, the table issues a token once, renews it only *)
(* in time, and never takes back one it removed.                             *)
THEOREM SessionStoreImplemented == Spec => ImplementsSessionStore
<1>1. IInv /\ [Next]_vars => [Store!Next]_(Store!storeVars)
  BY StepSimulates
<1> QED BY <1>1, InitSimulates, AlwaysIInv, PTL
        DEF Spec, ImplementsSessionStore, Store!Spec
=============================================================================
