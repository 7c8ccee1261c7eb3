------------------------- MODULE UserProviderProofs -------------------------
(***************************************************************************)
(* Proofs about UserProvider for any number of connections, sessions and   *)
(* restarts: what the provider's map and the service's table still agree   *)
(* on when calls and answers are lost and either side forgets everything.  *)
(***************************************************************************)
EXTENDS UserProvider, TLAPS

Ops == {"login", "register", "anonymous", "me", "logout"}
Places == {"idle", "start", "known", "gone",
           "login", "register", "ensureAnonymousSession", "me", "logout"}
Reply == [outcome : {"none", "ok", "error"}, token : SUBSET Token]
Call == [app : Apps, method : Places, token : SUBSET Token]

ThreadsTyped ==
  /\ pc \in [Threads -> Places]
  /\ request \in [Threads -> Requests \cup {NoRequest}]
  /\ reply \in [Threads -> Reply]
  /\ flight \in [Threads -> SUBSET Call]
  /\ began \in [Threads -> Nat]
  /\ stale \in [Threads -> SUBSET Token]

\* The provider's map is right in what it says.
MapOK ==
  /\ DOMAIN token_apps \subseteq Token
  /\ \A t \in DOMAIN token_apps : token_apps[t] = t.app

\* The service's numbers in use are used up, and what was revoked is gone.
ServiceOK ==
  /\ live \subseteq Token /\ revoked \subseteq Token /\ given \subseteq Token
  /\ next \in Nat \ {0} /\ incarnation \in Nat \ {0}
  /\ \A t \in live \cup revoked \cup given : t.number < next
  /\ revoked \cap live = {}

GivenKnown == \A t \in (given \cap live) \ crossed : t \in DOMAIN token_apps

Presented(th) == request[th].bearer \cup request[th].cookie

\* What a request carries from one call to the next: the calls it makes are
\* its own, what they answered was not revoked when it began, and in the
\* incarnation it began in, a logout that succeeded is not undone.
ThreadOK(th) ==
  /\ pc[th] \notin {"idle", "gone"} => request[th] \in Requests
  /\ pc[th] \in {"idle", "gone"} => reply[th].token = {}
  /\ flight[th] # {} => reply[th].outcome = "none"
  /\ began[th] <= incarnation
  /\ stale[th] \subseteq revoked
  /\ reply[th].token \cap stale[th] = {}
  /\ began[th] = incarnation => \A t \in reply[th].token : t.number < next
  /\ pc[th] # "gone" => \A c \in flight[th] :
       /\ c.method = pc[th] /\ pc[th] \notin {"idle", "start", "known"}
       /\ pc[th] \in {"me", "logout"} => c.token = Presented(th)
  /\ pc[th] \in {"me", "known"} => reply[th].token \subseteq Presented(th)
  /\ pc[th] \in {"login", "register", "ensureAnonymousSession"} =>
       request[th].op \notin {"me", "logout"}
  /\ pc[th] = "logout" /\ reply[th].outcome = "ok" /\ began[th] = incarnation =>
       \A t \in Presented(th) : t \notin live /\ t.number < next

IInv ==
  /\ ThreadsTyped /\ MapOK /\ ServiceOK /\ GivenKnown
  /\ overdue = {}
  /\ \A th \in Threads : ThreadOK(th)

----------------------------------------------------------------------------
\* What a step of one connection leaves alone in the others
Others(th) == \A o \in Threads \ {th} :
  /\ pc'[o] = pc[o] /\ request'[o] = request[o] /\ reply'[o] = reply[o]
  /\ flight'[o] = flight[o] /\ began'[o] = began[o] /\ stale'[o] = stale[o]

\* Nothing the others rely on is undone.
Onward ==
  /\ incarnation' = incarnation /\ revoked \subseteq revoked'
  /\ next' \in Nat /\ next <= next'
  /\ \A t \in Token : t.number < next /\ t \notin live => t \notin live'

LEMMA RequestFields ==
  ASSUME NEW r \in Requests
  PROVE  /\ r.op \in Ops /\ r.app \in Apps
         /\ r.bearer \subseteq Token /\ r.cookie \subseteq Token
         /\ r.bearer \cup r.cookie # {} <=> r.op \in {"me", "logout"}
         /\ \A s, t \in r.bearer \cup r.cookie : s = t
BY ProviderAssumption DEF Request, Ops

LEMMA InitIInv == Init => IInv
<1> SUFFICES ASSUME Init PROVE IInv
  OBVIOUS
<1>1. ThreadsTyped
  <2>1. /\ pc \in [Threads -> Places] /\ request \in [Threads -> Requests \cup {NoRequest}]
        /\ began \in [Threads -> Nat]
    BY DEF Init, Places
  <2>2. NoReply \in Reply
    BY DEF NoReply, Reply
  <2>3. reply \in [Threads -> Reply]
    BY <2>2 DEF Init
  <2>4. flight \in [Threads -> SUBSET Call] /\ stale \in [Threads -> SUBSET Token]
    BY Zenon DEF Init
  <2> QED BY <2>1, <2>3, <2>4 DEF ThreadsTyped
<1>2. MapOK /\ ServiceOK /\ GivenKnown /\ overdue = {}
  BY DEF Init, MapOK, ServiceOK, GivenKnown
<1>3. ASSUME NEW th \in Threads PROVE ThreadOK(th)
  BY DEF Init, ThreadOK, NoReply
<1> QED BY <1>1, <1>2, <1>3 DEF IInv

LEMMA OthersOK ==
  ASSUME IInv, NEW th \in Threads, Others(th), Onward
  PROVE  \A o \in Threads \ {th} : ThreadOK(o)'
<1> SUFFICES ASSUME NEW o \in Threads \ {th} PROVE ThreadOK(o)'
  OBVIOUS
<1>1. /\ ThreadOK(o) /\ next \in Nat
      /\ pc'[o] = pc[o] /\ request'[o] = request[o] /\ reply'[o] = reply[o]
      /\ flight'[o] = flight[o] /\ began'[o] = began[o] /\ stale'[o] = stale[o]
  BY DEF IInv, Others, ServiceOK
<1>2. Presented(o)' = Presented(o)
  BY <1>1 DEF Presented
<1>3. reply[o].token \subseteq Token
  BY DEF IInv, ThreadsTyped, Reply
<1>4. ASSUME NEW t \in Token, t.number < next PROVE t.number < next'
  <2>1. t.number \in Nat
    BY DEF Token
  <2> QED BY <1>1, <1>4, <2>1 DEF Onward
<1>5. pc[o] \notin {"idle", "gone"} => Presented(o) \subseteq Token
  BY <1>1, RequestFields DEF ThreadOK, Presented
<1>6. began[o] = incarnation => \A t \in reply[o].token : t.number < next'
  BY <1>1, <1>3, <1>4 DEF ThreadOK
<1>7. pc[o] = "logout" /\ reply[o].outcome = "ok" /\ began[o] = incarnation =>
        \A t \in Presented(o) : t \notin live' /\ t.number < next'
  BY <1>1, <1>4, <1>5 DEF ThreadOK, Onward
<1>8. began[o] <= incarnation /\ incarnation' = incarnation /\ revoked \subseteq revoked'
  BY <1>1 DEF ThreadOK, Onward
<1> QED BY <1>1, <1>2, <1>6, <1>7, <1>8 DEF ThreadOK

\* A connection's step that changes neither the map nor the service
LEMMA QuietIInv ==
  ASSUME IInv, NEW th \in Threads, Others(th), ThreadsTyped', ThreadOK(th)',
         token_apps' = token_apps, live' = live, next' = next,
         incarnation' = incarnation, given' = given, revoked' = revoked,
         crossed \subseteq crossed', overdue' = overdue
  PROVE  IInv'
<1>1. MapOK' /\ ServiceOK' /\ GivenKnown' /\ overdue' = {}
  BY DEF IInv, MapOK, ServiceOK, GivenKnown
<1>2. Onward
  BY DEF IInv, ServiceOK, Onward
<1>3. \A o \in Threads \ {th} : ThreadOK(o)'
  BY <1>2, OthersOK
<1> QED BY <1>1, <1>3 DEF IInv

LEMMA AnswerEffect ==
  ASSUME ThreadsTyped, NEW th \in Threads, NEW tokens \in SUBSET Token,
         Answer(th, tokens), flight' = flight, incarnation' = incarnation,
         incarnation \in Nat, pc[th] # "gone" => flight[th] = {}
  PROVE  ThreadsTyped' /\ Others(th) /\ (pc[th] # "gone" => ThreadOK(th)')
<1>1. /\ pc' = [pc EXCEPT ![th] = "idle"]
      /\ request' = [request EXCEPT ![th] = NoRequest]
      /\ reply' = [reply EXCEPT ![th] = NoReply]
      /\ began' = [began EXCEPT ![th] = 0]
      /\ stale' = [stale EXCEPT ![th] = {}]
  BY DEF Answer, Goto
<1>2. NoReply \in Reply /\ NoReply.token = {}
  BY DEF NoReply, Reply
<1>3. ThreadsTyped'
  <2>1. pc' \in [Threads -> Places] /\ request' \in [Threads -> Requests \cup {NoRequest}]
        /\ began' \in [Threads -> Nat]
    BY <1>1 DEF ThreadsTyped, Places
  <2>2. reply' \in [Threads -> Reply]
    BY <1>1, <1>2 DEF ThreadsTyped
  <2>3. stale' \in [Threads -> SUBSET Token]
    BY <1>1, Zenon DEF ThreadsTyped
  <2> QED BY <2>1, <2>2, <2>3 DEF ThreadsTyped
<1>4. /\ Others(th) /\ pc'[th] = "idle" /\ reply'[th] = NoReply
      /\ began'[th] = 0 /\ stale'[th] = {}
  BY <1>1 DEF Others, ThreadsTyped
<1>5. ASSUME pc[th] # "gone" PROVE ThreadOK(th)'
  <2>1. flight'[th] = {}
    BY <1>5
  <2>2. 0 <= incarnation'
    OBVIOUS
  <2> QED BY <1>2, <1>4, <2>1, <2>2 DEF ThreadOK
<1> QED BY <1>3, <1>4, <1>5

LEMMA BeginIInv ==
  ASSUME IInv, NEW th \in Threads, NEW r \in Requests, Begin(th, r)
  PROVE  IInv'
<1>1. /\ pc[th] = "idle" /\ pc' = [pc EXCEPT ![th] = "start"]
      /\ request' = [request EXCEPT ![th] = r]
      /\ began' = [began EXCEPT ![th] = incarnation]
      /\ stale' = [stale EXCEPT ![th] = revoked]
      /\ reply' = reply /\ flight' = flight
  BY DEF Begin, Goto
<1>2. /\ token_apps' = token_apps /\ live' = live /\ next' = next
      /\ incarnation' = incarnation /\ given' = given /\ revoked' = revoked
      /\ crossed' = crossed /\ overdue' = overdue
  BY DEF Begin, service, history
<1>3. incarnation \in Nat /\ revoked \subseteq Token
  BY DEF IInv, ServiceOK
<1>4. ThreadsTyped'
  <2>1. /\ pc' \in [Threads -> Places] /\ request' \in [Threads -> Requests \cup {NoRequest}]
        /\ began' \in [Threads -> Nat]
    BY <1>1, <1>3 DEF IInv, ThreadsTyped, Places
  <2>2. stale' \in [Threads -> SUBSET Token]
    BY <1>1, <1>3 DEF IInv, ThreadsTyped
  <2> QED BY <1>1, <2>1, <2>2 DEF IInv, ThreadsTyped
<1>5. /\ Others(th) /\ pc'[th] = "start" /\ request'[th] = r
      /\ began'[th] = incarnation /\ stale'[th] = revoked
  BY <1>1 DEF Others, IInv, ThreadsTyped
<1>6. flight[th] = {} /\ reply[th].token = {}
  BY <1>1 DEF IInv, ThreadOK
<1>7. ThreadOK(th)'
  BY <1>1, <1>2, <1>3, <1>5, <1>6 DEF ThreadOK
<1> QED BY <1>2, <1>4, <1>5, <1>7, QuietIInv

\* invoke: the call is the request's own.
LEMMA InvokeEffect ==
  ASSUME IInv, NEW th \in Threads, NEW app \in Apps,
         NEW method \in Places \ {"idle", "start", "known", "gone"},
         NEW tokens \in SUBSET Token, Invoke(th, app, method, tokens),
         pc[th] \notin {"idle", "gone"},
         method \in {"me", "logout"} => tokens = Presented(th),
         method \notin {"me", "logout"} => request[th].op \notin {"me", "logout"},
         request' = request, incarnation' = incarnation, revoked' = revoked,
         live' = live, next' = next, began' = began, stale' = stale
  PROVE  ThreadsTyped' /\ Others(th) /\ ThreadOK(th)'
<1>1. PICK c \in Call : c = [app |-> app, method |-> method, token |-> tokens]
  BY DEF Call
<1>2. /\ pc' = [pc EXCEPT ![th] = method] /\ flight' = [flight EXCEPT ![th] = {c}]
      /\ reply' = [reply EXCEPT ![th] = NoReply]
  BY <1>1 DEF Invoke, Goto
<1>3. NoReply \in Reply /\ NoReply.token = {} /\ NoReply.outcome = "none"
  BY DEF NoReply, Reply
<1>4. ThreadsTyped'
  <2>1. {c} \in SUBSET Call
    OBVIOUS
  <2>2. flight' \in [Threads -> SUBSET Call]
    BY <1>2, <2>1 DEF IInv, ThreadsTyped
  <2>3. reply' \in [Threads -> Reply]
    BY <1>2, <1>3 DEF IInv, ThreadsTyped
  <2>4. pc' \in [Threads -> Places]
    BY <1>2 DEF IInv, ThreadsTyped
  <2> QED BY <2>2, <2>3, <2>4 DEF IInv, ThreadsTyped
<1>5. /\ Others(th) /\ pc'[th] = method /\ reply'[th] = NoReply /\ flight'[th] = {c}
  BY <1>2 DEF Others, IInv, ThreadsTyped
<1>6. Presented(th)' = Presented(th) /\ ThreadOK(th)
  BY DEF Presented, IInv
<1>7. c.method = method /\ c.token = tokens
  BY <1>1
<1>8. /\ method \notin {"idle", "start", "known", "gone"}
      /\ request[th] \in Requests /\ began[th] <= incarnation /\ stale[th] \subseteq revoked
  BY <1>6 DEF ThreadOK
<1>9. ThreadOK(th)'
  BY <1>3, <1>5, <1>6, <1>7, <1>8 DEF ThreadOK
<1> QED BY <1>4, <1>5, <1>9

LEMMA FirstMethods ==
  ASSUME NEW op \in Ops
  PROVE  /\ FirstMethod[op] \in Places \ {"idle", "start", "known", "gone"}
         /\ FirstMethod[op] # "logout"
         /\ FirstMethod[op] = "me" <=> op \in {"me", "logout"}
BY DEF Ops, FirstMethod, Places

LEMMA CallForAppIInv ==
  ASSUME IInv, NEW th \in Threads, CallForApp(th)
  PROVE  IInv'
<1>1. pc[th] = "start" /\ request[th] \in Requests
  BY DEF CallForApp, IInv, ThreadOK
<1>2. PICK app \in Apps : app = request[th].app
  BY <1>1, RequestFields
<1>3. request[th].op \in Ops /\ request[th].cookie \subseteq Token
  BY <1>1, RequestFields
<1>4. PICK method \in Places \ {"idle", "start", "known", "gone"} :
        method = FirstMethod[request[th].op]
  BY <1>3, FirstMethods
<1>5. PICK tokens \in SUBSET Token : tokens = request[th].cookie
  BY <1>3
<1>6. Invoke(th, app, method, tokens)
  BY <1>2, <1>4, <1>5 DEF CallForApp
<1>7. /\ tokens = Presented(th)
      /\ method \notin {"me", "logout"} => request[th].op \notin {"me", "logout"}
  BY <1>3, <1>4, <1>5, FirstMethods DEF CallForApp, Presented
<1>8. /\ request' = request /\ incarnation' = incarnation /\ revoked' = revoked
      /\ live' = live /\ next' = next /\ began' = began /\ stale' = stale
      /\ token_apps' = token_apps /\ given' = given /\ crossed' = crossed
      /\ overdue' = overdue
  BY DEF CallForApp, service, thread, history
<1>9. ThreadsTyped' /\ Others(th) /\ ThreadOK(th)'
  BY <1>1, <1>6, <1>7, <1>8, InvokeEffect
<1> QED BY <1>8, <1>9, QuietIInv

LEMMA CallForTokenIInv ==
  ASSUME IInv, NEW th \in Threads, CallForToken(th)
  PROVE  IInv'
<1>1. pc[th] = "start" /\ request[th] \in Requests
  BY DEF CallForToken, IInv, ThreadOK
<1>2. PICK t \in request[th].bearer \cap DOMAIN token_apps :
        Invoke(th, token_apps[t], "me", {t})
  BY DEF CallForToken
<1>3. t \in Token /\ \A s \in Presented(th) : s = t
  BY <1>1, <1>2, RequestFields DEF Presented
<1>4. PICK app \in Apps : app = token_apps[t]
  BY <1>2, <1>3 DEF IInv, MapOK, Token
<1>5. PICK tokens \in SUBSET Token : tokens = {t}
  BY <1>3
<1>6. tokens = Presented(th)
  BY <1>2, <1>3, <1>5 DEF Presented
<1>7. /\ request' = request /\ incarnation' = incarnation /\ revoked' = revoked
      /\ live' = live /\ next' = next /\ began' = began /\ stale' = stale
      /\ token_apps' = token_apps /\ given' = given /\ crossed' = crossed
      /\ overdue' = overdue
  BY DEF CallForToken, service, thread, history
<1>8. "me" \in Places \ {"idle", "start", "known", "gone"}
  BY DEF Places
<1>9. ThreadsTyped' /\ Others(th) /\ ThreadOK(th)'
  BY <1>1, <1>2, <1>4, <1>5, <1>6, <1>7, <1>8, InvokeEffect
<1> QED BY <1>7, <1>9, QuietIInv

LEMMA CallLogoutIInv ==
  ASSUME IInv, NEW th \in Threads, CallLogout(th)
  PROVE  IInv'
<1>1. pc[th] = "known" /\ request[th] \in Requests /\ reply[th].token \subseteq Presented(th)
  BY DEF CallLogout, IInv, ThreadOK
<1>2. PICK t \in reply[th].token \cap DOMAIN token_apps :
        Invoke(th, token_apps[t], "logout", {t})
  BY DEF CallLogout
<1>3. t \in Presented(th) /\ \A s \in Presented(th) : s = t
  BY <1>1, <1>2, RequestFields DEF Presented
<1>4. t \in Token /\ token_apps[t] \in Apps
  BY <1>2 DEF IInv, MapOK, Token
<1>5. PICK app \in Apps : app = token_apps[t]
  BY <1>4
<1>6. PICK tokens \in SUBSET Token : tokens = {t}
  BY <1>4
<1>7. tokens = Presented(th)
  BY <1>3, <1>6
<1>8. /\ request' = request /\ incarnation' = incarnation /\ revoked' = revoked
      /\ live' = live /\ next' = next /\ began' = began /\ stale' = stale
      /\ token_apps' = token_apps /\ given' = given /\ crossed' = crossed
      /\ overdue' = overdue
  BY DEF CallLogout, service, thread, history
<1>9. "logout" \in Places \ {"idle", "start", "known", "gone"}
  BY DEF Places
<1>10. ThreadsTyped' /\ Others(th) /\ ThreadOK(th)'
  BY <1>1, <1>2, <1>5, <1>6, <1>7, <1>8, <1>9, InvokeEffect
<1> QED BY <1>8, <1>10, QuietIInv

\* The refusals: an answer without a token.
LEMMA RefuseIInv ==
  ASSUME IInv, NEW th \in Threads,
         RefuseAtOnce(th) \/ RefuseCall(th) \/ RefuseLogout(th)
  PROVE  IInv'
<1>1. /\ Answer(th, {}) /\ pc[th] # "gone"
      /\ token_apps' = token_apps /\ live' = live /\ next' = next
      /\ incarnation' = incarnation /\ flight' = flight /\ revoked' = revoked
  BY DEF RefuseAtOnce, RefuseCall, RefuseLogout, service
<1>2. given' = given /\ overdue' = overdue /\ crossed \subseteq crossed'
  BY <1>1 DEF Answer
<1>3. ThreadsTyped /\ incarnation \in Nat /\ flight[th] = {}
  BY DEF IInv, ServiceOK, ThreadOK, RefuseAtOnce, RefuseCall, RefuseLogout
<1>4. ThreadsTyped' /\ Others(th) /\ ThreadOK(th)'
  BY <1>1, <1>3, AnswerEffect
<1> QED BY <1>1, <1>2, <1>4, QuietIInv

----------------------------------------------------------------------------
\* The call's answer came back, is lost, or was for a gateway that is gone.
LEMMA ReturnEffect ==
  ASSUME IInv, NEW th \in Threads, NEW outcome \in {"ok", "error"},
         NEW tokens \in SUBSET Token, Return(th, outcome, tokens),
         flight[th] # {}, flight' = [flight EXCEPT ![th] = {}],
         request' = request, began' = began, stale' = stale,
         incarnation' = incarnation, revoked' = revoked, next' \in Nat, next <= next',
         pc[th] # "gone" => tokens \cap stale[th] = {},
         began[th] = incarnation => \A t \in tokens : t.number < next',
         pc[th] \in {"me", "known"} => tokens \subseteq Presented(th),
         pc[th] = "logout" /\ outcome = "ok" /\ began[th] = incarnation =>
           \A t \in Presented(th) : t \notin live' /\ t.number < next'
  PROVE  ThreadsTyped' /\ Others(th) /\ ThreadOK(th)'
<1>1. ThreadsTyped /\ ThreadOK(th) /\ next \in Nat /\ incarnation \in Nat
  BY DEF IInv, ServiceOK
<1>2. /\ flight' \in [Threads -> SUBSET Call] /\ flight'[th] = {}
      /\ \A o \in Threads \ {th} : flight'[o] = flight[o]
  BY <1>1, Zenon DEF ThreadsTyped
<1>3. Presented(th)' = Presented(th)
  BY DEF Presented
<1>4. CASE pc[th] = "gone"
  <2>1. pc' = [pc EXCEPT ![th] = "idle"] /\ reply' = reply
    BY <1>4 DEF Return, Goto
  <2>2. ThreadsTyped' /\ Others(th) /\ pc'[th] = "idle"
    BY <1>1, <1>2, <2>1 DEF ThreadsTyped, Others, Places
  <2> QED BY <1>1, <1>2, <1>4, <2>1, <2>2 DEF ThreadOK
<1>5. CASE pc[th] # "gone"
  <2>1. PICK r \in Reply : r = [outcome |-> outcome, token |-> tokens]
    BY DEF Reply
  <2>2. pc' = pc /\ reply' = [reply EXCEPT ![th] = r]
    BY <1>5, <2>1 DEF Return
  <2>3. ThreadsTyped' /\ Others(th) /\ reply'[th] = r
    BY <1>1, <1>2, <2>2 DEF ThreadsTyped, Others
  <2>4. r.outcome = outcome /\ r.token = tokens
    BY <2>1
  <2>5. pc[th] \notin {"idle", "gone", "start", "known"}
    BY <1>1, <1>5 DEF ThreadOK
  <2>6. /\ request[th] \in Requests /\ began[th] <= incarnation /\ stale[th] \subseteq revoked
    BY <1>1, <2>5 DEF ThreadOK
  <2>7. /\ pc'[th] = pc[th] /\ request'[th] = request[th] /\ began'[th] = began[th]
        /\ stale'[th] = stale[th] /\ revoked' = revoked /\ incarnation' = incarnation
    BY <2>2
  <2>8. pc[th] \in {"login", "register", "ensureAnonymousSession"} =>
          request[th].op \notin {"me", "logout"}
    BY <1>1 DEF ThreadOK
  <2>9. reply'[th].outcome = outcome /\ reply'[th].token = tokens
    BY <2>3, <2>4
  <2> QED BY <1>2, <1>3, <1>5, <2>3, <2>5, <2>6, <2>7, <2>8, <2>9 DEF ThreadOK
<1> QED BY <1>4, <1>5

\* A call that was not carried out
LEMMA NotServedIInv ==
  ASSUME IInv, NEW th \in Threads, NotFound(th) \/ LoseCall(th)
  PROVE  IInv'
<1>1. /\ flight[th] # {} /\ flight' = [flight EXCEPT ![th] = {}]
      /\ Return(th, "error", {})
      /\ request' = request /\ incarnation' = incarnation /\ revoked' = revoked
      /\ live' = live /\ next' = next /\ began' = began /\ stale' = stale
      /\ token_apps' = token_apps /\ given' = given /\ crossed' = crossed
      /\ overdue' = overdue
  BY DEF NotFound, LoseCall, service, thread, history
<1>2. next' \in Nat /\ next <= next'
  BY <1>1 DEF IInv, ServiceOK
<1>3. {} \in SUBSET Token /\ {} \cap stale[th] = {} /\ {} \subseteq Presented(th)
      /\ \A t \in {} : t.number < next'
  OBVIOUS
<1>4. ThreadsTyped' /\ Others(th) /\ ThreadOK(th)'
  BY <1>1, <1>2, <1>3, ReturnEffect
<1> QED BY <1>1, <1>4, QuietIInv

\* A call the service carried out: what its handler may do to the sessions
LEMMA CarriedIInv ==
  ASSUME IInv, NEW th \in Threads, NEW outcome \in {"ok", "error"},
         NEW tokens \in SUBSET Token, Carried(th, outcome, tokens), flight[th] # {},
         live' \subseteq Token, next' \in Nat \ {0}, next <= next',
         \A t \in Token : t.number < next /\ t \notin live => t \notin live',
         \A t \in live' \cup tokens : t.number < next',
         pc[th] # "gone" => tokens \cap stale[th] = {},
         pc[th] = "me" => tokens \subseteq Presented(th),
         pc[th] = "logout" /\ outcome = "ok" /\ pc[th] # "gone" =>
           \A t \in Presented(th) : t \notin live' /\ t.number < next'
  PROVE  IInv'
<1>1. /\ flight' = [flight EXCEPT ![th] = {}]
      /\ Return(th, outcome, tokens) \/ Return(th, "error", {})
      /\ request' = request /\ incarnation' = incarnation /\ revoked' = revoked
      /\ began' = began /\ stale' = stale
      /\ token_apps' = token_apps /\ given' = given /\ crossed' = crossed
      /\ overdue' = overdue
  BY DEF Carried, thread, history
<1>2. ThreadOK(th) /\ next \in Nat /\ revoked \cup given \subseteq Token
      /\ revoked \cap live = {} /\ pc[th] # "known"
      /\ \A t \in revoked \cup given : t.number < next
  BY DEF IInv, ServiceOK, ThreadOK
<1>3. ThreadsTyped' /\ Others(th) /\ ThreadOK(th)'
  <2>1. CASE Return(th, outcome, tokens)
    BY <1>1, <1>2, <2>1, ReturnEffect
  <2>2. CASE Return(th, "error", {})
    BY <1>1, <1>2, <2>2, ReturnEffect
  <2> QED BY <1>1, <2>1, <2>2
<1>4. ASSUME NEW t \in revoked \cup given PROVE t.number < next'
  <2>1. t.number \in Nat
    BY <1>2 DEF Token
  <2> QED BY <1>2, <2>1
<1>5. ServiceOK'
  <2>1. revoked \cap live' = {}
    BY <1>2
  <2> QED BY <1>1, <1>4, <2>1 DEF IInv, ServiceOK
<1>6. MapOK' /\ GivenKnown' /\ overdue' = {}
  <2>1. \A t \in given : t \in live' => t \in live
    BY <1>2
  <2> QED BY <1>1, <2>1 DEF IInv, MapOK, GivenKnown
<1>7. Onward
  BY <1>1 DEF Onward
<1>8. \A o \in Threads \ {th} : ThreadOK(o)'
  BY <1>3, <1>7, OthersOK
<1> QED BY <1>3, <1>5, <1>6, <1>8 DEF IInv

LEMMA CallsOwn ==
  ASSUME IInv, NEW th \in Threads
  PROVE  \A methods : \A c \in Served(th, methods) :
           /\ flight[th] # {} /\ c.app \in Apps /\ c.token \subseteq Token
           /\ pc[th] # "gone" => pc[th] = c.method /\ c.method \in methods
           /\ pc[th] \in {"me", "logout"} => c.token \subseteq Presented(th)
<1>1. \A c \in flight[th] : c.app \in Apps /\ c.token \subseteq Token
  BY DEF IInv, ThreadsTyped, Call
<1> QED BY <1>1 DEF IInv, ThreadOK, Served

LEMMA ServeIssueIInv ==
  ASSUME IInv, NEW th \in Threads, ServeIssue(th)
  PROVE  IInv'
<1>1. next \in Nat \ {0} /\ next <= MaxSessions /\ next' = next + 1
  BY DEF IInv, ServiceOK, ServeIssue
<1> DEFINE Issues == {"login", "register", "ensureAnonymousSession"}
<1>0. PICK call \in Served(th, Issues) :
        /\ live' = live \cup {[app |-> call.app, number |-> next]}
        /\ Carried(th, "ok", {[app |-> call.app, number |-> next]})
  BY DEF ServeIssue
<1>2. PICK t \in Token : t = [app |-> call.app, number |-> next]
  <2>1. MaxSessions \in Nat /\ call.app \in Apps
    BY <1>0, CallsOwn, ProviderAssumption
  <2>2. next \in 1..MaxSessions
    BY <1>1, <2>1
  <2> QED BY <2>1, <2>2 DEF Token
<1>3. live' = live \cup {t} /\ Carried(th, "ok", {t})
  BY <1>0, <1>2
<1>4. flight[th] # {} /\ (pc[th] # "gone" => pc[th] \notin {"me", "logout"})
  BY <1>0, CallsOwn
<1> HIDE DEF Issues
<1>5. /\ live \subseteq Token /\ revoked \subseteq Token
      /\ \A s \in live \cup revoked : s.number < next
  BY DEF IInv, ServiceOK
<1>6. t.number = next
  BY <1>2
<1>7. t.number < next' /\ \A s \in live : s.number < next'
  <2>1. ASSUME NEW s \in live PROVE s.number < next'
    <3>1. s.number \in Nat /\ s.number < next
      BY <1>5 DEF Token
    <3> QED BY <1>1, <3>1
  <2> QED BY <1>1, <1>6, <2>1
<1>8. {t} \cap stale[th] = {}
  <2>1. stale[th] \subseteq revoked
    BY DEF IInv, ThreadOK
  <2>2. ~(next < next)
    BY <1>1
  <2> QED BY <1>5, <1>6, <2>1, <2>2
<1>9. \A s \in Token : s.number < next /\ s \notin live => s \notin live'
  <2>1. ~(next < next)
    BY <1>1
  <2> QED BY <1>3, <1>6, <2>1
<1>10. next' \in Nat \ {0} /\ next <= next'
  BY <1>1
<1>11. live' \subseteq Token /\ {t} \in SUBSET Token
  BY <1>3, <1>5
<1> QED BY <1>3, <1>4, <1>7, <1>8, <1>9, <1>10, <1>11, CarriedIInv

LEMMA ServeMeIInv ==
  ASSUME IInv, NEW th \in Threads, ServeMe(th)
  PROVE  IInv'
<1>0. PICK call \in Served(th, {"me"}) : \E t \in Resolved(call) : Carried(th, "ok", {t})
  BY DEF ServeMe
<1>1. PICK t \in call.token \cap live : Carried(th, "ok", {t})
  BY <1>0 DEF Resolved
<1>2. live' = live /\ next' = next
  BY DEF ServeMe
<1>3. flight[th] # {} /\ (pc[th] # "gone" => pc[th] = "me")
  BY <1>0, CallsOwn
<1>4. /\ live \subseteq Token /\ next \in Nat \ {0} /\ revoked \cap live = {}
      /\ \A s \in live : s.number < next /\ stale[th] \subseteq revoked
  BY DEF IInv, ServiceOK, ThreadOK
<1>5. {t} \in SUBSET Token /\ {t} \cap stale[th] = {} /\ t.number < next'
  BY <1>1, <1>2, <1>4
<1>6. pc[th] = "me" => {t} \subseteq Presented(th)
  BY <1>0, <1>1, CallsOwn
<1>7. next <= next'
  BY <1>2, <1>4
<1> QED BY <1>1, <1>2, <1>3, <1>4, <1>5, <1>6, <1>7, CarriedIInv

LEMMA ServeLogoutIInv ==
  ASSUME IInv, NEW th \in Threads, ServeLogout(th)
  PROVE  IInv'
<1>0. PICK call \in Served(th, {"logout"}) : \E t \in Resolved(call) :
        live' = live \ {t} /\ Carried(th, "ok", {})
  BY DEF ServeLogout
<1>1. PICK t \in call.token \cap live : live' = live \ {t} /\ Carried(th, "ok", {})
  BY <1>0 DEF Resolved
<1>2. next' = next
  BY DEF ServeLogout
<1>3. flight[th] # {} /\ (pc[th] # "gone" => pc[th] = "logout")
  BY <1>0, CallsOwn
<1>4. /\ live \subseteq Token /\ next \in Nat \ {0}
      /\ \A s \in live : s.number < next
  BY DEF IInv, ServiceOK
<1>5. next <= next' /\ live' \subseteq Token /\ {} \in SUBSET Token
  BY <1>1, <1>2, <1>4
<1>6. ASSUME pc[th] = "logout"
      PROVE  \A s \in Presented(th) : s \notin live' /\ s.number < next'
  <2>1. request[th] \in Requests
    BY <1>6 DEF IInv, ThreadOK
  <2>2. \A s \in Presented(th) : s = t
    BY <1>0, <1>1, <1>6, <2>1, CallsOwn, RequestFields DEF Presented
  <2> QED BY <1>1, <1>2, <1>4, <2>2
<1> QED BY <1>1, <1>2, <1>3, <1>4, <1>5, <1>6, CarriedIInv

LEMMA ServeRefusalIInv ==
  ASSUME IInv, NEW th \in Threads, ServeRefusal(th)
  PROVE  IInv'
<1>1. live' \subseteq live /\ Carried(th, "error", {}) /\ next' = next
  BY DEF ServeRefusal
<1>2. flight[th] # {}
  BY DEF ServeRefusal, Served
<1>3. /\ live \subseteq Token /\ next \in Nat \ {0}
      /\ \A s \in live : s.number < next
  BY DEF IInv, ServiceOK
<1>4. next <= next' /\ live' \subseteq Token /\ {} \in SUBSET Token
  BY <1>1, <1>3
<1> QED BY <1>1, <1>2, <1>3, <1>4, CarriedIInv

----------------------------------------------------------------------------
LEMMA RememberSessionIInv ==
  ASSUME IInv, NEW th \in Threads, RememberSession(th)
  PROVE  IInv'
<1>1. /\ pc[th] \in {"login", "register", "ensureAnonymousSession", "me"}
      /\ reply[th].outcome = "ok"
      /\ flight' = flight /\ live' = live /\ next' = next
      /\ incarnation' = incarnation /\ revoked' = revoked
  BY DEF RememberSession, service
<1>2. PICK t \in reply[th].token :
        /\ token_apps' = Remember(t)
        /\ IF request[th].op = "logout"
           THEN Goto(th, "known")
                /\ UNCHANGED <<request, reply, thread, overdue, given, held, crossed>>
           ELSE Answer(th, {t})
  BY DEF RememberSession
<1>3. /\ ThreadsTyped /\ ThreadOK(th) /\ flight[th] = {} /\ incarnation \in Nat
      /\ request[th] \in Requests /\ t \in Token /\ {t} \in SUBSET Token
      /\ t \notin stale[th] /\ (began[th] = incarnation => t.number < next)
  BY <1>1 DEF IInv, ServiceOK, ThreadOK, ThreadsTyped, Reply
<1>4. /\ MapOK' /\ DOMAIN token_apps' = DOMAIN token_apps \cup {t}
  BY <1>2, <1>3 DEF IInv, MapOK, Remember
<1>5. CASE request[th].op = "logout"
  <2>1. /\ pc' = [pc EXCEPT ![th] = "known"]
        /\ request' = request /\ reply' = reply /\ began' = began /\ stale' = stale
        /\ overdue' = overdue /\ given' = given /\ crossed' = crossed
    BY <1>2, <1>5 DEF Goto, thread
  <2>2. ThreadsTyped'
    BY <1>1, <1>3, <2>1 DEF ThreadsTyped, Places
  <2>3. Others(th) /\ pc'[th] = "known"
    BY <1>1, <1>3, <2>1 DEF Others, ThreadsTyped
  <2>4. reply[th].token \subseteq Presented(th)
    <3>1. CASE pc[th] = "me"
      BY <1>3, <3>1 DEF ThreadOK
    <3>2. CASE pc[th] # "me"
      BY <1>1, <1>3, <1>5, <3>2 DEF ThreadOK
    <3> QED BY <3>1, <3>2
  <2>5. ThreadOK(th)'
    BY <1>1, <1>3, <2>1, <2>3, <2>4 DEF ThreadOK, Presented
  <2>6. ServiceOK' /\ GivenKnown' /\ overdue' = {} /\ Onward
    BY <1>1, <1>4, <2>1 DEF IInv, ServiceOK, GivenKnown, Onward
  <2>7. \A o \in Threads \ {th} : ThreadOK(o)'
    BY <2>3, <2>6, OthersOK
  <2> QED BY <1>4, <2>2, <2>5, <2>6, <2>7 DEF IInv
<1>6. CASE request[th].op # "logout"
  <2>1. Answer(th, {t})
    BY <1>2, <1>6
  <2>2. ThreadsTyped' /\ Others(th) /\ ThreadOK(th)'
    BY <1>1, <1>3, <2>1, AnswerEffect
  <2>3. /\ overdue' = overdue \cup ({t} \cap stale[th])
        /\ given' = given \cup (IF began[th] = incarnation THEN {t} ELSE {})
        /\ crossed \subseteq crossed'
    BY <2>1 DEF Answer
  <2>4. overdue' = {}
    BY <1>3, <2>3 DEF IInv
  <2>5. ServiceOK'
    BY <1>1, <1>3, <2>3 DEF IInv, ServiceOK
  <2>6. GivenKnown'
    BY <1>1, <1>4, <2>3 DEF IInv, GivenKnown
  <2>7. Onward
    BY <1>1 DEF IInv, ServiceOK, Onward
  <2>8. \A o \in Threads \ {th} : ThreadOK(o)'
    BY <2>2, <2>7, OthersOK
  <2> QED BY <1>4, <2>2, <2>4, <2>5, <2>6, <2>8 DEF IInv
<1> QED BY <1>5, <1>6

\* The map may forget a token: it was revoked, or a restart overtook the call.
LEMMA ForgetSessionIInv ==
  ASSUME IInv, NEW th \in Threads, ForgetSession(th)
  PROVE  IInv'
<1>1. /\ pc[th] = "logout" /\ reply[th].outcome = "ok"
      /\ flight' = flight /\ live' = live /\ next' = next
      /\ incarnation' = incarnation
  BY DEF ForgetSession, service
<1>2. PICK t \in Presented(th) :
        /\ token_apps' = Forget(t)
        /\ revoked' = revoked \cup IF began[th] = incarnation THEN {t} ELSE {}
        /\ Answer(th, {})
  BY DEF ForgetSession, Presented
<1>3. /\ ThreadsTyped /\ ThreadOK(th) /\ flight[th] = {} /\ incarnation \in Nat
      /\ request[th] \in Requests
      /\ (began[th] = incarnation => t \notin live /\ t.number < next)
  BY <1>1 DEF IInv, ServiceOK, ThreadOK
<1>4. t \in Token
  BY <1>2, <1>3, RequestFields DEF Presented
<1>5. MapOK' /\ DOMAIN token_apps' = DOMAIN token_apps \ {t}
  BY <1>2 DEF IInv, MapOK, Forget, Restrict
<1>6. ThreadsTyped' /\ Others(th) /\ ThreadOK(th)'
  BY <1>1, <1>2, <1>3, AnswerEffect
<1>7. /\ overdue' = overdue /\ given' = given /\ crossed \subseteq crossed'
      /\ (began[th] # incarnation => t \in crossed')
  BY <1>2 DEF Answer, Presented
<1>8. ServiceOK'
  BY <1>1, <1>2, <1>3, <1>4, <1>7 DEF IInv, ServiceOK
<1>9. GivenKnown'
  BY <1>1, <1>3, <1>5, <1>7 DEF IInv, GivenKnown
<1>10. Onward
  BY <1>1, <1>2 DEF IInv, ServiceOK, Onward
<1>11. \A o \in Threads \ {th} : ThreadOK(o)'
  BY <1>6, <1>10, OthersOK
<1> QED BY <1>5, <1>6, <1>7, <1>8, <1>9, <1>11 DEF IInv

\* The service forgets its sessions; what was promised of them is void.
LEMMA ServiceRestartsIInv == ASSUME IInv, ServiceRestarts PROVE IInv'
<1>1. /\ incarnation' = incarnation + 1 /\ live' = {} /\ next' = 1
      /\ pc' = [th \in Threads |-> IF pc[th] = "gone" THEN "idle" ELSE pc[th]]
      /\ reply' = [th \in Threads |-> IF flight[th] = {} \/ pc[th] = "gone" THEN reply[th]
                                      ELSE [outcome |-> "error", token |-> {}]]
      /\ flight' = [th \in Threads |-> {}]
      /\ given' = {} /\ revoked' = {} /\ stale' = [th \in Threads |-> {}]
      /\ token_apps' = token_apps /\ request' = request /\ began' = began
      /\ overdue' = overdue
  BY DEF ServiceRestarts
<1>2. incarnation \in Nat \ {0}
  BY DEF IInv, ServiceOK
<1>3. PICK r \in Reply : r = [outcome |-> "error", token |-> {}]
  BY DEF Reply
<1>4. ThreadsTyped'
  <2>1. pc' \in [Threads -> Places] /\ request' \in [Threads -> Requests \cup {NoRequest}]
        /\ began' \in [Threads -> Nat]
    BY <1>1 DEF IInv, ThreadsTyped, Places
  <2>2. reply' = [th \in Threads |-> IF flight[th] = {} \/ pc[th] = "gone"
                                     THEN reply[th] ELSE r]
    BY <1>1, <1>3
  <2>3. reply' \in [Threads -> Reply]
    BY <2>2 DEF IInv, ThreadsTyped
  <2>4. flight' \in [Threads -> SUBSET Call] /\ stale' \in [Threads -> SUBSET Token]
    BY <1>1, Zenon
  <2> QED BY <2>1, <2>3, <2>4 DEF ThreadsTyped
<1>5. MapOK' /\ ServiceOK' /\ GivenKnown' /\ overdue' = {}
  BY <1>1, <1>2 DEF IInv, MapOK, ServiceOK, GivenKnown
<1>6. ASSUME NEW th \in Threads PROVE ThreadOK(th)'
  <2>1. ThreadOK(th) /\ began[th] \in Nat
    BY DEF IInv, ThreadsTyped
  <2>2. began'[th] # incarnation' /\ began'[th] <= incarnation'
    <3>1. began[th] <= incarnation
      BY <2>1 DEF ThreadOK
    <3> QED BY <1>1, <1>2, <2>1, <3>1
  <2>3. flight'[th] = {} /\ stale'[th] = {} /\ Presented(th)' = Presented(th)
    BY <1>1 DEF Presented
  <2>4. reply'[th].token \subseteq reply[th].token
    BY <1>1
  <2>5. pc'[th] = IF pc[th] = "gone" THEN "idle" ELSE pc[th]
    BY <1>1
  <2> QED BY <1>1, <2>1, <2>2, <2>3, <2>4, <2>5 DEF ThreadOK
<1> QED BY <1>4, <1>5, <1>6 DEF IInv

LEMMA GatewayRestartsIInv == ASSUME IInv, GatewayRestarts PROVE IInv'
<1>1. /\ token_apps' = [t \in {} |-> {}]
      /\ pc' = [th \in Threads |-> IF flight[th] = {} THEN "idle" ELSE "gone"]
      /\ request' = [th \in Threads |-> NoRequest]
      /\ reply' = [th \in Threads |-> NoReply]
      /\ began' = [th \in Threads |-> 0] /\ stale' = [th \in Threads |-> {}]
      /\ given' = {} /\ flight' = flight /\ overdue' = overdue /\ revoked' = revoked
      /\ live' = live /\ next' = next /\ incarnation' = incarnation
  BY DEF GatewayRestarts, service
<1>2. NoReply \in Reply /\ NoReply.token = {} /\ NoReply.outcome = "none"
  BY DEF NoReply, Reply
<1>3. ThreadsTyped'
  <2>1. pc' \in [Threads -> Places] /\ request' \in [Threads -> Requests \cup {NoRequest}]
        /\ began' \in [Threads -> Nat] /\ reply' \in [Threads -> Reply]
    BY <1>1, <1>2 DEF Places
  <2>2. stale' \in [Threads -> SUBSET Token]
    BY <1>1, Zenon
  <2> QED BY <1>1, <2>1, <2>2 DEF IInv, ThreadsTyped
<1>4. MapOK' /\ ServiceOK' /\ GivenKnown' /\ overdue' = {}
  BY <1>1 DEF IInv, MapOK, ServiceOK, GivenKnown
<1>5. ASSUME NEW th \in Threads PROVE ThreadOK(th)'
  <2>1. 0 <= incarnation /\ 0 # incarnation
    BY DEF IInv, ServiceOK
  <2>2. /\ reply'[th] = NoReply /\ began'[th] = 0 /\ stale'[th] = {}
        /\ pc'[th] = IF flight[th] = {} THEN "idle" ELSE "gone"
    BY <1>1
  <2> QED BY <1>1, <1>2, <2>1, <2>2 DEF ThreadOK
<1> QED BY <1>3, <1>4, <1>5 DEF IInv

\* Of the invariant nothing speaks of the subscriptions.
LEMMA SubscribeIInv == ASSUME IInv, SubscribeNext \/ UNCHANGED vars PROVE IInv'
<1>1. /\ token_apps' = token_apps /\ pc' = pc /\ request' = request /\ reply' = reply
      /\ flight' = flight /\ live' = live /\ next' = next /\ began' = began
      /\ incarnation' = incarnation /\ stale' = stale /\ overdue' = overdue
      /\ given' = given /\ revoked' = revoked /\ crossed' = crossed
  BY DEF SubscribeNext, thread, history, vars
<1> QED BY <1>1 DEF IInv, ThreadsTyped, MapOK, ServiceOK, GivenKnown, ThreadOK, Presented

LEMMA NextIInv == IInv /\ [Next]_vars => IInv'
<1> SUFFICES ASSUME IInv, [Next]_vars PROVE IInv'
  OBVIOUS
<1>1. ASSUME NEW th \in Threads, ThreadStep(th) PROVE IInv'
  BY <1>1, CallForAppIInv, CallForTokenIInv, CallLogoutIInv, RefuseIInv,
     RememberSessionIInv, ForgetSessionIInv DEF ThreadStep
<1>2. ASSUME NEW th \in Threads, ServiceStep(th) PROVE IInv'
  BY <1>2, NotServedIInv, ServeIssueIInv, ServeMeIInv, ServeLogoutIInv,
     ServeRefusalIInv DEF ServiceStep
<1>3. ASSUME NEW th \in Threads, NEW r \in Requests, Begin(th, r) PROVE IInv'
  BY <1>3, BeginIInv
<1>4. CASE SubscribeNext \/ UNCHANGED vars
  BY <1>4, SubscribeIInv
<1>5. CASE ServiceRestarts \/ GatewayRestarts
  BY <1>5, ServiceRestartsIInv, GatewayRestartsIInv
<1> QED BY <1>1, <1>2, <1>3, <1>4, <1>5 DEF Next

LEMMA AlwaysIInv == Spec => []IInv
BY InitIInv, NextIInv, PTL DEF Spec
----------------------------------------------------------------------------
(* However many calls and answers are lost and however often either side     *)
(* restarts: a token this gateway answered and the service still honours is  *)
(* one the provider knows the app of, unless the service's restart overtook  *)
(* a call with it.                                                           *)
THEOREM LiveSessionsAlwaysKnown == Spec => []LiveSessionsKnown
<1>1. IInv => LiveSessionsKnown
  BY DEF IInv, GivenKnown, MapOK, LiveSessionsKnown
<1> QED BY <1>1, AlwaysIInv, PTL

(* A logout answered with success ended the session for as long as the       *)
(* service runs, and no request that began later was served under it.        *)
THEOREM LogoutsAlwaysEffective == Spec => []LogoutEffective
<1>1. IInv => LogoutEffective
  BY DEF IInv, ServiceOK, LogoutEffective
<1> QED BY <1>1, AlwaysIInv, PTL
=============================================================================
