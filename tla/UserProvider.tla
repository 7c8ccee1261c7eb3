----------------------------- MODULE UserProvider -----------------------------
(***************************************************************************)
(* The gateway's user module over HTTP: HttpUserModuleProvider and the     *)
(* requests that use it (local/user.rs), the launcher that serves them     *)
(* (bladb-server: http.rs, launcher.rs) and the user service behind it.    *)
(*                                                                         *)
(* The provider remembers, under one mutex, the app of every token it has  *)
(* handed out, because a bearer token alone does not say which launcher    *)
(* subject to call.  It never holds that mutex across a call, so what it   *)
(* knows and what the service holds change independently, and either side  *)
(* may restart and forget.                                                 *)
(*                                                                         *)
(* A handler of the service is one step here: UserService models it in     *)
(* detail, and shows it to implement the table this step changes; that a   *)
(* session may have expired is a choice.  The service numbers tokens from  *)
(* one again after a restart.  A request is carried out once, or lost; its *)
(* answer may be lost too.  Neither side sets a timeout.  Passwords are    *)
(* left out: the service may refuse any login or registration.             *)
(***************************************************************************)
EXTENDS Functions, Integers, Sequences, SequencesExt

CONSTANTS
  Threads,         \* connections the gateway serves at a time
  Apps,            \* normalised names
  ServiceApps,     \* the apps the service starts a launcher for, in that order
  Methods,         \* methods its registry has, in the order they are subscribed
  LoginEnabled, RegisterEnabled,
  Requests,        \* requests clients send
  MaxSessions,     \* bound: sessions one incarnation of the service issues
  MaxRestarts      \* bound: restarts of either side

Token == [app : Apps, number : 1..MaxSessions]

\* What a request presents: a bearer token, a cookie for its app, or neither.
Request == [op : {"login", "register", "anonymous", "me", "logout"}, app : Apps,
            bearer : SUBSET Token, cookie : SUBSET Token]

ASSUME ProviderAssumption ==
  /\ ToSet(ServiceApps) \subseteq Apps
  /\ ToSet(Methods) \subseteq {"ensureAnonymousSession", "login", "logout", "me", "register"}
  /\ LoginEnabled \in BOOLEAN /\ RegisterEnabled \in BOOLEAN
  /\ Requests \subseteq Request
  /\ \A r \in Requests :
       /\ r.bearer \cup r.cookie # {} <=> r.op \in {"me", "logout"}
       /\ \A s, t \in r.bearer \cup r.cookie : s = t
  /\ MaxSessions \in Nat \ {0} /\ MaxRestarts \in Nat

VARIABLES
  token_apps,   \* the provider's map
  pc, request,  \* where a gateway thread stands
  reply,        \* what invoke returned: an error, or ok with a session's token
  flight,       \* calls on their way: by thread, the subject and the token
  live,         \* the service's sessions
  next,         \* its counter
  subscribed,   \* subjects the launchers have inserted so far: app and method
  incarnation,  \* how often the service was started
  gateways,     \* how often the gateway was started
  began,        \* the incarnation a thread's request began in
  stale,        \* history: tokens a logout had revoked when it began
  overdue,      \* history: tokens answered although revoked before
  given,        \* history: tokens answered by this gateway and this service
  held,         \* history: tokens clients have ever been given
  revoked,      \* history: tokens logged out in this incarnation
  crossed       \* history: tokens of calls the service's restart overtook

vars == <<token_apps, pc, request, reply, flight, live, next, subscribed, incarnation,
          gateways, began, stale, overdue, given, held, revoked, crossed>>

service == <<live, next, subscribed, incarnation>>
thread == <<began, stale>>
history == <<overdue, given, held, revoked, crossed>>

NoRequest == [op |-> "none"]
NoReply == [outcome |-> "none", token |-> {}]

Goto(th, place) == pc' = [pc EXCEPT ![th] = place]
Remember(t) == [u \in DOMAIN token_apps \cup {t} |-> IF u = t THEN t.app ELSE token_apps[u]]
Forget(t) == Restrict(token_apps, DOMAIN token_apps \ {t})

\* invoke returns, if the gateway that called it still runs.
Return(th, outcome, tokens) ==
  IF pc[th] = "gone" THEN Goto(th, "idle") /\ UNCHANGED reply
  ELSE /\ reply' = [reply EXCEPT ![th] = [outcome |-> outcome, token |-> tokens]]
       /\ UNCHANGED pc

\* The request is answered; a token of the answer is given to the client.
Answer(th, tokens) ==
  /\ Goto(th, "idle")
  /\ request' = [request EXCEPT ![th] = NoRequest]
  /\ reply' = [reply EXCEPT ![th] = NoReply]
  /\ overdue' = overdue \cup (tokens \cap stale[th])
  /\ given' = given \cup IF began[th] = incarnation THEN tokens ELSE {}
  /\ crossed' = crossed \cup IF began[th] = incarnation THEN {}
                             ELSE tokens \cup request[th].bearer \cup request[th].cookie
  /\ held' = held \cup tokens
  /\ began' = [began EXCEPT ![th] = 0]
  /\ stale' = [stale EXCEPT ![th] = {}]

\* invoke: one HTTP request, with no lock held.
Invoke(th, app, method, tokens) ==
  /\ Goto(th, method)
  /\ flight' = [flight EXCEPT ![th] = {[app |-> app, method |-> method, token |-> tokens]}]
  /\ reply' = [reply EXCEPT ![th] = NoReply]
----------------------------------------------------------------------------
Init ==
  /\ token_apps = [t \in {} |-> {}]
  /\ pc = [th \in Threads |-> "idle"]
  /\ request = [th \in Threads |-> NoRequest]
  /\ reply = [th \in Threads |-> NoReply]
  /\ flight = [th \in Threads |-> {}]
  /\ live = {} /\ next = 1 /\ subscribed = {}
  /\ incarnation = 1 /\ gateways = 1
  /\ began = [th \in Threads |-> 0]
  /\ stale = [th \in Threads |-> {}]
  /\ overdue = {} /\ given = {} /\ held = {} /\ revoked = {} /\ crossed = {}

Begin(th, r) ==
  /\ pc[th] = "idle"
  /\ r.bearer \cup r.cookie \subseteq held
  /\ Goto(th, "start")
  /\ request' = [request EXCEPT ![th] = r]
  /\ began' = [began EXCEPT ![th] = incarnation]
  /\ stale' = [stale EXCEPT ![th] = revoked]
  /\ UNCHANGED <<token_apps, reply, flight, service, gateways, history>>

\* The method an operation calls first.
FirstMethod == [login |-> "login", register |-> "register",
                anonymous |-> "ensureAnonymousSession", me |-> "me", logout |-> "me"]

Disabled(r) ==
  (r.op = "login" /\ ~LoginEnabled) \/ (r.op = "register" /\ ~RegisterEnabled)

\* login, register, ensure_anonymous_session, session_from_cookie: the app is named.
CallForApp(th) ==
  /\ pc[th] = "start" /\ request[th].bearer = {}
  /\ ~Disabled(request[th])
  /\ Invoke(th, request[th].app, FirstMethod[request[th].op], request[th].cookie)
  /\ UNCHANGED <<token_apps, request, service, gateways, thread, history>>

\* session_from_bearer: app_for_token
CallForToken(th) ==
  /\ pc[th] = "start"
  /\ \E t \in request[th].bearer \cap DOMAIN token_apps :
       Invoke(th, token_apps[t], "me", {t})
  /\ UNCHANGED <<token_apps, request, service, gateways, thread, history>>

RefuseAtOnce(th) ==
  /\ pc[th] = "start"
  /\ \/ Disabled(request[th])
     \/ request[th].bearer \ DOMAIN token_apps # {}
  /\ Answer(th, {})
  /\ UNCHANGED <<token_apps, flight, service, gateways, revoked>>
----------------------------------------------------------------------------
\* handle_connection: a subject that is not subscribed (yet) is not found.
NotFound(th) ==
  /\ \E call \in flight[th] : <<call.app, call.method>> \notin subscribed
  /\ flight' = [flight EXCEPT ![th] = {}]
  /\ Return(th, "error", {})
  /\ UNCHANGED <<token_apps, request, service, gateways, thread, history>>

\* The call of a connection that a subscribed handler takes
Served(th, methods) ==
  {call \in flight[th] : call.method \in methods /\ <<call.app, call.method>> \in subscribed}

\* resolve_session finds the session and it is of the app the call names.
Resolved(call) == {t \in call.token \cap live : t.app = call.app}

\* The answer of a call that was carried out reaches the gateway, or does not.
Carried(th, outcome, tokens) ==
  /\ flight' = [flight EXCEPT ![th] = {}]
  /\ Return(th, outcome, tokens) \/ Return(th, "error", {})
  /\ UNCHANGED <<token_apps, request, subscribed, incarnation, gateways, thread,
                 history>>

ServeIssue(th) ==
  /\ next <= MaxSessions
  /\ \E call \in Served(th, {"login", "register", "ensureAnonymousSession"}) :
       LET t == [app |-> call.app, number |-> next] IN
       live' = live \cup {t} /\ Carried(th, "ok", {t})
  /\ next' = next + 1

ServeMe(th) ==
  /\ \E call \in Served(th, {"me"}) : \E t \in Resolved(call) : Carried(th, "ok", {t})
  /\ UNCHANGED <<live, next>>

ServeLogout(th) ==
  /\ \E call \in Served(th, {"logout"}) : \E t \in Resolved(call) :
       live' = live \ {t} /\ Carried(th, "ok", {})
  /\ UNCHANGED next

\* An error of the handler, by which an expired session may be removed.
ServeRefusal(th) ==
  /\ \E call \in Served(th, {"login", "register", "me", "logout"}) :
       /\ live' \in {live, live \ call.token}
       /\ live' = live => Resolved(call) = {}
  /\ Carried(th, "error", {})
  /\ UNCHANGED next

LoseCall(th) ==
  /\ flight[th] # {}
  /\ flight' = [flight EXCEPT ![th] = {}]
  /\ Return(th, "error", {})
  /\ UNCHANGED <<token_apps, request, service, gateways, thread, history>>

\* The service listens before it subscribes, one app and one method after the other.
SubscribeNext ==
  /\ \E a \in DOMAIN ServiceApps, i \in DOMAIN Methods :
       /\ subscribed = {ServiceApps[b] : b \in 1..(a - 1)} \X ToSet(Methods)
                       \cup {<<ServiceApps[a], Methods[j]>> : j \in 1..(i - 1)}
       /\ subscribed' = subscribed \cup {<<ServiceApps[a], Methods[i]>>}
  /\ UNCHANGED <<token_apps, pc, request, reply, flight, live, next, incarnation,
                 gateways, thread, history>>
----------------------------------------------------------------------------
\* A session came back: remember_session_app, under the mutex.
RememberSession(th) ==
  /\ pc[th] \in {"login", "register", "ensureAnonymousSession", "me"}
  /\ reply[th].outcome = "ok"
  /\ \E t \in reply[th].token :
       /\ token_apps' = Remember(t)
       /\ IF request[th].op = "logout"
          THEN Goto(th, "known")
               /\ UNCHANGED <<request, reply, thread, overdue, given, held, crossed>>
          ELSE Answer(th, {t})
  /\ UNCHANGED <<flight, service, gateways, revoked>>

RefuseCallAsDone(th) ==
  /\ reply[th].outcome = "error"
  /\ pc[th] \notin {"idle", "gone"}
  /\ Answer(th, {})
  /\ revoked' = revoked \cup IF pc[th] = "logout" THEN request[th].bearer ELSE {}
  /\ UNCHANGED <<token_apps, flight, service, gateways>>

\* An error of invoke, whoever made it, is the answer.
RefuseCall(th) ==
  /\ reply[th].outcome = "error"
  /\ pc[th] \notin {"idle", "gone"}
  /\ Answer(th, {})
  /\ UNCHANGED <<token_apps, flight, service, gateways, revoked>>

CallLogoutAndForget(th) ==
  /\ pc[th] = "known"
  /\ \E t \in reply[th].token \cap DOMAIN token_apps :
       Invoke(th, token_apps[t], "logout", {t}) /\ token_apps' = Forget(t)
  /\ UNCHANGED <<request, service, gateways, thread, history>>

\* logout_session: app_for_token once more; another logout may have forgotten it.
CallLogout(th) ==
  /\ pc[th] = "known"
  /\ \E t \in reply[th].token \cap DOMAIN token_apps :
       Invoke(th, token_apps[t], "logout", {t})
  /\ UNCHANGED <<token_apps, request, service, gateways, thread, history>>

RefuseLogout(th) ==
  /\ pc[th] = "known" /\ reply[th].token \cap DOMAIN token_apps = {}
  /\ Answer(th, {})
  /\ UNCHANGED <<token_apps, flight, service, gateways, revoked>>

ForgetSession(th) ==
  /\ pc[th] = "logout" /\ reply[th].outcome = "ok"
  /\ \E t \in request[th].bearer \cup request[th].cookie :
       /\ token_apps' = Forget(t)
       /\ revoked' = revoked \cup IF began[th] = incarnation THEN {t} ELSE {}
       /\ Answer(th, {})
  /\ UNCHANGED <<flight, service, gateways>>
----------------------------------------------------------------------------
\* The service starts again with empty tables and no subscriptions.
ServiceRestarts ==
  /\ incarnation + gateways < MaxRestarts + 2
  /\ incarnation' = incarnation + 1
  /\ live' = {} /\ next' = 1 /\ subscribed' = {}
  /\ pc' = [th \in Threads |-> IF pc[th] = "gone" THEN "idle" ELSE pc[th]]
  /\ reply' = [th \in Threads |-> IF flight[th] = {} \/ pc[th] = "gone" THEN reply[th]
                                  ELSE [outcome |-> "error", token |-> {}]]
  /\ flight' = [th \in Threads |-> {}]
  /\ given' = {} /\ revoked' = {} /\ stale' = [th \in Threads |-> {}]
  /\ UNCHANGED <<token_apps, request, gateways, began, overdue, held, crossed>>

\* The gateway starts again: the provider knows no token.
GatewayRestarts ==
  /\ incarnation + gateways < MaxRestarts + 2
  /\ gateways' = gateways + 1
  /\ token_apps' = [t \in {} |-> {}]
  /\ pc' = [th \in Threads |-> IF flight[th] = {} THEN "idle" ELSE "gone"]
  /\ request' = [th \in Threads |-> NoRequest]
  /\ reply' = [th \in Threads |-> NoReply]
  /\ began' = [th \in Threads |-> 0]
  /\ stale' = [th \in Threads |-> {}]
  /\ given' = {}
  /\ UNCHANGED <<flight, service, overdue, held, revoked, crossed>>

ThreadStep(th) ==
  \/ CallForApp(th) \/ CallForToken(th) \/ RefuseAtOnce(th)
  \/ RememberSession(th) \/ RefuseCall(th)
  \/ CallLogout(th) \/ RefuseLogout(th) \/ ForgetSession(th)

ServiceStep(th) ==
  \/ NotFound(th) \/ ServeIssue(th) \/ ServeMe(th) \/ ServeLogout(th)
  \/ ServeRefusal(th) \/ LoseCall(th)

Next ==
  \/ \E th \in Threads :
       \/ \E r \in Requests : Begin(th, r)
       \/ ThreadStep(th)
       \/ ServiceStep(th)
  \/ SubscribeNext
  \/ ServiceRestarts
  \/ GatewayRestarts

Spec == Init /\ [][Next]_vars
----------------------------------------------------------------------------
(* A client who was given a token can use it as a bearer as long as the      *)
(* service honours it: the provider knows its app, whatever other calls and  *)
(* failed logouts of it did in between.  Excepted are tokens of calls that   *)
(* a restart of the service overtook, for it gives out the same ones again.  *)
LiveSessionsKnown ==
  \A t \in (given \cap live) \ crossed :
    t \in DOMAIN token_apps /\ token_apps[t] = t.app

(* A logout that was answered with success ended the session, and no request *)
(* that begins after it is answered with the token again.                    *)
LogoutEffective ==
  /\ revoked \cap live = {}
  /\ overdue = {}
=============================================================================
