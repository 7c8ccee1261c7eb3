--------------------------- MODULE GatewaySessions ---------------------------
(***************************************************************************)
(* Sessions in the gateway: the in-memory user module (local/auth.rs, its  *)
(* provider in local/user.rs) and the calls of the application layer that  *)
(* use it (local/app.rs), a thread per connection.                         *)
(*                                                                         *)
(* Every operation of InMemoryAuthService is one hold of one mutex, so it  *)
(* is one action; a call of the application layer is one to three of them, *)
(* and other threads run in between.  A uid keeps its form and its number, *)
(* a token its kind, app and number, not their spelling.  What a user      *)
(* copies from another (tenant and roles) is one value, its standing.  An  *)
(* app is its normalised name; a request that is refused before the mutex  *)
(* because a field is empty is not sent.  The counters are far from the    *)
(* end of their type: a configured uid u_n with n the largest u64 is left  *)
(* out.  Nothing is persisted: a restarted gateway begins in Init.         *)
(***************************************************************************)
EXTENDS Functions, FiniteSetsExt, Integers, Sequences

CONSTANTS
  Threads,        \* connections being served at a time
  Apps, Emails, Passwords,
  Keys,
  user_key,       \* the key of an app and an email, not assumed to be injective
  Standings,      \* tenants with roles
  LocalStanding,  \* tenant_local, member
  SeedUsers,      \* the configured users, in the order of the configuration
  BaseUserId,     \* 2999: the counter starts above it
  AnonymousApps,  \* apps that serve visitors without a session
  LoginEnabled, RegisterEnabled,  \* the provider's features
  Lease,          \* DEFAULT_SESSION_LEASE_SECONDS
  Requests,       \* requests clients send
  MaxTime,        \* bound: readings of the clock
  MaxSessions     \* bound: sessions issued in a behaviour

\* A uid: u_n, anon_app_n, or a configured one that is neither.
Uid == [form : {"u", "anon", "other"}, number : Nat]
User == [app : Apps, uid : Uid, password : Passwords, standing : Standings]
Token == [kind : {"session", "anon"}, app : Apps, number : Nat]
Owner == [app : Apps, uid : Uid, standing : Standings]
Session == [owner : Owner, expires : 0..(MaxTime + Lease)]

Op == {"login", "register", "me", "logout", "app", "stream", "execute"}

\* No session has the number 0: such a token is one nobody issued.
Request == [op : Op, app : Apps, email : Emails, password : Passwords,
            bearer : SUBSET Token, cookie : SUBSET Token]

ASSUME SessionsAssumption ==
  /\ user_key \in [Apps \X Emails -> Keys]
  /\ LocalStanding \in Standings
  /\ SeedUsers \in Seq([app : Apps, email : Emails, uid : Uid,
                        password : Passwords, standing : Standings])
  /\ BaseUserId \in Nat /\ Lease \in Nat \ {0}
  /\ LoginEnabled \in BOOLEAN /\ RegisterEnabled \in BOOLEAN
  /\ AnonymousApps \subseteq Apps
  /\ Requests \subseteq Request
  /\ \A r \in Requests : (\A s, t \in r.bearer : s = t) /\ (\A s, t \in r.cookie : s = t)
  /\ MaxTime \in Nat /\ MaxSessions \in Nat

VARIABLES
  users, sessions, nextUser, nextSession,  \* AuthState
  clock,        \* the wall clock
  pc,           \* where a thread's call stands
  request,      \* the request it serves
  session,      \* the session it found or created, as a set of tokens
  granted,      \* the token of the answer, as a set
  revoked,      \* history: tokens whose logout succeeded
  lapsed,       \* history: tokens removed as expired
  given,        \* history: tokens some answer carried
  lost          \* history: tokens created for a call whose answer had none

auth == <<users, sessions, nextUser, nextSession>>
history == <<revoked, lapsed, given, lost>>
vars == <<users, sessions, nextUser, nextSession, clock, pc, request, session,
          granted, revoked, lapsed, given, lost>>

NoRequest == [op |-> "none"]

Asked(th, ops) == pc[th] = "start" /\ request[th].op \in ops
KeyOf(th) == user_key[<<request[th].app, request[th].email>>]
Goto(th, place) == pc' = [pc EXCEPT ![th] = place]

\* The answer: the token it carries as a body or a cookie, or none.
Answer(th, tokens) ==
  /\ Goto(th, "idle")
  /\ request' = [request EXCEPT ![th] = NoRequest]
  /\ session' = [session EXCEPT ![th] = {}]
  /\ granted' = [granted EXCEPT ![th] = tokens]
  /\ given' = given \cup tokens

\* The answer carries no token: the one it worked with may be nobody's.
AnswerWithout(th) ==
  /\ Answer(th, {})
  /\ lost' = lost \cup (session[th] \ given)

Fail(th) == AnswerWithout(th) /\ UNCHANGED <<revoked, lapsed>>

\* default_identity_for_app: the first user of the app a HashMap yields.
DefaultStandings(app) ==
  LET known == {users[k].standing : k \in {j \in DOMAIN users : users[j].app = app}}
  IN IF known = {} THEN {LocalStanding} ELSE known

\* A session under a new token, for the request's app whoever its owner is.
WithSession(token, owner) ==
  [t \in DOMAIN sessions \cup {token} |->
     IF t = token THEN [owner |-> owner, expires |-> clock + Lease] ELSE sessions[t]]

NewTokenByCount(th, kind) ==
  [kind |-> kind, app |-> request[th].app,
   number |-> Cardinality(DOMAIN sessions) + 1]

NewToken(th, kind) ==
  [kind |-> kind, app |-> request[th].app, number |-> nextSession]

Without(t) == Restrict(sessions, DOMAIN sessions \ {t})

Issuing(th) ==
  \/ pc[th] = "anonymous"
  \/ Asked(th, {"login", "register", "app", "stream"})
----------------------------------------------------------------------------
HighestSeedIdIgnored == BaseUserId

\* The largest n of the configured uids u_n, at least BaseUserId.
HighestSeedId ==
  Max({BaseUserId} \cup {SeedUsers[i].uid.number :
         i \in {j \in DOMAIN SeedUsers : SeedUsers[j].uid.form = "u"}})

SeedKey(i) == user_key[<<SeedUsers[i].app, SeedUsers[i].email>>]

\* Of two configured users with one key the later replaces the earlier.
SeededUsers ==
  [k \in {SeedKey(i) : i \in DOMAIN SeedUsers} |->
     LET last == SeedUsers[Max({i \in DOMAIN SeedUsers : SeedKey(i) = k})] IN
     [app |-> last.app, uid |-> last.uid, password |-> last.password,
      standing |-> last.standing]]

Init ==
  /\ users = SeededUsers
  /\ sessions = [t \in {} |-> {}]
  /\ nextUser = HighestSeedId + 1
  /\ nextSession = 1
  /\ clock \in 0..MaxTime
  /\ pc = [th \in Threads |-> "idle"]
  /\ request = [th \in Threads |-> NoRequest]
  /\ session = [th \in Threads |-> {}]
  /\ granted = [th \in Threads |-> {}]
  /\ revoked = {} /\ lapsed = {} /\ given = {} /\ lost = {}

SetClock ==
  /\ clock' \in 0..MaxTime
  /\ UNCHANGED <<auth, pc, request, session, granted, history>>

\* A client sends a token it was given, or one nobody issued.
Begin(th, r) ==
  /\ pc[th] = "idle"
  /\ \A t \in r.bearer \cup r.cookie : t \in given \/ t.number = 0
  /\ r.op \in {"login", "register", "app", "stream"} =>
       nextSession + Cardinality({t \in Threads : Issuing(t)}) <= MaxSessions
  /\ Goto(th, "start")
  /\ request' = [request EXCEPT ![th] = r]
  /\ granted' = [granted EXCEPT ![th] = {}]
  /\ UNCHANGED <<auth, clock, session, history>>
----------------------------------------------------------------------------
GoodLogin(th) ==
  /\ LoginEnabled
  /\ KeyOf(th) \in DOMAIN users
  /\ users[KeyOf(th)].password = request[th].password

RefuseLogin(th) ==
  /\ Asked(th, {"login"}) /\ ~GoodLogin(th)
  /\ Fail(th)
  /\ UNCHANGED <<auth, clock>>

OwnerOf(user) == [app |-> user.app, uid |-> user.uid, standing |-> user.standing]

Login(th) ==
  /\ Asked(th, {"login"}) /\ GoodLogin(th)
  /\ sessions' = WithSession(NewToken(th, "session"), OwnerOf(users[KeyOf(th)]))
  /\ nextSession' = nextSession + 1
  /\ Answer(th, {NewToken(th, "session")})
  /\ UNCHANGED <<users, nextUser, clock, revoked, lapsed, lost>>

RefuseRegister(th) ==
  /\ Asked(th, {"register"})
  /\ ~RegisterEnabled \/ KeyOf(th) \in DOMAIN users
  /\ Fail(th)
  /\ UNCHANGED <<auth, clock>>

Register(th) ==
  /\ Asked(th, {"register"})
  /\ RegisterEnabled /\ KeyOf(th) \notin DOMAIN users
  /\ \E standing \in DefaultStandings(request[th].app) :
       LET user == [app |-> request[th].app,
                    uid |-> [form |-> "u", number |-> nextUser],
                    password |-> request[th].password, standing |-> standing] IN
       /\ users' = [k \in DOMAIN users \cup {KeyOf(th)} |->
                      IF k = KeyOf(th) THEN user ELSE users[k]]
       /\ sessions' = WithSession(NewToken(th, "session"), OwnerOf(user))
  /\ nextUser' = nextUser + 1
  /\ nextSession' = nextSession + 1
  /\ Answer(th, {NewToken(th, "session")})
  /\ UNCHANGED <<clock, revoked, lapsed, lost>>
----------------------------------------------------------------------------
PresentedBearer(th) == request[th].bearer

\* A bearer token goes before a cookie; execute looks at no cookie.
Presented(th) ==
  IF request[th].bearer # {} \/ request[th].op = "execute"
  THEN request[th].bearer ELSE request[th].cookie

ByCookie(th) == request[th].bearer = {}
ServesVisitors(th) ==
  request[th].op \in {"app", "stream"} /\ request[th].app \in AnonymousApps

\* resolve_app_session gives a visitor whose cookie is no good a new session.
AfterRefusal(th) ==
  IF ByCookie(th) /\ ServesVisitors(th)
  THEN Goto(th, "anonymous") /\ UNCHANGED <<request, session, granted, given, lost>>
  ELSE AnswerWithout(th)

Resolving(th) == Asked(th, {"me", "logout", "app", "stream", "execute"})

NoCredential(th) ==
  /\ Resolving(th)
  /\ Presented(th) = {}
  /\ IF request[th].op \in {"app", "stream"} /\ ~ServesVisitors(th)
     THEN Goto(th, "handle") /\ UNCHANGED <<request, session, granted, given, lost>>
     ELSE AfterRefusal(th)
  /\ UNCHANGED <<auth, clock, revoked, lapsed>>

Expired(t) == sessions[t].expires <= clock
\* Only a cookie is checked against the app it was sent to.
Foreign(th, t) == ByCookie(th) /\ sessions[t].owner.app # request[th].app

RefuseUnknown(th) ==
  /\ Resolving(th)
  /\ Presented(th) # {} /\ Presented(th) \cap DOMAIN sessions = {}
  /\ AfterRefusal(th)
  /\ UNCHANGED <<auth, clock, revoked, lapsed>>

RemoveExpired(th) ==
  /\ Resolving(th)
  /\ \E t \in Presented(th) \cap DOMAIN sessions :
       /\ Expired(t)
       /\ sessions' = Without(t)
       /\ lapsed' = lapsed \cup {t}
       /\ AfterRefusal(th)
       /\ UNCHANGED <<users, nextUser, nextSession, clock, revoked>>

RefuseForeign(th) ==
  /\ Resolving(th)
  /\ \E t \in Presented(th) \cap DOMAIN sessions :
       /\ ~Expired(t) /\ Foreign(th, t)
       /\ AfterRefusal(th)
       /\ UNCHANGED <<auth, clock, revoked, lapsed>>

ExtendedExpiry(t) == sessions[t].expires + Lease

RenewedExpiry(t) == clock + Lease

Renew(th) ==
  /\ Resolving(th)
  /\ \E t \in Presented(th) \cap DOMAIN sessions :
       /\ ~Expired(t) /\ ~Foreign(th, t)
       /\ sessions' = [sessions EXCEPT ![t].expires = RenewedExpiry(t)]
       /\ CASE request[th].op = "me" -> Answer(th, {t}) /\ UNCHANGED lost
            [] request[th].op = "logout" ->
                 Goto(th, "remove") /\ UNCHANGED <<request, session, granted, given, lost>>
            [] OTHER -> /\ Goto(th, "handle")
                        /\ session' = [session EXCEPT ![th] = {t}]
                        /\ UNCHANGED <<request, granted, given, lost>>
       /\ UNCHANGED <<users, nextUser, nextSession, clock, revoked, lapsed>>

\* ensure_anonymous_session: always a new visitor.
EnsureAnonymous(th) ==
  /\ pc[th] = "anonymous"
  /\ \E standing \in DefaultStandings(request[th].app) :
       sessions' = WithSession(NewToken(th, "anon"),
         [app |-> request[th].app, uid |-> [form |-> "anon", number |-> nextUser],
          standing |-> standing])
  /\ nextUser' = nextUser + 1
  /\ nextSession' = nextSession + 1
  /\ session' = [session EXCEPT ![th] = {NewToken(th, "anon")}]
  /\ Goto(th, "handle")
  /\ UNCHANGED <<users, clock, request, granted, history>>
----------------------------------------------------------------------------
\* The app's handler succeeds.  A stream and execute set no cookie.
HandleWithoutCookie(th) ==
  /\ pc[th] = "handle"
  /\ IF request[th].op = "app" THEN Answer(th, {}) /\ UNCHANGED lost
     ELSE AnswerWithout(th)
  /\ UNCHANGED <<auth, clock, revoked, lapsed>>

Handle(th) ==
  /\ pc[th] = "handle"
  /\ IF request[th].op = "app" THEN Answer(th, session[th]) /\ UNCHANGED lost
     ELSE AnswerWithout(th)
  /\ UNCHANGED <<auth, clock, revoked, lapsed>>

\* It fails, and the answer is the error, without the cookie.
HandlerFails(th) ==
  /\ pc[th] = "handle"
  /\ Fail(th)
  /\ UNCHANGED <<auth, clock>>

\* The second half of logout_for_request, under a new hold of the mutex.
RefuseLogout(th) ==
  /\ pc[th] = "remove"
  /\ Presented(th) \cap DOMAIN sessions = {}
  /\ Fail(th)
  /\ UNCHANGED <<auth, clock>>

Logout(th) ==
  /\ pc[th] = "remove"
  /\ \E t \in Presented(th) \cap DOMAIN sessions :
       sessions' = Without(t) /\ revoked' = revoked \cup {t}
  /\ Answer(th, {})
  /\ UNCHANGED <<users, nextUser, nextSession, clock, lapsed, lost>>

ThreadStep(th) ==
  \/ RefuseLogin(th) \/ Login(th) \/ RefuseRegister(th) \/ Register(th)
  \/ NoCredential(th) \/ RefuseUnknown(th) \/ RemoveExpired(th)
  \/ RefuseForeign(th) \/ Renew(th) \/ EnsureAnonymous(th)
  \/ Handle(th) \/ HandlerFails(th) \/ RefuseLogout(th) \/ Logout(th)

Next ==
  \/ SetClock
  \/ \E th \in Threads :
       (\E r \in Requests : Begin(th, r)) \/ ThreadStep(th)

Spec == Init /\ [][Next]_vars
----------------------------------------------------------------------------
TypeOK ==
  /\ DOMAIN users \subseteq Keys /\ users \in [DOMAIN users -> User]
  /\ DOMAIN sessions \subseteq Token /\ sessions \in [DOMAIN sessions -> Session]
  /\ nextUser \in Nat /\ nextSession \in Nat \ {0}
  /\ clock \in 0..MaxTime
  /\ pc \in [Threads -> {"idle", "start", "anonymous", "handle", "remove"}]
  /\ request \in [Threads -> Requests \cup {NoRequest}]
  /\ session \in [Threads -> SUBSET Token]
  /\ granted \in [Threads -> SUBSET Token]
  /\ revoked \subseteq Token /\ lapsed \subseteq Token
  /\ given \subseteq Token /\ lost \subseteq Token

SeedUids == {SeedUsers[i].uid : i \in DOMAIN SeedUsers}
SeedStandings(app) ==
  {SeededUsers[k].standing : k \in {j \in DOMAIN SeededUsers : SeededUsers[j].app = app}}

(* An identity the gateway makes up is nobody else's: a registered user's    *)
(* uid is no other user's, not even a configured one's; a visitor's is that  *)
(* of one session only, unless a configured user has been given a uid of a   *)
(* visitor's form and logs in under it; and both get the tenant and roles of *)
(* a configured user of their app that no later one replaced (tenant_local   *)
(* if there is none), never of another app.                                  *)
IdentitiesFresh ==
  /\ \A j, k \in DOMAIN users :
       users[j].uid = users[k].uid => j = k \/ users[j].uid \in SeedUids
  /\ \A k \in DOMAIN users : users[k].uid \in SeedUids => k \in DOMAIN SeededUsers
  /\ \A s, t \in DOMAIN sessions :
       s.kind = "anon" /\ sessions[s].owner.uid = sessions[t].owner.uid
       => s = t \/ (t.kind = "session" /\ sessions[t].owner.uid \in SeedUids)
  /\ \A t \in DOMAIN sessions :
       LET owner == sessions[t].owner IN
       owner.standing \in SeedStandings(owner.app) \cup
         (IF SeedStandings(owner.app) = {} THEN {LocalStanding} ELSE {})

(* A visitor stays who he is: an app answers a cookie with another session   *)
(* only when the cookie's own is gone or is of another app, whatever other   *)
(* threads did to it between the call's lookup and its answer.               *)
IdentityKept ==
  [][\A th \in Threads :
       pc[th] = "handle" /\ request[th].op = "app" /\ ByCookie(th)
       /\ pc'[th] = "idle" /\ granted'[th] # {}
       => \A t \in (request[th].cookie \ granted'[th]) \cap DOMAIN sessions :
            sessions[t].owner.app # request[th].app]_vars

(* No session is left behind by a call that succeeded: a live session was    *)
(* handed to a client, or its call is running, or it is a visitor's and the  *)
(* call that made it failed or opened a stream.                              *)
SessionsReachClients ==
  \A t \in DOMAIN sessions :
    \/ t \in given
    \/ \E th \in Threads : t \in session[th]
    \/ t \in lost /\ t.kind = "anon"
----------------------------------------------------------------------------
Store == INSTANCE SessionStore WITH
  Tokens <- Token, Owners <- Owner, Times <- 0..MaxTime, live <- sessions

(* The application layer's calls, each several holds of the mutex, keep the  *)
(* session table's promise: a token is issued once, renewed only before it   *)
(* expires, and gone for good when it was revoked or found expired.          *)
ImplementsSessionStore == Store!Spec
=============================================================================
