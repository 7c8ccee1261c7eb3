----------------------------- MODULE UserService -----------------------------
(***************************************************************************)
(* The standalone user service (crates/rust-user-service/src/main.rs).     *)
(* Its state is split over four mutexes: the users, the sessions and the   *)
(* two counters.  Every connection has a thread, and a handler takes the   *)
(* mutexes one after the other, so requests interleave between a lookup    *)
(* and the use of what it returned.  Only register holds one mutex while   *)
(* it waits for the next: users while it waits for the user counter, and   *)
(* the user counter (a guard never dropped) until it returns.              *)
(*                                                                         *)
(* A critical section that waits for no other mutex is one action.  The    *)
(* numbers of a uid and of a token are kept, their spelling is not (a      *)
(* seeded u_rust_1001 counts as a number of its own); the tenant and roles *)
(* a new user copies from some user of the same app are left out.  An app  *)
(* is its normalised name, and a malformed request, which is refused       *)
(* before any lock, is not sent.  user_key joins an app and an email with  *)
(* a colon either may contain, so two pairs can have one key.  Nothing is  *)
(* persisted: a restarted service begins in Init.                          *)
(***************************************************************************)
EXTENDS Functions, FiniteSets, Integers

CONSTANTS
  Threads,      \* connections being served at a time
  Apps, Emails, Passwords,
  Keys,
  user_key,     \* the key of an app and an email, not assumed to be injective
  SeedUsers,    \* seeded_users: a function on some of the keys
  FirstUid,     \* first number the user counter gives out (6000)
  Lease,        \* DEFAULT_SESSION_LEASE_SECONDS
  Requests,     \* invocations clients send
  MaxTime,      \* bound: readings of the clock
  MaxSessions   \* bound: sessions issued in a behaviour

User == [app : Apps, uid : Nat, password : Passwords]
Owner == [app : Apps, uid : Nat, anonymous : BOOLEAN]
Token == [kind : {"session", "anon"}, app : Apps, number : Nat]
Session == [owner : Owner, expires : 0..(MaxTime + Lease)]
Op == {"login", "register", "me", "logout", "anonymous"}

\* The token of a request is a bearer token or cookie.  No session has the
\* number 0: such a token stands for a missing cookie and for an unknown token.
Request == [op : Op, app : Apps, email : Emails, password : Passwords,
            token : Token]

ASSUME ServiceAssumption ==
  /\ user_key \in [Apps \X Emails -> Keys]
  /\ DOMAIN SeedUsers \subseteq Keys
  /\ SeedUsers \in [DOMAIN SeedUsers -> User]
  /\ FirstUid \in Nat /\ Lease \in Nat \ {0}
  /\ Requests \subseteq Request
  /\ MaxTime \in Nat /\ MaxSessions \in Nat

\* The seeded uids differ and lie below the counter's first number.
ASSUME SeedAssumption ==
  /\ \A k \in DOMAIN SeedUsers : SeedUsers[k].uid < FirstUid
  /\ \A j, k \in DOMAIN SeedUsers : SeedUsers[j].uid = SeedUsers[k].uid => j = k

Free == "free"
ASSUME FreeAssumption == Free \notin Threads

VARIABLES
  users, sessions, nextUser, nextSession,  \* AppState
  holder,         \* who holds a mutex from one action to the next
  clock,          \* the wall clock
  pc,             \* where a thread's handler stands
  request,        \* what it was invoked with
  subject,        \* the user it issues a session for
  stamp,          \* issue_session's now
  serial,         \* the number of the token it issues
  ok, granted,    \* the reply: whether it succeeded, and the token it carries
  revoked,        \* history: tokens whose logout succeeded
  lapsed,         \* history: tokens removed as expired
  revokedBefore   \* history: revoked when a thread's request began

Locks == {"users", "userCounter", "sessionCounter", "sessions"}
state == <<users, sessions, nextUser, nextSession>>
local == <<request, subject, stamp, serial>>
reply == <<ok, granted>>
history == <<revoked, lapsed, revokedBefore>>
vars == <<users, sessions, nextUser, nextSession, holder, clock, pc, request,
          subject, stamp, serial, ok, granted, revoked, lapsed, revokedBefore>>

NoRequest == [op |-> "none"]
Nobody == [uid |-> 0]

CanTake(lock) == holder[lock] = Free
Asked(th, op) == pc[th] = "start" /\ request[th].op = op
KeyOf(th) == user_key[<<request[th].app, request[th].email>>]
Knows(th) == request[th].token \in DOMAIN sessions
TokenSession(th) == sessions[request[th].token]
Expired(th) == TokenSession(th).expires <= clock
Foreign(th) == TokenSession(th).owner.app # request[th].app

Goto(th, place) == pc' = [pc EXCEPT ![th] = place]

\* The handler returns: Ok, with a token or none, or Err.
Return(th, success, tokens) ==
  /\ Goto(th, "idle")
  /\ request' = [request EXCEPT ![th] = NoRequest]
  /\ subject' = [subject EXCEPT ![th] = Nobody]
  /\ stamp' = [stamp EXCEPT ![th] = 0]
  /\ serial' = [serial EXCEPT ![th] = 0]
  /\ ok' = [ok EXCEPT ![th] = success]
  /\ granted' = [granted EXCEPT ![th] = tokens]

Fail(th) == Return(th, FALSE, {})

Without(t) == Restrict(sessions, DOMAIN sessions \ {t})

\* Threads that will take another number for a token.
Issuing(th) ==
  \/ pc[th] = "start" /\ request[th].op \in {"login", "register", "anonymous"}
  \/ pc[th] \in {"registering", "default identity", "anonymous user",
                 "issue", "number"}
Issues == {th \in Threads : Issuing(th)}
----------------------------------------------------------------------------
Init ==
  /\ users = SeedUsers
  /\ sessions = [t \in {} |-> {}]
  /\ nextUser = FirstUid
  /\ nextSession = 1
  /\ holder = [lock \in Locks |-> Free]
  /\ clock \in 0..MaxTime
  /\ pc = [th \in Threads |-> "idle"]
  /\ request = [th \in Threads |-> NoRequest]
  /\ subject = [th \in Threads |-> Nobody]
  /\ stamp = [th \in Threads |-> 0]
  /\ serial = [th \in Threads |-> 0]
  /\ ok = [th \in Threads |-> FALSE]
  /\ granted = [th \in Threads |-> {}]
  /\ revoked = {} /\ lapsed = {}
  /\ revokedBefore = [th \in Threads |-> {}]

SetClock ==
  /\ clock' \in 0..MaxTime
  /\ UNCHANGED <<state, holder, pc, local, reply, history>>

\* A request arrives and gets a thread.
Begin(th, r) ==
  /\ pc[th] = "idle"
  /\ r.op \in {"login", "register", "anonymous"} =>
       nextSession + Cardinality(Issues) <= MaxSessions
  /\ Goto(th, "start")
  /\ request' = [request EXCEPT ![th] = r]
  /\ ok' = [ok EXCEPT ![th] = FALSE]
  /\ granted' = [granted EXCEPT ![th] = {}]
  /\ revokedBefore' = [revokedBefore EXCEPT ![th] = revoked]
  /\ UNCHANGED <<state, holder, clock, subject, stamp, serial, revoked, lapsed>>
----------------------------------------------------------------------------
(* login: the users mutex is released before the session is issued.         *)
GoodLogin(th) ==
  /\ KeyOf(th) \in DOMAIN users
  /\ users[KeyOf(th)].password = request[th].password

RefuseLogin(th) ==
  /\ Asked(th, "login") /\ CanTake("users")
  /\ ~GoodLogin(th)
  /\ Fail(th)
  /\ UNCHANGED <<state, holder, clock, history>>

AcceptLogin(th) ==
  /\ Asked(th, "login") /\ CanTake("users")
  /\ GoodLogin(th)
  /\ subject' = [subject EXCEPT ![th] =
       [app |-> users[KeyOf(th)].app, uid |-> users[KeyOf(th)].uid,
        anonymous |-> FALSE]]
  /\ Goto(th, "issue")
  /\ UNCHANGED <<state, holder, clock, request, stamp, serial, reply, history>>
----------------------------------------------------------------------------
(* register: the check and the insertion are under one hold of users.       *)
RefuseDuplicate(th) ==
  /\ Asked(th, "register") /\ CanTake("users")
  /\ KeyOf(th) \in DOMAIN users
  /\ Fail(th)
  /\ UNCHANGED <<state, holder, clock, history>>

CheckAndRelease(th) ==
  /\ Asked(th, "register") /\ CanTake("users")
  /\ KeyOf(th) \notin DOMAIN users
  /\ Goto(th, "registering")
  /\ UNCHANGED <<state, holder, clock, local, reply, history>>

StartRegistering(th) ==
  /\ Asked(th, "register") /\ CanTake("users")
  /\ KeyOf(th) \notin DOMAIN users
  /\ holder' = [holder EXCEPT !["users"] = th]
  /\ Goto(th, "registering")
  /\ UNCHANGED <<state, clock, local, reply, history>>

InsertUser(th) ==
  /\ pc[th] = "registering" /\ CanTake("userCounter")
  /\ users' = [k \in DOMAIN users \cup {KeyOf(th)} |->
                 IF k = KeyOf(th)
                 THEN [app |-> request[th].app, uid |-> nextUser,
                       password |-> request[th].password]
                 ELSE users[k]]
  /\ nextUser' = nextUser + 1
  /\ subject' = [subject EXCEPT ![th] =
       [app |-> request[th].app, uid |-> nextUser, anonymous |-> FALSE]]
  /\ holder' = [holder EXCEPT !["users"] = Free, !["userCounter"] = th]
  /\ Goto(th, "issue")
  /\ UNCHANGED <<sessions, nextSession, clock, request, stamp, serial, reply,
                 history>>
----------------------------------------------------------------------------
(* ensure_anonymous_session: a session the cookie still names is returned    *)
(* as it is, neither renewed nor checked for expiry.                         *)
ReturnCookieSession(th) ==
  /\ Asked(th, "anonymous") /\ CanTake("sessions")
  /\ Knows(th) /\ ~Foreign(th)
  /\ Return(th, TRUE, {request[th].token})
  /\ UNCHANGED <<state, holder, clock, history>>

RefuseForeignCookie(th) ==
  /\ Asked(th, "anonymous") /\ CanTake("sessions")
  /\ Knows(th) /\ Foreign(th)
  /\ Fail(th)
  /\ UNCHANGED <<state, holder, clock, history>>

MissAndKeepLock(th) ==
  /\ Asked(th, "anonymous") /\ CanTake("sessions")
  /\ ~Knows(th)
  /\ holder' = [holder EXCEPT !["sessions"] = th]
  /\ Goto(th, "default identity")
  /\ UNCHANGED <<state, clock, local, reply, history>>

MissCookieSession(th) ==
  /\ Asked(th, "anonymous") /\ CanTake("sessions")
  /\ ~Knows(th)
  /\ Goto(th, "default identity")
  /\ UNCHANGED <<state, holder, clock, local, reply, history>>

ReadDefaultIdentity(th) ==
  /\ pc[th] = "default identity" /\ CanTake("users")
  /\ Goto(th, "anonymous user")
  /\ UNCHANGED <<state, holder, clock, local, reply, history>>

ReuseUserNumber(th) ==
  /\ pc[th] = "anonymous user" /\ CanTake("userCounter")
  /\ subject' = [subject EXCEPT ![th] =
       [app |-> request[th].app, uid |-> nextUser, anonymous |-> TRUE]]
  /\ Goto(th, "issue")
  /\ UNCHANGED <<state, holder, clock, request, stamp, serial, reply, history>>

NumberAnonymousUser(th) ==
  /\ pc[th] = "anonymous user" /\ CanTake("userCounter")
  /\ nextUser' = nextUser + 1
  /\ subject' = [subject EXCEPT ![th] =
       [app |-> request[th].app, uid |-> nextUser, anonymous |-> TRUE]]
  /\ Goto(th, "issue")
  /\ UNCHANGED <<users, sessions, nextSession, holder, clock, request, stamp,
                 serial, reply, history>>
----------------------------------------------------------------------------
(* issue_session: read the clock, take a number, insert the session.  At     *)
(* the end the handler returns and register drops the user counter.          *)
ReadClock(th) ==
  /\ pc[th] = "issue"
  /\ stamp' = [stamp EXCEPT ![th] = clock]
  /\ Goto(th, "number")
  /\ UNCHANGED <<state, holder, clock, request, subject, serial, reply, history>>

RepeatNumber(th) ==
  /\ pc[th] = "number" /\ CanTake("sessionCounter")
  /\ serial' = [serial EXCEPT ![th] = nextSession]
  /\ Goto(th, "store")
  /\ UNCHANGED <<state, holder, clock, request, subject, stamp, reply, history>>

TakeNumber(th) ==
  /\ pc[th] = "number" /\ CanTake("sessionCounter")
  /\ serial' = [serial EXCEPT ![th] = nextSession]
  /\ nextSession' = nextSession + 1
  /\ Goto(th, "store")
  /\ UNCHANGED <<users, sessions, nextUser, holder, clock, request, subject,
                 stamp, reply, history>>

IssuedToken(th) ==
  [kind |-> IF request[th].op = "anonymous" THEN "anon" ELSE "session",
   app |-> subject[th].app, number |-> serial[th]]

StoreSession(th) ==
  LET token == IssuedToken(th) IN
  /\ pc[th] = "store" /\ CanTake("sessions")
  /\ sessions' = [t \in DOMAIN sessions \cup {token} |->
                    IF t = token
                    THEN [owner |-> subject[th], expires |-> stamp[th] + Lease]
                    ELSE sessions[t]]
  /\ holder' = IF holder["userCounter"] = th
               THEN [holder EXCEPT !["userCounter"] = Free] ELSE holder
  /\ Return(th, TRUE, {token})
  /\ UNCHANGED <<users, nextUser, nextSession, clock, history>>
----------------------------------------------------------------------------
(* resolve_session, the whole of me and the first half of logout.            *)
Resolving(th) ==
  /\ Asked(th, "me") \/ Asked(th, "logout")
  /\ CanTake("sessions")

RefuseUnknown(th) ==
  /\ Resolving(th)
  /\ ~Knows(th)
  /\ Fail(th)
  /\ UNCHANGED <<state, holder, clock, history>>

RemoveExpired(th) ==
  /\ Resolving(th)
  /\ Knows(th) /\ Expired(th)
  /\ sessions' = Without(request[th].token)
  /\ lapsed' = lapsed \cup {request[th].token}
  /\ Fail(th)
  /\ UNCHANGED <<users, nextUser, nextSession, holder, clock, revoked,
                 revokedBefore>>

RefuseForeign(th) ==
  /\ Resolving(th)
  /\ Knows(th) /\ ~Expired(th) /\ Foreign(th)
  /\ Fail(th)
  /\ UNCHANGED <<state, holder, clock, history>>

ExtendExpiry(t) == sessions[t].expires + Lease

RenewedExpiry(t) == clock + Lease

RenewSession(th) ==
  LET token == request[th].token IN
  /\ Resolving(th)
  /\ Knows(th) /\ ~Expired(th) /\ ~Foreign(th)
  /\ sessions' = [sessions EXCEPT ![token].expires = RenewedExpiry(token)]
  /\ IF request[th].op = "me" THEN Return(th, TRUE, {token})
     ELSE Goto(th, "remove") /\ UNCHANGED <<local, reply>>
  /\ UNCHANGED <<users, nextUser, nextSession, holder, clock, history>>

AcceptSecondLogout(th) ==
  /\ pc[th] = "remove" /\ CanTake("sessions")
  /\ ~Knows(th)
  /\ Return(th, TRUE, {})
  /\ UNCHANGED <<state, holder, clock, history>>

(* The second half of logout, under a new hold of the sessions mutex: of two *)
(* logouts that both resolved the token only one finds it again.             *)
RefuseSecondLogout(th) ==
  /\ pc[th] = "remove" /\ CanTake("sessions")
  /\ ~Knows(th)
  /\ Fail(th)
  /\ UNCHANGED <<state, holder, clock, history>>

ExpireInsteadOfRemoving(th) ==
  LET token == request[th].token IN
  /\ pc[th] = "remove" /\ CanTake("sessions")
  /\ Knows(th)
  /\ sessions' = [sessions EXCEPT ![token].expires = clock]
  /\ revoked' = revoked \cup {token}
  /\ Return(th, TRUE, {})
  /\ UNCHANGED <<users, nextUser, nextSession, holder, clock, lapsed,
                 revokedBefore>>

RemoveSession(th) ==
  /\ pc[th] = "remove" /\ CanTake("sessions")
  /\ Knows(th)
  /\ sessions' = Without(request[th].token)
  /\ revoked' = revoked \cup {request[th].token}
  /\ Return(th, TRUE, {})
  /\ UNCHANGED <<users, nextUser, nextSession, holder, clock, lapsed,
                 revokedBefore>>
----------------------------------------------------------------------------
HandlerStep(th) ==
  \/ RefuseLogin(th) \/ AcceptLogin(th)
  \/ RefuseDuplicate(th) \/ StartRegistering(th) \/ InsertUser(th)
  \/ ReturnCookieSession(th) \/ RefuseForeignCookie(th) \/ MissCookieSession(th)
  \/ ReadDefaultIdentity(th) \/ NumberAnonymousUser(th)
  \/ ReadClock(th) \/ TakeNumber(th) \/ StoreSession(th)
  \/ RefuseUnknown(th) \/ RemoveExpired(th) \/ RefuseForeign(th)
  \/ RenewSession(th)
  \/ RefuseSecondLogout(th) \/ RemoveSession(th)

Next ==
  \/ SetClock
  \/ \E th \in Threads :
       (\E r \in Requests : Begin(th, r)) \/ HandlerStep(th)

Spec == Init /\ [][Next]_vars

\* A thread with a request runs, and gets a mutex that stays free for it.
Fairness == \A th \in Threads : WF_vars(HandlerStep(th))

FairSpec == Spec /\ Fairness
----------------------------------------------------------------------------
Place == {"idle", "start", "registering", "default identity", "anonymous user",
          "issue", "number", "store", "remove"}

TypeOK ==
  /\ DOMAIN users \subseteq Keys /\ users \in [DOMAIN users -> User]
  /\ DOMAIN sessions \subseteq Token /\ sessions \in [DOMAIN sessions -> Session]
  /\ nextUser \in Nat /\ nextSession \in Nat \ {0}
  /\ holder \in [Locks -> Threads \cup {Free}]
  /\ clock \in 0..MaxTime
  /\ pc \in [Threads -> Place]
  /\ request \in [Threads -> Requests \cup {NoRequest}]
  /\ subject \in [Threads -> Owner \cup {Nobody}]
  /\ stamp \in [Threads -> 0..MaxTime]
  /\ serial \in [Threads -> Nat]
  /\ ok \in [Threads -> BOOLEAN]
  /\ granted \in [Threads -> SUBSET Token]
  /\ revoked \subseteq Token /\ lapsed \subseteq Token
  /\ revokedBefore \in [Threads -> SUBSET Token]

(* A user is never replaced: of two registrations of one address, however    *)
(* they interleave, the later one is refused and the first one's password    *)
(* and uid stay.                                                             *)
UsersStay ==
  [][\A k \in DOMAIN users : k \in DOMAIN users' /\ users'[k] = users[k]]_vars

(* Nobody shares an identity: two users never have the same uid, an          *)
(* anonymous session is the only one of its uid and no user's, and any other *)
(* session belongs to a user of its app.                                     *)
IdentitiesDistinct ==
  /\ \A j, k \in DOMAIN users : users[j].uid = users[k].uid => j = k
  /\ \A t \in DOMAIN sessions :
       LET owner == sessions[t].owner IN
       IF owner.anonymous
       THEN /\ \A k \in DOMAIN users : users[k].uid # owner.uid
            /\ \A s \in DOMAIN sessions : sessions[s].owner.uid = owner.uid => s = t
       ELSE \E k \in DOMAIN users : users[k].uid = owner.uid /\ users[k].app = owner.app

(* Once a logout has succeeded, no request that begins afterwards is answered *)
(* with that token, whatever was in flight at the time: not a me, not an      *)
(* anonymous request with it as its cookie, not a new session.                *)
RevokedNotServed == \A th \in Threads : granted[th] \cap revokedBefore[th] = {}

(* A logout succeeds at most once per session, although the handler resolves *)
(* the token and removes it under two separate holds of the mutex.           *)
LogoutOnce ==
  [][\A th \in Threads :
       pc[th] = "remove" /\ pc'[th] = "idle" /\ ok'[th]
         => request[th].token \in revoked' \ revoked]_vars

(* Every request is answered: no order of the four mutexes blocks a handler. *)
RequestsAnswered == \A th \in Threads : pc[th] # "idle" ~> pc[th] = "idle"
----------------------------------------------------------------------------
Store == INSTANCE SessionStore WITH
  Tokens <- Token, Owners <- Owner, Times <- 0..MaxTime, live <- sessions

(* Over four mutexes the service keeps the atomic session table's promise:   *)
(* a token is issued once, renewed only before it expires, and gone for good *)
(* when it was revoked or found expired.                                     *)
ImplementsSessionStore == Store!Spec
=============================================================================
