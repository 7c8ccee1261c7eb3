# A verification development of bladb

TLA+ modules, TLC configurations and TLAPS proofs for the parts of bladb that
keep state and share it between threads, processes and requests. Source paths
are relative to the repository (`src/` in `PROJECT.json`); crates are under
`crates/`.

Run a model with `tlc -config X.cfg M`, a proof with `tlapm M.tla`.
`PROJECT.json` lists every run, mutant, hazard, theorem and, definition by
definition, the source lines a model stands for.

## 1. The system

bladb puts a gateway between browser clients and backend modules. The gateway
(`bladb-gateway`) serves HTTP with a thread per connection, resolves the
session of a request, authorises it by policy, routes it to a cluster and
executes it in a local module, or hands it to an application handler
(`/apps/...`). Users and sessions live in the gateway itself or in a separate
user service (`rust-user-service`) that the gateway reaches over HTTP
(`bladb-server`). Background work is done by worker replicas
(`bladb-worker-runtime`) that consume a durable stream of jobs, and by
backend modules behind a bus (`bladb-module-runtime`). Apart from that
stream nothing is persistent: every table is a `HashMap` or `Vec` behind a
`Mutex`, so a restarted process starts from its configuration.

| Component | State | Operations | Hard behaviour | What makes it correct |
|---|---|---|---|---|
| Flash-sale module, `bladb-gateway/src/local/flash_sale.rs` | stock, wallets, orders, tickets, ticket counter behind one mutex; one detached thread per ticket | `enqueue_purchase`, `process_ticket` (two critical sections), `stock.decr`, `orders.create`, reads | out-of-order settlement, state that is stale between the two sections, overflow, poisoned mutex | units and money conserved, one order per completed ticket, each purchase decided once, every ticket settled |
| Worker runtime, `bladb-worker-runtime/src` | loop state of a replica; the stream's leases | `run_tick`, `execute_job`, `execute_step`, ack / retry / dead-letter | crash between any two calls, redelivery, slow replicas, partial steps, retry limit | no job vanishes unreported, steps in order, bounded retries, every job settles |
| Rust user service, `rust-user-service/src/main.rs` | users, sessions, two counters, each behind its own mutex | login, register, me, logout, ensureAnonymousSession | check-then-act over four mutexes, lock order, expiry at the boundary, clock changes | no user replaced, identities distinct, revoked means dead, requests answered |
| Gateway auth sessions, `local/auth.rs` | the same tables behind one mutex | the same, atomically; seeds choose the first uid | renewal and lazy expiry, calls that take the mutex two or three times | same promises, uids fresh after any configuration, no session left behind |
| User module and its HTTP provider, `local/user.rs` | `token_apps`: the app of each token seen | login, register, me, logout, cookie sessions by remote call | remote effect without a local one when a response is lost, restart of either side, logout racing me | the app of a live session is known, a confirmed logout was carried out |
| Application layer, `local/app.rs`, `app_api.rs` | none of its own | session resolution, dispatch, cookie setting | bearer before cookie before anonymous session; handler fails after the session was created | requests act under the session presented or a fresh anonymous one |
| IoT and ROS 2 modules, `local/iot.rs`, `ros2.rs` | records, counters, subscriber list; a thread per open stream | publish, list, open stream, and for ROS 2 the same through a backend | check and subscription under two holds of the lock, dead subscribers dropped lazily, a backend that answers late, never, or restarts | per-subscriber order, no message lost after subscription, tenants kept apart, a publication's answer can be believed |
| Blog module, `local/blog.rs` | posts, newest first, counter | insert, update, delete, list | patches that name some fields, ids that must not be reused, sort on labels compared as strings, of a clock that may be set back | an accepted change reads back, ids are never reused, a list holds the latest posts made at run time |
| Policy authorisation and routing, `lib.rs`, `routing.rs`, `runtime.rs` | manifests | `authorize`, `prepare`, `resolve` | first matching policy, template resolution, joined route keys | a request runs only under a policy it matches, on a cluster of its app and a shard that cluster has |
| Core manifests and reserved values, `bladb-core/src` | none | parsing and validation | cross-references between manifests | what an accepted manifest promises routing holds |
| Module runtime, `bladb-module-runtime/src` | loop state of a replica, its plan | request, check, execute, reply | death between taking, executing and answering; forged requests; batch size 0 | a request is executed only by a replica it was routed to and as it was prepared, and is answered |
| Server launcher, `bladb-server/src` | handlers by subject behind a mutex | register, dispatch | it listens before it has subscribed | a call reaches the handler of its app and module, or is not found |
| HTTP front end, startup; client SDK, React hooks, TypeScript server package | sockets, timers, subscriptions | | reconnection and unsubscription in the client | |

Interaction: a connection thread of the gateway calls `app.rs`, which calls
the user module (locally `auth.rs`, remotely the user service through
`bladb-server`'s HTTP transport), then an app handler or the policy path
(`lib.rs`, `routing.rs`, then a module's `execute`). The flash-sale handler
spawns ticket threads that outlive the request. Publishing a command or
message pushes into the channel of every matching stream. Workers meet the
rest of the system only through the stream.

## 2. Modules

```
Sale  <---------- FlashSale ------- MCFlashSale       FlashSaleProofs
SessionStore <--- UserService ----- MCUserService     UserServiceProofs
SessionStore <--- GatewaySessions - MCGatewaySessions GatewaySessionsProofs
                  UserProvider ---- MCUserProvider    UserProviderProofs
                  WorkerRuntime --- MCWorkerRuntime   WorkerRuntimeProofs
                  RobotTopics ----- MCRobotTopics     RobotTopicsProofs
Queries - DeviceCommands ---------- MCDeviceCommands  DeviceBlogProofs
       \- BlogPosts --------------- MCBlogPosts       DeviceBlogProofs
Manifests - GatewayPolicy - ModuleRuntime ---- MCModuleRuntime ---- RequestPathProofs
        \- StartupConfig \- RequestPipeline -- MCRequestPipeline -- RequestPathProofs
```

`<---` is a refinement (`INSTANCE ... WITH`, with the abstract specification
as a property). `RequestPathProofs` and `DeviceBlogProofs` are about two modules
each, so one of the two has a prefixed `Init`, `Next`, `Spec` and `vars`
(`PipelineSpec`, `BlogSpec`, ...). Each module's header says what an action stands for. Every
module also holds, directly before the definition they vary, a few operators no
action uses: plausible bugs in that definition (`mutants` in `PROJECT.json`).
Each property of each passing run fails under one of them.

### FlashSale and Sale

`saleState` is the `Mutex<FlashSaleState>`; `thread[t]` is where the thread of
ticket `t` stands. One action is one critical section: `EnqueuePurchase`,
`ClaimTicket` (first section of `process_ticket`), `CompleteTicket` and
`FailTicket` (the second, with its three outcomes), `PanicOnOverflow` (the
second section in a build with overflow checks), `ExitPoisoned`, and the direct
commands `StockDecr` and `CreateOrder`. Sleeps promise only a minimum and order
nothing. `i64` is modelled with width: `WrapI64` in a release build, a panic
with the mutex held in a debug build, for the price of a ticket and for the
subtraction of `stock.decr` alike (`PanicOnDecr`). Order ids are derived from the length of
the table as in the code.

`Sale` has no ticket, thread, row or lock: requests are granted or refused one
by one, a granted one takes units and money together, a refused one takes
nothing and is refused only while stock or money is short. Its amounts are
machine integers like the code's: a restock may go to any level, and a price
that wraps is compared and charged as what it wraps to.

### WorkerRuntime

`pc`, `job`, `attempt`, `step`, `processed` are a replica's place in `run_tick`
and `execute_job`; `mail`, `deliveries` are the stream. The stream itself is a
trait without an implementation in the repository, modelled from its use and
the manifests and marked external: at-least-once delivery, leases, negative
acks of superseded deliveries ignored. `Crash` can hit between any two calls;
`ExpireLiveLease` is a lease that runs out under a replica that is only slow
(the plan's `timeout_ms` is compiled and enforced by nothing).

### UserService and SessionStore

`users`, `sessions`, `nextUser`, `nextSession` are the four mutex-protected
fields of `AppState`; `holder` records a mutex that is held from one action to
the next, which only `register` does (users while it waits for the user
counter, then the counter until it returns). `pc[th]` is where a handler stands
between two locks; `request`, `subject`, `stamp`, `serial` are its locals;
`ok`, `granted` its reply. A critical section that waits for nothing is one
action, named after what the handler does there. `SetClock` moves the wall clock
anywhere, backwards too. Tokens and uids keep their number and not their
spelling; `user_key` is an arbitrary function, because
`format!("{app}:{email}")` is not injective.

`SessionStore` is the table with no users, threads or locks: `Issue`, `Renew`
(only before the expiry), `Revoke`, `Lapse`, and tokens that never come back.
The history variables `revoked` and `lapsed` are shared by both.

### GatewaySessions

The in-memory user module and the calls of the application layer around it, a
thread per connection. An operation of `InMemoryAuthService` is one hold of one
mutex and so one action; a call of `app.rs` is one to three of them. `pc[th]`
is where a call stands (`start`, `anonymous`, `handle`, `remove`), `session[th]`
the session it resolved, `granted[th]` what its answer carries. An app call
looks its bearer or cookie up, makes an anonymous session if that yields none
and the app serves visitors, runs the handler, and answers or fails; a logout
looks the token up and removes it under a second hold. Configured users are
read in order and set the user counter, as `from_user_configs` does: an id
that is not `u_N` with an `N` of the right type does not count.
It refines the same `SessionStore` as `UserService`, the first with atomic
operations under calls that are not, the second with operations that are not.

### UserProvider

The composition across processes: gateway threads using
`HttpUserModuleProvider`, the launchers' tables of subjects, and the service.
`token_apps` is the provider's map, `flight[th]` the call on its way, `live`,
`next` the service's sessions and counter, `subscribed` the subjects inserted
so far, each an app and a method. The service starts a launcher for each of its
apps in turn (`ServiceApps`, six in the code), and each subscribes the methods in
the order of the registry. The provider holds its mutex only to read or write the map; the actions
are those critical sections, the service's handlers (one step each: `UserService`
is their detail) and the faults: `LoseCall`, the answer lost in `Carried`,
`ServiceRestarts`, `GatewayRestarts`. What the model showed and the properties
name as it is: a restarted service numbers tokens from one again, so tokens of
calls that a restart overtook are in `crossed` and excepted; a restarted
gateway knows no bearer token until a call by cookie or a login teaches it
again, so `given` starts empty there too. A launcher accepts connections
before it has subscribed all handlers, so early calls are not found; and a
token of one app that is sent to the launcher of another is refused by it.
`default_http_agent` sets no timeout.

### DeviceCommands and RobotTopics

A module's log behind one mutex, its list of subscribers, and the thread of each
stream (`place[s]`, `queue[s]`, `written[s]`). Publishing appends to the log and
sends to every matching subscriber in one hold, dropping those whose receiver is
gone; opening a stream is a check and a subscription. The subscribers are a set:
the code's `Vec` has an order, but each has a channel of its own and `retain`
treats them one by one. A stream's thread writes what is queued and a keep-alive otherwise, and ends when writing fails.

What a stream owes its client is a filter of the log, in `DeviceCommands` the
`Selected` of `Queries` (records whose fields are those of a query, in the order
of the list: the `iter().filter()` of the code), in `RobotTopics` `OfTopic`. Both
are recursive functions, so that they can be reasoned about.

`DeviceCommands` takes tenants without `/`, since a tenant is the second part of
a topic. `RobotTopics` adds the backend: app routes publish, read and subscribe
through it by HTTP when one is configured, while the policy command `execute`
still publishes into the gateway's own log. A proxied publication may be given
up after its five seconds before or after the backend carried it out, and the
backend may restart and forget. A proxied stream has no keep-alive of its own:
its thread learns of a departed client only when something is to be copied.

### BlogPosts

Every route is one hold of the mutex and one action. `FilteredPosts` is the
translation of the filter, sort and paging of the code (`Selected` and `Page` of
`Queries`, `NewestFirst`), checked against what a reader expects of a page
(`FeedNewestFirst`). `sort_by` is stable, so its result is determined:
`NewestFirst` chooses the one order of the places that `Sorts` admits.
`createdAt` is compared as a string, so the model keeps a label's place in that
order: the clock's are its seconds ("17..."), a configured one is any string,
and a date ("2026-...") is above them all. What the lists then promise is less
than newest first. Posts made at run time come in the order they were made, as
long as the clock was not set back between two of them; against a configured
post, or after a set-back clock, the label alone decides, and finding 2 is what
follows from it. Configured ids are taken as they are: `AcceptedKept` and
`IdsNotReused` leave out the ids that the configuration itself makes clash
(`Unclashed`), those above the number of configured posts and those two of them
share.

### Manifests, GatewayPolicy, StartupConfig, RequestPipeline

`Manifests` says which policy and topology manifests the parsers accept.
`GatewayPolicy` has the shape check of a request, `PolicyMatches`, `authorize`
(first match, in order) and `prepare` (values bound to the caller filled in, key
templates rendered). `StartupConfig` goes from the command line to a
configuration. `RequestPipeline` composes them into a process that starts,
serves requests of callers of several apps and stops: the search through the
gateways of the caller's app, the cluster that lists the policy, the route key
and its shard, and the module's answer. All of this is read-only, so a request is
one step. A field of `routeBy` is read from the caller, the request, the prepared
body or the event's payload at any depth, and a key needs a scalar in each. The
hash of a route key may be any number: that equal keys have equal hashes is a
promise of the standard library, nothing is stored by shard, and no property
rests on it. A template among the values of a template is filled in as the code
does it, by rendering it first. A policy that no cluster lists is not refused at
the start; requests under it fail with 500.
Identities are taken to be plain values and the leaves of a body to be what JSON
can say (`IdentityAssumption`, `RequestAssumption`).

### ModuleRuntime

A replica's `place` in `serve_blocking`, `run_tick` and `run_batch`, the
request it holds, its result and its plan (`build_plan` over the accepted
manifests of `Manifests`). The inbox and the adapters are traits without an
implementation in the repository and are marked external. The inbox may hand a
request to any replica, also to one planned for another cluster, so that what
keeps it from being executed there are the replica's own checks; `carriers`
records the plans under which a request was executed. That the inbox hands out a
request once is its promise and not the code's. `Crash` can hit
between any two steps: a request in hand is then lost, since the trait has no
acknowledgement.

## 3. Runs

| Run | Instance | What it shows |
|---|---|---|
| `flash_sale` | 3 tickets, 2 buyers (one without a configured wallet), stock 2, price 2, `i64` narrowed to -32..31, quantities 0, 1, 2 and 20, one direct order row, decrements 31 and -30, both builds | `StockConserved`, `WalletConserved`, `TicketsMatchOrders`, `NoOrphanTicket`, `PositionNeverGrows`, `ImplementsSale`, `TicketsSettle` |
| `flash_sale_panic` | the same with 2 tickets and a decrement that cannot overflow | violated: an accepted ticket does not always settle (finding 1) |
| `worker_runtime` | 2 replicas, 2 jobs (one misrouted), 2 steps, 2 attempts, `max_batch` 0, 1 crash, 1 early expiry | `GoneMeansReported`, `StepsInOrder`, `SuccessMeansAllSteps`, `RetryBudget`, `EveryJobSettles` |
| `user_service` | 2 concurrent connections, 2 apps whose keys collide, 1 seeded user, 2 sessions, 2 clock readings, lease 1 | `IdentitiesDistinct`, `RevokedNotServed`, `UsersStay`, `LogoutOnce`, `ImplementsSessionStore`, `RequestsAnswered` |
| `gateway_sessions` | 2 connections, 2 apps whose user keys collide, one with visitors and configured users of two standings, one without; 3 configured users, one of them with the uid of the first visitor, 2 sessions, times 0 and 1, lease 1 | `IdentitiesFresh`, `SessionsReachClients`, `IdentityKept`, `ImplementsSessionStore` |
| `user_provider` | 2 connections, 2 apps whose launchers start one after the other, a cookie of one sent to the other, registration disabled, 2 sessions per incarnation, one restart of either side, calls and answers lost at any time | `LiveSessionsKnown`, `LogoutEffective` |
| `device_commands` | 2 streams, one device id in two tenants, 4 viewers (owner, visitor, same uid in another tenant, another app), 3 commands, lists of 2 | `StreamComplete`, `StreamsApart`, `DepartedStreamsEnd` |
| `robot_topics` | 2 streams, 2 publications, 3 topics (one only the gateway allows, one nobody), with and without a backend, one restart of it | `StreamFaithful`, `PublishesAccounted` |
| `blog_posts` | 2 authors in two tenants, 1 configured post with the id of the first one made at run time, ids up to 4, 2 labels of the clock, pages of 2 and 1 | `AcceptedKept`, `FeedNewestFirst`, `IdsNotReused` |
| `blog_publish` | the configured post has its own id, public lists of 1, ids up to 3 | violated: a post just published is not in the public list (finding 2) |
| `request_pipeline` | 2 accepted and 7 refused configurations, gateways of two apps that both have a policy for the same query, callers of both and of an app without a gateway, route fields of every context, nested templates, hash values 1, 2 and 3 | `ServedUnderPolicy` |
| `module_runtime` | 2 replicas, 2 accepted configurations of two clusters (batches of none and of two) and 5 refused, 3 requests (one for each cluster, one with a body that was not prepared), 1 crash | `ExecutedAsRouted`, `RequestsAnswered` |

`flash_sale`, `worker_runtime`, `user_service` and `gateway_sessions` check their
module's `TypeOK` too.

Why the bounds are enough for what is checked: three tickets give a ticket
before and one behind any ticket, and more demand than stock; quantity 20 is the
one that overflows the narrowed integer, as a large quantity does in 64 bits; the
decrements include one that asks for too much and a negative one, after which
the stock is worth more than the type can hold, so that a price that wraps can
be charged, and after which the next one overflows. Two replicas
are enough for a job to be worked on by a live and by a superseded holder; one
crash and one early expiry already reach every place of the loop, and the
budget property counts them. Two connections interleave any two handlers, and
no handler involves a third; a second session is needed so that a token can be
confused with another, and times 0 and 1 with lease 1 include the boundary
`expires_at == now` and a session that is already over when it appears. The
gateway's sessions need the same two connections and two tokens; its second app
has neither visitors nor configured users, so that every way to resolve a session
fails somewhere. One restart of the provider's peer, or of the gateway, falls
between any two steps of two requests; a second one only repeats an empty table.
Two streams are a stream and a neighbour that comes and goes around it, and three
commands are one before, one between and one after its two holds. With pages
of one and two and three posts beside the configured one, a post is on the page,
pushed off it, deleted and replaced. Three hash values reach every shard of the
configured clusters. Two apps are one whose launcher is up and one whose is not
yet, and a token's own and another. A batch of two with two
replicas leaves a request in hand, one in the batch and one in the inbox. What
does not depend on these bounds is what the theorems are for.

Deadlock is checked wherever the system may not stop. The flash sale really stops
when all tickets are settled or the mutex is poisoned; replicas of the worker
poll an empty stream for ever, which the model leaves out; all streams of
`device_commands` and `robot_topics` may have ended and the bound on the log be
reached: these four runs, and `flash_sale_panic`, switch the check off.

Fairness. A ticket's thread is scheduled and its sleeps end (weak fairness of
`ThreadStep`); clients owe nothing. `serve_blocking` never stops a replica and an
abandoned lease runs out (weak fairness of `LoopStep` and `ExpireLostLease`);
crashes and early expiries are never fair. A replica of the module runtime
takes its next step and the deployment restarts one that is down
(`deployment.replicas`; weak fairness of `LoopStep` and `Boot`); `RequestsAnswered`
there does not assume that a request is sent. A stream's thread writes what is
queued (weak fairness of `StreamStep`), and a write to a client who left fails in
the end (`EndStream`: the code's keep-alive makes sure there is a write).
A handler thread of the user service
runs and gets a mutex that stays free for it (weak fairness of `HandlerStep`).
With an unlimited stream of registrations a thread could also be overtaken at
the user counter for ever, since `std::sync::Mutex` promises no order; the
run's bound on sessions excludes that, so `RequestsAnswered` says that no set of
requests blocks itself, and says nothing of starvation by others.

## 4. Findings

1. `flash_sale_panic`. `process_ticket` multiplies price by quantity before it
   compares the quantity with the stock, with the mutex held. In a debug build a
   large quantity panics there: its ticket stays `processing`, the mutex is
   poisoned, and no later ticket settles, although the test at
   `flash_sale.rs:822-825` asserts that an accepted purchase ends up completed or
   failed. In a release build the product wraps, and the ticket is refused for
   its quantity unless the stock is that large, in which case the wrapped price
   is charged; `ImplementsSale` covers both.
2. `blog_publish`. The lists sort `createdAt` as strings, and a post made at run
   time is stamped with seconds, "17...", below every configured date. Once
   configured posts fill the public list, a post that is published is never in
   it, although the walkthrough of the example (`apps/examples/blog/README.md:18-19`)
   has the reader confirm that it is. The example's own configuration has fewer
   posts than the list holds; there a new post follows them.

## 5. Proofs

Every theorem holds for all values of the constants that satisfy the named
assumptions of the module (`ConfigAssumption`,
`SeedAssumption`; `PlanAssumption`, `NoJobAssumption`; `ServiceAssumption`,
`SeedAssumption`, `FreeAssumption`; `SessionsAssumption`;
`ProviderAssumption`; `TopicsAssumption`, `SeedAssumption`; `DevicesAssumption`;
`BlogAssumption`; `PipelineAssumption`, `IdentityAssumption`,
`RequestAssumption`; `RuntimeAssumption`). Each proof module defines an inductive
invariant (`IInv`; `BlogInv` and `PipelineInv` where it is the second of its
module), proves it for the initial states and for each action, and derives the
properties. Every invariant and every action property of a passing run is a
theorem, and so is every refinement.

- **FlashSaleProofs**: `TypeCorrect`, `OrdersMatch`, `NoTicketOrphaned`,
  `PositionMonotone`, `UnitsConserved`, `MoneyConserved`, `SaleImplemented`.
  `TicketsMatchOrders` is not inductive: it needs that order
  ids are the row numbers (`OrdersNumbered`), which row a completed ticket owns
  (`TicketRows`, `RowsDistinct`), that unused ticket numbers are untouched
  (`UnusedTickets`) and where a ticket's thread stands for each status
  (`ThreadsTrackTickets`). The conservation laws rest on lemmas about sums over
  finite sets: a sum does not depend on the order it is taken in, and one ticket
  more adds what it is worth. Money is conserved for a buyer as long as no completed
  ticket of his has a price that overflows, which is a premise of `WalletConserved`
  itself and not an assumption on the configuration. In the refinement enqueueing,
  settling and the stock command map to steps of `Sale`, all else stutters; since
  `Sale` counts in the same machine integers, prices that wrap need no premise
  there. `SeedAssumption` (configured order ids count from one) is for
  `TicketsMatchOrders`.
- **WorkerRuntimeProofs**: `TypeCorrect`, `NothingVanishes`, `OrderedSteps`,
  `SuccessIsComplete`, `DeliveriesBounded`. The invariant adds what a replica's
  place says about effects and reports (`ReplicasConsistent`) and how many
  deliveries are left for a job that is still in the stream (`DeliveryLeft`).
- **UserServiceProofs**: `TypeCorrect`, `IdentitiesStayDistinct`,
  `RevokedStaysDead`, `UsersNeverReplaced`, `LogoutsSucceedOnce`,
  `SessionStoreImplemented`. No property is
  inductive alone, since each depends on what a handler carries from one mutex to
  the next: numbers in use lie below the counters (`UsersConsistent`,
  `SessionsConsistent`, `EndedConsistent`), a registering thread holds the users
  mutex and its key is free (`Phase`), the subject and number of a session about
  to be stored are nobody else's (`Subject`, `Apart`), and a reply never carries
  a token that was revoked when its request began (`Served`). In the refinement
  `StoreSession` is `Issue`, `RenewSession` is `Renew`, `RemoveExpired` is `Lapse`,
  `RemoveSession` is `Revoke`; every other action leaves the table alone. That
  `Issue` gets a fresh token although counter and table are under different
  mutexes is `Subject`.
- **GatewaySessionsProofs**: `TypeCorrect`, `IdentitiesAlwaysFresh`,
  `SessionsAlwaysReachClients`, `IdentityIsKept`, `SessionStoreImplemented`. Uids
  that were made up lie between the highest configured number and the counter
  (`UsersConsistent`, `SessionsConsistent`, on `ListMaximum`, what the maximum of
  a set drawn from a list is); tokens in use, revoked or lapsed are numbered below
  theirs (`Numbered`); and a call that is about to act as another session than
  its cookie's has found the cookie's gone or of another app (`Renounced`), which
  stays true because tokens never come back. Configured users are whatever the
  configuration says. One whose uid has the form the gateway gives visitors may
  share it with a visitor, which `IdentitiesFresh` says; of two under one key the
  later replaces the earlier, and standings are those of the users that are left.
- **UserProviderProofs**: `LiveSessionsAlwaysKnown`, `LogoutsAlwaysEffective`.
  The map is right in what it says (`MapOK`), sessions in use and ended ones have
  used-up numbers (`ServiceOK`), and what a request carries between two calls is
  still its own (`ThreadOK`): a call names the token presented, an answer was not
  revoked when the request began, and in the incarnation it began in a logout
  that succeeded is not undone. Both properties hold through any number of
  restarts because `began` tells the incarnations apart.
- **RobotTopicsProofs**: `TypeCorrect`, `StreamsAlwaysFaithful`,
  `PublishesAlwaysAccounted`. For the streams (`StreamInv`): a subscriber's thread
  has its receiver, and what was written, what is queued and the log since the
  subscription agree. For the publications (`CallInv`): a call's message is in one
  place at most, in a log, in flight or lost in a restart, and the answer agrees
  with the place.
- **DeviceBlogProofs**, `DeviceCommands`: `CommandsTyped`, `StreamsAlwaysComplete`,
  `StreamsAlwaysApart`, and `EndedAlwaysDropped`, the safety half of
  `DepartedStreamsEnd`. Beside the types `IInv` says that a stream with a receiver
  has a subscriber and every subscriber the device, tenant and issuer its stream
  was opened with (`SubscribersOpen`), by a viewer who sees that device
  (`StreamsOpened`), that what was written and what is queued
  are the selection of the log since the subscription (`SentInOrder`), and that
  also a departed client's channel holds only his commands (`AllMeant`).
- **DeviceBlogProofs**, `BlogPosts`: `BlogTyped`, `AcceptedAlwaysKept`,
  `IdsNeverReused`, `FeedAlwaysNewestFirst`. Ids given lie below the counter
  (`GivenIds`), a stored post is what was accepted of it (`PostsKept`), and posts
  are stored with falling ids in front of the configured ones (`PostsInOrder`),
  which a stable sort preserves where labels are equal. An id that clashes with
  none is a configured one's own or above them all (`UnclashedConfigured`,
  `OwnIds`). That the sort is defined
  (`SortedExists`) is proved for lists of any length by putting the last record
  in its place among the sorted others.
- **RequestPathProofs**, `RequestPipeline`: `AlwaysServedUnderPolicy`.
  A running process has an accepted configuration
  (`ProcessSound`), so one cluster lists a policy and a hashed cluster has shards,
  and what is bound in a prepared body is the caller's.
- **RequestPathProofs**, `ModuleRuntime`: `AlwaysExecutedAsRouted`. A request is in
  one place: once in the inbox (`InboxConsistent`), in one hand (`HeldApart`), or
  done; and its place in the hand tells whether it was executed (`ReplicaOK`). That
  a replica which executed it was planned for its cluster and runtime
  (`CarriersFit`) follows from the checks alone, wherever the request was handed.

How sums, filters and sorts are proved about. The theorems on induction take the
induction formula as a parameter, which the provers cannot instantiate. The
proofs of these lemmas go through the least element instead: a set of naturals
that is not empty has a least member (`NatMinimum`, from the well-foundedness of
the naturals), so the set of lengths at which a statement fails is empty once
the statement holds for the empty list and passes from a list to the next longer
one. A recursive function is first shown to exist in this way and is then used by
its equation (`KeptExists`, `KeptAt`). This works for the functions the models
use; it does not give an induction principle to cite.

Only model-checked: the liveness properties `TicketsSettle`, `EveryJobSettles`,
the first half of `DepartedStreamsEnd`, and both `RequestsAnswered`, since what
happens eventually under fairness is out of the provers' reach; and the two
violated properties of section 4, which are false.

## 6. Not modelled, and why

- HTTP parsing and socket reading, rendering, labels, log texts, and the commands
  `prepare`, `route` and `ros2` of the command line: I/O around operations that
  are modelled.
- Reports that only read the configuration: `topology_snapshot`, the IoT
  telemetry lists and the count of active devices.
- The `sku` and step log of a ticket, display names, and the type and payload of
  messages: data no property tells apart.
- In `bladb-core`: the rules for worker manifests (`worker.rs`), the collection
  of reserved values, which nothing uses, and serialisation. The enforce rules of
  a policy manifest are parsed and never applied, so there is nothing to model.
- Parameters that name each other in a circle (`{args.x}` and `{args.y}`):
  `render_scalar` would follow them without end. They are taken not to occur;
  listed as a hazard.
- Ids of posts that the configuration makes clash, among themselves or with those
  of run time: modelled, and excepted from the properties; listed as a hazard.
- The end of `u64` in the gateway's counter of users, after a configured `u_N` with
  `N` at that end.
- The tokens that a restarted user service gives out again: modelled, and excepted
  from the properties (`crossed`), since nothing says what a client who holds one
  may see; listed as a hazard.
- A job's idempotency key: `event.rs` computes it and nothing reads it, so a retry
  runs the steps from the first again; a property of a component the repository
  only plans.
- A restart of the gateway forgets tickets, wallets and messages; nothing
  promises otherwise and a restart of those modules is a new behaviour from
  `Init`. Restarts that meet a peer with a memory are in `UserProvider`,
  `RobotTopics`, `WorkerRuntime`, `RequestPipeline` and `ModuleRuntime`.
- The client SDK, the React hooks and the TypeScript server package: to the
  models a client is anyone who sends any request in any order. Front ends,
  scripts, deployment manifests.

## 7. Plan

The planned components are modelled. What would add most next:

1. The worker manifest's rules in `Manifests`, so that `WorkerRuntime` starts from
   accepted configurations as `ModuleRuntime` does.
2. The client SDK's subscriptions (reconnection, unsubscription while a
   connection is being opened) against `DeviceCommands` as the server.
3. Theorems about the single definitions: that the parsers' rules (`ValidPolicies`,
   `ValidTopology`) give `GatewayPolicy` what it relies on; and the safety each
   liveness argument rests on (no stuck lock order in `UserService`, no replica
   without a next step).
