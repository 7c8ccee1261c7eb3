------------------------------ MODULE FlashSale ------------------------------
(***************************************************************************)
(* The flash-sale module of the gateway (crates/bladb-gateway/src/local/   *)
(* flash_sale.rs).  All its state sits behind one mutex.  A purchase is    *)
(* queued as a ticket, and a thread spawned for that ticket alone takes    *)
(* the mutex twice: to claim the ticket, and, after a pause, to settle it  *)
(* against stock, wallet and order table.  In between, other tickets'      *)
(* threads and the direct stock and order commands of the policy path run  *)
(* freely.                                                                 *)
(*                                                                         *)
(* Each action is one critical section.  A sleep only promises a minimum   *)
(* duration, so a ticket's thread may run late by any amount, and the      *)
(* position-dependent delay orders nothing: sleeps are left out.           *)
(*                                                                         *)
(* Arithmetic is i64.  In a debug build a result the type cannot hold is a *)
(* panic, and as it happens with the mutex held the mutex stays poisoned:  *)
(* every later lock() fails.  In a release build the result wraps.         *)
(***************************************************************************)
EXTENDS Integers, Sequences, FiniteSetsExt

CONSTANTS
  Users,            \* uids of the sessions that buy
  Quantities,       \* quantities a client sends, legal or not
  DecrAmounts,      \* amounts of the direct stock.decr command
  Rows,             \* buyer, quantity and status of direct orders.create calls
  Price,            \* item.price
  OpeningStock,     \* configured stock
  OpeningWallets,   \* configured wallets: a function on some of the users
  FallbackBalance,  \* the 1280 used when no wallet is configured
  SeedOrders,       \* configured orders, oldest first
  MaxI64,           \* largest value of the integer type
  MaxTickets,       \* bound: tickets accepted in a behaviour
  MaxOrders         \* bound: rows the direct orders.create command fills up to

I64 == (-MaxI64 - 1)..MaxI64
TicketIds == 1..MaxTickets
OrderIds == Nat \ {0}
Order == [id : OrderIds, uid : Users, quantity : Int, confirmed : BOOLEAN]

\* The largest configured wallet, which is what an unknown buyer starts with.
DefaultBalance ==
  IF DOMAIN OpeningWallets = {} THEN FallbackBalance
  ELSE Max({OpeningWallets[u] : u \in DOMAIN OpeningWallets})

ASSUME ConfigAssumption ==
  /\ MaxTickets \in Nat /\ MaxOrders \in Nat
  /\ MaxI64 \in Nat
  /\ Quantities \subseteq I64 /\ DecrAmounts \subseteq I64
  /\ Rows \subseteq [uid : Users, quantity : Int, confirmed : BOOLEAN]
  /\ Price \in 0..MaxI64
  /\ OpeningStock \in 0..MaxI64
  /\ DOMAIN OpeningWallets \subseteq Users
  /\ OpeningWallets \in [DOMAIN OpeningWallets -> 0..MaxI64]
  /\ DefaultBalance \in 0..MaxI64
  /\ SeedOrders \in Seq(Order)

\* Configured order ids are ord_0001, ord_0002, ... without gaps, as in every
\* configuration of the repository.
ASSUME SeedAssumption == \A i \in 1..Len(SeedOrders) : SeedOrders[i].id = i

VARIABLES
  stock,       \* redis.stock
  wallets,     \* redis.wallets: entries are created when a user first buys
  orders,      \* db.orders, oldest first (the Vec is newest first)
  tickets,     \* worker.tickets by sequence number
  nextTicket,  \* worker.next_ticket_id
  thread,      \* where the thread spawned for a ticket stands
  poisoned,    \* whether the mutex is poisoned
  debugBuild,  \* whether the build checks integer overflow
  adjusted     \* history: net change of the stock by stock.decr

saleState == <<stock, wallets, orders, tickets, nextTicket>>
vars == <<stock, wallets, orders, tickets, nextTicket, thread, poisoned,
          debugBuild, adjusted>>

NoOrder == 0
NoTicket == [status |-> "absent"]
Status == {"queued", "processing", "completed", "failed"}
Ticket == [status : Status, uid : Users, quantity : Nat \ {0},
           order : OrderIds \cup {NoOrder}]

Active(t) == tickets[t].status \in {"queued", "processing"}
Settled(t) == tickets[t].status \in {"completed", "failed"}
Completed == {t \in TicketIds : tickets[t].status = "completed"}
----------------------------------------------------------------------------
(* Helpers of the code. *)

\* The value the summary page shows, and what a first purchase starts from.
SummaryWallet(u) == IF u \in DOMAIN wallets THEN wallets[u] ELSE DefaultBalance

WithFreshWallet(u) ==
  [v \in DOMAIN wallets \cup {u} |->
     IF v = u THEN DefaultBalance ELSE wallets[v]]

\* ensure_wallet_balance: the wallet map with an entry for u.
WithWallet(u) ==
  [v \in DOMAIN wallets \cup {u} |-> SummaryWallet(v)]

\* The position a ticket's reader is shown (0 when there is none).
QueuePositionLenient(t) ==
  IF ~Active(t) THEN 0
  ELSE IF tickets[t].status = "processing" THEN 1
  ELSE Cardinality({s \in TicketIds : Active(s)})

QueuePosition(t) ==
  IF ~Active(t) THEN 0
  ELSE IF tickets[t].status = "processing" THEN 1
  ELSE Cardinality({s \in TicketIds : Active(s) /\ s <= t})

Overflows(q) == Price * q > MaxI64

\* Two's-complement value of an i64 result.
WrapI64(x) ==
  LET width == 2 * (MaxI64 + 1) IN ((x + MaxI64 + 1) % width) - (MaxI64 + 1)

\* Order ids count the rows there are; rows are never removed.
NextOrderIdOffByOne == Len(orders)

NextOrderId == Len(orders) + 1

Cost(q) == WrapI64(Price * q)
----------------------------------------------------------------------------
Init ==
  /\ stock = OpeningStock
  /\ wallets = OpeningWallets
  /\ orders = SeedOrders
  /\ tickets = [t \in TicketIds |-> NoTicket]
  /\ nextTicket = 1
  /\ thread = [t \in TicketIds |-> "none"]
  /\ poisoned = FALSE
  /\ debugBuild \in BOOLEAN
  /\ adjusted = 0

EnqueueWithoutThread(u, q) ==
  /\ ~poisoned
  /\ nextTicket \in TicketIds
  /\ q > 0
  /\ nextTicket' = nextTicket + 1
  /\ wallets' = WithWallet(u)
  /\ tickets' = [tickets EXCEPT ![nextTicket] =
                   [status |-> "queued", uid |-> u, quantity |-> q,
                    order |-> NoOrder]]
  /\ UNCHANGED <<stock, orders, thread, poisoned, debugBuild, adjusted>>

(* POST /apps/flash-sale/queue: take the next sequence number, give the     *)
(* buyer a wallet, insert the ticket; the thread is spawned after unlock.   *)
EnqueuePurchase(u, q) ==
  /\ ~poisoned
  /\ nextTicket \in TicketIds
  /\ q > 0
  /\ nextTicket' = nextTicket + 1
  /\ wallets' = WithWallet(u)
  /\ tickets' = [tickets EXCEPT ![nextTicket] =
                   [status |-> "queued", uid |-> u, quantity |-> q,
                    order |-> NoOrder]]
  /\ thread' = [thread EXCEPT ![nextTicket] = "sleeping"]
  /\ UNCHANGED <<stock, orders, poisoned, debugBuild, adjusted>>

ClaimAndReturn(t) ==
  /\ thread[t] = "sleeping"
  /\ ~poisoned
  /\ tickets' = [tickets EXCEPT ![t].status = "processing"]
  /\ thread' = [thread EXCEPT ![t] = "exited"]
  /\ UNCHANGED <<stock, wallets, orders, nextTicket, poisoned, debugBuild,
                 adjusted>>

(* The ticket's thread wakes up and claims the ticket. *)
ClaimTicket(t) ==
  /\ thread[t] = "sleeping"
  /\ ~poisoned
  /\ tickets' = [tickets EXCEPT ![t].status = "processing"]
  /\ thread' = [thread EXCEPT ![t] = "reserving"]
  /\ UNCHANGED <<stock, wallets, orders, nextTicket, poisoned, debugBuild,
                 adjusted>>

(* The second critical section of process_ticket: exactly one of the four   *)
(* outcomes below.  The product is computed before anything is compared.    *)
Settling(t) ==
  /\ thread[t] = "reserving"
  /\ ~poisoned

Panics(t) == debugBuild /\ Overflows(tickets[t].quantity)

PanicOnOverflow(t) ==
  /\ Settling(t)
  /\ Panics(t)
  /\ wallets' = WithWallet(tickets[t].uid)
  /\ poisoned' = TRUE
  /\ thread' = [thread EXCEPT ![t] = "exited"]
  /\ UNCHANGED <<stock, orders, tickets, nextTicket, debugBuild, adjusted>>

TooPoorAtEquality(t) ==
  SummaryWallet(tickets[t].uid) <= Cost(tickets[t].quantity)

SoldOut(t) == stock < tickets[t].quantity
TooPoor(t) == SummaryWallet(tickets[t].uid) < Cost(tickets[t].quantity)

FailTicket(t) ==
  /\ Settling(t)
  /\ ~Panics(t)
  /\ SoldOut(t) \/ TooPoor(t)
  /\ wallets' = WithWallet(tickets[t].uid)
  /\ tickets' = [tickets EXCEPT ![t].status = "failed"]
  /\ thread' = [thread EXCEPT ![t] = "exited"]
  /\ UNCHANGED <<stock, orders, nextTicket, poisoned, debugBuild, adjusted>>

CompleteWithoutReserving(t) ==
  LET ticket == tickets[t] IN
  /\ Settling(t)
  /\ ~Panics(t)
  /\ ~SoldOut(t) /\ ~TooPoor(t)
  /\ wallets' = [WithWallet(ticket.uid) EXCEPT
                   ![ticket.uid] = WrapI64(@ - Cost(ticket.quantity))]
  /\ orders' = Append(orders, [id |-> NextOrderId, uid |-> ticket.uid,
                               quantity |-> ticket.quantity,
                               confirmed |-> TRUE])
  /\ tickets' = [tickets EXCEPT ![t].status = "completed",
                                ![t].order = NextOrderId]
  /\ thread' = [thread EXCEPT ![t] = "exited"]
  /\ UNCHANGED <<stock, nextTicket, poisoned, debugBuild, adjusted>>

CompleteTicket(t) ==
  LET ticket == tickets[t] IN
  /\ Settling(t)
  /\ ~Panics(t)
  /\ ~SoldOut(t) /\ ~TooPoor(t)
  /\ stock' = stock - ticket.quantity
  /\ wallets' = [WithWallet(ticket.uid) EXCEPT
                   ![ticket.uid] = WrapI64(@ - Cost(ticket.quantity))]
  /\ orders' = Append(orders, [id |-> NextOrderId, uid |-> ticket.uid,
                               quantity |-> ticket.quantity,
                               confirmed |-> TRUE])
  /\ tickets' = [tickets EXCEPT ![t].status = "completed",
                                ![t].order = NextOrderId]
  /\ thread' = [thread EXCEPT ![t] = "exited"]
  /\ UNCHANGED <<nextTicket, poisoned, debugBuild, adjusted>>

(* A thread that finds the mutex poisoned returns without touching anything. *)
ExitPoisoned(t) ==
  /\ thread[t] \in {"sleeping", "reserving"}
  /\ poisoned
  /\ thread' = [thread EXCEPT ![t] = "exited"]
  /\ UNCHANGED <<saleState, poisoned, debugBuild, adjusted>>

\* The difference leaves the integer type upwards, for a negative amount.
DecrPanics(a) == debugBuild /\ stock - a > MaxI64

DecrBelowZero(a) ==
  /\ ~poisoned
  /\ ~DecrPanics(a)
  /\ stock' = WrapI64(stock - a)
  /\ adjusted' = adjusted + (stock' - stock)
  /\ UNCHANGED <<wallets, orders, tickets, nextTicket, thread, poisoned,
                 debugBuild>>

(* Policy flashsale.stock.decr: a direct write of the counter, clamped at 0. *)
(* A negative amount restocks; where the sum wraps, the counter ends at 0.   *)
StockDecr(a) ==
  /\ ~poisoned
  /\ ~DecrPanics(a)
  /\ stock' = LET left == WrapI64(stock - a) IN IF left < 0 THEN 0 ELSE left
  /\ adjusted' = adjusted + (stock' - stock)
  /\ UNCHANGED <<wallets, orders, tickets, nextTicket, thread, poisoned,
                 debugBuild>>

(* The subtraction of stock.decr panics with the mutex held.                 *)
PanicOnDecr(a) ==
  /\ ~poisoned
  /\ DecrPanics(a)
  /\ poisoned' = TRUE
  /\ UNCHANGED <<saleState, thread, debugBuild, adjusted>>

(* Policy flashsale.orders.create: a direct insert with the caller's buyer,  *)
(* quantity and status; stock and wallet are not looked at.                  *)
CreateOrder(row) ==
  /\ ~poisoned
  /\ Len(orders) < Len(SeedOrders) + MaxOrders
  /\ orders' = Append(orders, [id |-> NextOrderId, uid |-> row.uid,
                               quantity |-> row.quantity,
                               confirmed |-> row.confirmed])
  /\ UNCHANGED <<stock, wallets, tickets, nextTicket, thread, poisoned,
                 debugBuild, adjusted>>

ThreadStep(t) ==
  \/ ClaimTicket(t)
  \/ PanicOnOverflow(t)
  \/ FailTicket(t)
  \/ CompleteTicket(t)
  \/ ExitPoisoned(t)

ClientStep ==
  \/ \E u \in Users, q \in Quantities : EnqueuePurchase(u, q)
  \/ \E a \in DecrAmounts : StockDecr(a) \/ PanicOnDecr(a)
  \/ \E row \in Rows : CreateOrder(row)

Next == ClientStep \/ \E t \in TicketIds : ThreadStep(t)

Spec == Init /\ [][Next]_vars

\* A spawned thread is scheduled and its sleeps end; clients owe nothing.
Fairness == \A t \in TicketIds : WF_vars(ThreadStep(t))

FairSpec == Spec /\ Fairness
----------------------------------------------------------------------------
TypeOK ==
  /\ stock \in 0..MaxI64
  /\ DOMAIN wallets \subseteq Users
  /\ wallets \in [DOMAIN wallets -> I64]
  /\ orders \in Seq(Order)
  /\ tickets \in [TicketIds -> Ticket \cup {NoTicket}]
  /\ nextTicket \in 1..(MaxTickets + 1)
  /\ thread \in [TicketIds -> {"none", "sleeping", "reserving", "exited"}]
  /\ poisoned \in BOOLEAN
  /\ debugBuild \in BOOLEAN
  /\ adjusted \in Int

Units(ts) == MapThenSumSet(LAMBDA t : tickets[t].quantity, ts)

(* Whatever the threads and the direct commands interleave to, every unit is *)
(* accounted for: what is left plus what completed tickets took is what the  *)
(* sale opened with plus what stock.decr changed.  Nothing is oversold, and  *)
(* no failed or panicked ticket keeps a reservation.                         *)
StockConserved == stock + Units(Completed) = OpeningStock + adjusted

(* A buyer whose purchases all have a price the integer type can hold has    *)
(* paid exactly for the units they took, and never more than he had, in      *)
(* whatever order the tickets were settled and the wallet was created.  (A   *)
(* release build charges a price that wraps as whatever it wraps to.)        *)
WalletConserved ==
  \A u \in DOMAIN wallets :
    LET bought == {t \in Completed : tickets[t].uid = u} IN
    (\A t \in bought : ~Overflows(tickets[t].quantity)) =>
      /\ wallets[u] >= 0
      /\ wallets[u] + Price * Units(bought)
           = IF u \in DOMAIN OpeningWallets THEN OpeningWallets[u]
             ELSE DefaultBalance

(* The order table and the tickets agree: order ids are unique although      *)
(* queue and direct inserts share the numbering, a completed ticket names an *)
(* order with its own buyer and quantity, and no two name the same one.      *)
TicketsMatchOrders ==
  /\ \A i, j \in 1..Len(orders) : orders[i].id = orders[j].id => i = j
  /\ \A t \in TicketIds \ Completed :
       tickets[t] # NoTicket => tickets[t].order = NoOrder
  /\ \A t \in Completed : \E i \in 1..Len(orders) :
       orders[i] = [id |-> tickets[t].order, uid |-> tickets[t].uid,
                    quantity |-> tickets[t].quantity, confirmed |-> TRUE]
  /\ \A s, t \in Completed : tickets[s].order = tickets[t].order => s = t

(* While the mutex is healthy every open ticket still has the thread that    *)
(* will settle it, and a settled one has none left to settle it twice.       *)
NoOrphanTicket ==
  \A t \in TicketIds :
    /\ tickets[t].status = "queued" /\ ~poisoned => thread[t] = "sleeping"
    /\ tickets[t].status = "processing" /\ ~poisoned => thread[t] = "reserving"
    /\ Settled(t) => thread[t] = "exited"

(* The position shown to a waiting buyer never gets worse: later purchases   *)
(* queue behind, whatever order the threads run in.                          *)
PositionNeverGrows ==
  [][\A t \in TicketIds : Active(t) => QueuePosition(t)' <= QueuePosition(t)]_vars

(* Every accepted ticket is settled, unless a panic poisons the mutex.       *)
TicketsSettle ==
  \A t \in TicketIds : Active(t) ~> (Settled(t) \/ poisoned)

(* What the test at flash_sale.rs:822-825 asserts of an accepted purchase:   *)
(* it ends up completed or failed.                                           *)
AcceptedTicketsSettle == \A t \in TicketIds : Active(t) ~> Settled(t)
----------------------------------------------------------------------------
(* The abstract sale this module implements.  Threads, order rows and the    *)
(* lazily created wallet entries disappear.                                  *)
VerdictOf(t) ==
  CASE tickets[t].status = "absent" -> "none"
    [] Active(t) -> "open"
    [] tickets[t].status = "completed" -> "granted"
    [] tickets[t].status = "failed" -> "refused"

DemandOf(t) ==
  IF tickets[t] = NoTicket THEN [uid |-> "nobody", quantity |-> 0]
  ELSE [uid |-> tickets[t].uid, quantity |-> tickets[t].quantity]

Abstract == INSTANCE Sale WITH
  Requests <- TicketIds,
  OpeningBalance <- [u \in Users |-> IF u \in DOMAIN OpeningWallets
                                     THEN OpeningWallets[u]
                                     ELSE DefaultBalance],
  balance <- [u \in Users |-> SummaryWallet(u)],
  demand <- [t \in TicketIds |-> DemandOf(t)],
  verdict <- [t \in TicketIds |-> VerdictOf(t)]

(* Each purchase is decided once and atomically: a completed one takes units *)
(* and money together, a failed one takes nothing and fails only while stock *)
(* or money is short, and the summary's wallet changes in no other way.      *)
ImplementsSale == Abstract!Spec
=============================================================================
