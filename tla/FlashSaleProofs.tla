--------------------------- MODULE FlashSaleProofs ---------------------------
(***************************************************************************)
(* Proofs about FlashSale for every set of buyers, every configuration and *)
(* every number of tickets, in debug and release builds: type correctness  *)
(* (the stock never goes negative), the agreement of tickets and orders,   *)
(* the agreement of tickets and threads, queue positions, the conservation *)
(* of units and money, and the implementation of the abstract sale.        *)
(***************************************************************************)
EXTENDS FlashSale, FiniteSetTheorems, WellFoundedInduction, TLAPS

\* Rows are numbered by their place in the table.
OrdersNumbered == \A i \in 1..Len(orders) : orders[i].id = i

\* A completed ticket points at its own row; other tickets point nowhere.
RowOf(t) == [id |-> tickets[t].order, uid |-> tickets[t].uid,
             quantity |-> tickets[t].quantity, confirmed |-> TRUE]

TicketRows ==
  \A t \in TicketIds :
    /\ tickets[t].status = "completed" =>
         tickets[t].order \in 1..Len(orders) /\ orders[tickets[t].order] = RowOf(t)
    /\ tickets[t] # NoTicket /\ tickets[t].status # "completed" =>
         tickets[t].order = NoOrder

RowsDistinct ==
  \A s, t \in Completed : tickets[s].order = tickets[t].order => s = t

\* Sequence numbers from nextTicket on are unused.
UnusedTickets ==
  \A t \in TicketIds : t >= nextTicket => tickets[t] = NoTicket /\ thread[t] = "none"

\* A thread that still has work to do finds its ticket as it left it.
ThreadsTrackTickets ==
  \A t \in TicketIds :
    /\ thread[t] = "sleeping" => tickets[t].status = "queued"
    /\ thread[t] = "reserving" => tickets[t].status = "processing"

IInv ==
  /\ TypeOK
  /\ OrdersNumbered
  /\ TicketRows
  /\ RowsDistinct
  /\ UnusedTickets
  /\ ThreadsTrackTickets
  /\ NoOrphanTicket
----------------------------------------------------------------------------
LEMMA TicketShape ==
  ASSUME NEW x \in Ticket \cup {NoTicket}
  PROVE  /\ x.status = "absent" <=> x = NoTicket
         /\ x.status \in Status => x \in Ticket
         /\ x # NoTicket => x \in Ticket /\ x.status \in Status
BY DEF Ticket, NoTicket, Status

\* What the machine integer of a result is: one of the type, and the result itself
\* where the type can hold it.
LEMMA ModRange ==
  ASSUME NEW x \in Int, NEW w \in Nat \ {0}
  PROVE  x % w \in 0..(w - 1)
OBVIOUS

LEMMA ModSmall ==
  ASSUME NEW w \in Nat \ {0}, NEW x \in 0..(w - 1)
  PROVE  x % w = x
OBVIOUS

LEMMA WrapRange ==
  ASSUME NEW x \in Int
  PROVE  WrapI64(x) \in I64
<1>1. PICK m \in Nat : m = MaxI64
  BY ConfigAssumption
<1>2. PICK y \in Int, w \in Nat \ {0} : y = x + m + 1 /\ w = 2 * (m + 1)
  OBVIOUS
<1>3. PICK r \in Int : r = y % w /\ r \in 0..(w - 1)
  BY ModRange
<1>4. WrapI64(x) = r - (m + 1)
  BY <1>1, <1>2, <1>3 DEF WrapI64
<1> QED BY <1>1, <1>2, <1>3, <1>4 DEF I64

LEMMA WrapExact ==
  ASSUME NEW x \in I64
  PROVE  WrapI64(x) = x
<1>1. PICK m \in Nat : m = MaxI64
  BY ConfigAssumption
<1>2. PICK w \in Nat \ {0} : w = 2 * (m + 1)
  OBVIOUS
<1>3. x \in Int /\ x >= -m - 1 /\ x <= m
  BY <1>1 DEF I64
<1>4. PICK y \in 0..(w - 1) : y = x + m + 1
  BY <1>2, <1>3
<1>5. y % w = y
  BY ModSmall
<1>6. WrapI64(x) = y - (m + 1)
  BY <1>1, <1>2, <1>4, <1>5 DEF WrapI64
<1> QED BY <1>3, <1>4, <1>6

LEMMA I64Ints ==
  /\ I64 \subseteq Int
  /\ 0..MaxI64 \subseteq I64
  /\ \A x \in I64 : x >= 0 => x \in 0..MaxI64
BY ConfigAssumption DEF I64

LEMMA CostType ==
  ASSUME NEW q \in Nat
  PROVE  Cost(q) \in I64 /\ Cost(q) \in Int
<1> PICK c \in Int : c = Price * q
  BY ConfigAssumption
<1>1. Cost(q) \in I64
  BY WrapRange DEF Cost
<1> QED BY <1>1, I64Ints

\* A price the integer type can hold is charged as it is.
LEMMA CostExact ==
  ASSUME NEW q \in Nat, ~Overflows(q)
  PROVE  Cost(q) = Price * q /\ Cost(q) \in Nat
<1> PICK p \in Nat : p = Price
  BY ConfigAssumption
<1>1. PICK c \in Int : c = p * q /\ c >= 0
  OBVIOUS
<1>2. c \in 0..MaxI64
  BY <1>1, ConfigAssumption DEF Overflows
<1> QED BY <1>1, <1>2, WrapExact, I64Ints DEF Cost

LEMMA SummaryWalletType ==
  ASSUME TypeOK, NEW u \in Users
  PROVE  SummaryWallet(u) \in I64
BY ConfigAssumption, I64Ints DEF TypeOK, SummaryWallet

LEMMA WithWalletType ==
  ASSUME TypeOK, NEW u \in Users
  PROVE  /\ DOMAIN WithWallet(u) = DOMAIN wallets \cup {u}
         /\ DOMAIN WithWallet(u) \subseteq Users
         /\ WithWallet(u) \in [DOMAIN WithWallet(u) -> I64]
         /\ \A v \in DOMAIN WithWallet(u) : WithWallet(u)[v] = SummaryWallet(v)
<1>1. \A v \in DOMAIN wallets \cup {u} : v \in Users /\ SummaryWallet(v) \in I64
  BY SummaryWalletType DEF TypeOK
<1> QED BY <1>1 DEF WithWallet, TypeOK
----------------------------------------------------------------------------
LEMMA InitIInv == Init => IInv
<1> SUFFICES ASSUME Init PROVE IInv
  OBVIOUS
<1> USE DEF Init
<1>1. TypeOK
  <2>1. nextTicket \in 1..(MaxTickets + 1)
    BY ConfigAssumption
  <2>2. tickets \in [TicketIds -> Ticket \cup {NoTicket}]
    OBVIOUS
  <2>3. /\ stock \in 0..MaxI64
        /\ DOMAIN wallets \subseteq Users
        /\ wallets \in [DOMAIN wallets -> I64]
        /\ orders \in Seq(Order)
    BY ConfigAssumption, I64Ints
  <2>4. thread \in [TicketIds -> {"none", "sleeping", "reserving", "exited"}]
    OBVIOUS
  <2>5. poisoned \in BOOLEAN /\ debugBuild \in BOOLEAN
    BY Zenon
  <2>6. adjusted \in Int
    OBVIOUS
  <2> HIDE DEF Init
  <2> QED BY <2>1, <2>2, <2>3, <2>4, <2>5, <2>6 DEF TypeOK
<1>2. OrdersNumbered
  BY SeedAssumption DEF OrdersNumbered
<1>3. \A t \in TicketIds : tickets[t] = NoTicket /\ thread[t] = "none"
  OBVIOUS
<1>4. TicketRows /\ UnusedTickets /\ ThreadsTrackTickets /\ NoOrphanTicket
  BY <1>3 DEF TicketRows, UnusedTickets, ThreadsTrackTickets, NoOrphanTicket,
              NoTicket, Settled
<1>5. RowsDistinct
  BY <1>3 DEF RowsDistinct, Completed, NoTicket
<1> QED BY <1>1, <1>2, <1>4, <1>5 DEF IInv

LEMMA EnqueueIInv ==
  ASSUME IInv, NEW u \in Users, NEW q \in Quantities, EnqueuePurchase(u, q)
  PROVE  IInv'
<1> DEFINE n == nextTicket
           new == [status |-> "queued", uid |-> u, quantity |-> q, order |-> NoOrder]
<1> USE DEF EnqueuePurchase
<1>1. n \in TicketIds /\ n' = n + 1 /\ new \in Ticket /\ TypeOK
  <2>1. q \in Nat \ {0}
    BY ConfigAssumption, I64Ints
  <2> QED BY <2>1 DEF Ticket, Status, IInv
<1>2. /\ tickets'[n] = new /\ thread'[n] = "sleeping"
      /\ \A t \in TicketIds \ {n} : tickets'[t] = tickets[t] /\ thread'[t] = thread[t]
  BY <1>1 DEF TypeOK
<1>3. TypeOK'
  <2>1. tickets' \in [TicketIds -> Ticket \cup {NoTicket}]
    BY <1>1 DEF TypeOK
  <2>2. nextTicket' \in 1..(MaxTickets + 1)
    BY <1>1, ConfigAssumption DEF TicketIds
  <2>3. DOMAIN wallets' \subseteq Users /\ wallets' \in [DOMAIN wallets' -> I64]
    BY <1>1, WithWalletType
  <2> QED BY <1>1, <2>1, <2>2, <2>3 DEF TypeOK
<1>4. OrdersNumbered'
  BY DEF IInv, OrdersNumbered
<1>5. TicketRows'
  BY <1>2 DEF IInv, TicketRows, RowOf
<1>6. RowsDistinct'
  <2>1. Completed' = Completed
    BY <1>1, <1>2 DEF IInv, UnusedTickets, Completed, NoTicket, TicketIds
  <2>2. \A t \in Completed : t # n
    BY <1>1 DEF IInv, UnusedTickets, Completed, NoTicket, TicketIds
  <2> QED BY <1>2, <2>1, <2>2 DEF IInv, RowsDistinct, Completed
<1>7. UnusedTickets'
  BY <1>1, <1>2 DEF IInv, UnusedTickets, TicketIds
<1>8. ThreadsTrackTickets' /\ NoOrphanTicket'
  BY <1>2 DEF IInv, ThreadsTrackTickets, NoOrphanTicket, Settled
<1> QED BY <1>3, <1>4, <1>5, <1>6, <1>7, <1>8 DEF IInv

LEMMA ClaimIInv ==
  ASSUME IInv, NEW t \in TicketIds, ClaimTicket(t)
  PROVE  IInv'
<1> USE DEF ClaimTicket
<1>1. tickets[t].status = "queued" /\ tickets[t] \in Ticket /\ TypeOK
  BY TicketShape DEF IInv, ThreadsTrackTickets, TypeOK, Status
<1>2. /\ tickets'[t] = [tickets[t] EXCEPT !.status = "processing"]
      /\ thread'[t] = "reserving"
      /\ \A s \in TicketIds \ {t} : tickets'[s] = tickets[s] /\ thread'[s] = thread[s]
  BY <1>1 DEF TypeOK
<1>3. /\ tickets'[t] \in Ticket
      /\ tickets'[t].status = "processing" /\ tickets'[t].order = tickets[t].order
      /\ tickets'[t] # NoTicket
  BY <1>1, <1>2 DEF Ticket, Status, NoTicket
<1>4. TypeOK'
  BY <1>1, <1>3 DEF TypeOK
<1>5. OrdersNumbered'
  BY DEF IInv, OrdersNumbered
<1>6. TicketRows'
  <2>1. tickets[t] # NoTicket /\ tickets[t].order = NoOrder
    BY <1>1 DEF IInv, TicketRows, NoTicket
  <2> QED BY <1>2, <1>3, <2>1 DEF IInv, TicketRows, RowOf
<1>7. RowsDistinct'
  BY <1>1, <1>2, <1>3 DEF IInv, RowsDistinct, Completed
<1>8. UnusedTickets'
  BY <1>1, <1>2, <1>3 DEF IInv, UnusedTickets, NoTicket
<1>9. ThreadsTrackTickets' /\ NoOrphanTicket'
  BY <1>2, <1>3 DEF IInv, ThreadsTrackTickets, NoOrphanTicket, Settled
<1> QED BY <1>4, <1>5, <1>6, <1>7, <1>8, <1>9 DEF IInv

\* What every outcome of the second critical section starts from.
LEMMA SettlingTicket ==
  ASSUME IInv, NEW t \in TicketIds, Settling(t)
  PROVE  /\ TypeOK
         /\ tickets[t] \in Ticket
         /\ tickets[t].status = "processing" /\ tickets[t].order = NoOrder
         /\ tickets[t].uid \in Users
         /\ tickets[t].quantity \in Nat \ {0}
         /\ SummaryWallet(tickets[t].uid) \in I64
         /\ \A s \in Completed : s # t
<1>1. TypeOK /\ tickets[t].status = "processing"
  BY DEF IInv, ThreadsTrackTickets, Settling
<1>2. tickets[t] \in Ticket
  BY <1>1, TicketShape DEF TypeOK, Status
<1>3. tickets[t].order = NoOrder
  BY <1>1, <1>2 DEF IInv, TicketRows, NoTicket
<1>4. tickets[t].uid \in Users /\ tickets[t].quantity \in Nat \ {0}
  BY <1>2 DEF Ticket
<1> QED BY <1>1, <1>2, <1>3, <1>4, SummaryWalletType DEF Completed

LEMMA PanicIInv ==
  ASSUME IInv, NEW t \in TicketIds, PanicOnOverflow(t)
  PROVE  IInv'
<1>1. TypeOK /\ tickets[t].uid \in Users
  BY SettlingTicket DEF PanicOnOverflow
<1> USE DEF PanicOnOverflow
<1>2. /\ tickets[t].status = "processing"
      /\ thread'[t] = "exited"
      /\ \A s \in TicketIds \ {t} : thread'[s] = thread[s]
  BY <1>1, SettlingTicket DEF TypeOK
<1>3. TypeOK'
  <2>1. DOMAIN wallets' \subseteq Users /\ wallets' \in [DOMAIN wallets' -> I64]
    BY <1>1, WithWalletType
  <2>2. poisoned' \in BOOLEAN /\ debugBuild' \in BOOLEAN
    BY <1>1, Zenon DEF TypeOK
  <2>3. thread' \in [TicketIds -> {"none", "sleeping", "reserving", "exited"}]
    BY <1>1 DEF TypeOK
  <2> QED BY <1>1, <2>1, <2>2, <2>3 DEF TypeOK
<1>4. OrdersNumbered' /\ TicketRows' /\ RowsDistinct'
  BY DEF IInv, OrdersNumbered, TicketRows, RowsDistinct, RowOf, Completed
<1>5. UnusedTickets'
  BY <1>2 DEF IInv, UnusedTickets, NoTicket
<1>6. ThreadsTrackTickets' /\ NoOrphanTicket'
  BY <1>2 DEF IInv, ThreadsTrackTickets, NoOrphanTicket, Settled
<1> QED BY <1>3, <1>4, <1>5, <1>6 DEF IInv

LEMMA FailIInv ==
  ASSUME IInv, NEW t \in TicketIds, FailTicket(t)
  PROVE  IInv'
<1>1. /\ TypeOK /\ tickets[t] \in Ticket
      /\ tickets[t].status = "processing" /\ tickets[t].order = NoOrder
      /\ tickets[t].uid \in Users
      /\ \A s \in Completed : s # t
  BY SettlingTicket DEF FailTicket
<1> USE DEF FailTicket
<1>2. /\ tickets'[t] = [tickets[t] EXCEPT !.status = "failed"]
      /\ thread'[t] = "exited"
      /\ \A s \in TicketIds \ {t} : tickets'[s] = tickets[s] /\ thread'[s] = thread[s]
  BY <1>1 DEF TypeOK
<1>3. /\ tickets'[t] \in Ticket
      /\ tickets'[t].status = "failed" /\ tickets'[t].order = NoOrder
      /\ tickets'[t] # NoTicket
  BY <1>1, <1>2 DEF Ticket, Status, NoTicket
<1>4. TypeOK'
  <2>1. DOMAIN wallets' \subseteq Users /\ wallets' \in [DOMAIN wallets' -> I64]
    BY <1>1, WithWalletType
  <2> QED BY <1>1, <1>3, <2>1 DEF TypeOK
<1>5. OrdersNumbered'
  BY DEF IInv, OrdersNumbered
<1>6. TicketRows'
  BY <1>2, <1>3 DEF IInv, TicketRows, RowOf
<1>7. RowsDistinct'
  BY <1>1, <1>2, <1>3 DEF IInv, RowsDistinct, Completed
<1>8. UnusedTickets'
  BY <1>1, <1>2, <1>3 DEF IInv, UnusedTickets, NoTicket
<1>9. ThreadsTrackTickets' /\ NoOrphanTicket'
  BY <1>2, <1>3 DEF IInv, ThreadsTrackTickets, NoOrphanTicket, Settled
<1> QED BY <1>4, <1>5, <1>6, <1>7, <1>8, <1>9 DEF IInv

\* Appending a row with the next id keeps the table numbered, and every row
\* already in it where it was.
LEMMA AppendNumbered ==
  ASSUME OrdersNumbered, orders \in Seq(Order), NEW r \in Order,
         r.id = NextOrderId, orders' = Append(orders, r)
  PROVE  /\ orders' \in Seq(Order)
         /\ OrdersNumbered'
         /\ Len(orders') = Len(orders) + 1
         /\ orders'[NextOrderId] = r
         /\ \A i \in 1..Len(orders) : orders'[i] = orders[i]
BY DEF OrdersNumbered, NextOrderId

\* A completed purchase is in stock and its buyer can pay what it is charged.
LEMMA CompleteAffordable ==
  ASSUME IInv, NEW t \in TicketIds, CompleteTicket(t)
  PROVE  /\ tickets[t].quantity <= stock
         /\ Cost(tickets[t].quantity) \in I64
         /\ Cost(tickets[t].quantity) <= SummaryWallet(tickets[t].uid)
<1> DEFINE q == tickets[t].quantity
<1>1. TypeOK /\ q \in Nat /\ SummaryWallet(tickets[t].uid) \in Int
  BY SettlingTicket, I64Ints DEF CompleteTicket
<1>2. q <= stock
  BY <1>1, ConfigAssumption DEF CompleteTicket, SoldOut, TypeOK
<1>3. Cost(q) \in I64 /\ Cost(q) \in Int
  BY <1>1, CostType
<1>4. Cost(q) <= SummaryWallet(tickets[t].uid)
  BY <1>1, <1>3 DEF CompleteTicket, TooPoor
<1> QED BY <1>2, <1>3, <1>4

LEMMA CompleteIInv ==
  ASSUME IInv, NEW t \in TicketIds, CompleteTicket(t)
  PROVE  IInv'
<1> DEFINE u == tickets[t].uid
           q == tickets[t].quantity
           row == [id |-> NextOrderId, uid |-> u, quantity |-> q, confirmed |-> TRUE]
<1>1. /\ TypeOK /\ tickets[t] \in Ticket
      /\ tickets[t].status = "processing" /\ tickets[t].order = NoOrder
      /\ u \in Users /\ q \in Nat \ {0}
      /\ \A s \in Completed : s # t
  BY SettlingTicket DEF CompleteTicket
<1>2. orders \in Seq(Order) /\ NextOrderId = Len(orders) + 1 /\ NextOrderId \in OrderIds
  BY <1>1 DEF TypeOK, NextOrderId, OrderIds
<1>3. row \in Order
  BY <1>1, <1>2 DEF Order
<1>4. orders' = Append(orders, row)
  BY DEF CompleteTicket
<1>5. /\ orders' \in Seq(Order)
      /\ OrdersNumbered'
      /\ Len(orders') = Len(orders) + 1
      /\ orders'[NextOrderId] = row
      /\ \A i \in 1..Len(orders) : orders'[i] = orders[i]
  BY <1>2, <1>3, <1>4, AppendNumbered DEF IInv
<1>6. /\ tickets'[t] = [tickets[t] EXCEPT !.status = "completed", !.order = NextOrderId]
      /\ thread'[t] = "exited"
      /\ \A s \in TicketIds \ {t} : tickets'[s] = tickets[s] /\ thread'[s] = thread[s]
  BY <1>1 DEF CompleteTicket, TypeOK
<1>7. /\ tickets'[t] \in Ticket
      /\ tickets'[t].status = "completed" /\ tickets'[t].order = NextOrderId
      /\ tickets'[t].uid = u /\ tickets'[t].quantity = q
      /\ tickets'[t] # NoTicket
  BY <1>1, <1>2, <1>6 DEF Ticket, Status, NoTicket
<1>8. TypeOK'
  <2>1. stock' \in 0..MaxI64
    <3>1. stock' = stock - q /\ q <= stock
      BY CompleteAffordable DEF CompleteTicket
    <3>2. stock \in 0..MaxI64 /\ MaxI64 \in Nat
      BY <1>1, ConfigAssumption DEF TypeOK
    <3> QED BY <1>1, <3>1, <3>2
  <2>2. DOMAIN wallets' \subseteq Users /\ wallets' \in [DOMAIN wallets' -> I64]
    <3> DEFINE w == WithWallet(u)
    <3>1. /\ DOMAIN w \subseteq Users /\ u \in DOMAIN w
          /\ w \in [DOMAIN w -> I64] /\ w[u] = SummaryWallet(u)
      BY <1>1, WithWalletType
    <3>2. PICK left \in I64 : left = WrapI64(w[u] - Cost(q))
      <4>1. PICK a \in Int, b \in Int : a = w[u] /\ b = Cost(q)
        BY <3>1, CompleteAffordable, I64Ints
      <4>2. a - b \in Int
        BY <4>1
      <4> QED BY <4>1, <4>2, WrapRange
    <3>3. wallets' = [w EXCEPT ![u] = left]
      BY <3>2 DEF CompleteTicket
    <3> HIDE DEF w
    <3>4. DOMAIN wallets' = DOMAIN w
      BY <3>1, <3>3
    <3> QED BY <3>1, <3>2, <3>3, <3>4
  <2>3. tickets' \in [TicketIds -> Ticket \cup {NoTicket}]
    BY <1>1, <1>7 DEF CompleteTicket, TypeOK
  <2>4. /\ thread' \in [TicketIds -> {"none", "sleeping", "reserving", "exited"}]
        /\ nextTicket' = nextTicket /\ adjusted' = adjusted
        /\ poisoned' = poisoned /\ debugBuild' = debugBuild
    BY <1>1 DEF CompleteTicket, TypeOK
  <2> QED BY <1>1, <1>5, <2>1, <2>2, <2>3, <2>4 DEF TypeOK
<1>9. TicketRows'
  <2>1. orders'[tickets'[t].order] = RowOf(t)'
    BY <1>5, <1>7 DEF RowOf
  <2>2. ASSUME NEW s \in TicketIds \ {t}, tickets'[s].status = "completed"
        PROVE  tickets'[s].order \in 1..Len(orders') /\ orders'[tickets'[s].order] = RowOf(s)'
    BY <1>2, <1>5, <1>6, <2>2 DEF IInv, TicketRows, RowOf
  <2>3. ASSUME NEW s \in TicketIds, tickets'[s] # NoTicket, tickets'[s].status # "completed"
        PROVE  tickets'[s].order = NoOrder
    BY <1>6, <1>7, <2>3 DEF IInv, TicketRows
  <2> QED BY <1>2, <1>5, <1>7, <2>1, <2>2, <2>3 DEF TicketRows
<1>10. RowsDistinct'
  <2>1. \A s \in Completed : tickets[s].order \in 1..Len(orders) /\ s \in TicketIds
    BY DEF IInv, TicketRows, Completed
  <2>2. Completed' = Completed \cup {t}
    BY <1>6, <1>7 DEF Completed
  <2>3. \A s \in Completed : tickets'[s].order = tickets[s].order /\ tickets'[s].order # NextOrderId
    BY <1>1, <1>2, <1>6, <2>1
  <2> QED BY <1>7, <2>2, <2>3 DEF IInv, RowsDistinct
<1>11. UnusedTickets'
  <2>1. nextTicket' = nextTicket /\ tickets[t] # NoTicket
    BY <1>1 DEF CompleteTicket, NoTicket
  <2> QED BY <1>6, <2>1 DEF IInv, UnusedTickets
<1>12. ThreadsTrackTickets' /\ NoOrphanTicket'
  <2>1. ~poisoned /\ ~poisoned'
    BY DEF CompleteTicket, Settling
  <2>2. ThreadsTrackTickets'
    BY <1>6, <1>7 DEF IInv, ThreadsTrackTickets
  <2>3. NoOrphanTicket'
    BY <1>6, <1>7, <2>1 DEF IInv, NoOrphanTicket, Settled
  <2> QED BY <2>2, <2>3
<1> QED BY <1>5, <1>8, <1>9, <1>10, <1>11, <1>12 DEF IInv

LEMMA ExitPoisonedIInv ==
  ASSUME IInv, NEW t \in TicketIds, ExitPoisoned(t)
  PROVE  IInv'
<1> USE DEF ExitPoisoned, saleState
<1>1. TypeOK
  BY DEF IInv
<1>2. /\ thread'[t] = "exited"
      /\ \A s \in TicketIds \ {t} : thread'[s] = thread[s]
  BY <1>1 DEF TypeOK
<1>3. TypeOK'
  BY <1>1 DEF TypeOK
<1>4. OrdersNumbered' /\ TicketRows' /\ RowsDistinct'
  BY DEF IInv, OrdersNumbered, TicketRows, RowsDistinct, RowOf, Completed
<1>5. UnusedTickets'
  BY <1>2 DEF IInv, UnusedTickets
<1>6. ThreadsTrackTickets' /\ NoOrphanTicket'
  BY <1>2 DEF IInv, ThreadsTrackTickets, NoOrphanTicket, Settled
<1> QED BY <1>3, <1>4, <1>5, <1>6 DEF IInv

\* Whatever the amount, the counter ends within the type and not below zero.
LEMMA DecrLeaves ==
  ASSUME TypeOK, NEW a \in DecrAmounts, StockDecr(a)
  PROVE  stock' \in 0..MaxI64 /\ adjusted' = adjusted + (stock' - stock)
<1>1. PICK x \in Int : x = stock - a
  BY ConfigAssumption, I64Ints DEF TypeOK
<1>2. PICK left \in I64 : left = WrapI64(x)
  BY WrapRange
<1>3. stock' = IF left < 0 THEN 0 ELSE left
  BY <1>1, <1>2 DEF StockDecr
<1>4. left \in Int /\ MaxI64 \in Nat
  BY ConfigAssumption, I64Ints
<1>5. left >= 0 => left \in 0..MaxI64
  BY I64Ints
<1> QED BY <1>3, <1>4, <1>5 DEF StockDecr

LEMMA StockDecrIInv ==
  ASSUME IInv, NEW a \in DecrAmounts, StockDecr(a)
  PROVE  IInv'
<1>1. TypeOK
  BY DEF IInv
<1>2. TypeOK'
  <2>1. stock \in Int /\ adjusted \in Int
    BY <1>1, ConfigAssumption DEF TypeOK
  <2>2. stock' \in 0..MaxI64 /\ adjusted' \in Int
    BY <1>1, <2>1, DecrLeaves, ConfigAssumption
  <2> QED BY <1>1, <2>2 DEF TypeOK, StockDecr
<1> USE DEF StockDecr
<1>3. OrdersNumbered' /\ TicketRows' /\ RowsDistinct'
  BY DEF IInv, OrdersNumbered, TicketRows, RowsDistinct, RowOf, Completed
<1>4. UnusedTickets' /\ ThreadsTrackTickets' /\ NoOrphanTicket'
  BY DEF IInv, UnusedTickets, ThreadsTrackTickets, NoOrphanTicket, Settled
<1> QED BY <1>2, <1>3, <1>4 DEF IInv

LEMMA PanicOnDecrIInv ==
  ASSUME IInv, NEW a \in DecrAmounts, PanicOnDecr(a)
  PROVE  IInv'
<1> USE DEF PanicOnDecr, saleState
<1>1. TypeOK'
  BY DEF IInv, TypeOK
<1>2. OrdersNumbered' /\ TicketRows' /\ RowsDistinct'
  BY DEF IInv, OrdersNumbered, TicketRows, RowsDistinct, RowOf, Completed
<1>3. UnusedTickets' /\ ThreadsTrackTickets' /\ NoOrphanTicket'
  BY DEF IInv, UnusedTickets, ThreadsTrackTickets, NoOrphanTicket, Settled
<1> QED BY <1>1, <1>2, <1>3 DEF IInv

LEMMA CreateOrderIInv ==
  ASSUME IInv, NEW r \in Rows, CreateOrder(r)
  PROVE  IInv'
<1> DEFINE row == [id |-> NextOrderId, uid |-> r.uid, quantity |-> r.quantity,
                   confirmed |-> r.confirmed]
<1> USE DEF CreateOrder
<1>1. TypeOK /\ orders \in Seq(Order)
  BY DEF IInv, TypeOK
<1>2. row \in Order /\ row.id = NextOrderId
  <2>1. r.uid \in Users /\ r.quantity \in Int /\ r.confirmed \in BOOLEAN
    BY ConfigAssumption
  <2>2. NextOrderId \in OrderIds
    BY <1>1 DEF NextOrderId, OrderIds
  <2> QED BY <2>1, <2>2 DEF Order
<1>3. /\ orders' \in Seq(Order)
      /\ OrdersNumbered'
      /\ Len(orders') = Len(orders) + 1
      /\ \A i \in 1..Len(orders) : orders'[i] = orders[i]
  BY <1>1, <1>2, AppendNumbered DEF IInv
<1>4. TypeOK'
  BY <1>1, <1>3 DEF TypeOK
<1>5. TicketRows'
  BY <1>1, <1>3 DEF IInv, TicketRows, RowOf
<1>6. RowsDistinct'
  BY DEF IInv, RowsDistinct, Completed
<1>7. UnusedTickets' /\ ThreadsTrackTickets' /\ NoOrphanTicket'
  BY DEF IInv, UnusedTickets, ThreadsTrackTickets, NoOrphanTicket, Settled
<1> QED BY <1>3, <1>4, <1>5, <1>6, <1>7 DEF IInv

LEMMA StutterIInv ==
  ASSUME IInv, UNCHANGED vars
  PROVE  IInv'
BY DEF vars, IInv, TypeOK, OrdersNumbered, TicketRows, RowOf, RowsDistinct,
       Completed, UnusedTickets, ThreadsTrackTickets, NoOrphanTicket, Settled
----------------------------------------------------------------------------
LEMMA NextIInv ==
  ASSUME IInv, [Next]_vars
  PROVE  IInv'
<1>1. CASE ClientStep
  BY <1>1, EnqueueIInv, StockDecrIInv, PanicOnDecrIInv, CreateOrderIInv DEF ClientStep
<1>2. ASSUME NEW t \in TicketIds, ThreadStep(t)
      PROVE  IInv'
  BY <1>2, ClaimIInv, PanicIInv, FailIInv, CompleteIInv, ExitPoisonedIInv DEF ThreadStep
<1>3. CASE UNCHANGED vars
  BY <1>3, StutterIInv
<1> QED BY <1>1, <1>2, <1>3 DEF Next

LEMMA Invariance == Spec => []IInv
<1>1. IInv /\ [Next]_vars => IInv'
  BY NextIInv
<1> QED BY <1>1, InitIInv, PTL DEF Spec

(* Every reachable state is well typed.  In particular the stock counter    *)
(* (redis.stock) is never negative, however purchases, ticket threads and   *)
(* stock.decr interleave and whatever wraps.                                *)
THEOREM TypeCorrect == Spec => []TypeOK
<1>1. IInv => TypeOK
  BY DEF IInv
<1> QED BY <1>1, Invariance, PTL

(* Order ids stay unique although the queue and orders.create both take     *)
(* them from the length of the table, and completed tickets and order rows  *)
(* correspond one to one.                                                   *)
THEOREM OrdersMatch == Spec => []TicketsMatchOrders
<1>1. IInv => TicketsMatchOrders
  <2> SUFFICES ASSUME IInv PROVE TicketsMatchOrders
    OBVIOUS
  <2>1. \A i, j \in 1..Len(orders) : orders[i].id = orders[j].id => i = j
    BY DEF IInv, OrdersNumbered
  <2>2. \A t \in TicketIds \ Completed : tickets[t] # NoTicket => tickets[t].order = NoOrder
    BY DEF IInv, TicketRows, Completed
  <2>3. \A t \in Completed : \E i \in 1..Len(orders) : orders[i] = RowOf(t)
    BY DEF IInv, TicketRows, Completed
  <2> QED BY <2>1, <2>2, <2>3 DEF TicketsMatchOrders, IInv, RowsDistinct, RowOf
<1> QED BY <1>1, Invariance, PTL

(* While the mutex is healthy an open ticket still has its thread in the    *)
(* stage that will advance it, and a settled one has none left.             *)
THEOREM NoTicketOrphaned == Spec => []NoOrphanTicket
<1>1. IInv => NoOrphanTicket
  BY DEF IInv
<1> QED BY <1>1, Invariance, PTL
----------------------------------------------------------------------------
Ahead(t) == {s \in TicketIds : Active(s) /\ s <= t}

LEMMA TicketIdsFinite == IsFiniteSet(TicketIds)
<1>1. MaxTickets \in Int /\ 1 \in Int
  BY ConfigAssumption
<1>2. IsFiniteSet(1..MaxTickets)
  BY <1>1, FS_Interval, Zenon
<1> QED BY <1>2 DEF TicketIds

LEMMA AheadFinite ==
  ASSUME NEW t \in TicketIds
  PROVE  IsFiniteSet(Ahead(t)) /\ IsFiniteSet(Ahead(t)')
<1>1. Ahead(t) \subseteq TicketIds
  BY DEF Ahead
<1>2. Ahead(t)' \subseteq TicketIds
  BY DEF Ahead, TicketIds
<1> QED BY <1>1, <1>2, TicketIdsFinite, FS_Subset

\* No step puts an accepted ticket back into the queue.
LEMMA QueueOnlyShrinks ==
  ASSUME IInv, [Next]_vars, NEW s \in TicketIds, s < nextTicket
  PROVE  /\ Active(s)' => Active(s)
         /\ tickets'[s].status = "queued" => tickets[s].status = "queued"
<1>1. TypeOK
  BY DEF IInv
<1>2. ASSUME NEW u \in Users, NEW q \in Quantities, EnqueuePurchase(u, q)
      PROVE  tickets'[s] = tickets[s]
  BY <1>1, <1>2 DEF EnqueuePurchase, TypeOK
<1>3. ASSUME NEW t \in TicketIds, ClaimTicket(t)
      PROVE  /\ Active(s)' => Active(s)
             /\ tickets'[s].status = "queued" => tickets[s].status = "queued"
  <2>1. tickets[t].status = "queued" /\ tickets[t] \in Ticket
    BY <1>3, <1>1, TicketShape DEF IInv, ThreadsTrackTickets, TypeOK, Status, ClaimTicket
  <2>2. /\ tickets'[t] = [tickets[t] EXCEPT !.status = "processing"]
        /\ s # t => tickets'[s] = tickets[s]
    BY <1>1, <1>3 DEF ClaimTicket, TypeOK
  <2>3. tickets'[t].status = "processing"
    BY <2>1, <2>2 DEF Ticket
  <2> QED BY <2>1, <2>2, <2>3 DEF Active
<1>4. ASSUME NEW t \in TicketIds, FailTicket(t) \/ CompleteTicket(t)
      PROVE  /\ Active(s)' => Active(s)
             /\ tickets'[s].status = "queued" => tickets[s].status = "queued"
  <2>1. tickets[t] \in Ticket
    BY <1>4, SettlingTicket DEF FailTicket, CompleteTicket
  <2>2. /\ s # t => tickets'[s] = tickets[s]
        /\ tickets'[t].status \in {"failed", "completed"}
    BY <1>1, <1>4, <2>1 DEF FailTicket, CompleteTicket, TypeOK, Ticket
  <2> QED BY <2>2 DEF Active
<1>5. ASSUME NEW t \in TicketIds, ThreadStep(t)
      PROVE  /\ Active(s)' => Active(s)
             /\ tickets'[s].status = "queued" => tickets[s].status = "queued"
  <2>1. CASE PanicOnOverflow(t) \/ ExitPoisoned(t)
    BY <2>1 DEF PanicOnOverflow, ExitPoisoned, saleState, Active
  <2> QED BY <1>3, <1>4, <1>5, <2>1 DEF ThreadStep
<1>6. CASE ClientStep
  <2>1. tickets'[s] = tickets[s]
    BY <1>6, <1>2 DEF ClientStep, StockDecr, PanicOnDecr, CreateOrder, saleState
  <2> QED BY <2>1 DEF Active
<1>7. CASE UNCHANGED vars
  BY <1>7 DEF vars, Active
<1> QED BY <1>5, <1>6, <1>7 DEF Next

LEMMA PositionStep ==
  ASSUME IInv, [Next]_vars, NEW t \in TicketIds, Active(t)
  PROVE  QueuePosition(t)' <= QueuePosition(t)
<1>1. t < nextTicket
  <2>1. nextTicket \in Int /\ t \in Int
    BY ConfigAssumption DEF IInv, TypeOK, TicketIds
  <2>2. ~(t >= nextTicket)
    BY DEF IInv, UnusedTickets, Active, NoTicket
  <2> QED BY <2>1, <2>2
<1>2. Ahead(t)' \subseteq Ahead(t)
  <2> SUFFICES ASSUME NEW s \in TicketIds, Active(s)', s <= t
               PROVE  Active(s)
    BY DEF Ahead
  <2>1. s < nextTicket
    BY <1>1, ConfigAssumption DEF TicketIds, IInv, TypeOK
  <2> QED BY <2>1, QueueOnlyShrinks
<1>3. Cardinality(Ahead(t)') <= Cardinality(Ahead(t))
  BY <1>2, AheadFinite, FS_Subset
<1>4. Cardinality(Ahead(t)) \in Nat /\ Cardinality(Ahead(t)') \in Nat
  BY AheadFinite, FS_CardinalityType
<1>5. Cardinality(Ahead(t)) >= 1
  <2>1. t \in Ahead(t)
    BY ConfigAssumption DEF Ahead, TicketIds
  <2>2. Cardinality(Ahead(t)) # 0
    BY <2>1, AheadFinite, FS_EmptySet
  <2> QED BY <1>4, <2>2
<1>6. QueuePosition(t) = IF tickets[t].status = "processing" THEN 1 ELSE Cardinality(Ahead(t))
  BY DEF QueuePosition, Ahead
<1>7. QueuePosition(t)' = IF ~Active(t)' THEN 0
                          ELSE IF tickets'[t].status = "processing" THEN 1
                          ELSE Cardinality(Ahead(t)')
  BY DEF QueuePosition, Ahead
<1>8. Active(t)' /\ tickets'[t].status # "processing" => tickets[t].status # "processing"
  BY <1>1, QueueOnlyShrinks DEF Active
<1> QED BY <1>3, <1>4, <1>5, <1>6, <1>7, <1>8

(* The queue position reported to a waiting buyer never increases.          *)
THEOREM PositionMonotone == Spec => PositionNeverGrows
<1>1. IInv /\ [Next]_vars =>
        [\A t \in TicketIds : Active(t) => QueuePosition(t)' <= QueuePosition(t)]_vars
  BY PositionStep
<1> QED BY <1>1, Invariance, PTL DEF Spec, PositionNeverGrows
----------------------------------------------------------------------------
(* Sums over tickets.  MapThenSumSet picks the members of a set one by one  *)
(* in an order of its own; an Accumulation gives the sum of every subset of *)
(* a set at once.  The facts below are by induction on the number of        *)
(* tickets, as a set of bad sizes would have a least member (NatMinimum).   *)
UnitsOf(book, ts) == MapThenSumSet(LAMBDA t : book[t].quantity, ts)

Pick(ts) == CHOOSE t \in ts : TRUE
Accumulated(book, F, ts) ==
  IF ts = {} THEN 0 ELSE book[Pick(ts)].quantity + F[ts \ {Pick(ts)}]
Accumulation(book, F, ts) == F = [us \in SUBSET ts |-> Accumulated(book, F, us)]

LEMMA UnitsOfDef ==
  ASSUME NEW book, NEW ts
  PROVE  UnitsOf(book, ts) = (CHOOSE F : Accumulation(book, F, ts))[ts]
BY DEF UnitsOf, MapThenSumSet, MapThenFoldSet, Accumulation, Accumulated, Pick

\* Every nonempty set of numbers has a least member.
LEMMA NatMinimum ==
  ASSUME NEW S \in SUBSET Nat, S # {}
  PROVE  \E n \in S : \A m \in S : n <= m
<1> DEFINE R == OpToRel(<, Nat)
<1>1. IsWellFoundedOn(R, Nat)
  BY NatLessThanWellFounded
<1>2. PICK n \in S : \A m \in S : ~(<<m, n>> \in R)
  <2> HIDE DEF R
  <2> QED BY <1>1, WFMin
<1>3. \A m \in S : ~(m < n)
  BY <1>2 DEF OpToRel
<1> QED BY <1>3

\* Every set of tickets can be summed up.
LEMMA AccumulationExists ==
  ASSUME NEW book, NEW ts, IsFiniteSet(ts)
  PROVE  \E F : Accumulation(book, F, ts)
<1> DEFINE Level(n) == {s \in SUBSET ts : Cardinality(s) <= n}
           UpTo(F, n) == F = [s \in Level(n) |-> Accumulated(book, F, s)]
           Bad == {n \in Nat : ~\E F : UpTo(F, n)}
<1>1. \A s \in SUBSET ts : IsFiniteSet(s) /\ Cardinality(s) \in Nat
  BY FS_Subset, FS_CardinalityType
<1>2. ASSUME NEW s \in SUBSET ts, s # {}
      PROVE  /\ Pick(s) \in s /\ s \ {Pick(s)} \in SUBSET ts
             /\ Cardinality(s \ {Pick(s)}) = Cardinality(s) - 1
  BY <1>1, <1>2, FS_RemoveElement DEF Pick
<1>3. ASSUME NEW n \in Nat, \A m \in Nat : m < n => \E F : UpTo(F, m)
      PROVE  \E F : UpTo(F, n)
  <2>1. CASE n = 0
    <3>1. \A s \in Level(0) : s = {}
      BY <1>1, FS_EmptySet
    <3>2. UpTo([s \in Level(0) |-> 0], 0)
      BY <3>1 DEF Accumulated
    <3> QED BY <2>1, <3>2
  <2>2. CASE n # 0
    <3>1. n - 1 \in Nat /\ n - 1 < n
      BY <2>2
    <3>2. PICK F : UpTo(F, n - 1)
      BY <1>3, <3>1
    <3> DEFINE G == [s \in Level(n) |-> Accumulated(book, F, s)]
    <3>3. ASSUME NEW s \in Level(n), s # {}
          PROVE  s \ {Pick(s)} \in Level(n - 1) /\ s \ {Pick(s)} \in Level(n)
      BY <1>1, <1>2, <3>1, <3>3
    <3>4. ASSUME NEW s \in Level(n - 1) PROVE s \in Level(n) /\ G[s] = F[s]
      <4>1. s \in Level(n)
        BY <1>1, <3>1
      <4>2. F[s] = Accumulated(book, F, s)
        BY <3>2
      <4> QED BY <4>1, <4>2
    <3>5. ASSUME NEW s \in Level(n) PROVE G[s] = Accumulated(book, G, s)
      <4> HIDE DEF Level
      <4>1. G[s] = Accumulated(book, F, s)
        OBVIOUS
      <4>2. s # {} => G[s \ {Pick(s)}] = F[s \ {Pick(s)}]
        BY <3>3, <3>4
      <4> HIDE DEF G
      <4> QED BY <4>1, <4>2 DEF Accumulated
    <3>6. UpTo(G, n)
      <4> HIDE DEF Level
      <4> QED BY <3>5
    <3> QED BY <3>6
  <2> QED BY <2>1, <2>2
<1>4. Bad = {}
  <2> SUFFICES ASSUME Bad # {} PROVE FALSE
    OBVIOUS
  <2>1. PICK n \in Bad : \A m \in Bad : n <= m
    <3>1. Bad \in SUBSET Nat
      OBVIOUS
    <3> HIDE DEF Bad
    <3> QED BY <3>1, NatMinimum
  <2>2. ASSUME NEW m \in Nat, m < n PROVE \E F : UpTo(F, m)
    <3> HIDE DEF UpTo
    <3> QED BY <2>1, <2>2
  <2> HIDE DEF UpTo
  <2> QED BY <1>3, <2>1, <2>2
<1>5. PICK F : UpTo(F, Cardinality(ts))
  <2>1. Cardinality(ts) \in Nat
    BY <1>1
  <2> HIDE DEF UpTo
  <2> QED BY <1>4, <2>1
<1>6. Level(Cardinality(ts)) = SUBSET ts
  BY FS_Subset
<1> QED BY <1>5, <1>6 DEF Accumulation

\* Two accumulations agree wherever both give a sum.
LEMMA AccumulationUnique ==
  ASSUME NEW book, NEW ts, IsFiniteSet(ts), NEW us \in SUBSET ts,
         NEW F, Accumulation(book, F, ts), NEW G, Accumulation(book, G, us)
  PROVE  \A s \in SUBSET us : F[s] = G[s]
<1> DEFINE Bad == {n \in Nat : \E s \in SUBSET us : Cardinality(s) = n /\ F[s] # G[s]}
<1>1. \A s \in SUBSET us : s \in SUBSET ts /\ IsFiniteSet(s) /\ Cardinality(s) \in Nat
  BY FS_Subset, FS_CardinalityType
<1>2. ASSUME NEW s \in SUBSET us, s # {}
      PROVE  /\ Pick(s) \in s /\ s \ {Pick(s)} \in SUBSET us
             /\ Cardinality(s \ {Pick(s)}) < Cardinality(s)
             /\ Cardinality(s \ {Pick(s)}) \in Nat
  <2>1. Pick(s) \in s /\ s \ {Pick(s)} \in SUBSET us
    BY <1>2 DEF Pick
  <2>2. Cardinality(s \ {Pick(s)}) = Cardinality(s) - 1
    BY <1>1, <2>1, FS_RemoveElement
  <2>3. Cardinality(s) \in Nat /\ Cardinality(s \ {Pick(s)}) \in Nat
    BY <1>1, <2>1
  <2> QED BY <2>1, <2>2, <2>3
<1>3. ASSUME NEW s \in SUBSET us
      PROVE  F[s] = Accumulated(book, F, s) /\ G[s] = Accumulated(book, G, s)
  BY <1>1 DEF Accumulation
<1>4. Bad = {}
  <2> SUFFICES ASSUME Bad # {} PROVE FALSE
    OBVIOUS
  <2>1. PICK n \in Bad : \A m \in Bad : n <= m
    <3>1. Bad \in SUBSET Nat
      OBVIOUS
    <3> HIDE DEF Bad
    <3> QED BY <3>1, NatMinimum
  <2>2. PICK s \in SUBSET us : Cardinality(s) = n /\ F[s] # G[s]
    BY <2>1
  <2>3. s # {}
    BY <1>3, <2>2 DEF Accumulated
  <2>4. F[s \ {Pick(s)}] = G[s \ {Pick(s)}]
    BY <1>2, <2>1, <2>2, <2>3
  <2> QED BY <1>3, <2>2, <2>4 DEF Accumulated
<1> QED BY <1>1, <1>4

\* Whichever set a sum was accumulated over, the sum of a part is the same.
LEMMA SumsAgree ==
  ASSUME NEW book, NEW ts, IsFiniteSet(ts), NEW F, Accumulation(book, F, ts),
         NEW us \in SUBSET ts
  PROVE  UnitsOf(book, us) = F[us]
<1>1. IsFiniteSet(us)
  BY FS_Subset
<1>2. Accumulation(book, CHOOSE G : Accumulation(book, G, us), us)
  BY <1>1, AccumulationExists
<1>3. PICK G : G = CHOOSE H : Accumulation(book, H, us)
  OBVIOUS
<1>4. F[us] = G[us]
  BY <1>2, <1>3, AccumulationUnique
<1> QED BY <1>3, <1>4, UnitsOfDef

\* Which ticket is counted first makes no difference.
LEMMA UnitsByOne ==
  ASSUME NEW book, NEW ts, IsFiniteSet(ts), \A t \in ts : book[t].quantity \in Int
  PROVE  \A us \in SUBSET ts :
           /\ UnitsOf(book, us) \in Int
           /\ us = {} => UnitsOf(book, us) = 0
           /\ \A t \in us : UnitsOf(book, us) = book[t].quantity + UnitsOf(book, us \ {t})
<1> DEFINE P(us) == /\ UnitsOf(book, us) \in Int
                    /\ us = {} => UnitsOf(book, us) = 0
                    /\ \A t \in us : UnitsOf(book, us) =
                          book[t].quantity + UnitsOf(book, us \ {t})
           Bad == {n \in Nat : \E us \in SUBSET ts : Cardinality(us) = n /\ ~P(us)}
<1>1. \A us \in SUBSET ts : IsFiniteSet(us) /\ Cardinality(us) \in Nat
  BY FS_Subset, FS_CardinalityType
<1>2. PICK F : Accumulation(book, F, ts)
  BY AccumulationExists
<1>3. ASSUME NEW us \in SUBSET ts
      PROVE  /\ us = {} => UnitsOf(book, us) = 0
             /\ us # {} => /\ Pick(us) \in us
                          /\ UnitsOf(book, us) = book[Pick(us)].quantity
                                                  + UnitsOf(book, us \ {Pick(us)})
  <2>1. UnitsOf(book, us) = F[us] /\ UnitsOf(book, us \ {Pick(us)}) = F[us \ {Pick(us)}]
    BY <1>2, SumsAgree
  <2>2. F[us] = Accumulated(book, F, us)
    BY <1>2 DEF Accumulation
  <2>3. us # {} => Pick(us) \in us
    BY DEF Pick
  <2> QED BY <2>1, <2>2, <2>3 DEF Accumulated
<1>4. ASSUME NEW us \in SUBSET ts, NEW t \in us
      PROVE  /\ us \ {t} \in SUBSET ts /\ Cardinality(us \ {t}) \in Nat
             /\ Cardinality(us \ {t}) < Cardinality(us)
  BY <1>1, FS_RemoveElement
<1>5. ASSUME NEW us \in SUBSET ts, \A vs \in SUBSET ts : Cardinality(vs) < Cardinality(us) => P(vs)
      PROVE  P(us)
  <2>1. CASE us = {}
    <3>1. UnitsOf(book, us) = 0
      BY <1>3, <2>1
    <3> QED BY <2>1, <3>1
  <2>2. CASE us # {}
    <3> DEFINE p == Pick(us)
    <3>1. p \in us /\ UnitsOf(book, us) = book[p].quantity + UnitsOf(book, us \ {p})
      BY <1>3, <2>2
    <3>2. UnitsOf(book, us \ {p}) \in Int /\ book[p].quantity \in Int
      BY <1>4, <1>5, <3>1
    <3>3. ASSUME NEW t \in us
          PROVE  UnitsOf(book, us) = book[t].quantity + UnitsOf(book, us \ {t})
      <4>1. CASE t = p
        BY <3>1, <4>1
      <4>2. CASE t # p
        <5> HIDE DEF p
        <5>1. t \in us \ {p} /\ p \in us \ {t}
          BY <3>1, <4>2
        <5>2. UnitsOf(book, us \ {p}) = book[t].quantity + UnitsOf(book, (us \ {p}) \ {t})
          BY <1>4, <1>5, <3>1, <5>1
        <5>3. UnitsOf(book, us \ {t}) = book[p].quantity + UnitsOf(book, (us \ {t}) \ {p})
          BY <1>4, <1>5, <5>1
        <5>4. (us \ {p}) \ {t} = (us \ {t}) \ {p}
          OBVIOUS
        <5>5. UnitsOf(book, (us \ {p}) \ {t}) \in Int /\ book[t].quantity \in Int
          <6>1. Cardinality((us \ {p}) \ {t}) < Cardinality(us)
            <7>1. us \ {p} \in SUBSET ts
              OBVIOUS
            <7>2. Cardinality((us \ {p}) \ {t}) < Cardinality(us \ {p})
              BY <1>4, <5>1, <7>1
            <7>3. Cardinality(us \ {p}) < Cardinality(us)
              BY <1>4, <3>1
            <7>4. /\ Cardinality((us \ {p}) \ {t}) \in Nat
                  /\ Cardinality(us \ {p}) \in Nat /\ Cardinality(us) \in Nat
              BY <1>1
            <7> QED BY <7>2, <7>3, <7>4
          <6> QED BY <1>5, <6>1
        <5>6. PICK a \in Int, b \in Int, c \in Int :
                /\ a = book[p].quantity /\ b = book[t].quantity
                /\ c = UnitsOf(book, (us \ {p}) \ {t})
          BY <3>2, <5>5
        <5>7. UnitsOf(book, us) = a + (b + c)
          BY <3>1, <5>2, <5>6
        <5>8. book[t].quantity + UnitsOf(book, us \ {t}) = b + (a + c)
          BY <5>3, <5>4, <5>6
        <5> QED BY <5>7, <5>8
      <4> QED BY <4>1, <4>2
    <3> QED BY <2>2, <3>1, <3>2, <3>3
  <2> QED BY <2>1, <2>2
<1>6. Bad = {}
  <2> SUFFICES ASSUME Bad # {} PROVE FALSE
    OBVIOUS
  <2>1. PICK n \in Bad : \A m \in Bad : n <= m
    <3>1. Bad \in SUBSET Nat
      OBVIOUS
    <3> HIDE DEF Bad
    <3> QED BY <3>1, NatMinimum
  <2> HIDE DEF P
  <2>2. PICK us \in SUBSET ts : Cardinality(us) = n /\ ~P(us)
    BY <2>1
  <2>3. ASSUME NEW vs \in SUBSET ts, Cardinality(vs) < Cardinality(us) PROVE P(vs)
    BY <1>1, <2>1, <2>2, <2>3
  <2> QED BY <1>5, <2>2, <2>3
<1> HIDE DEF P
<1>7. \A us \in SUBSET ts : P(us)
  BY <1>1, <1>6
<1> QED BY <1>7 DEF P
\* A sum looks at the quantities and at nothing else.
LEMMA UnitsSame ==
  ASSUME NEW ts, IsFiniteSet(ts), NEW b, NEW c,
         \A t \in ts : c[t].quantity = b[t].quantity
  PROVE  UnitsOf(c, ts) = UnitsOf(b, ts)
<1>1. PICK F : Accumulation(b, F, ts)
  BY AccumulationExists
<1>2. ASSUME NEW us \in SUBSET ts
      PROVE  Accumulated(c, F, us) = Accumulated(b, F, us)
  <2>1. us # {} => Pick(us) \in ts
    BY DEF Pick
  <2> QED BY <2>1 DEF Accumulated
<1>3. Accumulation(c, F, ts)
  BY <1>1, <1>2 DEF Accumulation
<1> QED BY <1>1, <1>3, SumsAgree

LEMMA UnitsExtended ==
  ASSUME NEW ts, IsFiniteSet(ts), NEW t, t \notin ts, NEW book,
         \A s \in ts \cup {t} : book[s].quantity \in Int
  PROVE  /\ UnitsOf(book, ts) \in Int
         /\ UnitsOf(book, ts \cup {t}) = UnitsOf(book, ts) + book[t].quantity
<1> DEFINE us == ts \cup {t}
<1>1. IsFiniteSet(us)
  BY FS_AddElement
<1>2. us \in SUBSET us /\ ts \in SUBSET us /\ t \in us /\ us \ {t} = ts
  OBVIOUS
<1>3. \A s \in us : book[s].quantity \in Int
  OBVIOUS
<1> HIDE DEF us
<1>4. /\ UnitsOf(book, ts) \in Int
      /\ UnitsOf(book, us) = book[t].quantity + UnitsOf(book, us \ {t})
  BY <1>1, <1>2, <1>3, UnitsByOne
<1>5. PICK q \in Int, n \in Int : q = book[t].quantity /\ n = UnitsOf(book, ts)
  BY <1>2, <1>3, <1>4
<1>6. UnitsOf(book, us) = q + n
  BY <1>2, <1>4, <1>5
<1> QED BY <1>5, <1>6 DEF us
----------------------------------------------------------------------------
(* Conservation of units and money.                                         *)
SoldTo(u) == {t \in Completed : tickets[t].uid = u}

OpeningBalanceOf(u) ==
  IF u \in DOMAIN OpeningWallets THEN OpeningWallets[u] ELSE DefaultBalance

\* WalletConserved for every user, whether or not the wallet exists yet: what
\* the inductive argument needs, as a wallet is created in mid-sale.
\* Every purchase the buyer has made has a price the integer type can hold.
Priced(u) == \A t \in SoldTo(u) : ~Overflows(tickets[t].quantity)

PursesConserved ==
  \A u \in Users : Priced(u) =>
    /\ SummaryWallet(u) >= 0
    /\ SummaryWallet(u) + Price * Units(SoldTo(u)) = OpeningBalanceOf(u)

LEMMA UnitsOfTickets == \A ts : Units(ts) = UnitsOf(tickets, ts)
BY DEF Units, UnitsOf

LEMMA UnitsOfTicketsNext ==
  /\ Units(Completed)' = UnitsOf(tickets', Completed')
  /\ \A u : Units(SoldTo(u))' = UnitsOf(tickets', SoldTo(u)')
BY DEF Units, UnitsOf, MapThenSumSet, MapThenFoldSet

LEMMA CompletedTickets ==
  ASSUME IInv
  PROVE  /\ Completed \in SUBSET TicketIds
         /\ \A t \in Completed : tickets[t].quantity \in Int
         /\ \A u : SoldTo(u) \in SUBSET Completed
<1>1. ASSUME NEW t \in Completed PROVE tickets[t].quantity \in Int
  BY TicketShape DEF IInv, TypeOK, Completed, Status, Ticket
<1> QED BY <1>1 DEF Completed, SoldTo

\* Units already sold stay sold.
LEMMA SoldKept ==
  ASSUME IInv, Completed' = Completed, \A t \in Completed : tickets'[t] = tickets[t]
  PROVE  /\ Units(Completed)' = Units(Completed)
         /\ \A u : Units(SoldTo(u))' = Units(SoldTo(u))
<1>1. PICK b, c : b = tickets /\ c = tickets'
  OBVIOUS
<1>2. ASSUME NEW ts \in SUBSET Completed
      PROVE  UnitsOf(c, ts) = UnitsOf(b, ts)
  <2>1. PICK us : us = ts
    OBVIOUS
  <2>2. IsFiniteSet(us)
    BY <2>1, CompletedTickets, TicketIdsFinite, FS_Subset
  <2>3. \A t \in us : c[t].quantity = b[t].quantity
    BY <1>1, <2>1
  <2> QED BY <2>1, <2>2, <2>3, UnitsSame
<1>3. \A u : SoldTo(u)' = SoldTo(u) /\ SoldTo(u) \in SUBSET Completed
  BY DEF SoldTo
<1> QED BY <1>1, <1>2, <1>3, UnitsOfTickets, UnitsOfTicketsNext

\* A completion adds its ticket, as it was, to the completed ones.
LEMMA OneMoreCompleted ==
  ASSUME IInv, NEW t \in TicketIds, CompleteTicket(t)
  PROVE  /\ Completed' = Completed \cup {t} /\ t \notin Completed
         /\ tickets'[t].uid = tickets[t].uid /\ tickets'[t].quantity = tickets[t].quantity
         /\ \A s \in Completed : tickets'[s] = tickets[s]
<1>1. /\ TypeOK /\ tickets[t] \in Ticket
      /\ \A s \in Completed : s # t
  BY SettlingTicket DEF CompleteTicket
<1>2. /\ tickets'[t] = [tickets[t] EXCEPT !.status = "completed", !.order = NextOrderId]
      /\ \A s \in TicketIds \ {t} : tickets'[s] = tickets[s]
  BY <1>1 DEF CompleteTicket, TypeOK
<1>3. /\ tickets'[t].status = "completed" /\ tickets'[t].uid = tickets[t].uid
      /\ tickets'[t].quantity = tickets[t].quantity
  BY <1>1, <1>2 DEF Ticket
<1>4. Completed' = Completed \cup {t}
  BY <1>2, <1>3 DEF Completed
<1> QED BY <1>1, <1>2, <1>3, <1>4 DEF Completed

\* A completed ticket adds its quantity to what is sold, to its buyer alone.
LEMMA SoldMore ==
  ASSUME IInv, NEW t \in TicketIds, CompleteTicket(t), NEW u \in Users
  PROVE  /\ Units(Completed)' = Units(Completed) + tickets[t].quantity
         /\ u = tickets[t].uid => Units(SoldTo(u))' = Units(SoldTo(u)) + tickets[t].quantity
         /\ u # tickets[t].uid => Units(SoldTo(u))' = Units(SoldTo(u))
<1>1. tickets[t].quantity \in Int
  BY SettlingTicket DEF CompleteTicket
<1>3. tickets'[t].uid = tickets[t].uid /\ tickets'[t].quantity = tickets[t].quantity
  BY OneMoreCompleted
<1>4. Completed' = Completed \cup {t} /\ t \notin Completed
  BY OneMoreCompleted
<1>5. \A s \in Completed : tickets'[s] = tickets[s]
  BY OneMoreCompleted
<1>6. u = tickets[t].uid => SoldTo(u)' = SoldTo(u) \cup {t}
  BY <1>3, <1>4, <1>5 DEF SoldTo
<1>7. u # tickets[t].uid => SoldTo(u)' = SoldTo(u)
  BY <1>3, <1>4, <1>5 DEF SoldTo
<1>8. PICK b, c : b = tickets /\ c = tickets'
  OBVIOUS
<1>9. ASSUME NEW ts \in SUBSET Completed
      PROVE  /\ UnitsOf(c, ts) = UnitsOf(b, ts)
             /\ UnitsOf(c, ts \cup {t}) = UnitsOf(b, ts) + tickets[t].quantity
  <2>1. PICK us : us = ts
    OBVIOUS
  <2>2. IsFiniteSet(us) /\ t \notin us
    BY <1>4, <2>1, CompletedTickets, TicketIdsFinite, FS_Subset
  <2>3. \A s \in us : c[s].quantity = b[s].quantity
    BY <1>5, <1>8, <2>1
  <2>4. \A s \in us \cup {t} : c[s].quantity \in Int
    BY <1>1, <1>3, <1>5, <1>8, <2>1, CompletedTickets
  <2>5. UnitsOf(c, us) = UnitsOf(b, us)
    BY <2>2, <2>3, UnitsSame
  <2>6. /\ UnitsOf(c, us) \in Int
        /\ UnitsOf(c, us \cup {t}) = UnitsOf(c, us) + c[t].quantity
    BY <2>2, <2>4, UnitsExtended
  <2> QED BY <1>3, <1>8, <2>1, <2>5, <2>6
<1>10. SoldTo(u) \in SUBSET Completed
  BY DEF SoldTo
<1>11. Units(Completed)' = Units(Completed) + tickets[t].quantity
  BY <1>4, <1>8, <1>9, UnitsOfTickets, UnitsOfTicketsNext
<1>12. u = tickets[t].uid => Units(SoldTo(u))' = Units(SoldTo(u)) + tickets[t].quantity
  BY <1>6, <1>8, <1>9, <1>10, UnitsOfTickets, UnitsOfTicketsNext
<1>13. u # tickets[t].uid => Units(SoldTo(u))' = Units(SoldTo(u))
  BY <1>7, <1>8, <1>9, <1>10, UnitsOfTickets, UnitsOfTicketsNext
<1> QED BY <1>11, <1>12, <1>13

\* Nothing else than a completion touches the tickets that are completed.
LEMMA OtherStepsKeepSold ==
  ASSUME IInv, [Next]_vars, ~\E t \in TicketIds : CompleteTicket(t)
  PROVE  Completed' = Completed /\ \A t \in Completed : tickets'[t] = tickets[t]
<1>1. TypeOK
  BY DEF IInv
<1>2. ASSUME NEW u \in Users, NEW q \in Quantities, EnqueuePurchase(u, q)
      PROVE  Completed' = Completed /\ \A t \in Completed : tickets'[t] = tickets[t]
  <2>1. PICK n \in TicketIds : n = nextTicket
    BY <1>2 DEF EnqueuePurchase
  <2>2. tickets[n] = NoTicket
    BY <2>1, ConfigAssumption DEF IInv, UnusedTickets, TicketIds
  <2>3. tickets'[n].status = "queued" /\ \A t \in TicketIds \ {n} : tickets'[t] = tickets[t]
    BY <1>1, <1>2, <2>1 DEF EnqueuePurchase, TypeOK
  <2> QED BY <2>2, <2>3 DEF Completed, NoTicket
<1>3. ASSUME NEW t \in TicketIds, ClaimTicket(t) \/ FailTicket(t)
      PROVE  Completed' = Completed /\ \A s \in Completed : tickets'[s] = tickets[s]
  <2>1. tickets[t] \in Ticket /\ tickets[t].status \in {"queued", "processing"}
    <3>1. CASE ClaimTicket(t)
      BY <1>1, <3>1, TicketShape DEF IInv, ThreadsTrackTickets, TypeOK, Status, ClaimTicket
    <3>2. CASE FailTicket(t)
      BY <3>2, SettlingTicket DEF FailTicket
    <3> QED BY <1>3, <3>1, <3>2
  <2>2. /\ \A s \in TicketIds \ {t} : tickets'[s] = tickets[s]
        /\ tickets'[t].status \in {"processing", "failed"}
    BY <1>1, <1>3, <2>1 DEF ClaimTicket, FailTicket, TypeOK, Ticket
  <2> QED BY <2>1, <2>2 DEF Completed
<1>4. CASE tickets' = tickets
  BY <1>4 DEF Completed
<1>5. CASE ClientStep
  BY <1>2, <1>4, <1>5 DEF ClientStep, StockDecr, PanicOnDecr, CreateOrder, saleState
<1>6. ASSUME NEW t \in TicketIds, ThreadStep(t)
      PROVE  Completed' = Completed /\ \A s \in Completed : tickets'[s] = tickets[s]
  BY <1>3, <1>4, <1>6 DEF ThreadStep, PanicOnOverflow, ExitPoisoned, saleState
<1>7. CASE UNCHANGED vars
  BY <1>4, <1>7 DEF vars
<1> QED BY <1>5, <1>6, <1>7 DEF Next

LEMMA NothingSoldAtFirst ==
  ASSUME Init
  PROVE  Units(Completed) = 0 /\ \A u : Units(SoldTo(u)) = 0
<1>1. Completed = {} /\ \A u : SoldTo(u) = {}
  BY DEF Init, Completed, SoldTo, NoTicket
<1>2. \A book : UnitsOf(book, {}) = 0
  BY UnitsByOne, FS_EmptySet
<1>3. PICK b : b = tickets
  OBVIOUS
<1> QED BY <1>1, <1>2, <1>3, UnitsOfTickets

LEMMA UnitsSoldInt ==
  ASSUME IInv
  PROVE  Units(Completed) \in Int /\ \A u : Units(SoldTo(u)) \in Int
<1>1. ASSUME NEW ts \in SUBSET Completed PROVE Units(ts) \in Int
  <2>1. PICK b, us : b = tickets /\ us = ts
    OBVIOUS
  <2>2. IsFiniteSet(us) /\ \A t \in us : b[t].quantity \in Int
    BY <2>1, CompletedTickets, TicketIdsFinite, FS_Subset
  <2>3. us \in SUBSET us
    OBVIOUS
  <2>4. UnitsOf(b, us) \in Int
    BY <2>2, <2>3, UnitsByOne
  <2> QED BY <2>1, <2>4, UnitsOfTickets
<1> QED BY <1>1, CompletedTickets

LEMMA StockStep ==
  ASSUME IInv, StockConserved, [Next]_vars
  PROVE  StockConserved'
<1>1. PICK n \in Int, units \in Int, open \in Int, net \in Int :
        n = stock /\ units = Units(Completed) /\ open = OpeningStock /\ net = adjusted
  BY UnitsSoldInt, ConfigAssumption DEF IInv, TypeOK
<1>2. n + units = open + net
  BY <1>1 DEF StockConserved
<1>3. ASSUME NEW t \in TicketIds, CompleteTicket(t)
      PROVE  StockConserved'
  <2>1. PICK q \in Int, u \in Users : q = tickets[t].quantity /\ u = tickets[t].uid
    BY <1>3, SettlingTicket DEF CompleteTicket
  <2>2. Units(Completed)' = units + q
    BY <1>1, <1>3, <2>1, SoldMore
  <2>3. stock' = n - q /\ adjusted' = net
    BY <1>1, <1>3, <2>1 DEF CompleteTicket
  <2> QED BY <1>1, <1>2, <2>2, <2>3 DEF StockConserved
<1>4. CASE ~\E t \in TicketIds : CompleteTicket(t)
  <2>1. Units(Completed)' = units
    BY <1>1, <1>4, OtherStepsKeepSold, SoldKept
  <2>2. ASSUME NEW a \in DecrAmounts, StockDecr(a)
        PROVE  StockConserved'
    <3>1. PICK m \in Int : m = stock' /\ adjusted' = adjusted + (m - stock)
      BY <2>2, DecrLeaves DEF IInv
    <3>2. adjusted' = net + (m - n)
      BY <1>1, <3>1
    <3> QED BY <1>1, <1>2, <2>1, <3>1, <3>2 DEF StockConserved
  <2>3. CASE stock' = stock /\ adjusted' = adjusted
    BY <1>1, <1>2, <2>1, <2>3 DEF StockConserved
  <2>4. CASE UNCHANGED vars
    BY <2>3, <2>4 DEF vars
  <2>5. CASE ClientStep
    BY <2>2, <2>3, <2>5 DEF ClientStep, EnqueuePurchase, CreateOrder, PanicOnDecr, saleState
  <2>6. ASSUME NEW t \in TicketIds, ThreadStep(t)
        PROVE  StockConserved'
    BY <1>4, <2>3, <2>6 DEF ThreadStep, ClaimTicket, PanicOnOverflow, FailTicket,
                            ExitPoisoned, saleState
  <2> QED BY <2>4, <2>5, <2>6 DEF Next
<1> QED BY <1>3, <1>4

(* Every unit is accounted for, in every interleaving of purchases, ticket  *)
(* threads and stock.decr: nothing is oversold, and no failed or panicked   *)
(* ticket keeps a reservation.                                              *)
THEOREM UnitsConserved == Spec => []StockConserved
<1>1. Init => StockConserved
  BY NothingSoldAtFirst, ConfigAssumption DEF Init, StockConserved
<1>2. IInv /\ StockConserved /\ [Next]_vars => StockConserved'
  BY StockStep
<1> QED BY <1>1, <1>2, Invariance, PTL DEF Spec

\* Creating a wallet entry does not change what anybody can spend.
LEMMA FreshWalletSpendsAlike ==
  ASSUME NEW u \in Users, wallets' = WithWallet(u)
  PROVE  \A v \in Users : SummaryWallet(v)' = SummaryWallet(v)
BY DEF WithWallet, SummaryWallet

\* A completed purchase is charged to its buyer, and to nobody else.
LEMMA ChargedToBuyer ==
  ASSUME IInv, NEW t \in TicketIds, CompleteTicket(t), NEW v \in Users
  PROVE  /\ v = tickets[t].uid =>
              SummaryWallet(v)' = WrapI64(SummaryWallet(v) - Cost(tickets[t].quantity))
         /\ v # tickets[t].uid => SummaryWallet(v)' = SummaryWallet(v)
<1> PICK u \in Users : u = tickets[t].uid
  BY SettlingTicket DEF CompleteTicket
<1> DEFINE w == WithWallet(u)
           paid == Cost(tickets[t].quantity)
<1>1. TypeOK
  BY DEF IInv
<1>2. /\ DOMAIN w = DOMAIN wallets \cup {u}
      /\ \A x \in DOMAIN w : w[x] = SummaryWallet(x)
  BY <1>1, WithWalletType
<1>3. wallets' = [w EXCEPT ![u] = WrapI64(w[u] - paid)]
  BY DEF CompleteTicket
<1> HIDE DEF w, paid
<1>4. \A x : SummaryWallet(x)' = IF x \in DOMAIN wallets' THEN wallets'[x] ELSE DefaultBalance
  BY DEF SummaryWallet
<1>5. DOMAIN wallets' = DOMAIN wallets \cup {u}
  BY <1>2, <1>3
<1>6. wallets'[u] = WrapI64(SummaryWallet(u) - paid)
  BY <1>2, <1>3
<1>7. \A x \in DOMAIN wallets : x # u => wallets'[x] = SummaryWallet(x)
  BY <1>2, <1>3
<1>8. v = u => SummaryWallet(v)' = WrapI64(SummaryWallet(v) - paid)
  BY <1>4, <1>5, <1>6
<1>9. v # u => SummaryWallet(v)' = SummaryWallet(v)
  <2>1. v \notin DOMAIN wallets => SummaryWallet(v) = DefaultBalance
    BY DEF SummaryWallet
  <2> QED BY <1>4, <1>5, <1>7, <2>1
<1> QED BY <1>8, <1>9 DEF paid

\* Nothing but a completion changes what anybody can spend.
LEMMA OtherStepsKeepPurses ==
  ASSUME IInv, [Next]_vars, ~\E t \in TicketIds : CompleteTicket(t), NEW u \in Users
  PROVE  SummaryWallet(u)' = SummaryWallet(u)
<1>1. ASSUME NEW v \in Users, wallets' = WithWallet(v)
      PROVE  SummaryWallet(u)' = SummaryWallet(u)
  BY <1>1, FreshWalletSpendsAlike
<1>2. CASE wallets' = wallets
  BY <1>2 DEF SummaryWallet
<1>3. ASSUME NEW t \in TicketIds, PanicOnOverflow(t) \/ FailTicket(t)
      PROVE  SummaryWallet(u)' = SummaryWallet(u)
  <2>1. wallets' = WithWallet(tickets[t].uid) /\ tickets[t].uid \in Users
    BY <1>3, SettlingTicket DEF PanicOnOverflow, FailTicket
  <2>2. PICK v \in Users : v = tickets[t].uid
    BY <2>1
  <2> QED BY <1>1, <2>1, <2>2
<1>4. CASE ClientStep
  <2>1. ASSUME NEW v \in Users, NEW q \in Quantities, EnqueuePurchase(v, q)
        PROVE  SummaryWallet(u)' = SummaryWallet(u)
    <3>1. wallets' = WithWallet(v)
      BY <2>1 DEF EnqueuePurchase
    <3> QED BY <1>1, <3>1
  <2>2. (\E a \in DecrAmounts : StockDecr(a) \/ PanicOnDecr(a))
          \/ (\E row \in Rows : CreateOrder(row))
          => wallets' = wallets
    BY DEF StockDecr, PanicOnDecr, CreateOrder, saleState
  <2> QED BY <1>2, <1>4, <2>1, <2>2 DEF ClientStep
<1>5. ASSUME NEW t \in TicketIds, ThreadStep(t)
      PROVE  SummaryWallet(u)' = SummaryWallet(u)
  <2>1. ClaimTicket(t) \/ ExitPoisoned(t) => wallets' = wallets
    BY DEF ClaimTicket, ExitPoisoned, saleState
  <2> QED BY <1>2, <1>3, <1>5, <2>1 DEF ThreadStep
<1>6. CASE UNCHANGED vars
  BY <1>2, <1>6 DEF vars
<1> QED BY <1>4, <1>5, <1>6 DEF Next

\* A buyer whose purchases are priced after a step had priced ones before it,
\* and a purchase the step completed for him is priced.
LEMMA PricedBefore ==
  ASSUME IInv, [Next]_vars, NEW u \in Users, Priced(u)'
  PROVE  /\ Priced(u)
         /\ \A t \in TicketIds : CompleteTicket(t) /\ u = tickets[t].uid
                                  => ~Overflows(tickets[t].quantity)
<1>1. CASE ~\E t \in TicketIds : CompleteTicket(t)
  <2>1. Completed' = Completed /\ \A s \in Completed : tickets'[s] = tickets[s]
    BY <1>1, OtherStepsKeepSold
  <2> QED BY <1>1, <2>1 DEF Priced, SoldTo
<1>2. ASSUME NEW t \in TicketIds, CompleteTicket(t)
      PROVE  Priced(u) /\ (u = tickets[t].uid => ~Overflows(tickets[t].quantity))
  <2>1. /\ Completed' = Completed \cup {t}
        /\ tickets'[t].uid = tickets[t].uid /\ tickets'[t].quantity = tickets[t].quantity
        /\ \A s \in Completed : tickets'[s] = tickets[s]
    BY <1>2, OneMoreCompleted
  <2> QED BY <2>1 DEF Priced, SoldTo
<1> QED BY <1>1, <1>2

LEMMA PursesStep ==
  ASSUME IInv, PursesConserved, [Next]_vars
  PROVE  PursesConserved'
<1> SUFFICES ASSUME NEW u \in Users, Priced(u)'
             PROVE  /\ SummaryWallet(u)' >= 0
                    /\ SummaryWallet(u)' + Price * Units(SoldTo(u))' = OpeningBalanceOf(u)
  BY DEF PursesConserved, OpeningBalanceOf
<1>1. /\ SummaryWallet(u) >= 0
      /\ SummaryWallet(u) + Price * Units(SoldTo(u)) = OpeningBalanceOf(u)
  BY PricedBefore DEF PursesConserved
<1>2. ASSUME NEW t \in TicketIds, CompleteTicket(t)
      PROVE  /\ SummaryWallet(u)' >= 0
             /\ SummaryWallet(u)' + Price * Units(SoldTo(u))' = OpeningBalanceOf(u)
  <2>1. CASE u # tickets[t].uid
    BY <1>1, <1>2, <2>1, SoldMore, ChargedToBuyer
  <2>2. CASE u = tickets[t].uid
    <3>1. PICK money \in I64, units \in Int, q \in Nat, p \in Int :
            /\ money = SummaryWallet(u) /\ units = Units(SoldTo(u))
            /\ q = tickets[t].quantity /\ p = Price
      <4>1. tickets[t].quantity \in Nat /\ SummaryWallet(u) \in I64
        BY <1>2, <2>2, SettlingTicket DEF CompleteTicket
      <4> QED BY <4>1, UnitsSoldInt, ConfigAssumption
    <3>2. PICK cost \in Nat : cost = Cost(q) /\ cost = p * q
      BY <1>2, <2>2, <3>1, PricedBefore, CostExact
    <3>3. money - cost >= 0 /\ money - cost \in I64
      <4>1. cost <= money
        BY <1>2, <2>2, <3>1, <3>2, CompleteAffordable
      <4>2. money \in Int /\ money <= MaxI64 /\ MaxI64 \in Nat
        BY ConfigAssumption DEF I64
      <4>3. money - cost \in 0..MaxI64
        BY <4>1, <4>2
      <4> QED BY <4>2, <4>3, I64Ints
    <3>4. SummaryWallet(u)' = money - cost
      <4>1. SummaryWallet(u)' = WrapI64(money - cost)
        BY <1>2, <2>2, <3>1, <3>2, ChargedToBuyer
      <4> QED BY <3>3, <4>1, WrapExact
    <3>5. Units(SoldTo(u))' = units + q
      BY <1>2, <2>2, <3>1, SoldMore
    <3>6. money \in Int
      BY <3>1, I64Ints
    <3>7. (money - p * q) + p * (units + q) = money + p * units
      BY <3>1, <3>6
    <3> QED BY <1>1, <3>1, <3>2, <3>3, <3>4, <3>5, <3>7
  <2> QED BY <2>1, <2>2
<1>3. CASE ~\E t \in TicketIds : CompleteTicket(t)
  <2>1. Units(SoldTo(u))' = Units(SoldTo(u))
    BY <1>3, OtherStepsKeepSold, SoldKept
  <2>2. SummaryWallet(u)' = SummaryWallet(u)
    BY <1>3, OtherStepsKeepPurses
  <2> QED BY <1>1, <2>1, <2>2
<1> QED BY <1>2, <1>3

(* A buyer whose purchases have prices the integer type can hold has paid   *)
(* exactly for the units they took, and never more than he had, in whatever *)
(* order its tickets were settled and its wallet was created.               *)
THEOREM MoneyConserved == Spec => []WalletConserved
<1>1. Init => PursesConserved
  <2> SUFFICES ASSUME Init, NEW u \in Users
               PROVE  /\ SummaryWallet(u) >= 0
                      /\ SummaryWallet(u) + Price * Units(SoldTo(u)) = OpeningBalanceOf(u)
    BY DEF PursesConserved
  <2>1. SummaryWallet(u) = OpeningBalanceOf(u)
    BY DEF Init, SummaryWallet, OpeningBalanceOf
  <2>2. SummaryWallet(u) \in 0..MaxI64
    BY ConfigAssumption DEF Init, SummaryWallet
  <2>3. Price * Units(SoldTo(u)) = 0
    BY NothingSoldAtFirst, ConfigAssumption
  <2> QED BY <2>1, <2>2, <2>3, ConfigAssumption
<1>2. IInv /\ PursesConserved /\ [Next]_vars => PursesConserved'
  BY PursesStep
<1>3. IInv /\ PursesConserved => WalletConserved
  <2> SUFFICES ASSUME IInv, PursesConserved, NEW u \in DOMAIN wallets, Priced(u)
               PROVE  /\ wallets[u] >= 0
                      /\ wallets[u] + Price * Units(SoldTo(u)) = OpeningBalanceOf(u)
    BY DEF WalletConserved, OpeningBalanceOf, Priced, SoldTo
  <2>1. u \in Users /\ SummaryWallet(u) = wallets[u]
    BY DEF IInv, TypeOK, SummaryWallet
  <2> QED BY <2>1 DEF PursesConserved
<1> QED BY <1>1, <1>2, <1>3, Invariance, PTL DEF Spec
----------------------------------------------------------------------------
(* FlashSale implements the abstract Sale, for every configuration: each    *)
(* critical section is a step of the sale or leaves it alone.               *)
(*   enqueue_purchase        Submit                                         *)
(*   a settled purchase      Grant or Refuse                                *)
(*   stock.decr              AdjustStock                                    *)
(*   claim, panic, poisoned  stutter                                        *)
(*   orders.create           stutter                                        *)
Balances == [u \in Users |-> SummaryWallet(u)]
Demands == [t \in TicketIds |-> DemandOf(t)]
Verdicts == [t \in TicketIds |-> VerdictOf(t)]

LEMMA VerdictCases ==
  ASSUME NEW t \in TicketIds
  PROVE  /\ tickets[t].status = "absent" => VerdictOf(t) = "none"
         /\ tickets[t].status \in {"queued", "processing"} => VerdictOf(t) = "open"
         /\ tickets[t].status = "completed" => VerdictOf(t) = "granted"
         /\ tickets[t].status = "failed" => VerdictOf(t) = "refused"
BY DEF VerdictOf, Active

LEMMA VerdictCasesNext ==
  ASSUME NEW t \in TicketIds
  PROVE  /\ tickets'[t].status = "absent" => VerdictOf(t)' = "none"
         /\ tickets'[t].status \in {"queued", "processing"} => VerdictOf(t)' = "open"
         /\ tickets'[t].status = "completed" => VerdictOf(t)' = "granted"
         /\ tickets'[t].status = "failed" => VerdictOf(t)' = "refused"
BY DEF VerdictOf, Active

LEMMA DemandCases ==
  ASSUME IInv, NEW t \in TicketIds, tickets[t] # NoTicket
  PROVE  DemandOf(t) = [uid |-> tickets[t].uid, quantity |-> tickets[t].quantity]
BY DEF DemandOf

\* A ticket that does not change looks the same to the sale.
LEMMA SameTicket ==
  ASSUME NEW t \in TicketIds, tickets'[t] = tickets[t]
  PROVE  VerdictOf(t)' = VerdictOf(t) /\ DemandOf(t)' = DemandOf(t)
BY DEF VerdictOf, DemandOf, Active

LEMMA SameBalances ==
  ASSUME NEW u \in Users, wallets' = WithWallet(u)
  PROVE  Balances' = Balances
BY FreshWalletSpendsAlike DEF Balances

LEMMA KeptBalances ==
  ASSUME wallets' = wallets
  PROVE  Balances' = Balances
BY DEF Balances, SummaryWallet

LEMMA KeptTickets ==
  ASSUME tickets' = tickets
  PROVE  Demands' = Demands /\ Verdicts' = Verdicts
BY SameTicket DEF Demands, Verdicts
----------------------------------------------------------------------------
LEMMA InitSimulates == Init => Abstract!Init
<1> SUFFICES ASSUME Init PROVE Abstract!Init
  OBVIOUS
<1>1. \A t \in TicketIds : tickets[t] = NoTicket
  BY DEF Init
<1>2. \A t \in TicketIds : VerdictOf(t) = "none" /\ DemandOf(t) = Abstract!NoDemand
  BY <1>1, VerdictCases DEF NoTicket, DemandOf, Abstract!NoDemand
<1>3. stock = OpeningStock /\ wallets = OpeningWallets
  BY DEF Init
<1> QED BY <1>2, <1>3 DEF Abstract!Init, SummaryWallet

LEMMA EnqueueSimulates ==
  ASSUME IInv, NEW u \in Users, NEW q \in Quantities, EnqueuePurchase(u, q)
  PROVE  \E r \in TicketIds : Abstract!Submit(r, u, q)
<1> PICK n \in TicketIds : n = nextTicket
  BY DEF EnqueuePurchase
<1> DEFINE new == [status |-> "queued", uid |-> u, quantity |-> q, order |-> NoOrder]
<1>1. /\ n \in TicketIds /\ q > 0 /\ TypeOK
      /\ wallets' = WithWallet(u) /\ stock' = stock
      /\ tickets' = [tickets EXCEPT ![n] = new]
  BY DEF EnqueuePurchase, IInv
<1>2. /\ tickets'[n] = new
      /\ \A t \in TicketIds \ {n} : tickets'[t] = tickets[t]
  BY <1>1 DEF TypeOK
<1>3. tickets[n].status = "absent"
  BY <1>1, ConfigAssumption DEF IInv, UnusedTickets, NoTicket, TicketIds
<1>4. Verdicts' = [Verdicts EXCEPT ![n] = "open"]
  <2>1. VerdictOf(n)' = "open"
    BY <1>1, <1>2, VerdictCasesNext
  <2> QED BY <1>1, <1>2, <2>1, SameTicket DEF Verdicts
<1>5. Demands' = [Demands EXCEPT ![n] = [uid |-> u, quantity |-> q]]
  <2>1. DemandOf(n)' = [uid |-> u, quantity |-> q]
    BY <1>2 DEF DemandOf, NoTicket
  <2> QED BY <1>1, <1>2, <2>1, SameTicket DEF Demands
<1>6. Verdicts[n] = "none"
  BY <1>1, <1>3, VerdictCases DEF Verdicts
<1>7. Balances' = Balances
  BY <1>1, SameBalances
<1> QED BY <1>1, <1>4, <1>5, <1>6, <1>7
        DEF Abstract!Submit, Verdicts, Demands, Balances

\* The decision of the second critical section is the sale's decision.
LEMMA AffordableIff ==
  ASSUME IInv, NEW t \in TicketIds, Settling(t), ~Panics(t)
  PROVE  Abstract!Affordable(t) <=> ~(SoldOut(t) \/ TooPoor(t))
<1> DEFINE u == tickets[t].uid
           q == tickets[t].quantity
<1>1. /\ TypeOK /\ tickets[t] # NoTicket
      /\ u \in Users /\ q \in Nat /\ SummaryWallet(u) \in Int
  <2>1. SummaryWallet(u) \in I64
    BY SettlingTicket
  <2>2. tickets[t] # NoTicket
    BY SettlingTicket DEF NoTicket
  <2> QED BY <2>1, <2>2, SettlingTicket, I64Ints
<1>2. DemandOf(t).uid = u /\ DemandOf(t).quantity = q
  BY <1>1, DemandCases
<1>3. Abstract!Charge(q) = Cost(q)
  BY DEF Abstract!Charge, Abstract!Wrapped, Cost, WrapI64
<1>4. Abstract!Affordable(t) <=> stock >= q /\ SummaryWallet(u) >= Cost(q)
  BY <1>1, <1>2, <1>3 DEF Abstract!Affordable
<1>5. stock \in Int /\ Cost(q) \in Int
  <2>1. Cost(q) \in Int
    BY <1>1, CostType
  <2> QED BY <1>1, <2>1, ConfigAssumption DEF TypeOK
<1> QED BY <1>1, <1>4, <1>5 DEF SoldOut, TooPoor

LEMMA FailSimulates ==
  ASSUME IInv, NEW t \in TicketIds, FailTicket(t)
  PROVE  Abstract!Refuse(t)
<1>1. /\ TypeOK /\ tickets[t] \in Ticket /\ tickets[t].status = "processing"
      /\ tickets[t].uid \in Users
  BY SettlingTicket DEF FailTicket
<1>2. ~Abstract!Affordable(t)
  BY AffordableIff DEF FailTicket
<1>3. /\ tickets'[t] = [tickets[t] EXCEPT !.status = "failed"]
      /\ \A s \in TicketIds \ {t} : tickets'[s] = tickets[s]
      /\ wallets' = WithWallet(tickets[t].uid) /\ stock' = stock
  BY <1>1 DEF FailTicket, TypeOK
<1>4. /\ tickets'[t].status = "failed" /\ tickets'[t] # NoTicket
      /\ tickets'[t].uid = tickets[t].uid /\ tickets'[t].quantity = tickets[t].quantity
      /\ tickets[t] # NoTicket
  BY <1>1, <1>3 DEF Ticket, NoTicket
<1>5. VerdictOf(t) = "open" /\ VerdictOf(t)' = "refused"
  BY <1>1, <1>4, VerdictCases, VerdictCasesNext
<1>6. DemandOf(t)' = DemandOf(t)
  BY <1>4 DEF DemandOf
<1>7. Verdicts' = [Verdicts EXCEPT ![t] = "refused"] /\ Verdicts[t] = "open"
  BY <1>3, <1>5, SameTicket DEF Verdicts
<1>8. Demands' = Demands
  BY <1>3, <1>6, SameTicket DEF Demands
<1>9. Balances' = Balances
  BY <1>1, <1>3, SameBalances
<1> QED BY <1>2, <1>3, <1>7, <1>8, <1>9 DEF Abstract!Refuse, Verdicts, Demands, Balances

LEMMA CompleteSimulates ==
  ASSUME IInv, NEW t \in TicketIds, CompleteTicket(t)
  PROVE  Abstract!Grant(t)
<1> PICK u \in Users : u = tickets[t].uid
  BY SettlingTicket DEF CompleteTicket
<1> DEFINE q == tickets[t].quantity
<1>1. /\ TypeOK /\ tickets[t] \in Ticket /\ tickets[t].status = "processing"
      /\ u \in Users /\ tickets[t] # NoTicket
  BY SettlingTicket DEF CompleteTicket, NoTicket
<1>2. Abstract!Affordable(t)
  BY AffordableIff DEF CompleteTicket
<1>3. /\ Abstract!Charge(q) = Cost(q)
      /\ \A x : Abstract!Wrapped(x) = WrapI64(x)
  BY DEF Abstract!Charge, Abstract!Wrapped, Cost, WrapI64
<1>4. /\ tickets'[t] = [tickets[t] EXCEPT !.status = "completed", !.order = NextOrderId]
      /\ \A s \in TicketIds \ {t} : tickets'[s] = tickets[s]
      /\ stock' = stock - q
      /\ wallets' = [WithWallet(u) EXCEPT ![u] = WrapI64(@ - Cost(q))]
  BY <1>1 DEF CompleteTicket, TypeOK
<1>5. /\ tickets'[t].status = "completed" /\ tickets'[t] # NoTicket
      /\ tickets'[t].uid = u /\ tickets'[t].quantity = q
  BY <1>1, <1>4 DEF Ticket, NoTicket
<1>6. VerdictOf(t) = "open" /\ VerdictOf(t)' = "granted"
  BY <1>1, <1>5, VerdictCases, VerdictCasesNext
<1>7. DemandOf(t)' = DemandOf(t) /\ DemandOf(t) = [uid |-> u, quantity |-> q]
  BY <1>1, <1>5 DEF DemandOf
<1>8. Verdicts' = [Verdicts EXCEPT ![t] = "granted"] /\ Verdicts[t] = "open"
  BY <1>4, <1>6, SameTicket DEF Verdicts
<1>9. Demands' = Demands /\ Demands[t] = [uid |-> u, quantity |-> q]
  BY <1>4, <1>7, SameTicket DEF Demands
<1>10. Balances' = [Balances EXCEPT ![u] = WrapI64(@ - Cost(q))]
  <2>1. \A v \in DOMAIN WithWallet(u) : WithWallet(u)[v] = SummaryWallet(v)
    BY <1>1, WithWalletType
  <2>2. DOMAIN wallets' = DOMAIN wallets \cup {u}
    BY <1>1, <1>4, WithWalletType
  <2>3. wallets'[u] = WrapI64(SummaryWallet(u) - Cost(q))
    BY <1>1, <1>3, <1>4, <2>1, WithWalletType
  <2>4. \A v \in DOMAIN wallets \ {u} : wallets'[v] = SummaryWallet(v)
    BY <1>1, <1>4, <2>1, WithWalletType
  <2>5. SummaryWallet(u)' = WrapI64(SummaryWallet(u) - Cost(q))
    BY <2>2, <2>3 DEF SummaryWallet
  <2>6. \A v \in Users \ {u} : SummaryWallet(v)' = SummaryWallet(v)
    BY <2>2, <2>4 DEF SummaryWallet
  <2> QED BY <1>1, <2>5, <2>6 DEF Balances
<1> QED BY <1>2, <1>3, <1>4, <1>7, <1>8, <1>9, <1>10
        DEF Abstract!Grant, Verdicts, Demands, Balances

LEMMA StockDecrSimulates ==
  ASSUME IInv, NEW a \in DecrAmounts, StockDecr(a)
  PROVE  Abstract!AdjustStock
<1>1. stock' \in 0..MaxI64
  BY DecrLeaves DEF IInv
<1>2. wallets' = wallets /\ tickets' = tickets
  BY DEF StockDecr
<1> QED BY <1>1, <1>2, KeptBalances, KeptTickets
        DEF Abstract!AdjustStock, Verdicts, Demands, Balances

LEMMA InvisibleStep ==
  ASSUME stock' = stock, Balances' = Balances, Demands' = Demands, Verdicts' = Verdicts
  PROVE  UNCHANGED Abstract!saleVars
BY DEF Abstract!saleVars, Verdicts, Demands, Balances

LEMMA ClaimSimulates ==
  ASSUME IInv, NEW t \in TicketIds, ClaimTicket(t)
  PROVE  UNCHANGED Abstract!saleVars
<1>1. TypeOK /\ tickets[t].status = "queued" /\ tickets[t] \in Ticket
  BY TicketShape DEF IInv, ThreadsTrackTickets, TypeOK, Status, ClaimTicket
<1>2. /\ tickets'[t] = [tickets[t] EXCEPT !.status = "processing"]
      /\ \A s \in TicketIds \ {t} : tickets'[s] = tickets[s]
      /\ stock' = stock /\ wallets' = wallets
  BY <1>1 DEF ClaimTicket, TypeOK
<1>3. /\ tickets'[t].status = "processing" /\ tickets'[t] # NoTicket
      /\ tickets'[t].uid = tickets[t].uid /\ tickets'[t].quantity = tickets[t].quantity
      /\ tickets[t] # NoTicket
  BY <1>1, <1>2 DEF Ticket, NoTicket
<1>4. VerdictOf(t)' = VerdictOf(t)
  BY <1>1, <1>3, VerdictCases, VerdictCasesNext
<1>5. DemandOf(t)' = DemandOf(t)
  BY <1>3 DEF DemandOf
<1>6. Verdicts' = Verdicts /\ Demands' = Demands
  BY <1>2, <1>4, <1>5, SameTicket DEF Verdicts, Demands
<1> QED BY <1>2, <1>6, KeptBalances, InvisibleStep

LEMMA PanicSimulates ==
  ASSUME IInv, NEW t \in TicketIds, PanicOnOverflow(t)
  PROVE  UNCHANGED Abstract!saleVars
<1>1. tickets[t].uid \in Users
  BY SettlingTicket DEF PanicOnOverflow
<1>2. wallets' = WithWallet(tickets[t].uid) /\ tickets' = tickets /\ stock' = stock
  BY DEF PanicOnOverflow
<1> QED BY <1>1, <1>2, SameBalances, KeptTickets, InvisibleStep

LEMMA OtherSimulates ==
  ASSUME stock' = stock, wallets' = wallets, tickets' = tickets
  PROVE  UNCHANGED Abstract!saleVars
BY KeptBalances, KeptTickets, InvisibleStep
----------------------------------------------------------------------------
LEMMA StepSimulates ==
  ASSUME IInv, [Next]_vars
  PROVE  [Abstract!Next]_(Abstract!saleVars)
<1>1. ASSUME NEW u \in Users, NEW q \in Quantities, EnqueuePurchase(u, q)
      PROVE  Abstract!Next
  BY <1>1, EnqueueSimulates DEF Abstract!Next
<1>2. ASSUME NEW a \in DecrAmounts, StockDecr(a)
      PROVE  Abstract!Next
  BY <1>2, StockDecrSimulates DEF Abstract!Next
<1>3. ASSUME NEW r \in Rows, CreateOrder(r)
      PROVE  UNCHANGED Abstract!saleVars
  BY <1>3, OtherSimulates DEF CreateOrder
<1>7. ASSUME NEW a \in DecrAmounts, PanicOnDecr(a)
      PROVE  UNCHANGED Abstract!saleVars
  BY <1>7, OtherSimulates DEF PanicOnDecr, saleState
<1>4. ASSUME NEW t \in TicketIds, ThreadStep(t)
      PROVE  [Abstract!Next]_(Abstract!saleVars)
  <2>1. CASE FailTicket(t) \/ CompleteTicket(t)
    BY <2>1, FailSimulates, CompleteSimulates DEF Abstract!Next
  <2>2. CASE ClaimTicket(t) \/ PanicOnOverflow(t)
    BY <2>2, ClaimSimulates, PanicSimulates
  <2>3. CASE ExitPoisoned(t)
    BY <2>3, OtherSimulates DEF ExitPoisoned, saleState
  <2> QED BY <1>4, <2>1, <2>2, <2>3 DEF ThreadStep
<1>5. CASE ClientStep
  BY <1>1, <1>2, <1>3, <1>5, <1>7 DEF ClientStep
<1>6. CASE UNCHANGED vars
  BY <1>6, OtherSimulates DEF vars
<1> QED BY <1>4, <1>5, <1>6 DEF Next

(* The queue, its threads and its lock implement the atomic sale: units and *)
(* money move together, once per request, and a request is refused only     *)
(* while stock or money is short, overflow and wrap-around included.        *)
THEOREM SaleImplemented == Spec => ImplementsSale
<1>1. IInv /\ [Next]_vars => [Abstract!Next]_(Abstract!saleVars)
  BY StepSimulates
<1> QED BY <1>1, InitSimulates, Invariance, PTL DEF Spec, ImplementsSale, Abstract!Spec
=============================================================================
