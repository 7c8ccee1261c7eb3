-------------------------------- MODULE Sale --------------------------------
(***************************************************************************)
(* What the flash-sale queue promises, with no thread, ticket record,      *)
(* order table or lock: purchase requests are decided one by one, each     *)
(* exactly once and atomically.  A granted request takes its units from    *)
(* the stock and its price from the buyer together.  A refused one takes   *)
(* nothing, and is refused only while stock or money really is short.      *)
(* Amounts are machine integers: one the type cannot hold counts as its    *)
(* two's-complement value, in the comparison and in the charge alike.      *)
(* FlashSale is shown to implement this specification.                     *)
(***************************************************************************)
EXTENDS Integers

CONSTANTS Users,      \* the buyers
          Requests,   \* identities of purchase requests
          Quantities, \* quantities a request may ask for
          Price,      \* price of one unit
          MaxI64,     \* largest value of the integer type
          OpeningStock,
          OpeningBalance  \* what each buyer can spend at the start

VARIABLES stock,      \* units left
          balance,    \* money every buyer has left
          demand,     \* what a submitted request asks for: buyer and quantity
          verdict     \* "none" until submitted, then "open", then decided

saleVars == <<stock, balance, demand, verdict>>

NoDemand == [uid |-> "nobody", quantity |-> 0]

Init ==
  /\ stock = OpeningStock
  /\ balance = OpeningBalance
  /\ demand = [r \in Requests |-> NoDemand]
  /\ verdict = [r \in Requests |-> "none"]

Submit(r, u, q) ==
  /\ verdict[r] = "none"
  /\ q > 0
  /\ demand' = [demand EXCEPT ![r] = [uid |-> u, quantity |-> q]]
  /\ verdict' = [verdict EXCEPT ![r] = "open"]
  /\ UNCHANGED <<stock, balance>>

Wrapped(x) ==
  LET width == 2 * (MaxI64 + 1) IN ((x + MaxI64 + 1) % width) - (MaxI64 + 1)

Charge(q) == Wrapped(Price * q)

Affordable(r) ==
  /\ stock >= demand[r].quantity
  /\ balance[demand[r].uid] >= Charge(demand[r].quantity)

Grant(r) ==
  /\ verdict[r] = "open"
  /\ Affordable(r)
  /\ stock' = stock - demand[r].quantity
  /\ balance' = [balance EXCEPT
                   ![demand[r].uid] = Wrapped(@ - Charge(demand[r].quantity))]
  /\ verdict' = [verdict EXCEPT ![r] = "granted"]
  /\ UNCHANGED demand

Refuse(r) ==
  /\ verdict[r] = "open"
  /\ ~Affordable(r)
  /\ verdict' = [verdict EXCEPT ![r] = "refused"]
  /\ UNCHANGED <<stock, balance, demand>>

\* The stock counter is also written directly, past the queue: to any level,
\* but never below zero and never touching a request or a balance.
AdjustStock ==
  /\ stock' \in 0..MaxI64
  /\ UNCHANGED <<balance, demand, verdict>>

Next ==
  \/ \E r \in Requests, u \in Users, q \in Quantities : Submit(r, u, q)
  \/ \E r \in Requests : Grant(r) \/ Refuse(r)
  \/ AdjustStock

Spec == Init /\ [][Next]_saleVars
=============================================================================
