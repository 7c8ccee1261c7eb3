----------------------------- MODULE MCFlashSale -----------------------------
(***************************************************************************)
(* Instance of FlashSale for TLC: two buyers, one with a configured wallet *)
(* and one without, and a sale that cannot serve everybody.  The integer   *)
(* type is narrow so that one legal quantity overflows price * quantity.   *)
(***************************************************************************)
EXTENDS FlashSale

CONSTANTS known, newcomer

MCUsers == {known, newcomer}

MCWallets == [u \in {known} |-> 4]

MCSeedOrders == <<[id |-> 1, uid |-> known, quantity |-> 1, confirmed |-> FALSE]>>

\* 0 is rejected, 1 and 2 compete for the stock, 20 units cost more than the
\* integer type can hold.
MCQuantities == {0, 1, 2, 20}

\* A decrement that asks for more than there is, and a restock after which the
\* stock is worth more than the integer type can hold; from 2 units on the
\* restock itself overflows.
MCDecrAmounts == {31, -30}

\* Amounts that never overflow, so that a panic is the queue's own.
MCPlainAmounts == {2}

\* A direct row that looks like one the queue inserted.
MCRows == {[uid |-> known, quantity |-> 1, confirmed |-> TRUE]}
=============================================================================
