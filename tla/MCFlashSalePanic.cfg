CONSTANTS
  known = known
  newcomer = newcomer
  Users <- MCUsers
  Quantities <- MCQuantities
  DecrAmounts <- MCPlainAmounts
  Rows <- MCRows
  Price = 2
  OpeningStock = 2
  OpeningWallets <- MCWallets
  FallbackBalance = 3
  SeedOrders <- MCSeedOrders
  MaxI64 = 31
  MaxTickets = 2
  MaxOrders = 1

SPECIFICATION FairSpec

PROPERTY AcceptedTicketsSettle

\* The queue is full or the mutex is poisoned: nothing more has to happen.
CHECK_DEADLOCK FALSE
