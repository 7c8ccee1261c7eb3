CONSTANTS
  known = known
  newcomer = newcomer
  Users <- MCUsers
  Quantities <- MCQuantities
  DecrAmounts <- MCDecrAmounts
  Rows <- MCRows
  Price = 2
  OpeningStock = 2
  OpeningWallets <- MCWallets
  FallbackBalance = 3
  SeedOrders <- MCSeedOrders
  MaxI64 = 31
  MaxTickets = 3
  MaxOrders = 1

SPECIFICATION FairSpec

INVARIANTS
  TypeOK
  StockConserved
  WalletConserved
  TicketsMatchOrders
  NoOrphanTicket

PROPERTIES
  PositionNeverGrows
  ImplementsSale
  TicketsSettle

\* The queue is full or the mutex is poisoned: nothing more has to happen.
CHECK_DEADLOCK FALSE
