CONSTANTS
  Uids = {"a", "b"}
  TenantOf <- MCTenantOf
  Titles = {"x"}
  ConfiguredPosts <- MCClashing
  AllowAnonymous = TRUE
  FeedLimit = 2
  AuthorLimit = 1
  MaxLabel = 1
  MaxId = 4

SPECIFICATION BlogSpec

INVARIANTS
  AcceptedKept
  FeedNewestFirst

PROPERTIES
  IdsNotReused
