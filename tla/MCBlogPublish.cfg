CONSTANTS
  Uids = {"a", "b"}
  TenantOf <- MCTenantOf
  Titles = {"x", "y"}
  ConfiguredPosts <- MCSeeded
  AllowAnonymous = TRUE
  FeedLimit = 1
  AuthorLimit = 2
  MaxLabel = 1
  MaxId = 3

SPECIFICATION BlogSpec

INVARIANT PublishedPostsAppear
