CONSTANTS
  t1 = t1
  t2 = t2
  Threads = {t1, t2}
  Apps = {"a", "a:b"}
  Emails = {"seed", "new", "b:new"}
  Passwords = {"p", "q"}
  Keys <- MCKeys
  user_key <- MCUserKey
  Standings = {"boss", "member", "local"}
  LocalStanding = "local"
  SeedUsers <- MCSeedUsers
  BaseUserId = 1
  AnonymousApps = {"a"}
  LoginEnabled = TRUE
  RegisterEnabled = TRUE
  Lease = 1
  Requests <- MCRequests
  MaxTime = 1
  MaxSessions = 2

SYMMETRY Symmetry

SPECIFICATION Spec

INVARIANTS
  TypeOK
  IdentitiesFresh
  SessionsReachClients

PROPERTIES
  IdentityKept
  ImplementsSessionStore
