CONSTANTS
  t1 = t1
  t2 = t2
  Threads = {t1, t2}
  Apps = {"a", "a:b"}
  Emails = {"seed", "new", "b:new"}
  Keys <- MCKeys
  user_key <- MCUserKey
  Passwords = {"p", "q"}
  SeedUsers <- MCSeedUsers
  FirstUid = 2
  Lease = 1
  Requests <- MCRequests
  MaxTime = 1
  MaxSessions = 2

SPECIFICATION FairSpec

INVARIANTS
  TypeOK
  IdentitiesDistinct
  RevokedNotServed

PROPERTIES
  UsersStay
  LogoutOnce
  ImplementsSessionStore
  RequestsAnswered
