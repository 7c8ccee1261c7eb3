CONSTANTS
  t1 = t1
  t2 = t2
  Threads = {t1, t2}
  Apps = {"a", "b"}
  ServiceApps <- MCServiceApps
  Methods <- MCMethods
  LoginEnabled = TRUE
  RegisterEnabled = FALSE
  Requests <- MCRequests
  MaxSessions = 2
  MaxRestarts = 1

SYMMETRY Symmetry

SPECIFICATION Spec

INVARIANTS
  LiveSessionsKnown
  LogoutEffective
