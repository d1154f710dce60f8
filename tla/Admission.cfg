SPECIFICATION AdmissionSpec
CONSTANTS
  w1 = w1
  w2 = w2
  s1 = s1
  s2 = s2
  WorkerIds = {w1, w2}
  Subs = {s1, s2}
  Dirs = {"repo", "plain"}
  Repos = {"repo"}
  Env = {"HOOK"}
  MaxNow = 4
  AUTH_FAILURE_BACKOFF_SECS = 2
  RATE_LIMIT_DEFAULT_BACKOFF_SECS = 1
  AdmissionScenarios <- MCScenarios
CHECK_DEADLOCK FALSE
INVARIANTS
    ManifestIsHonoured
    CapsHoldUnlessRaced
    ToldIsGated
