SPECIFICATION Spec
CONSTANTS
  r1 = r1
  r2 = r2
  w1 = w1
  w2 = w2
  q1 = q1
  q2 = q2
  None = None
  Recipients = {r1, r2}
  OptedOut = {r2}
  Workers = {w1}
  Requests = {q1}
  Kinds = {"start"}
  MaxRequests = 1
  MaxJobs = 2
  MaxCrashes = 0
  MaxDbErrors = 0
INVARIANTS FinishedIsCompleted
CHECK_DEADLOCK FALSE
