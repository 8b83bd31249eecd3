SPECIFICATION ConfSpec
CONSTANTS
  c1 = c1
  c2 = c2
  t1 = t1
  t2 = t2
  x1 = x1
  x2 = x2
  Nil = Nil
  Confs = {c1}
  Threads = {t1, t2}
  Transfers = {x1, x2}
  TTL = 2
  MinAge = 0
  MaxAttempts = 2
  Limit = 2
  Window = 1
  Cooldown = 1
  Timely = FALSE
  MaxOutages = 0
INVARIANTS OneTransferEach
CHECK_DEADLOCK FALSE
