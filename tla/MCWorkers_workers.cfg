CONSTANTS
    None = None
    Recipients = {r1, r2}
    OptedOut = {r2}
    Workers = {p1, p2}
    Requests = {q1, q2}
    Kinds = {"start", "pause", "cancel", "retry", "delete"}
    MaxRequests = 2
    MaxJobs = 4
    MaxCrashes = 1
    MaxDbErrors = 1
    Nil = Nil
    Confs = {c1, c2}
    Threads = {p1, p2}
    Transfers = {q1, q2}
    TTL = 1
    MinAge = 0
    MaxAttempts = 1
    Limit = 2
    Window = 1
    Cooldown = 1
    Timely = TRUE
    MaxOutages = 1
SPECIFICATION MCSpec
CHECK_DEADLOCK FALSE
SYMMETRY WorkersSymmetry
INVARIANTS    ConfirmedActs OneTransferEach ToldOnce
PROPERTIES OutcomeIsFinal
