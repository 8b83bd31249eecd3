CONSTANTS
    NULL = NULL
    Contacts = {c1}
    Agents = {a1, a2}
    Supervisors = {a2}
    Requests = {r1, r2}
    Operations = {"create", "send", "pick", "assign", "unassign", "close", "away", "offline", "reassign", "resolve", "inbound", "assign_contact"}
    AssignToSameAgent = TRUE
    AwayTolerance = {FALSE, TRUE}
    MaxTransfers = 2
    MaxRequests = 4
    None = None
    Users = {u1}
    Tabs = {tab1}
    Jobs = {j1, j2}
    MaxNotices = 1
    MaxNow = 1
    MaxRestarts = 1
    MaxLog = 2
SPECIFICATION AgentsSpec
CONSTRAINT ShortLog
CHECK_DEADLOCK FALSE
SYMMETRY AgentsSymmetry
INVARIANTS TypeOK OneActivePerContact SenderOwned HistoryChains LogConsistent
PROPERTIES ClosedIsFinal ImplementsLock ReassignsOnlyTheAwayAgent
