CONSTANTS
    LastInbound = 3
    Arriving <- MCArriving
    AtOnce = 2
    Users = {u1}
    Tabs = {tab1, tab2}
    MaxNotices = 2
    Grace = 3
    None = None
    MaxRestarts = 1
    Nil = Nil
    MaxSessions = 3
    ChatNodes <- MCChatNodes
    ChatEdges <- MCChatEdges
    ChatType <- MCChatType
    Owner <- MCOwner
    EntryNode <- MCEntryNode
    GotoTarget <- MCGoto
    Skippable = {"bu"}
    Editable = {"f1", "bu"}
    ChatRetries = 2
    Iterations = 4
    ResponseTime = 1
    EscalationTime = 2
    AutoCloseTime = 3
    ReminderTime = 1
    InactiveTime = 2
    SlaHorizon = 5
    ToolNames <- MCTools
    Policy <- MCPolicy
    LoopSteps = 2
    LoopToolCalls = 3
    CallsPerStep = 2
    LongestRound = 3
SPECIFICATION DialogSpec
CHECK_DEADLOCK FALSE
INVARIANTS   LoopAccounted ClockHonest
PROPERTIES DialogSettles AbandonedIsReleased ConfirmedIsClosed
