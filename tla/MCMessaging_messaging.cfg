SPECIFICATION MessagingSpec
CHECK_DEADLOCK FALSE
CONSTANTS
    People = {"p1", "p2"}
    Area55 = {"p2"}
    Staff = {"ana", "rui", "sue"}
    TeamIds = {"t1", "t2"}
    TagNames = {"vip", "new", "old"}
    Permissions <- MCPermissions
    Members <- MCMembers
    Eligible = {"ana", "rui"}
    MaxRows = 4
    MaxJobs = 3
    BookMenus <- MCBookMenus
    MaxMsgs = 5
    Wamids = {1, 2, 3, 5, 6, 7}
    Reactors = {"ana", "rui", "cus"}
    Hooks = {"h1", "h2", "h3", "h4"}
    Errands = {1, 2, 3, 4, 5}
    PageLimit = 2
    MaxConcurrentWebhooks = 2
    MaxRetries = 3
    MsgMenus <- MCMsgMenus
    Posts = {1, 2}
    RateIds = {1, 2}
    s1 = s1
    s2 = s2
    Servers = {s1, s2}
    Tasks = {1, 2, 3, 4, 5}
    MaxTick = 4
    IntegrityInterval = 1
    UnlinkedAfter = 1
    UndeliveredAfter = 2
    UsageMenus <- MCUsageMenus
INVARIANTS BookConsistent  
 
