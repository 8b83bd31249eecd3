SPECIFICATION OfficeSpec
CHECK_DEADLOCK FALSE
CONSTANTS
    ChatUsers = {"ann", "bob", "eve"}
    FirstOwners = {"ann", "bob"}
    FirstMembers = {}
    Managers = {"eve"}
    Files = {"f1", "f2"}
    Codes = {"ok", "no"}
    MaxPending = 1
    MaxKinds = 1
    MaxCalls = 3
    LastLine = 4
    Menus <- MCMenus
    Cases = {"c1", "c2"}
    Documents = {"d1", "d2"}
    LastStage = 4
    Staff = {"ann", "bob"}
    Seeing = {"ann"}
    MaxJobs = 3
    MaxDocuments = 2
    CaseMenus <- MCCaseMenus
INVARIANTS TeamChatConsistent 
PROPERTIES OfficeEvolves
