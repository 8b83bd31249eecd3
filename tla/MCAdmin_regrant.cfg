SPECIFICATION RegrantSpec
CHECK_DEADLOCK FALSE
CONSTANTS
    Categories = {"k1", "k2", "k3"}
    Reasons = {"r1", "r2"}
    Processes = {"p1", "p2"}
    Places = {"w1"}
    Filed = {"f1"}
    MaxTasks = 3
    CatalogMenus <- MCCatalogMenus
    Clients = {"kim"}
    Orders = {"x1", "x2"}
    Sellers = {"ann", "bob"}
    Scope <- MCScope
    Mates = {}
    Buyer <- MCBuyer
    Dated <- MCDated
    Compatible <- MCCompatible
    MaxOpps = 3
    MaxLinks = 3
    MaxActs = 3
    LastDay = 3
    Grace = 1
    ReviewAfter = 2
    OppMenus <- MCOppMenus
    Orgs = {"o1", "o2"}
    MaxCrashes = 1
    MaxEdits = 2
    Installs <- MCInstalls
    AccessMenus <- MCAccessMenus
    SignInMenus <- MCSignInMenus
PROPERTIES RevocationsAlwaysStay
