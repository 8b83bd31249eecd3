CONSTANTS
    Callees = {a1}
    x1 = x1
    x2 = x2
    Hops = {x1, x2}
    Handlers = {h1, h2}
    NoOne = NoOne
    CallBounds <- Bounds
SPECIFICATION CallSpec
CHECK_DEADLOCK FALSE
INVARIANTS TransfersSettleOnce
PROPERTIES IVRResumes
