CONSTANTS
    Workers = {w1, w2}
    PostCallIVR = TRUE
    Nodes <- MCNodes
    Edges <- MCEdges
    NodeType <- MCNodeType
    Target <- MCTarget
    Entry <- MCEntry
    NoNode = "none"
    Keys = {"1", "2", "3", "#"}
    Terminator = "#"
    ValidDigits = {"1", "2"}
    MaxRetries = 2
    MaxDigits = 2
    BufferCap = 2
    MaxPresses = 3
    MaxBridges = 2
    RtpMod = 4
    MaxPackets = 3
SPECIFICATION MediaSpec
CHECK_DEADLOCK FALSE
INVARIANTS IVRFollowsCaller MediaFlows
 
