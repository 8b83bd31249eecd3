-------------------------------- MODULE MCCall --------------------------------
EXTENDS IncomingCall
CONSTANTS x1, x2
\* Two agents, or one and a lost caller; the webhook and a lost caller; two transfers.
Bounds == {[rows |-> {x1}, requests |-> 2, hangups |-> 0],
           [rows |-> {x1}, requests |-> 0, hangups |-> 1],
           [rows |-> {x1, x2}, requests |-> 0, hangups |-> 0]}
===============================================================================
