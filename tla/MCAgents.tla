------------------------------- MODULE MCAgents -------------------------------
(* The attendances of one contact, and the presence log of one agent, one of   *)
(* them at a time.  Each group of handlers is what runs in one behaviour.      *)
EXTENDS Attendance, PresenceLog, TLC

VARIABLE focus
agentsVars == <<focus, vars, logVars>>

\* Bound: intervals in an agent's log.
CONSTANT MaxLog

Groups == [routing |-> {"create", "send", "pick", "assign", "unassign"},
           leaving |-> {"create", "assign", "away", "offline", "reassign", "resolve", "inbound"},
           closing |-> {"create", "send", "pick", "unassign", "close"}]
\* Bound: requests of a group.
GroupRequests == [routing |-> 4, leaving |-> 3, closing |-> 3]

HandlersNext == UNCHANGED <<available, connected>> /\ \E r \in Requests : Handlers(r) \/ Step(r) \/ Abort(r)
AttendanceNext ==
    /\ IF focus \in {"routing", "closing"} THEN HandlersNext ELSE Next
    /\ served' <= GroupRequests[focus]
    /\ \A r \in Requests : req'[r].op \in Groups[focus] \cup {"none"}

AgentsInit == focus \in DOMAIN Groups \cup {"log"} /\ Init /\ LogInit
AgentsNext ==
    \/ focus # "log" /\ AttendanceNext /\ UNCHANGED <<focus, logVars>>
    \/ focus = "log" /\ LogNext /\ UNCHANGED <<focus, vars>>
AgentsSpec == AgentsInit /\ [][AgentsNext]_agentsVars

\* Requests are interchangeable slots.
AgentsSymmetry == Permutations(Requests)

ShortLog == \A a \in Users : Len(log[a]) <= MaxLog

===============================================================================
