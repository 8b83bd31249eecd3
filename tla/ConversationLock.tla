--------------------------- MODULE ConversationLock ---------------------------
(***************************************************************************)
(* What attendances promise about a conversation, with no rows, requests   *)
(* or races: it is free, waiting in the queue, or in the hands of exactly  *)
(* one agent, and it passes between those as a lock does.                  *)
(***************************************************************************)

CONSTANTS Contacts, Agents, NULL

VARIABLE held   \* {} free, {NULL} in the queue, {a} with agent a

Holder == Agents \cup {NULL}

Init == held = [c \in Contacts |-> {}]

\* Only a free conversation can be opened, in the queue or for an agent.
Open(c, x) == held[c] = {} /\ held' = [held EXCEPT ![c] = {x}]

\* A conversation that changes hands goes from one holder to one holder.
HandOver(c, x, y) == held[c] = {x} /\ held' = [held EXCEPT ![c] = {y}]

Close(c, x) == held[c] = {x} /\ held' = [held EXCEPT ![c] = {}]

Next == \E c \in Contacts, x \in Holder :
            \/ Open(c, x)
            \/ Close(c, x)
            \/ \E y \in Holder : HandOver(c, x, y)

Spec == Init /\ [][Next]_held

===============================================================================
