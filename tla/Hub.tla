---------------------------------- MODULE Hub ----------------------------------
(***************************************************************************)
(* The websocket hub as presence sees it: an agent's open tabs, and the    *)
(* notification it starts in a goroutine of its own each time the first    *)
(* tab opens or the last one closes.  Those goroutines may run in any      *)
(* order, and late.                                                        *)
(***************************************************************************)
EXTENDS Naturals

CONSTANTS
    Users,     \* users with a websocket
    Tabs,       \* what a user can have open
    MaxNotices  \* bound: undelivered notifications per agent and kind

ASSUME HubAssumption == MaxNotices \in Nat

VARIABLES
    tabs,       \* Hub.clients of the organization
    notices     \* goroutines of notifyPresence that have not run yet

Online(a) == tabs[a] # {}

HubTypeOK ==
    /\ tabs \in [Users -> SUBSET Tabs]
    /\ notices \in [Users -> [BOOLEAN -> 0..MaxNotices]]

HubInit ==
    /\ tabs = [a \in Users |-> {}]
    /\ notices = [a \in Users |-> [online \in BOOLEAN |-> 0]]

Notify(a, online) ==
    /\ notices[a][online] < MaxNotices
    /\ notices' = [notices EXCEPT ![a][online] = @ + 1]

\* The goroutine of one notification starts its work.
Deliver(a, online) ==
    /\ notices[a][online] > 0
    /\ notices' = [notices EXCEPT ![a][online] = @ - 1]

\* registerClient: only the first tab is a transition.
Register(a, tab) ==
    /\ tab \notin tabs[a]
    /\ tabs' = [tabs EXCEPT ![a] = @ \cup {tab}]
    /\ IF tabs[a] = {} THEN Notify(a, TRUE) ELSE UNCHANGED notices

\* unregisterClient: only the last tab is.
Unregister(a, tab) ==
    /\ tab \in tabs[a]
    /\ tabs' = [tabs EXCEPT ![a] = @ \ {tab}]
    /\ IF tabs[a] = {tab} THEN Notify(a, FALSE) ELSE UNCHANGED notices

===============================================================================
