-------------------------------- MODULE Presence --------------------------------
(***************************************************************************)
(* PresenceReaper: an agent who stays disconnected for the grace period    *)
(* loses the attendances assigned to them, and one who reconnects inside   *)
(* it keeps them.  Time advances one sweep interval at a time; a sweep     *)
(* takes several steps, and agents connect, disconnect and receive         *)
(* attendances between them, but it is over before the next tick.          *)
(*                                                                         *)
(* returnAgentTransfers is one step here: its own races are in Attendance. *)
(***************************************************************************)
EXTENDS Hub

CONSTANTS
    Grace,          \* DefaultPresenceGrace, in sweep intervals
    None,           \* no entry in the map
    MaxRestarts     \* bound: restarts of the server

ASSUME PresenceAssumption ==
    /\ Grace \in Nat \ {0}
    /\ None \notin 0..Grace
    /\ MaxRestarts \in Nat

VARIABLES
    disconnected,   \* the reaper's map: ticks since the recorded instant
    owning,         \* the agents with an active attendance
    chosen,         \* the agents found eligible whose assignment is not written yet
    sweep,          \* the sweep that is running
    absent,         \* auxiliary: ticks since the last tab really closed
    restarts

reaperVars == <<tabs, notices, disconnected, owning, chosen, sweep, absent, restarts>>

\* Ages stop counting at the grace period: nothing distinguishes older ones.
Ages == 0..Grace
Older(age) == IF age = None \/ age = Grace THEN age ELSE age + 1

NoSweep == [pc |-> "idle", todo |-> {}, live |-> {}, agent |-> None]

ReaperTypeOK ==
    /\ HubTypeOK
    /\ disconnected \in [Users -> Ages \cup {None}]
    /\ owning \subseteq Users
    /\ chosen \subseteq Users
    /\ sweep \in [pc : {"idle", "list", "loop", "clock", "recheck", "return", "forget"},
                  todo : SUBSET Users, live : SUBSET Users, agent : Users \cup {None}]
    /\ absent \in [Users -> Ages]
    /\ restarts \in 0..MaxRestarts

ReaperInit ==
    /\ HubInit
    /\ disconnected = [a \in Users |-> None]
    /\ owning = {}
    /\ chosen = {}
    /\ sweep = NoSweep
    /\ absent = [a \in Users |-> 0]
    /\ restarts = 0

-------------------------------------------------------------------------------
(* Agents *)

OpenTab(a, tab) ==
    /\ Register(a, tab)
    /\ absent' = [absent EXCEPT ![a] = 0]
    /\ UNCHANGED <<disconnected, owning, chosen, sweep, restarts>>

CloseTab(a, tab) ==
    /\ Unregister(a, tab)
    /\ UNCHANGED <<disconnected, owning, chosen, sweep, absent, restarts>>

\* An assignment checks eligibility (IsConnected) and writes the row later.
Choose(a) ==
    /\ Online(a)
    /\ a \notin chosen
    /\ chosen' = chosen \cup {a}
    /\ UNCHANGED <<tabs, notices, disconnected, owning, sweep, absent, restarts>>

Assign(a) ==
    /\ a \in chosen
    /\ chosen' = chosen \ {a}
    /\ owning' = owning \cup {a}
    /\ UNCHANGED <<tabs, notices, disconnected, sweep, absent, restarts>>

\* The agent's last attendance is closed or moved to somebody else.
CloseLast(a) ==
    /\ a \in owning
    /\ owning' = owning \ {a}
    /\ UNCHANGED <<tabs, notices, disconnected, chosen, sweep, absent, restarts>>

-------------------------------------------------------------------------------
(* The hub's listener *)

\* What a notification leaves in the map.
Heard(a, online) ==
    IF online THEN None
    ELSE IF ~Online(a) /\ disconnected[a] = None THEN 0
    ELSE disconnected[a]

OnPresenceChange(a, online) ==
    /\ Deliver(a, online)
    /\ disconnected' = [disconnected EXCEPT ![a] = Heard(a, online)]
    /\ UNCHANGED <<tabs, owning, chosen, sweep, absent, restarts>>

-------------------------------------------------------------------------------
(* The sweep *)

NextSweep ==
    /\ sweep.pc = "idle"
    /\ disconnected' = [a \in Users |-> Older(disconnected[a])]
    /\ absent' = [a \in Users |-> IF Online(a) THEN 0 ELSE Older(absent[a])]
    /\ sweep' = [sweep EXCEPT !.pc = "list"]
    /\ UNCHANGED <<tabs, notices, owning, chosen, restarts>>

ListAssigned ==
    /\ sweep.pc = "list"
    /\ sweep' = [sweep EXCEPT !.pc = "loop", !.todo = owning, !.live = owning]
    /\ UNCHANGED <<tabs, notices, disconnected, owning, chosen, absent, restarts>>

\* The first isConnected of the loop's body; a connected agent's entry goes.
Consider(a) ==
    /\ sweep.pc = "loop"
    /\ a \in sweep.todo
    /\ IF Online(a)
       THEN /\ disconnected' = [disconnected EXCEPT ![a] = None]
            /\ sweep' = [sweep EXCEPT !.todo = @ \ {a}]
       ELSE /\ sweep' = [sweep EXCEPT !.pc = "clock", !.agent = a, !.todo = @ \ {a}]
            /\ UNCHANGED disconnected
    /\ UNCHANGED <<tabs, notices, owning, chosen, absent, restarts>>

\* OfflineReleasePolicy.ShouldRelease
ShouldRelease(age) == age >= Grace

ReadClock_ZeroTime ==
    LET a == sweep.agent
        since == IF disconnected[a] = None THEN Grace ELSE disconnected[a] IN
    /\ sweep.pc = "clock"
    /\ disconnected' = [disconnected EXCEPT ![a] = since]
    /\ sweep' = IF ShouldRelease(since)
                THEN [sweep EXCEPT !.pc = "recheck"]
                ELSE [sweep EXCEPT !.pc = "loop", !.agent = None]
    /\ UNCHANGED <<tabs, notices, owning, chosen, absent, restarts>>

ReadClock_ListenerOnly ==
    LET a == sweep.agent
        since == disconnected[a] IN
    /\ sweep.pc = "clock"
    /\ sweep' = IF since # None /\ ShouldRelease(since)
                THEN [sweep EXCEPT !.pc = "recheck"]
                ELSE [sweep EXCEPT !.pc = "loop", !.agent = None]
    /\ UNCHANGED <<tabs, notices, disconnected, owning, chosen, absent, restarts>>

\* Reads the clock, or starts it, under the mutex.
ReadClock ==
    LET a == sweep.agent
        since == IF disconnected[a] = None THEN 0 ELSE disconnected[a] IN
    /\ sweep.pc = "clock"
    /\ disconnected' = [disconnected EXCEPT ![a] = since]
    /\ sweep' = IF ShouldRelease(since)
                THEN [sweep EXCEPT !.pc = "recheck"]
                ELSE [sweep EXCEPT !.pc = "loop", !.agent = None]
    /\ UNCHANGED <<tabs, notices, owning, chosen, absent, restarts>>

\* "Re-check right before acting."
Recheck ==
    /\ sweep.pc = "recheck"
    /\ sweep' = IF Online(sweep.agent)
                THEN [sweep EXCEPT !.pc = "loop", !.agent = None]
                ELSE [sweep EXCEPT !.pc = "return"]
    /\ UNCHANGED <<tabs, notices, disconnected, owning, chosen, absent, restarts>>

ReturnTransfers ==
    /\ sweep.pc = "return"
    /\ owning' = owning \ {sweep.agent}
    /\ disconnected' = [disconnected EXCEPT ![sweep.agent] = None]
    /\ sweep' = [sweep EXCEPT !.pc = "loop", !.agent = None]
    /\ UNCHANGED <<tabs, notices, chosen, absent, restarts>>

EndLoop ==
    /\ sweep.pc = "loop"
    /\ sweep.todo = {}
    /\ sweep' = [sweep EXCEPT !.pc = "forget"]
    /\ UNCHANGED <<tabs, notices, disconnected, owning, chosen, absent, restarts>>

\* Entries of agents who had nothing assigned when the sweep listed them.
Forget ==
    /\ sweep.pc = "forget"
    /\ disconnected' = [a \in Users |-> IF a \in sweep.live THEN disconnected[a] ELSE None]
    /\ sweep' = NoSweep
    /\ UNCHANGED <<tabs, notices, owning, chosen, absent, restarts>>

Sweep ==
    \/ ListAssigned \/ ReadClock \/ Recheck \/ ReturnTransfers \/ EndLoop \/ Forget
    \/ \E a \in Users : Consider(a)

\* The process restarts: the map, the hub and every goroutine are gone.
Restart ==
    /\ restarts < MaxRestarts
    /\ restarts' = restarts + 1
    /\ tabs' = [a \in Users |-> {}]
    /\ notices' = [a \in Users |-> [online \in BOOLEAN |-> 0]]
    /\ disconnected' = [a \in Users |-> None]
    /\ chosen' = {}
    /\ sweep' = NoSweep
    /\ UNCHANGED <<owning, absent>>

-------------------------------------------------------------------------------

ReaperNext ==
    \/ \E a \in Users :
        \/ \E tab \in Tabs : OpenTab(a, tab) \/ CloseTab(a, tab)
        \/ Choose(a) \/ Assign(a) \/ CloseLast(a)
        \/ \E online \in BOOLEAN : OnPresenceChange(a, online)
    \/ NextSweep \/ Sweep \/ Restart

\* The reaper's ticker and loop keep running, goroutines run, and a handler
\* that chose an agent goes on to write the assignment.
ReaperFairness ==
    /\ WF_reaperVars(NextSweep)
    /\ WF_reaperVars(Sweep)
    /\ \A a \in Users : /\ WF_reaperVars(Assign(a))
                         /\ \A online \in BOOLEAN : WF_reaperVars(OnPresenceChange(a, online))

ReaperSpec == ReaperInit /\ [][ReaperNext]_reaperVars /\ ReaperFairness

-------------------------------------------------------------------------------
(* Properties *)

\* The clock the reaper keeps never runs more than one sweep interval ahead of
\* the agent's real absence, unless the notification of a reconnection is still
\* undelivered (OnPresenceChange; Sweep can start a clock it has just cleared).
ClockHonest ==
    \A a \in Users :
        (disconnected[a] # None /\ ~Online(a) /\ notices[a][TRUE] = 0)
            => disconnected[a] <= absent[a] + 1

\* An agent who never comes back ends up owning nothing, whatever they were
\* given while leaving and whenever the server restarts (Sweep, "it also covers
\* a server restart").
AbandonedIsReleased ==
    \A a \in Users : <>[](~Online(a)) => <>[](a \notin owning)

\* "Reconnecting inside the window keeps everything" (PresenceReaper): when the
\* sweep reads a clock that lets it release, and the listener has heard of every
\* reconnection, the agent has been away for the whole grace.
ReleasedOnlyAfterGrace ==
    LET a == sweep.agent IN
    (/\ sweep.pc = "clock"
     /\ ~Online(a)
     /\ notices[a][TRUE] = 0
     /\ disconnected[a] # None
     /\ ShouldRelease(disconnected[a])) => absent[a] >= Grace

===============================================================================
