------------------------------ MODULE PresenceLog ------------------------------
(***************************************************************************)
(* The log of an agent's states (offline, away, online).  RecordPresence   *)
(* runs in the goroutine of each hub notification and at the end of an     *)
(* availability request.  It reads the away flag, then the connection,     *)
(* then the clock, and only then takes the lock under which it compares    *)
(* and writes.                                                             *)
(***************************************************************************)
EXTENDS Hub, Sequences

CONSTANTS
    Jobs,           \* bound: goroutines and requests running at one time
    None,
    MaxNow,         \* bound: the clock
    MaxRestarts     \* bound: restarts of the server

ASSUME PresenceLogAssumption ==
    /\ None \notin Nat \cup Users \cup {"transition", "restart"}
    /\ MaxNow \in Nat
    /\ MaxRestarts \in Nat

VARIABLES
    isAvailable,    \* users.is_available
    job,            \* the goroutines and requests
    log,            \* agent_presence_logs of each agent, by insertion
    now,
    restarts

logVars == <<tabs, notices, isAvailable, job, log, now, restarts>>

States == {"offline", "away", "online"}
Times == 0..MaxNow

AgentPresenceLog ==
    [state : States, started_at : Times, ended_at : Times \cup {None},
     reason : {None, "transition", "restart"}]

\* want and was are the request's; flag, state and at what RecordPresence read.
NoJob == [pc |-> "idle", agent |-> None, want |-> FALSE, was |-> FALSE,
         flag |-> FALSE, state |-> "offline", at |-> 0]

Job == [pc : {"idle", "save", "flag", "connection", "clock", "write"},
        agent : Users \cup {None}, want : BOOLEAN, was : BOOLEAN,
        flag : BOOLEAN, state : States, at : Times]

LogTypeOK ==
    /\ HubTypeOK
    /\ isAvailable \in [Users -> BOOLEAN]
    /\ job \in [Jobs -> Job]
    /\ \A a \in Users : \A i \in DOMAIN log[a] : log[a][i] \in AgentPresenceLog
    /\ now \in Times
    /\ restarts \in 0..MaxRestarts

LogInit ==
    /\ HubInit
    /\ isAvailable = [a \in Users |-> TRUE]
    /\ job = [j \in Jobs |-> NoJob]
    /\ log = [a \in Users |-> <<>>]
    /\ now = 0
    /\ restarts = 0

IsOpen(a) == log[a] # <<>> /\ log[a][Len(log[a])].ended_at = None

AgentStateOf(isConnected, flag) ==
    IF ~isConnected THEN "offline" ELSE IF ~flag THEN "away" ELSE "online"

-------------------------------------------------------------------------------

OpenTab(a, tab) ==
    /\ Register(a, tab)
    /\ UNCHANGED <<isAvailable, job, log, now, restarts>>

CloseTab(a, tab) ==
    /\ Unregister(a, tab)
    /\ UNCHANGED <<isAvailable, job, log, now, restarts>>

\* The goroutine of a notification reaches RecordPresence; which way the agent
\* went is not used.
Listener(j, a, online) ==
    /\ job[j].pc = "idle"
    /\ Deliver(a, online)
    /\ job' = [job EXCEPT ![j] = [NoJob EXCEPT !.pc = "flag", !.agent = a]]
    /\ UNCHANGED <<tabs, isAvailable, log, now, restarts>>

\* UpdateAvailability reads the user.
BeginUpdateAvailability(j, a, want) ==
    /\ job[j].pc = "idle"
    /\ job' = [job EXCEPT ![j] = [NoJob EXCEPT !.pc = "save", !.agent = a, !.want = want,
                                              !.was = isAvailable[a]]]
    /\ UNCHANGED <<tabs, notices, isAvailable, log, now, restarts>>

\* It saves the flag, and goes on to the log if it was different when read.
SaveAvailability(j) ==
    /\ job[j].pc = "save"
    /\ isAvailable' = [isAvailable EXCEPT ![job[j].agent] = job[j].want]
    /\ job' = [job EXCEPT ![j] = IF @.was # @.want
                                 THEN [NoJob EXCEPT !.pc = "flag", !.agent = job[j].agent]
                                 ELSE NoJob]
    /\ UNCHANGED <<tabs, notices, log, now, restarts>>

-------------------------------------------------------------------------------
(* RecordPresence *)

ReadFlag(j) ==
    /\ job[j].pc = "flag"
    /\ job' = [job EXCEPT ![j] = [@ EXCEPT !.pc = "connection", !.flag = isAvailable[job[j].agent]]]
    /\ UNCHANGED <<tabs, notices, isAvailable, log, now, restarts>>

ReadConnection(j) ==
    /\ job[j].pc = "connection"
    /\ job' = [job EXCEPT ![j] = [@ EXCEPT !.pc = "clock", !.flag = FALSE,
                                           !.state = AgentStateOf(Online(job[j].agent), job[j].flag)]]
    /\ UNCHANGED <<tabs, notices, isAvailable, log, now, restarts>>

ReadTime(j) ==
    /\ job[j].pc = "clock"
    /\ job' = [job EXCEPT ![j] = [@ EXCEPT !.pc = "write", !.at = now]]
    /\ UNCHANGED <<tabs, notices, isAvailable, log, now, restarts>>

\* "Never a negative interval."
EndOf(open, at) == IF at < open.started_at THEN open.started_at ELSE at

Opened(state, at) == [state |-> state, started_at |-> at, ended_at |-> None, reason |-> None]

Recorded_Always(rows, state, at) ==
    LET n == Len(rows) IN
    IF n = 0 \/ rows[n].ended_at # None THEN Append(rows, Opened(state, at))
    ELSE LET end == EndOf(rows[n], at) IN
         Append([rows EXCEPT ![n].ended_at = end, ![n].reason = "transition"],
                Opened(state, end))

\* The transaction of recordPresenceState, on one agent's rows.
Recorded(rows, state, at) ==
    LET n == Len(rows) IN
    IF n = 0 \/ rows[n].ended_at # None THEN Append(rows, Opened(state, at))
    ELSE IF rows[n].state = state THEN rows
    ELSE LET end == EndOf(rows[n], at) IN
         Append([rows EXCEPT ![n].ended_at = end, ![n].reason = "transition"],
                Opened(state, end))

RecordPresenceState(j) ==
    LET q == job[j] IN
    /\ q.pc = "write"
    /\ log' = [log EXCEPT ![q.agent] = Recorded(@, q.state, q.at)]
    /\ job' = [job EXCEPT ![j] = NoJob]
    /\ UNCHANGED <<tabs, notices, isAvailable, now, restarts>>

-------------------------------------------------------------------------------

Tick ==
    /\ now < MaxNow
    /\ now' = now + 1
    /\ UNCHANGED <<tabs, notices, isAvailable, job, log, restarts>>

\* The process restarts: ResetPresenceLogOnBoot runs before the hub accepts
\* connections.
Restart ==
    /\ restarts < MaxRestarts
    /\ restarts' = restarts + 1
    /\ tabs' = [a \in Users |-> {}]
    /\ notices' = [a \in Users |-> [online \in BOOLEAN |-> 0]]
    /\ job' = [j \in Jobs |-> NoJob]
    /\ log' = [a \in Users |->
                 IF IsOpen(a)
                 THEN [log[a] EXCEPT ![Len(log[a])].ended_at = now,
                                     ![Len(log[a])].reason = "restart"]
                 ELSE log[a]]
    /\ UNCHANGED <<isAvailable, now>>

LogNext ==
    \/ \E a \in Users, tab \in Tabs : OpenTab(a, tab) \/ CloseTab(a, tab)
    \/ \E j \in Jobs :
        \/ \E a \in Users, b \in BOOLEAN : Listener(j, a, b) \/ BeginUpdateAvailability(j, a, b)
        \/ SaveAvailability(j)
        \/ ReadFlag(j) \/ ReadConnection(j) \/ ReadTime(j) \/ RecordPresenceState(j)
    \/ Tick \/ Restart

LogSpec == LogInit /\ [][LogNext]_logVars

-------------------------------------------------------------------------------
(* Properties *)

\* However late a recorder writes, an agent's intervals are a time line: only
\* the last is open, none is negative, none overlaps the next
\* (recordPresenceState, ResetPresenceLogOnBoot).
TimeLine ==
    \A a \in Users : \A i \in DOMAIN log[a] :
        LET row == log[a][i] IN
        /\ (row.ended_at = None) => i = Len(log[a])
        /\ (row.ended_at # None) => row.started_at <= row.ended_at
        /\ (i < Len(log[a])) => row.ended_at <= log[a][i + 1].started_at

\* Repeating RecordPresence writes nothing: an interval that a transition closed
\* is followed at once by one in another state ("is idempotent").
Transitions ==
    \A a \in Users : \A i \in DOMAIN log[a] :
        (log[a][i].reason = "transition") =>
            /\ i < Len(log[a])
            /\ log[a][i + 1].state # log[a][i].state
            /\ log[a][i + 1].started_at = log[a][i].ended_at

\* The log of each agent is a time line in which every transition changes the state.
LogConsistent == LogTypeOK /\ TimeLine /\ Transitions

\* "Whichever runs last sees the truth and leaves the log correct": once every
\* notification and request is over, the open interval is the live state.
LogIsLive ==
    \A a \in Users :
        (/\ \A j \in Jobs : job[j].pc = "idle"
         /\ \A online \in BOOLEAN : notices[a][online] = 0) =>
            AgentStateOf(Online(a), isAvailable[a]) =
                IF IsOpen(a) THEN log[a][Len(log[a])].state ELSE "offline"

===============================================================================
