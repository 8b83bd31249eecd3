----------------------------- MODULE ServiceLevel -----------------------------
(***************************************************************************)
(* The SLA ticker over one attendance and its contact: the deadlines set   *)
(* when the attendance opens, the passes of a tick, each of which selects  *)
(* a row and acts on the copy it read, and the agent, the customer and the *)
(* chatbot who change the row meanwhile.                                   *)
(***************************************************************************)
EXTENDS Naturals

CONSTANTS
    ResponseTime, EscalationTime, AutoCloseTime, ReminderTime, InactiveTime,
    SlaHorizon          \* the clock stops here, a bound of the model

ASSUME SlaAssumption ==
    /\ {ResponseTime, EscalationTime, AutoCloseTime, ReminderTime, InactiveTime} \subseteq 1 .. SlaHorizon
    /\ SlaHorizon \in Nat

VARIABLES
    slaClock,
    att,        \* the agent_transfers row
    spoke,      \* when customer and agent last wrote; 0 is never
    wait,       \* chatbot_last_message_at and chatbot_reminder_sent of the contact
    tick,       \* the ticker: its pass, the time it began, the rows it read
    told        \* auxiliary: warnings and reminders the customer was sent

slaVars == <<slaClock, att, spoke, wait, tick, told>>

Times == 0 .. SlaHorizon
Row == [status : {"active", "expired", "resumed"}, agent : BOOLEAN, opened : Times, respond : Nat, escalate : Nat,
        expire : Nat, level : 0 .. 2, breached : BOOLEAN, picked : BOOLEAN, first : BOOLEAN]
SlaTypeOK ==
    /\ slaClock \in 1 .. SlaHorizon
    /\ att \in Row
    /\ spoke \in [customer : Times, agent : Times]
    /\ wait \in [since : Times, reminded : BOOLEAN]
    /\ tick \in [pc : {"idle", "expired", "close", "select", "escalate", "breach", "inactive", "idleClose", "remind", "mark"},
                 now : Times, row : Row]
    /\ told \in [warned : Nat, reminded : Nat]

\* SetSLADeadlines: the attendance opens at time 1 without an agent.
SetSLADeadlines == [status |-> "active", agent |-> FALSE, opened |-> 1, respond |-> 1 + ResponseTime,
                    escalate |-> 1 + EscalationTime, expire |-> 1 + AutoCloseTime, level |-> 0,
                    breached |-> FALSE, picked |-> FALSE, first |-> FALSE]
SlaStart(status, since) ==
    /\ slaClock = 1
    /\ att = [SetSLADeadlines EXCEPT !.status = status]
    /\ spoke = [customer |-> 0, agent |-> 0]
    /\ wait = [since |-> since, reminded |-> FALSE]
    /\ tick = [pc |-> "idle", now |-> 0, row |-> att]
    /\ told = [warned |-> 0, reminded |-> 0]
SlaInit == SlaStart("active", 0) \/ SlaStart("resumed", 1)
SlaEnded == SlaStart("resumed", 0)

Step(pc) == tick' = [tick EXCEPT !.pc = pc]
TickRest == UNCHANGED <<slaClock, spoke>>

-------------------------------------------------------------------------------
(* processOrganizationSLA *)

BeginTick ==
    /\ tick.pc = "idle"
    /\ att.status = "active" \/ wait.since > 0
    /\ tick' = [tick EXCEPT !.pc = "expired", !.now = slaClock]
    /\ UNCHANGED <<att, wait, told>> /\ TickRest

\* agentRespondedSince, customerLastSpokeAt
agentRespondedSince(row, since) == row.agent /\ spoke.agent > since
customerLastSpokeAt(row) == IF spoke.customer < row.opened THEN row.opened ELSE spoke.customer

\* autoCloseExpiredTransfers: a busy agent moves the deadline; otherwise the
\* customer is told and the attendance closed, if it is still active.
SelectExpired ==
    /\ tick.pc = "expired"
    /\ IF att.status = "active" /\ att.expire < tick.now
       THEN tick' = [tick EXCEPT !.pc = "close", !.row = att] ELSE Step("select")
    /\ UNCHANGED <<att, wait, told>> /\ TickRest
Extended(row) == agentRespondedSince(row, row.expire - AutoCloseTime)
ExtendExpiry ==
    /\ tick.pc = "close" /\ Extended(tick.row)
    /\ att' = [att EXCEPT !.expire = tick.now + AutoCloseTime, !.first = TRUE]
    /\ Step("select")
    /\ UNCHANGED <<wait, told>> /\ TickRest
AutoClose ==
    /\ tick.pc = "close" /\ ~Extended(tick.row)
    /\ att' = [att EXCEPT !.status = IF @ = "active" THEN "expired" ELSE @]
    /\ wait' = IF att.status = "active" THEN [since |-> 0, reminded |-> FALSE] ELSE wait
    /\ Step("select")
    /\ UNCHANGED told /\ TickRest

\* escalateTransfers: what the agent answered is looked up after the row was read.
SelectEscalated ==
    /\ tick.pc = "select"
    /\ IF att.status = "active" /\ att.escalate < tick.now /\ att.level < 2
       THEN tick' = [tick EXCEPT !.pc = "escalate", !.row = att] ELSE Step("breach")
    /\ UNCHANGED <<att, wait, told>> /\ TickRest
Answered(row) == agentRespondedSince(row, customerLastSpokeAt(row))
PostponeEscalation ==
    /\ tick.pc = "escalate" /\ Answered(tick.row)
    /\ att' = [att EXCEPT !.escalate = tick.now + EscalationTime, !.first = TRUE]
    /\ Step("breach")
    /\ UNCHANGED <<wait, told>> /\ TickRest
NextLevel_Stays(level) == level
NextLevel(level) == level + 1
Escalate ==
    /\ tick.pc = "escalate" /\ ~Answered(tick.row)
    /\ att' = [att EXCEPT !.level = NextLevel(tick.row.level),
                          !.breached = @ \/ (~tick.row.breached /\ tick.now > tick.row.respond)]
    /\ told' = [told EXCEPT !.warned = IF tick.row.level = 0 THEN @ + 1 ELSE @]
    /\ Step("breach")
    /\ UNCHANGED wait /\ TickRest

\* markSLABreached: one conditional update.
MarkBreached ==
    /\ tick.pc = "breach"
    /\ att' = [att EXCEPT !.breached = @ \/ (att.status = "active" /\ att.respond < tick.now /\ ~att.agent)]
    /\ Step("inactive")
    /\ UNCHANGED <<wait, told>> /\ TickRest

\* processClientInactivity, on the contact as it was read.
CheckInactivity ==
    /\ tick.pc = "inactive"
    /\ tick' = [tick EXCEPT !.pc =
           IF wait.since = 0 \/ att.status = "active" THEN "idle"
           ELSE IF tick.now >= wait.since + InactiveTime THEN "idleClose"
           ELSE IF ~wait.reminded /\ tick.now >= wait.since + ReminderTime THEN "remind" ELSE "idle"]
    /\ UNCHANGED <<att, wait, told>> /\ TickRest
\* autoCloseChatbotSession clears the tracking; sendChatbotReminder marks it.
AutoCloseChatbotSession ==
    /\ tick.pc = "idleClose"
    /\ wait' = [since |-> 0, reminded |-> FALSE]
    /\ Step("idle")
    /\ UNCHANGED <<att, told>> /\ TickRest
SendChatbotReminder ==
    /\ tick.pc = "remind"
    /\ told' = [told EXCEPT !.reminded = @ + 1]
    /\ Step("mark")
    /\ UNCHANGED <<att, wait>> /\ TickRest
MarkReminded == TRUE
ReminderSent ==
    /\ tick.pc = "mark"
    /\ wait' = [wait EXCEPT !.reminded = MarkReminded]
    /\ Step("idle")
    /\ UNCHANGED <<att, told>> /\ TickRest

-------------------------------------------------------------------------------
(* Agent, customer and chatbot *)

\* UpdateSLAOnPickup: a late pick-up is a breach, but only the first one counts.
PickUp ==
    /\ att.status = "active" /\ ~att.agent
    /\ att' = [att EXCEPT !.agent = TRUE, !.picked = TRUE,
                          !.breached = @ \/ (~att.picked /\ slaClock > att.respond)]
    /\ UNCHANGED <<slaClock, spoke, wait, tick, told>>
AgentReplies ==
    /\ att.status = "active" /\ att.agent
    /\ att' = [att EXCEPT !.first = TRUE]
    /\ spoke' = [spoke EXCEPT !.agent = slaClock]
    /\ UNCHANGED <<slaClock, wait, tick, told>>
CustomerWrites ==
    /\ spoke.customer < slaClock
    /\ spoke' = [spoke EXCEPT !.customer = slaClock]
    /\ wait' = [since |-> 0, reminded |-> FALSE]
    /\ told' = [told EXCEPT !.reminded = 0]
    /\ UNCHANGED <<slaClock, att, tick>>
Resume ==
    /\ att.status = "active"
    /\ att' = [att EXCEPT !.status = "resumed"]
    /\ wait' = [since |-> 0, reminded |-> FALSE]
    /\ UNCHANGED <<slaClock, spoke, tick, told>>
\* UpdateContactChatbotMessage: the chatbot wrote and waits for the customer.
ChatbotWrites ==
    /\ att.status # "active" /\ spoke.customer > 0 /\ wait.since < slaClock
    /\ wait' = [since |-> slaClock, reminded |-> FALSE]
    /\ told' = [told EXCEPT !.reminded = 0]
    /\ UNCHANGED <<slaClock, att, spoke, tick>>
PassTime ==
    /\ slaClock < SlaHorizon
    /\ slaClock' = slaClock + 1
    /\ UNCHANGED <<att, spoke, wait, tick, told>>

Tick ==
    \/ BeginTick \/ SelectExpired \/ ExtendExpiry \/ AutoClose \/ SelectEscalated \/ PostponeEscalation
    \/ Escalate \/ MarkBreached \/ CheckInactivity \/ AutoCloseChatbotSession \/ SendChatbotReminder \/ ReminderSent
SlaNext == Tick \/ PickUp \/ AgentReplies \/ CustomerWrites \/ Resume \/ ChatbotWrites \/ PassTime
SlaFairness == WF_slaVars(Tick) /\ WF_slaVars(PassTime)
SlaSpec == SlaInit /\ [][SlaNext]_slaVars /\ SlaFairness

-------------------------------------------------------------------------------
(* Properties *)

\* The customer of one attendance is warned at most once, however often the
\* deadline moves and the ticker comes by.
WarnedOnce == told.warned <= 1

\* Between two messages of customer or chatbot at most one reminder is sent, even
\* if the reminder overlaps them.
RemindedOnce == told.reminded <= 1

\* An attendance nobody answers does not stay open for ever.
UnansweredIsClosed == (att.status = "active" /\ spoke.agent = 0) ~> (att.status # "active" \/ spoke.agent > 0)

\* The customer is warned and reminded at most once in a waiting time.
NoticesOnce == SlaTypeOK /\ WarnedOnce /\ RemindedOnce
===============================================================================
