------------------------------ MODULE DialogProofs ------------------------------
(***************************************************************************)
(* Proofs about the parts that talk to a customer, and the clock kept of   *)
(* those who should: ServiceLevel, for any deadlines, ToolLoop, for any    *)
(* tools, policy and limits, Chatbot, for any flows, messages and limits,  *)
(* and Presence, for any agents, tabs and grace period.                    *)
(***************************************************************************)
EXTENDS Chatbot, ServiceLevel, ToolLoop, Presence, FiniteSetTheorems, TLAPS

-------------------------------------------------------------------------------
(* ServiceLevel: the inductive invariant *)

\* The ticker acts on the copy it read, but nobody else changes the level.
LevelIsRead == tick.pc = "escalate" => tick.row.level = att.level /\ att.level < 2

\* The warning goes with the first level; a reminder is remembered in the contact or
\* about to be, unless the bot no longer waits.
WarnedOnLevel == told.warned = 0 \/ (told.warned = 1 /\ att.level > 0)
RemindedIsKept ==
    /\ tick.pc = "remind" => told.reminded = 0
    /\ told.reminded = 0 \/ /\ told.reminded = 1
                            /\ wait.reminded \/ tick.pc = "mark" \/ wait.since = 0

SlaInv == SlaTypeOK /\ LevelIsRead /\ WarnedOnLevel /\ RemindedIsKept

LEMMA SlaNumbers ==
  /\ SlaHorizon \in Nat /\ SlaHorizon >= 1
  /\ {ResponseTime, EscalationTime, AutoCloseTime, ReminderTime, InactiveTime} \subseteq Nat
  BY SlaAssumption

LEMMA SlaInvInit == SlaInit => SlaInv
  <1> SUFFICES ASSUME NEW status \in {"active", "resumed"}, NEW since \in {0, 1},
                      SlaStart(status, since)
               PROVE  SlaInv
    BY DEF SlaInit
  <1>1. SetSLADeadlines \in Row
    BY SlaNumbers DEF SetSLADeadlines, Row, Times
  <1>2. att \in Row
    BY <1>1 DEF SlaStart, Row
  <1>3. SlaTypeOK
    BY <1>2, SlaNumbers DEF SlaStart, SlaTypeOK, Times
  <1> QED BY <1>3 DEF SlaInv, SlaStart, LevelIsRead, WarnedOnLevel, RemindedIsKept

\* A step of the ticker that reads or moves on.
Passes == {"idle", "expired", "close", "select", "escalate", "breach", "inactive", "idleClose",
           "remind", "mark"}
Ticker == [pc : Passes, now : Times, row : Row]

LEMMA StepType ==
  ASSUME SlaTypeOK, NEW pc \in Passes, Step(pc)
  PROVE  tick' \in Ticker /\ tick'.pc = pc /\ tick'.row = tick.row
  BY DEF SlaTypeOK, Step, Passes, Ticker

\* A step of the ticker that reads or moves on.
LEMMA TickStepKeeps ==
  ASSUME SlaInv, BeginTick \/ SelectExpired \/ SelectEscalated \/ CheckInactivity
  PROVE  SlaInv'
  <1>1. SlaTypeOK /\ tick \in Ticker /\ UNCHANGED <<att, wait, told, slaClock, spoke>>
    BY DEF SlaInv, SlaTypeOK, Ticker, Passes, TickRest, BeginTick, SelectExpired, SelectEscalated,
           CheckInactivity
  <1>2. /\ tick' \in Ticker /\ tick'.pc # "mark" /\ tick.pc # "mark"
        /\ tick'.pc = "escalate" => tick'.row = att /\ att.level < 2
        /\ tick'.pc = "remind" => tick.pc = "inactive" /\ ~wait.reminded /\ wait.since # 0
    <2>1. CASE BeginTick
      <3>1. slaClock \in Times
        BY <1>1, SlaNumbers DEF SlaTypeOK, Times
      <3> QED BY <1>1, <2>1, <3>1 DEF BeginTick, Ticker, Passes
    <2>2. CASE SelectExpired
      BY <1>1, <2>2 DEF SelectExpired, Step, Ticker, Passes, SlaTypeOK
    <2>3. CASE SelectEscalated
      BY <1>1, <2>3 DEF SelectEscalated, Step, Ticker, Passes, SlaTypeOK
    <2>4. CASE CheckInactivity
      <3>1. PICK pc \in {"idle", "idleClose", "remind"} :
              /\ tick' = [tick EXCEPT !.pc = pc]
              /\ pc = "remind" => ~wait.reminded /\ wait.since # 0
        BY <2>4 DEF CheckInactivity
      <3> QED BY <1>1, <2>4, <3>1 DEF CheckInactivity, Ticker, Passes
    <2> QED BY <2>1, <2>2, <2>3, <2>4
  <1>3. SlaTypeOK'
    BY <1>1, <1>2 DEF SlaTypeOK, Ticker, Passes
  <1>4. LevelIsRead' /\ WarnedOnLevel'
    BY <1>1, <1>2 DEF SlaInv, LevelIsRead, WarnedOnLevel
  <1>5. RemindedIsKept'
    BY <1>1, <1>2 DEF SlaInv, RemindedIsKept
  <1> QED BY <1>3, <1>4, <1>5 DEF SlaInv

\* A pass that changes the attendance, not its level.
LEMMA AttendanceKeeps ==
  ASSUME SlaInv, ExtendExpiry \/ AutoClose \/ PostponeEscalation \/ MarkBreached
  PROVE  SlaInv'
  <1>1. /\ SlaTypeOK /\ att \in Row /\ told' = told /\ UNCHANGED <<slaClock, spoke>>
        /\ wait' \in {wait, [since |-> 0, reminded |-> FALSE]}
        /\ tick.now \in Nat /\ AutoCloseTime \in Nat /\ EscalationTime \in Nat
        /\ att.breached \in BOOLEAN
    BY SlaNumbers DEF SlaInv, SlaTypeOK, Times, Row, TickRest, ExtendExpiry, AutoClose,
           PostponeEscalation, MarkBreached
  <1>2. tick' \in Ticker /\ tick'.pc \in {"select", "breach", "inactive"} /\ tick.pc # "mark"
    <2>1. {"select", "breach", "inactive"} \subseteq Passes
      BY DEF Passes
    <2> QED BY <1>1, <2>1, StepType DEF ExtendExpiry, AutoClose, PostponeEscalation, MarkBreached
  <1>3. att' \in Row /\ att'.level = att.level
    <2>1. CASE ExtendExpiry
      <3> DEFINE n == tick.now + AutoCloseTime
      <3>1. n \in Nat
        BY <1>1
      <3>2. att' = [att EXCEPT !.expire = n, !.first = TRUE]
        BY <2>1 DEF ExtendExpiry
      <3> HIDE DEF n
      <3> QED BY <1>1, <3>1, <3>2 DEF Row
    <2>2. CASE AutoClose
      BY <1>1, <2>2 DEF AutoClose, Row
    <2>3. CASE PostponeEscalation
      <3> DEFINE n == tick.now + EscalationTime
      <3>1. n \in Nat
        BY <1>1
      <3>2. att' = [att EXCEPT !.escalate = n, !.first = TRUE]
        BY <2>3 DEF PostponeEscalation
      <3> HIDE DEF n
      <3> QED BY <1>1, <3>1, <3>2 DEF Row
    <2>4. CASE MarkBreached
      <3>1. PICK late \in BOOLEAN : att' = [att EXCEPT !.breached = late]
        BY <1>1, <2>4 DEF MarkBreached
      <3> QED BY <1>1, <3>1 DEF Row
    <2> QED BY <2>1, <2>2, <2>3, <2>4
  <1>4. wait' \in [since : Times, reminded : BOOLEAN]
    <2>1. 0 \in Times
      BY SlaNumbers DEF Times
    <2>2. [since |-> 0, reminded |-> FALSE] \in [since : Times, reminded : BOOLEAN]
      BY <2>1
    <2>3. wait \in [since : Times, reminded : BOOLEAN]
      BY <1>1 DEF SlaTypeOK
    <2> QED BY <1>1, <2>2, <2>3
  <1>5. SlaTypeOK'
    BY <1>1, <1>2, <1>3, <1>4 DEF SlaTypeOK, Ticker, Passes
  <1> QED BY <1>1, <1>2, <1>3, <1>5 DEF SlaInv, LevelIsRead, WarnedOnLevel, RemindedIsKept

LEMMA EscalateKeeps ==
  ASSUME SlaInv, Escalate
  PROVE  SlaInv'
  <1>1. /\ SlaTypeOK /\ att \in Row /\ UNCHANGED <<slaClock, spoke, wait>>
        /\ tick.row.level = att.level /\ att.level < 2 /\ att.level \in Nat
        /\ att.breached \in BOOLEAN /\ tick.pc = "escalate"
    BY DEF SlaInv, SlaTypeOK, LevelIsRead, Row, TickRest, Escalate
  <1>2. tick' \in Ticker /\ tick'.pc = "breach"
    <2>1. "breach" \in Passes
      BY DEF Passes
    <2> QED BY <1>1, <2>1, StepType DEF Escalate
  <1>3. att' \in Row /\ att'.level = att.level + 1
    <2> DEFINE overdue == att.breached \/ (~tick.row.breached /\ tick.now > tick.row.respond)
               next == att.level + 1
    <2>1. att' = [att EXCEPT !.level = next, !.breached = overdue]
      BY <1>1 DEF Escalate, NextLevel
    <2>2. overdue \in BOOLEAN
      OBVIOUS
    <2>3. next \in 0 .. 2
      BY <1>1
    <2> HIDE DEF overdue, next
    <2>4. att' \in Row
      BY <1>1, <2>1, <2>2, <2>3 DEF Row
    <2>5. att'.level = next
      BY <1>1, <2>1 DEF Row
    <2> QED BY <2>4, <2>5 DEF next
  <1>4. told' = [told EXCEPT !.warned = IF att.level = 0 THEN @ + 1 ELSE @]
    BY <1>1 DEF Escalate
  <1>5. SlaTypeOK'
    BY <1>1, <1>2, <1>3, <1>4 DEF SlaTypeOK, Ticker, Passes
  <1>6. WarnedOnLevel'
    BY <1>1, <1>3, <1>4 DEF SlaInv, SlaTypeOK, WarnedOnLevel
  <1>7. told'.reminded = told.reminded
    BY <1>1, <1>4 DEF SlaTypeOK
  <1> QED BY <1>1, <1>2, <1>5, <1>6, <1>7 DEF SlaInv, LevelIsRead, RemindedIsKept

LEMMA ReminderKeeps ==
  ASSUME SlaInv, AutoCloseChatbotSession \/ SendChatbotReminder \/ ReminderSent
  PROVE  SlaInv'
  <1>1. SlaTypeOK /\ UNCHANGED <<slaClock, spoke, att>> /\ 0 \in Times
        /\ {"idle", "mark"} \subseteq Passes
    BY SlaNumbers DEF SlaInv, TickRest, AutoCloseChatbotSession, SendChatbotReminder, ReminderSent,
           Times, Passes
  <1>2. tick' \in Ticker /\ tick'.pc \in {"idle", "mark"} /\ (SendChatbotReminder => tick'.pc = "mark")
    BY <1>1, StepType DEF AutoCloseChatbotSession, SendChatbotReminder, ReminderSent
  <1>3. wait' \in [since : Times, reminded : BOOLEAN]
    <2>1. [since |-> 0, reminded |-> FALSE] \in [since : Times, reminded : BOOLEAN]
      BY <1>1
    <2>2. CASE AutoCloseChatbotSession
      BY <2>1, <2>2 DEF AutoCloseChatbotSession
    <2>3. CASE SendChatbotReminder \/ ReminderSent
      BY <1>1, <2>3 DEF SlaTypeOK, SendChatbotReminder, ReminderSent, MarkReminded
    <2> QED BY <2>2, <2>3
  <1>4. told' \in [warned : Nat, reminded : Nat] /\ told'.warned = told.warned
    BY <1>1 DEF SlaTypeOK, AutoCloseChatbotSession, SendChatbotReminder, ReminderSent
  <1>5. SlaTypeOK'
    BY <1>1, <1>2, <1>3, <1>4 DEF SlaTypeOK, Ticker, Passes
  <1>6. RemindedIsKept'
    BY <1>1, <1>2 DEF SlaInv, SlaTypeOK, RemindedIsKept, AutoCloseChatbotSession,
           SendChatbotReminder, ReminderSent, MarkReminded
  <1> QED BY <1>1, <1>2, <1>4, <1>5, <1>6 DEF SlaInv, LevelIsRead, WarnedOnLevel

\* The agent, the customer, the chatbot and the clock.
LEMMA OthersKeep ==
  ASSUME SlaInv,
         PickUp \/ AgentReplies \/ CustomerWrites \/ Resume \/ ChatbotWrites \/ PassTime
  PROVE  SlaInv'
  <1>1. SlaTypeOK /\ tick' = tick /\ 0 \in Times /\ slaClock \in Times /\ slaClock >= 1
        /\ att \in Row /\ att.breached \in BOOLEAN /\ slaClock \in Nat /\ SlaHorizon \in Nat
    BY SlaNumbers DEF SlaInv, SlaTypeOK, Times, Row, PickUp, AgentReplies, CustomerWrites, Resume,
           ChatbotWrites, PassTime
  <1>2. att' \in Row /\ att'.level = att.level
    <2>1. CASE PickUp
      <3> DEFINE overdue == att.breached \/ (~att.picked /\ slaClock > att.respond)
      <3>1. att' = [att EXCEPT !.agent = TRUE, !.picked = TRUE, !.breached = overdue]
        BY <2>1 DEF PickUp
      <3>2. overdue \in BOOLEAN
        OBVIOUS
      <3> HIDE DEF overdue
      <3> QED BY <1>1, <3>1, <3>2 DEF Row
    <2>2. CASE ~PickUp
      BY <1>1, <2>2 DEF Row, AgentReplies, CustomerWrites, Resume, ChatbotWrites, PassTime
    <2> QED BY <2>1, <2>2
  <1>3. slaClock' \in 1 .. SlaHorizon
    <2>1. CASE PassTime
      BY <1>1, <2>1 DEF PassTime
    <2>2. CASE ~PassTime
      BY <1>1, <2>2 DEF SlaTypeOK, PickUp, AgentReplies, CustomerWrites, Resume, ChatbotWrites
    <2> QED BY <2>1, <2>2
  <1>4. spoke' \in [customer : Times, agent : Times]
    BY <1>1 DEF SlaTypeOK, PickUp, AgentReplies, CustomerWrites, Resume, ChatbotWrites, PassTime
  <1>5. wait' \in [since : Times, reminded : BOOLEAN] /\ told' \in [warned : Nat, reminded : Nat]
        /\ told'.warned = told.warned
        /\ \/ told'.reminded = 0
           \/ told'.reminded = told.reminded /\ (wait' = wait \/ wait'.since = 0)
    <2>1. PICK clock \in {0, slaClock} :
            wait' = wait \/ wait' = [since |-> clock, reminded |-> FALSE]
      BY DEF PickUp, AgentReplies, CustomerWrites, Resume, ChatbotWrites, PassTime
    <2>2. [since |-> clock, reminded |-> FALSE] \in [since : Times, reminded : BOOLEAN]
      BY <1>1
    <2>3. wait' \in [since : Times, reminded : BOOLEAN]
      BY <1>1, <2>1, <2>2 DEF SlaTypeOK
    <2>4. told' \in [warned : Nat, reminded : Nat] /\ told'.warned = told.warned
      BY <1>1 DEF SlaTypeOK, PickUp, AgentReplies, CustomerWrites, Resume, ChatbotWrites, PassTime
    <2>5. \/ told'.reminded = 0
          \/ told'.reminded = told.reminded /\ (wait' = wait \/ wait'.since = 0)
      BY <1>1 DEF SlaTypeOK, PickUp, AgentReplies, CustomerWrites, Resume, ChatbotWrites, PassTime
    <2> QED BY <2>3, <2>4, <2>5
  <1>6. SlaTypeOK'
    BY <1>1, <1>2, <1>3, <1>4, <1>5 DEF SlaTypeOK
  <1> QED BY <1>1, <1>2, <1>5, <1>6 DEF SlaInv, LevelIsRead, WarnedOnLevel, RemindedIsKept

\* The customer of an attendance is warned once, and reminded once in a waiting time,
\* although the ticker acts on rows it read before (escalateTransfers,
\* processClientInactivity).
THEOREM NoticesOnceHolds == SlaSpec => []NoticesOnce
  <1>1. SlaInv /\ [SlaNext]_slaVars => SlaInv'
    <2> SUFFICES ASSUME SlaInv, [SlaNext]_slaVars PROVE SlaInv'
      OBVIOUS
    <2>1. CASE UNCHANGED slaVars
      BY <2>1 DEF slaVars, SlaInv, SlaTypeOK, LevelIsRead, WarnedOnLevel, RemindedIsKept
    <2> QED BY <2>1, TickStepKeeps, AttendanceKeeps, EscalateKeeps, ReminderKeeps, OthersKeep
         DEF SlaNext, Tick
  <1>2. SlaInv => NoticesOnce
    BY DEF SlaInv, NoticesOnce, WarnedOnce, RemindedOnce, WarnedOnLevel, RemindedIsKept, SlaTypeOK
  <1> QED BY <1>1, <1>2, SlaInvInit, PTL DEF SlaSpec

-------------------------------------------------------------------------------
(* ToolLoop: the inductive invariant *)

LoopType == [pc : {"off", "ask", "answer", "round", "requested", "ran", "aborted", "log", "done"},
             step : 0 .. LoopSteps + 1, calls : 0 .. LoopToolCalls, size : 0 .. LongestRound,
             left : 0 .. LongestRound, tool : ToolNames, answers : 0 .. LoopSteps + 1,
             failed : BOOLEAN, pending : BOOLEAN]
RowsType == [requested : Nat, executed : Nat, failed : Nat, denied : Nat]
LedgerType == [provider : Nat, attempted : Nat, ran : Nat, lost : BOOLEAN, keyless : BOOLEAN]

Started == {"requested", "ran"}
InRound == {"round"} \cup Started

\* A round that was accepted fits in what is left of the steps and of the calls, and a
\* tool that ran is one of its calls.
RoundFits ==
    /\ loop.pc \in {"ask", "answer"} =>
           loop.step <= LoopSteps /\ loop.left = 0 /\ loop.size = 0 /\ ledger.ran <= loop.calls
    /\ loop.pc \in InRound =>
           /\ loop.step < LoopSteps /\ loop.calls + loop.size <= LoopToolCalls /\ loop.left <= loop.size
           /\ ledger.ran + loop.left <= loop.calls + loop.size + (IF loop.pc = "ran" THEN 1 ELSE 0)
    /\ loop.pc \in Started \cup {"aborted"} => loop.left > 0
    /\ loop.pc = "aborted" => loop.step <= LoopSteps
    /\ ledger.ran <= LoopToolCalls

\* The row is there before the tool runs.
RequestComesFirst ==
    /\ loop.pc \in Started => rows.requested > 0
    /\ ledger.ran + (IF loop.pc = "requested" THEN 1 ELSE 0) <= Recorded

\* Every provider call of the loop has its answer, but the one under way and the one
\* that failed.
CallsAnswered ==
    /\ loop.pc = "off" => ledger.provider = 0 /\ usage = [ok |-> 0, failed |-> 0]
    /\ loop.pc = "ask" => ledger.provider = loop.step /\ loop.answers = loop.step
    /\ loop.pc = "answer" => ledger.provider = loop.step + 1 /\ loop.answers = loop.step
    /\ loop.pc \in InRound \cup {"aborted"} => ledger.provider = loop.step + 1 /\ loop.answers = loop.step + 1
    /\ loop.pc = "log" => \/ ~loop.failed /\ loop.answers = ledger.provider
                          \/ loop.failed /\ loop.answers + 1 = ledger.provider
                          \/ loop.failed /\ expired /\ loop.answers = ledger.provider
    /\ loop.failed => loop.pc \in {"log", "done"}
    /\ ledger.provider <= LoopSteps + 1

\* Every attempted call is on record or among those left, as long as no write failed.
AttemptsOnRecord ==
    ~ledger.lost =>
        /\ loop.pc \in {"off", "ask", "answer"} => Recorded + rows.denied = ledger.attempted
        /\ loop.pc \in {"round", "aborted"} => Recorded + rows.denied + loop.left = ledger.attempted
        /\ loop.pc \in Started => Recorded + rows.denied + loop.left = ledger.attempted + 1
        /\ loop.pc \in {"log", "done"} /\ ~expired => Recorded + rows.denied = ledger.attempted

ToolInv == ToolTypeOK /\ RoundFits /\ RequestComesFirst /\ CallsAnswered /\ AttemptsOnRecord /\ UsagePerCall

LEMMA ToolNumbers ==
  /\ LoopSteps \in Nat /\ LoopToolCalls \in Nat /\ CallsPerStep \in Nat /\ LongestRound \in Nat
  /\ LoopSteps >= 1 /\ ToolNames # {}
  BY ToolLoopAssumption

LEMMA ToolTypes == ToolTypeOK <=> /\ loop \in LoopType /\ expired \in BOOLEAN /\ rows \in RowsType
                                  /\ usage \in [ok : Nat, failed : Nat] /\ ledger \in LedgerType
  BY DEF ToolTypeOK, LoopType, RowsType, LedgerType

LEMMA ToolInvInit == ToolInit => ToolInv
  <1> SUFFICES ASSUME NEW pc \in {"off", "ask"}, NewLoop(pc) PROVE ToolInv
    BY DEF ToolInit
  <1> DEFINE t == CHOOSE x \in ToolNames : TRUE
  <1>1. t \in ToolNames
    BY ToolNumbers
  <1> HIDE DEF t
  <1>2. loop = [pc |-> pc, step |-> 0, calls |-> 0, size |-> 0, left |-> 0, tool |-> t,
                answers |-> 0, failed |-> FALSE, pending |-> FALSE]
    BY DEF NewLoop, t
  <1>3. ToolTypeOK
    <2>1. 0 \in 0 .. LoopSteps + 1 /\ 0 \in 0 .. LoopToolCalls /\ 0 \in 0 .. LongestRound
      BY ToolNumbers
    <2>2. loop \in LoopType
      BY <1>1, <1>2, <2>1 DEF LoopType
    <2>3. expired \in BOOLEAN /\ rows \in RowsType /\ usage \in [ok : Nat, failed : Nat]
      BY DEF NewLoop, RowsType
    <2>4. ledger \in LedgerType
      BY DEF NewLoop, LedgerType
    <2> QED BY <2>2, <2>3, <2>4, ToolTypes
  <1>4. RoundFits
    BY <1>2, ToolNumbers DEF NewLoop, RoundFits, InRound, Started
  <1>5. RequestComesFirst /\ AttemptsOnRecord
    BY <1>2 DEF NewLoop, RequestComesFirst, AttemptsOnRecord, Recorded, InRound, Started
  <1>6. CallsAnswered /\ UsagePerCall
    BY <1>2, ToolNumbers DEF NewLoop, CallsAnswered, UsagePerCall, InRound, Started
  <1> QED BY <1>3, <1>4, <1>5, <1>6 DEF ToolInv

LEMMA CompletePlainKeeps ==
  ASSUME ToolInv, CompletePlain
  PROVE  ToolInv'
  <1>1. PICK tried \in BOOLEAN, ok \in BOOLEAN :
          /\ ok => tried
          /\ ledger' = [ledger EXCEPT !.provider = IF tried THEN 1 ELSE 0, !.keyless = ~tried]
          /\ usage' = IF ok THEN [usage EXCEPT !.ok = 1] ELSE [usage EXCEPT !.failed = 1]
    BY DEF CompletePlain
  <1>2. /\ ToolTypeOK /\ loop.pc = "off" /\ rows' = rows /\ expired' = expired
        /\ loop' = [loop EXCEPT !.pc = "done"] /\ ledger.provider = 0 /\ usage = [ok |-> 0, failed |-> 0]
    BY DEF ToolInv, CompletePlain, CallsAnswered
  <1>3. loop' \in LoopType /\ loop'.pc = "done"
    BY <1>2 DEF ToolTypeOK, LoopType
  <1>4. /\ ledger' \in LedgerType /\ ledger'.ran = ledger.ran /\ ledger'.lost = ledger.lost
        /\ ledger'.attempted = ledger.attempted
        /\ ledger'.provider \in {0, 1} /\ (ledger'.keyless <=> ledger'.provider = 0)
    <2>1. ledger \in LedgerType
      BY <1>2, ToolTypes
    <2> DEFINE made == IF tried THEN 1 ELSE 0
               keyless == ~tried
    <2>2. ledger' = [ledger EXCEPT !.provider = made, !.keyless = keyless]
      BY <1>1
    <2>3. made \in Nat /\ made \in {0, 1} /\ keyless \in BOOLEAN /\ (keyless <=> made = 0)
      BY <1>1
    <2> HIDE DEF made, keyless
    <2>4. made \in Nat /\ keyless \in BOOLEAN
      BY <2>3
    <2>5. ledger' \in LedgerType
      BY <2>1, <2>2, <2>4 DEF LedgerType
    <2>6. ledger'.provider = made /\ ledger'.keyless = keyless
      BY <2>1, <2>2 DEF LedgerType
    <2> QED BY <2>1, <2>2, <2>3, <2>5, <2>6 DEF LedgerType
  <1>5. usage' \in [ok : Nat, failed : Nat] /\ usage'.ok + usage'.failed = 1
    BY <1>1, <1>2
  <1>6. ToolTypeOK'
    BY <1>2, <1>3, <1>4, <1>5 DEF ToolTypeOK, LoopType, RowsType, LedgerType
  <1>7. RoundFits' /\ RequestComesFirst'
    BY <1>2, <1>3, <1>4 DEF ToolInv, RoundFits, RequestComesFirst, Recorded, InRound, Started
  <1>8. AttemptsOnRecord'
    BY <1>2, <1>3, <1>4 DEF ToolInv, AttemptsOnRecord, Recorded, Started
  <1>9. CallsAnswered' /\ UsagePerCall'
    BY <1>3, <1>4, <1>5, ToolNumbers DEF CallsAnswered, UsagePerCall, InRound, Started
  <1> QED BY <1>6, <1>7, <1>8, <1>9 DEF ToolInv

LEMMA AskKeeps ==
  ASSUME ToolInv, Ask
  PROVE  ToolInv'
  <1>1. /\ ToolTypeOK /\ loop \in LoopType /\ ledger \in LedgerType /\ loop.pc = "ask"
        /\ UNCHANGED <<expired, rows, usage>> /\ loop' = [loop EXCEPT !.pc = "answer"]
        /\ ledger' = [ledger EXCEPT !.provider = ledger.provider + 1]
    BY ToolTypes DEF ToolInv, Ask
  <1>2. loop' \in LoopType /\ loop'.pc = "answer"
    BY <1>1 DEF LoopType
  <1>3. /\ loop'.step = loop.step /\ loop'.left = loop.left /\ loop'.size = loop.size
        /\ loop'.calls = loop.calls /\ loop'.answers = loop.answers /\ loop'.failed = loop.failed
    BY <1>1 DEF LoopType
  <1>4. ledger' \in LedgerType
    BY <1>1 DEF LedgerType
  <1>5. /\ ledger'.provider = ledger.provider + 1 /\ ledger'.ran = ledger.ran
        /\ ledger'.lost = ledger.lost /\ ledger'.attempted = ledger.attempted
    BY <1>1 DEF LedgerType
  <1>6. ToolTypeOK'
    BY <1>1, <1>2, <1>4 DEF ToolTypeOK, LoopType, LedgerType
  <1>7. RoundFits' /\ RequestComesFirst'
    BY <1>1, <1>2, <1>3, <1>5 DEF ToolInv, RoundFits, RequestComesFirst, Recorded, InRound, Started
  <1>8. AttemptsOnRecord'
    BY <1>1, <1>2, <1>3, <1>5 DEF ToolInv, AttemptsOnRecord, Recorded, Started
  <1>9. CallsAnswered' /\ UsagePerCall'
    BY <1>1, <1>2, <1>3, <1>5, ToolNumbers
       DEF ToolInv, CallsAnswered, UsagePerCall, RoundFits, InRound, Started, LoopType, LedgerType
  <1> QED BY <1>6, <1>7, <1>8, <1>9 DEF ToolInv

\* The loop ends with an error.
LEMMA FailureKeeps ==
  ASSUME ToolInv, LoopFails \/ ProviderFails
  PROVE  ToolInv'
  <1>1. /\ ToolTypeOK /\ loop \in LoopType /\ loop.pc \in {"ask", "answer", "round"}
        /\ loop.pc = "answer" \/ expired
        /\ UNCHANGED <<expired, rows, usage, ledger>>
        /\ loop' = [loop EXCEPT !.pc = "log", !.failed = TRUE]
    BY ToolTypes DEF ToolInv, LoopFails, ProviderFails
  <1>2. loop' \in LoopType /\ loop'.pc = "log" /\ loop'.failed /\ loop'.answers = loop.answers
    BY <1>1 DEF LoopType
  <1>3. ToolTypeOK'
    BY <1>1, <1>2 DEF ToolTypeOK, LoopType
  <1>4. RoundFits' /\ RequestComesFirst'
    BY <1>1, <1>2 DEF ToolInv, RoundFits, RequestComesFirst, Recorded, InRound, Started
  <1>5. AttemptsOnRecord'
    BY <1>1, <1>2 DEF ToolInv, AttemptsOnRecord, Recorded, Started
  <1>6. CallsAnswered' /\ UsagePerCall'
    BY <1>1, <1>2 DEF ToolInv, CallsAnswered, UsagePerCall, InRound, Started
  <1> QED BY <1>3, <1>4, <1>5, <1>6 DEF ToolInv

LEMMA ProviderAnswersKeeps ==
  ASSUME ToolInv, NEW n \in 0 .. LongestRound, ProviderAnswers(n)
  PROVE  ToolInv'
  <1> DEFINE next == IF n = 0 THEN "log" ELSE IF OverLimit(n) THEN "aborted" ELSE "round"
             heard == loop.answers + 1
             requested == ledger.attempted + n
  <1>1. /\ ToolTypeOK /\ loop \in LoopType /\ ledger \in LedgerType /\ loop.pc = "answer"
        /\ n \in Nat /\ UNCHANGED <<expired, rows, usage>>
        /\ loop' = [loop EXCEPT !.answers = heard, !.size = n, !.left = n, !.pc = next]
        /\ ledger' = [ledger EXCEPT !.attempted = requested]
    BY ToolTypes, ToolNumbers DEF ToolInv, ProviderAnswers
  <1>2. /\ loop.step \in Nat /\ loop.calls \in Nat /\ loop.answers = loop.step
        /\ loop.step <= LoopSteps /\ ledger.ran <= loop.calls /\ ~loop.failed
        /\ ledger.provider = loop.step + 1 /\ ledger.ran \in Nat
    BY <1>1 DEF ToolInv, RoundFits, CallsAnswered, LoopType, LedgerType
  <1>3. /\ next \in {"log", "aborted", "round"} /\ (next = "log" <=> n = 0)
        /\ next = "round" => loop.calls + n <= LoopToolCalls /\ loop.step < LoopSteps
    BY <1>1, <1>2, ToolNumbers DEF OverLimit
  <1>4. heard \in 0 .. LoopSteps + 1 /\ requested \in Nat
    BY <1>1, <1>2, ToolNumbers DEF LedgerType
  <1>5. heard = loop.step + 1 /\ requested = ledger.attempted + n
    BY <1>2
  <1> HIDE DEF next, heard, requested
  <1>6. loop' \in LoopType
    BY <1>1, <1>3, <1>4 DEF LoopType
  <1>7. /\ loop'.pc = next /\ loop'.step = loop.step /\ loop'.left = n /\ loop'.size = n
        /\ loop'.calls = loop.calls /\ loop'.answers = heard /\ loop'.failed = loop.failed
    BY <1>1 DEF LoopType
  <1>8. ledger' \in LedgerType
    BY <1>1, <1>4 DEF LedgerType
  <1>9. /\ ledger'.provider = ledger.provider /\ ledger'.ran = ledger.ran
        /\ ledger'.lost = ledger.lost /\ ledger'.attempted = requested
    BY <1>1 DEF LedgerType
  <1>10. ToolTypeOK'
    BY <1>1, <1>6, <1>8 DEF ToolTypeOK, LoopType, LedgerType
  <1>11. RoundFits'
    BY <1>1, <1>2, <1>3, <1>7, <1>9 DEF ToolInv, RoundFits, InRound, Started
  <1>12. RequestComesFirst'
    BY <1>1, <1>3, <1>7, <1>9 DEF ToolInv, RequestComesFirst, Recorded, Started
  <1>13. AttemptsOnRecord'
    <2>1. ~ledger.lost => Recorded + rows.denied = ledger.attempted
      BY <1>1 DEF ToolInv, AttemptsOnRecord
    <2>2. Recorded \in Nat /\ rows.denied \in Nat
      BY <1>1 DEF ToolTypeOK, Recorded
    <2>3. Recorded' = Recorded /\ rows' = rows
      BY <1>1 DEF Recorded
    <2> QED BY <1>1, <1>3, <1>5, <1>7, <1>9, <2>1, <2>2, <2>3 DEF AttemptsOnRecord, Started
  <1>14. CallsAnswered' /\ UsagePerCall'
    BY <1>1, <1>2, <1>3, <1>5, <1>7, <1>9, ToolNumbers
       DEF ToolInv, CallsAnswered, UsagePerCall, InRound, Started
  <1> QED BY <1>10, <1>11, <1>12, <1>13, <1>14 DEF ToolInv

LEMMA RoundOverKeeps ==
  ASSUME ToolInv, RoundOver
  PROVE  ToolInv'
  <1> DEFINE handled == loop.calls + loop.size
             next == loop.step + 1
  <1>1. /\ ToolTypeOK /\ loop \in LoopType /\ loop.pc = "round" /\ loop.left = 0
        /\ UNCHANGED <<expired, rows, usage, ledger>>
        /\ loop' = [loop EXCEPT !.pc = "ask", !.calls = handled, !.step = next, !.size = 0]
    BY ToolTypes DEF ToolInv, RoundOver
  <1>2. /\ loop.step \in Nat /\ loop.calls \in Nat /\ loop.size \in Nat /\ ledger.ran \in Nat
        /\ loop.step < LoopSteps /\ handled <= LoopToolCalls /\ ledger.ran <= handled
        /\ loop.answers = next /\ ledger.provider = next /\ ~loop.failed
    BY <1>1 DEF ToolInv, ToolTypeOK, RoundFits, CallsAnswered, InRound
  <1>3. handled \in 0 .. LoopToolCalls /\ next \in 0 .. LoopSteps + 1 /\ next <= LoopSteps
    BY <1>2, ToolNumbers
  <1>4. 0 \in 0 .. LongestRound
    BY ToolNumbers
  <1> HIDE DEF handled, next
  <1>5. loop' \in LoopType
    BY <1>1, <1>3, <1>4 DEF LoopType
  <1>6. /\ loop'.pc = "ask" /\ loop'.step = next /\ loop'.left = 0 /\ loop'.size = 0
        /\ loop'.calls = handled /\ loop'.answers = loop.answers /\ loop'.failed = loop.failed
    BY <1>1 DEF LoopType
  <1>7. ToolTypeOK'
    BY <1>1, <1>5 DEF ToolTypeOK, LoopType
  <1>8. RoundFits' /\ RequestComesFirst'
    BY <1>1, <1>2, <1>3, <1>6 DEF ToolInv, RoundFits, RequestComesFirst, Recorded, InRound, Started
  <1>9. AttemptsOnRecord'
    BY <1>1, <1>6 DEF ToolInv, ToolTypeOK, AttemptsOnRecord, Recorded, Started
  <1>10. CallsAnswered' /\ UsagePerCall'
    BY <1>1, <1>2, <1>6 DEF ToolInv, CallsAnswered, UsagePerCall, InRound, Started
  <1> QED BY <1>7, <1>8, <1>9, <1>10 DEF ToolInv

LEMMA CallDoneType ==
  ASSUME ToolTypeOK, loop.left > 0, CallDone
  PROVE  /\ loop' \in LoopType /\ loop'.pc = "round" /\ loop'.left = loop.left - 1
         /\ loop'.step = loop.step /\ loop'.calls = loop.calls /\ loop'.size = loop.size
         /\ loop'.answers = loop.answers /\ loop'.failed = loop.failed
  <1> DEFINE rest == loop.left - 1
  <1>1. loop \in LoopType /\ loop' = [loop EXCEPT !.pc = "round", !.left = rest]
    BY ToolTypes DEF CallDone
  <1>2. rest \in 0 .. LongestRound
    BY <1>1, ToolNumbers DEF LoopType
  <1> HIDE DEF rest
  <1>3. loop' \in LoopType
    BY <1>1, <1>2 DEF LoopType
  <1>4. /\ loop'.pc = "round" /\ loop'.left = rest
        /\ loop'.step = loop.step /\ loop'.calls = loop.calls /\ loop'.size = loop.size
        /\ loop'.answers = loop.answers /\ loop'.failed = loop.failed
    BY <1>1 DEF LoopType
  <1> QED BY <1>3, <1>4 DEF rest

\* recordDenied counts one denied call more, or notes that it could not.
LEMMA recordDeniedCounts ==
  ASSUME ToolTypeOK, recordDenied(TRUE)
  PROVE  /\ rows' \in RowsType /\ ledger' \in LedgerType
         /\ rows'.requested = rows.requested /\ Recorded' = Recorded
         /\ ledger'.provider = ledger.provider /\ ledger'.ran = ledger.ran
         /\ ledger'.attempted = ledger.attempted
         /\ ~ledger'.lost => ~ledger.lost /\ rows'.denied = rows.denied + 1
  <1>1. rows \in RowsType /\ ledger \in LedgerType
    BY ToolTypes
  <1>2. CASE rows' = [rows EXCEPT !.denied = @ + 1] /\ ledger' = ledger
    BY <1>1, <1>2 DEF RowsType, Recorded
  <1>3. CASE ledger' = [ledger EXCEPT !.lost = TRUE] /\ rows' = rows
    BY <1>1, <1>3 DEF LedgerType, Recorded
  <1> QED BY <1>2, <1>3 DEF recordDenied

\* A call of the round is refused: runOne and the resolver before a tool runs.
LEMMA RefusalKeeps ==
  ASSUME ToolInv, loop.pc = "round", loop.left > 0, recordDenied(TRUE), CallDone,
         UNCHANGED <<expired, usage>>
  PROVE  ToolInv'
  <1>1. ToolTypeOK /\ Recorded \in Nat /\ rows.denied \in Nat /\ loop.left \in Nat /\ ledger.ran \in Nat
        /\ loop.calls \in Nat /\ loop.size \in Nat
    BY DEF ToolInv, ToolTypeOK, Recorded
  <1>2. ToolTypeOK'
    BY <1>1, CallDoneType, recordDeniedCounts DEF ToolTypeOK, LoopType, RowsType, LedgerType
  <1>3. RoundFits'
    BY <1>1, CallDoneType, recordDeniedCounts DEF ToolInv, RoundFits, InRound, Started
  <1>4. RequestComesFirst'
    BY <1>1, CallDoneType, recordDeniedCounts DEF ToolInv, RequestComesFirst, Started
  <1>5. AttemptsOnRecord'
    BY <1>1, CallDoneType, recordDeniedCounts DEF ToolInv, AttemptsOnRecord, Started
  <1>6. CallsAnswered' /\ UsagePerCall'
    BY <1>1, CallDoneType, recordDeniedCounts DEF ToolInv, CallsAnswered, UsagePerCall, InRound, Started
  <1> QED BY <1>2, <1>3, <1>4, <1>5, <1>6 DEF ToolInv

LEMMA RefusalsKeep ==
  ASSUME ToolInv, NEW t \in ToolNames, Deny(t) \/ Reject(t) \/ RequestFails(t)
  PROVE  ToolInv'
  <1>1. CASE Deny(t) \/ Reject(t)
    <2>1. /\ loop.pc = "round" /\ loop.left > 0 /\ CallDone /\ UNCHANGED <<expired, usage>>
          /\ recordDenied(TRUE)
      BY <1>1 DEF Deny, Reject, recordDenied
    <2> QED BY <2>1, RefusalKeeps
  <1>2. CASE RequestFails(t)
    <2>1. /\ loop.pc = "round" /\ loop.left > 0 /\ CallDone /\ UNCHANGED <<expired, usage>>
          /\ rows' = rows \/ rows' = [rows EXCEPT !.denied = @ + 1]
          /\ ledger' = [ledger EXCEPT !.lost = @ \/ rows' = rows]
      BY <1>2 DEF RequestFails
    <2>2. ledger \in LedgerType /\ rows \in RowsType
      BY ToolTypes DEF ToolInv
    <2>3. recordDenied(TRUE)
      <3>1. CASE rows' = rows
        <4>1. (ledger.lost \/ rows' = rows) = TRUE
          BY <3>1
        <4> QED BY <2>1, <3>1, <4>1 DEF recordDenied
      <3>2. CASE rows' = [rows EXCEPT !.denied = @ + 1] /\ rows' # rows
        <4>1. (ledger.lost \/ rows' = rows) = ledger.lost
          BY <2>2, <3>2 DEF LedgerType
        <4>2. ledger' = ledger
          BY <2>1, <2>2, <4>1 DEF LedgerType
        <4> QED BY <3>2, <4>2 DEF recordDenied
      <3> QED BY <2>1, <3>1, <3>2
    <2> QED BY <2>1, <2>3, RefusalKeeps
  <1> QED BY <1>1, <1>2

LEMMA RequestRowKeeps ==
  ASSUME ToolInv, NEW t \in ToolNames, RequestRow(t)
  PROVE  ToolInv'
  <1>1. /\ ToolTypeOK /\ loop \in LoopType /\ rows \in RowsType /\ loop.pc = "round" /\ loop.left > 0
        /\ UNCHANGED <<expired, usage, ledger>>
        /\ rows' = [rows EXCEPT !.requested = rows.requested + 1]
        /\ loop' = [loop EXCEPT !.pc = "requested", !.tool = t]
    BY ToolTypes DEF ToolInv, RequestRow
  <1>2. loop' \in LoopType
    BY <1>1 DEF LoopType
  <1>3. /\ loop'.pc = "requested" /\ loop'.step = loop.step /\ loop'.left = loop.left
        /\ loop'.size = loop.size /\ loop'.calls = loop.calls /\ loop'.answers = loop.answers
        /\ loop'.failed = loop.failed
    BY <1>1 DEF LoopType
  <1>4. /\ rows' \in RowsType /\ rows'.requested > 0 /\ Recorded' = Recorded + 1
        /\ rows'.denied = rows.denied
    BY <1>1 DEF RowsType, Recorded
  <1>5. Recorded \in Nat /\ rows.denied \in Nat /\ loop.left \in Nat /\ ledger.ran \in Nat
        /\ ledger.attempted \in Nat
    BY <1>1 DEF ToolTypeOK, Recorded
  <1>6. ToolTypeOK'
    BY <1>1, <1>2, <1>4 DEF ToolTypeOK, LoopType, RowsType
  <1>7. RoundFits'
    BY <1>1, <1>3 DEF ToolInv, RoundFits, InRound, Started
  <1>8. RequestComesFirst'
    BY <1>1, <1>3, <1>4, <1>5 DEF ToolInv, RequestComesFirst, Started
  <1>9. AttemptsOnRecord'
    BY <1>1, <1>3, <1>4, <1>5 DEF ToolInv, AttemptsOnRecord, Started
  <1>10. CallsAnswered' /\ UsagePerCall'
    BY <1>1, <1>3 DEF ToolInv, CallsAnswered, UsagePerCall, InRound, Started
  <1> QED BY <1>6, <1>7, <1>8, <1>9, <1>10 DEF ToolInv

LEMMA RunKeeps ==
  ASSUME ToolInv, RunTool \/ Propose
  PROVE  ToolInv'
  <1>1. /\ ToolTypeOK /\ loop \in LoopType /\ ledger \in LedgerType /\ loop.pc = "requested"
        /\ UNCHANGED <<expired, rows, usage>>
        /\ ledger' = [ledger EXCEPT !.ran = ledger.ran + 1]
    BY ToolTypes DEF ToolInv, RunTool, Propose
  <1>2. PICK x \in BOOLEAN : loop' = [loop EXCEPT !.pc = "ran", !.pending = x]
    <2>1. CASE RunTool
      <3>1. loop' = [loop EXCEPT !.pc = "ran", !.pending = loop.pending] /\ loop.pending \in BOOLEAN
        BY <1>1, <2>1 DEF RunTool, LoopType
      <3> QED BY <3>1
    <2>2. CASE Propose
      <3>1. loop.pending \in BOOLEAN
        BY <1>1 DEF LoopType
      <3> QED BY <2>2, <3>1 DEF Propose
    <2> QED BY <2>1, <2>2
  <1>3. loop' \in LoopType
    BY <1>1, <1>2 DEF LoopType
  <1>4. /\ loop'.pc = "ran" /\ loop'.step = loop.step /\ loop'.left = loop.left
        /\ loop'.size = loop.size /\ loop'.calls = loop.calls /\ loop'.answers = loop.answers
        /\ loop'.failed = loop.failed
    BY <1>1, <1>2 DEF LoopType
  <1>5. ledger' \in LedgerType
    BY <1>1 DEF LedgerType
  <1>6. /\ ledger'.ran = ledger.ran + 1 /\ ledger'.provider = ledger.provider
        /\ ledger'.lost = ledger.lost /\ ledger'.attempted = ledger.attempted
    BY <1>1 DEF LedgerType
  <1>7. Recorded \in Nat /\ Recorded' = Recorded /\ ledger.ran \in Nat /\ loop.left \in Nat
        /\ loop.calls \in Nat /\ loop.size \in Nat
    BY <1>1 DEF ToolTypeOK, Recorded
  <1>8. ToolTypeOK'
    BY <1>1, <1>3, <1>5 DEF ToolTypeOK, LoopType, LedgerType
  <1>9. RoundFits'
    BY <1>1, <1>4, <1>6, <1>7, ToolNumbers DEF ToolInv, RoundFits, InRound, Started
  <1>10. RequestComesFirst'
    BY <1>1, <1>4, <1>6, <1>7 DEF ToolInv, RequestComesFirst, Started
  <1>11. AttemptsOnRecord'
    BY <1>1, <1>4, <1>6, <1>7 DEF ToolInv, AttemptsOnRecord, Started
  <1>12. CallsAnswered' /\ UsagePerCall'
    BY <1>1, <1>4, <1>6 DEF ToolInv, CallsAnswered, UsagePerCall, InRound, Started
  <1> QED BY <1>8, <1>9, <1>10, <1>11, <1>12 DEF ToolInv

\* The row of the tool that ran takes its outcome, or stays as requested.
LEMMA FinishKeeps ==
  ASSUME ToolInv, FinishFails \/ \E s \in {"executed", "failed"} : Finish(s)
  PROVE  ToolInv'
  <1>1. /\ ToolTypeOK /\ rows \in RowsType /\ loop.pc = "ran" /\ loop.left > 0 /\ rows.requested > 0
        /\ CallDone /\ UNCHANGED <<expired, usage, ledger>>
    BY ToolTypes DEF ToolInv, FinishFails, Finish, RoundFits, RequestComesFirst, Started
  <1>2. rows' \in RowsType /\ Recorded' = Recorded /\ rows'.denied = rows.denied
    <2>1. CASE rows' = rows
      BY <1>1, <2>1 DEF Recorded
    <2>2. CASE rows' = [rows EXCEPT !.requested = @ - 1, !.executed = @ + 1]
      <3> DEFINE rest == rows.requested - 1
                 more == rows.executed + 1
      <3>1. rest \in Nat /\ more \in Nat /\ rest + more = rows.requested + rows.executed
        BY <1>1 DEF RowsType
      <3>2. rows' = [rows EXCEPT !.requested = rest, !.executed = more]
        BY <2>2
      <3> HIDE DEF rest, more
      <3>3. rows' \in RowsType
        BY <1>1, <3>1, <3>2 DEF RowsType
      <3>4. /\ rows'.requested = rest /\ rows'.executed = more
            /\ rows'.denied = rows.denied /\ rows'.failed = rows.failed
        BY <1>1, <3>2 DEF RowsType
      <3> QED BY <1>1, <3>1, <3>3, <3>4 DEF Recorded, RowsType
    <2>3. CASE rows' = [rows EXCEPT !.requested = @ - 1, !.failed = @ + 1]
      <3> DEFINE rest == rows.requested - 1
                 more == rows.failed + 1
      <3>1. rest \in Nat /\ more \in Nat /\ rest + more = rows.requested + rows.failed
        BY <1>1 DEF RowsType
      <3>2. rows' = [rows EXCEPT !.requested = rest, !.failed = more]
        BY <2>3
      <3> HIDE DEF rest, more
      <3>3. rows' \in RowsType
        BY <1>1, <3>1, <3>2 DEF RowsType
      <3>4. /\ rows'.requested = rest /\ rows'.failed = more
            /\ rows'.denied = rows.denied /\ rows'.executed = rows.executed
        BY <1>1, <3>2 DEF RowsType
      <3> QED BY <1>1, <3>1, <3>3, <3>4 DEF Recorded, RowsType
    <2> QED BY <2>1, <2>2, <2>3 DEF FinishFails, Finish
  <1>3. Recorded \in Nat /\ rows.denied \in Nat /\ loop.left \in Nat /\ ledger.ran \in Nat
        /\ loop.calls \in Nat /\ loop.size \in Nat
    BY <1>1 DEF ToolTypeOK, Recorded
  <1>4. ToolTypeOK'
    BY <1>1, <1>2, CallDoneType DEF ToolTypeOK, LoopType, RowsType
  <1>5. RoundFits'
    BY <1>1, <1>3, CallDoneType DEF ToolInv, RoundFits, InRound, Started
  <1>6. RequestComesFirst'
    BY <1>1, <1>2, CallDoneType DEF ToolInv, RequestComesFirst, Started
  <1>7. AttemptsOnRecord'
    BY <1>1, <1>2, <1>3, CallDoneType DEF ToolInv, ToolTypeOK, AttemptsOnRecord, Started
  <1>8. CallsAnswered' /\ UsagePerCall'
    BY <1>1, CallDoneType DEF ToolInv, CallsAnswered, UsagePerCall, InRound, Started
  <1> QED BY <1>4, <1>5, <1>6, <1>7, <1>8 DEF ToolInv

LEMMA RecordAbortedKeeps ==
  ASSUME ToolInv, RecordAborted
  PROVE  ToolInv'
  <1> DEFINE rest == loop.left - 1
             next == IF loop.left = 1 THEN "log" ELSE "aborted"
  <1>1. /\ ToolTypeOK /\ loop \in LoopType /\ loop.pc = "aborted" /\ recordDenied(TRUE)
        /\ UNCHANGED <<expired, usage>> /\ loop' = [loop EXCEPT !.left = rest, !.pc = next]
    BY ToolTypes DEF ToolInv, RecordAborted
  <1>2. loop.left > 0 /\ loop.left \in Nat /\ ~loop.failed /\ rest \in 0 .. LongestRound
    BY <1>1, ToolNumbers DEF ToolInv, RoundFits, CallsAnswered, LoopType
  <1>3. next \in {"log", "aborted"} /\ (next = "log" <=> rest = 0)
    BY <1>2
  <1>4. loop.left = rest + 1 /\ rest \in Nat
    BY <1>2
  <1> HIDE DEF rest, next
  <1>5. loop' \in LoopType
    BY <1>1, <1>2, <1>3 DEF LoopType
  <1>6. /\ loop'.pc = next /\ loop'.left = rest
        /\ loop'.step = loop.step /\ loop'.calls = loop.calls /\ loop'.size = loop.size
        /\ loop'.answers = loop.answers /\ loop'.failed = loop.failed
    BY <1>1 DEF LoopType
  <1>7. Recorded \in Nat /\ rows.denied \in Nat
    BY <1>1 DEF ToolTypeOK, Recorded
  <1>8. ToolTypeOK'
    BY <1>1, <1>5, recordDeniedCounts DEF ToolTypeOK, LoopType, RowsType, LedgerType
  <1>9. RoundFits'
    BY <1>1, <1>3, <1>4, <1>6, recordDeniedCounts DEF ToolInv, RoundFits, InRound, Started
  <1>10. RequestComesFirst'
    BY <1>1, <1>3, <1>6, recordDeniedCounts DEF ToolInv, RequestComesFirst, Started
  <1>11. AttemptsOnRecord'
    BY <1>1, <1>3, <1>4, <1>6, <1>7, recordDeniedCounts DEF ToolInv, AttemptsOnRecord, Started
  <1>12. CallsAnswered' /\ UsagePerCall'
    BY <1>1, <1>2, <1>3, <1>6, recordDeniedCounts
       DEF ToolInv, CallsAnswered, UsagePerCall, InRound, Started
  <1> QED BY <1>8, <1>9, <1>10, <1>11, <1>12 DEF ToolInv

LEMMA RecordUsageKeeps ==
  ASSUME ToolInv, RecordUsage
  PROVE  ToolInv'
  <1> DEFINE errors == IF loop.failed THEN 1 ELSE 0
  <1>1. /\ ToolTypeOK /\ loop \in LoopType /\ loop.pc = "log" /\ UNCHANGED <<expired, rows, ledger>>
        /\ usage' = [ok |-> loop.answers, failed |-> errors] /\ loop' = [loop EXCEPT !.pc = "done"]
    BY ToolTypes DEF ToolInv, RecordUsage, UsageRows
  <1>2. errors \in Nat /\ loop.answers \in Nat /\ ledger.provider \in Nat
    BY <1>1, ToolNumbers DEF LoopType, ToolTypeOK
  <1>3. /\ loop.answers + errors >= ledger.provider
        /\ ~expired => loop.answers + errors = ledger.provider
    BY <1>1, <1>2 DEF ToolInv, CallsAnswered
  <1> HIDE DEF errors
  <1>4. usage' \in [ok : Nat, failed : Nat] /\ usage'.ok = loop.answers /\ usage'.failed = errors
    BY <1>1, <1>2
  <1>5. loop' \in LoopType /\ loop'.pc = "done"
    BY <1>1 DEF LoopType
  <1>6. ToolTypeOK'
    BY <1>1, <1>4, <1>5 DEF ToolTypeOK, LoopType
  <1>7. RoundFits' /\ RequestComesFirst'
    BY <1>1, <1>5 DEF ToolInv, RoundFits, RequestComesFirst, Recorded, InRound, Started
  <1>8. AttemptsOnRecord'
    BY <1>1, <1>5 DEF ToolInv, AttemptsOnRecord, Recorded, Started
  <1>9. CallsAnswered' /\ UsagePerCall'
    BY <1>1, <1>3, <1>4, <1>5 DEF ToolInv, CallsAnswered, UsagePerCall, InRound, Started
  <1> QED BY <1>6, <1>7, <1>8, <1>9 DEF ToolInv

LEMMA ExpireKeeps ==
  ASSUME ToolInv, Expire
  PROVE  ToolInv'
  <1>1. /\ ToolTypeOK /\ expired' = TRUE /\ loop.pc \in {"ask", "answer", "round", "requested", "ran"}
        /\ UNCHANGED <<loop, rows, usage, ledger>>
    BY DEF ToolInv, Expire
  <1> QED BY <1>1 DEF ToolInv, ToolTypeOK, RoundFits, RequestComesFirst, CallsAnswered, AttemptsOnRecord,
                      UsagePerCall, Recorded, InRound, Started

\* Whatever the model asks for and whenever the deadline passes or a write fails: what ran
\* was requested on record, within the limits of the loop, every attempted call is on
\* record, and every provider call has its usage row (RunToolLoop, governedTool.Execute).
THEOREM LoopAccountedHolds == ToolSpec => []LoopAccounted
  <1>1. ToolInv /\ [ToolNext]_toolVars => ToolInv'
    <2> SUFFICES ASSUME ToolInv, [ToolNext]_toolVars PROVE ToolInv'
      OBVIOUS
    <2>1. CASE UNCHANGED toolVars
      BY <2>1 DEF toolVars, ToolInv, ToolTypeOK, RoundFits, RequestComesFirst, CallsAnswered,
                  AttemptsOnRecord, UsagePerCall, Recorded
    <2> QED BY <2>1, CompletePlainKeeps, AskKeeps, FailureKeeps, ProviderAnswersKeeps, RoundOverKeeps,
               RefusalsKeep, RequestRowKeeps, RunKeeps, FinishKeeps, RecordAbortedKeeps,
               RecordUsageKeeps, ExpireKeeps
            DEF ToolNext, ToolStep
  <1>2. ToolInv => LoopAccounted
    <2> SUFFICES ASSUME ToolInv PROVE LoopAccounted
      OBVIOUS
    <2>1. ToolTypeOK /\ Recorded \in Nat /\ ledger.ran \in Nat
      BY DEF ToolInv, ToolTypeOK, Recorded
    <2>2. RanWasRequested /\ LoopWithinLimits
      BY <2>1 DEF ToolInv, RanWasRequested, LoopWithinLimits, RequestComesFirst, RoundFits, CallsAnswered
    <2>3. AttemptsRecorded
      BY DEF ToolInv, AttemptsRecorded, AttemptsOnRecord
    <2> QED BY <2>1, <2>2, <2>3 DEF ToolInv, LoopAccounted
  <1> QED BY <1>1, <1>2, ToolInvInit, PTL DEF ToolSpec

-------------------------------------------------------------------------------
(* Chatbot: the inductive invariant *)

Places == {"new", "check", "settings", "session", "create", "route", "hand", "run", "save", "done"}
HasSession == {"route", "hand", "run", "save"}
BotRow == [pc : Places, msg : Messages, id : SessionIds, s : ChatSession, fresh : BOOLEAN,
           text : BOOLEAN, button : BOOLEAN, consumed : 0 .. Iterations, left : 0 .. Iterations,
           spoke : BOOLEAN, free : BOOLEAN]

\* A session, or a copy of it, stands in its flow, and somewhere if it is in a flow.
InItsFlow(s) ==
    /\ s.step # NoStep => s.flow = Owner[s.step]
    /\ s.status = "active" /\ s.flow # NoFlow => s.step # NoStep
\* It waits at a question that was asked (ask: by session), but for an excuse.
WaitsAsked(s, i, ask, excuse) ==
    s.status = "active" /\ s.step # NoStep => s.step \in ask[i] \/ excuse

\* What a goroutine knows while it runs, given whether the contact is attended.
GoodRun(b, attd, ask, excuse) ==
    /\ b \in BotRow
    /\ b.pc \notin {"new", "done"} /\ (b.button \/ b.msg = "form") => b.text
    /\ b.consumed <= 1
    /\ b.spoke => b.free /\ b.pc # "new"
    /\ b.pc \notin {"new", "check", "done"} => b.free
    /\ b.pc = "check" /\ ~attd => b.free
    /\ b.pc \in HasSession => InItsFlow(b.s) /\ b.s.status # "none"
    /\ b.pc \in {"route", "hand"} => b.s.status = "active"
    /\ b.pc = "run" => b.s.step # NoStep
    /\ b.pc \in {"route", "hand", "save"} => WaitsAsked(b.s, b.id, ask, excuse)
    /\ b.pc = "run" /\ b.text /\ b.consumed = 0 => b.s.step \in ask[b.id] \/ excuse

RunsAreGood == \A w \in Inbounds : GoodRun(bot[w], attended, asked, seen.excuse)
SessionsAreGood ==
    \A i \in SessionIds : InItsFlow(sessions[i]) /\ WaitsAsked(sessions[i], i, asked, seen.excuse)
QuestionsAsked == \A i \in SessionIds : \A n \in asked[i] : ChatType[n] \in Questions
\* As long as no two messages overlapped, the one being handled knows the live session.
OneAtATime ==
    ~seen.overlap =>
        /\ \A v, w \in Inbounds : Busy(v) /\ Busy(w) => v = w
        /\ \A i, j \in LiveSessions : i = j
        /\ \A w \in Inbounds : bot[w].pc = "create" => LiveSessions = {}
        /\ \A w \in Inbounds : bot[w].pc \in HasSession => LiveSessions \subseteq {bot[w].id}

UnusedIsBlank == \A i \in SessionIds : sessions[i].status = "none" => sessions[i] = NoSession

ChatInv ==
    ChatTypeOK /\ RunsAreGood /\ UnusedIsBlank /\ SessionsAreGood /\ QuestionsAsked /\ AnswersWereAsked /\ OneAtATime

LEMMA ChatNumbers ==
  /\ MaxSessions \in Nat /\ LastInbound \in Nat /\ MaxSessions >= LastInbound
  /\ ChatRetries \in Nat /\ ChatRetries >= 1 /\ Iterations \in Nat /\ Iterations >= 1
  BY ChatbotAssumption

LEMMA ChatTypes == ChatTypeOK <=> /\ sessions \in [SessionIds -> ChatSession]
                                  /\ attended \in BOOLEAN
                                  /\ gone \subseteq Flows \cup ChatNodes
                                  /\ bot \in [Inbounds -> BotRow]
                                  /\ asked \in [SessionIds -> SUBSET ChatNodes]
                                  /\ seen \in [overlap : BOOLEAN, unasked : BOOLEAN, excuse : BOOLEAN]
  BY DEF ChatTypeOK, BotRow, Places

\* What a goroutine knows stays true when more was asked or excused, or an agent came.
LEMMA GoodRunStays ==
  ASSUME NEW b, NEW at, NEW at2, NEW ask, NEW ask2, NEW ex, NEW ex2,
         GoodRun(b, at, ask, ex), at => at2, ex => ex2,
         \A i \in SessionIds : ask[i] \subseteq ask2[i]
  PROVE  GoodRun(b, at2, ask2, ex2)
  <1>1. b.id \in SessionIds
    BY DEF GoodRun, BotRow
  <1>2. ask[b.id] \subseteq ask2[b.id]
    BY <1>1
  <1> QED BY <1>2 DEF GoodRun, WaitsAsked

\* A goroutine that ends keeps nothing that could go wrong.
LEMMA EndsGood ==
  ASSUME NEW b, NEW at, NEW ask, NEW ex, GoodRun(b, at, ask, ex), b.pc \notin {"new", "done"}
  PROVE  /\ GoodRun(At(b, "done"), at, ask, ex) /\ At(b, "done").pc = "done"
         /\ b.pc # "check" => /\ GoodRun(At([b EXCEPT !.spoke = TRUE], "done"), at, ask, ex)
                              /\ At([b EXCEPT !.spoke = TRUE], "done").pc = "done"
  <1>1. NoSession \in ChatSession
    BY ChatNumbers DEF NoSession, ChatSession
  <1>2. b \in BotRow /\ b.id \in SessionIds
    BY DEF GoodRun, BotRow
  <1>3. 1 \in SessionIds /\ Iterations \in 0 .. Iterations
    BY <1>2, ChatNumbers DEF SessionIds
  <1>4. NewRun \in BotRow
    BY <1>1, <1>3, ChatNumbers DEF NewRun, BotRow, Places, Messages
  <1>5. /\ At(b, "done") \in BotRow /\ At(b, "done").pc = "done"
        /\ At(b, "done").consumed = b.consumed /\ At(b, "done").spoke = b.spoke /\ At(b, "done").free = b.free
    BY <1>2, <1>4 DEF At, BotRow, Places
  <1>6. GoodRun(At(b, "done"), at, ask, ex)
    BY <1>5 DEF GoodRun, HasSession
  <1>7. ASSUME b.pc # "check"
        PROVE  /\ GoodRun(At([b EXCEPT !.spoke = TRUE], "done"), at, ask, ex)
               /\ At([b EXCEPT !.spoke = TRUE], "done").pc = "done"
    <2> DEFINE n == At([b EXCEPT !.spoke = TRUE], "done")
    <2>1. b.free
      BY <1>7 DEF GoodRun
    <2>2. n \in BotRow /\ n.pc = "done" /\ n.consumed = b.consumed /\ n.free = b.free
      BY <1>2, <1>4 DEF At, BotRow, Places
    <2> HIDE DEF n
    <2>3. GoodRun(n, at, ask, ex)
      BY <2>1, <2>2 DEF GoodRun, HasSession
    <2> QED BY <2>2, <2>3 DEF n
  <1> QED BY <1>5, <1>6, <1>7

\* A step of a goroutine that writes no session.
LEMMA TurnKeeps ==
  ASSUME ChatInv, NEW w \in Inbounds, Busy(w), NEW new,
         bot' = [bot EXCEPT ![w] = new], new.pc # "new",
         GoodRun(new, attended', asked', seen'.excuse),
         sessions' = sessions, gone' = gone,
         attended' \in BOOLEAN, attended => attended',
         asked' \in [SessionIds -> SUBSET ChatNodes],
         \A i \in SessionIds : asked[i] \subseteq asked'[i],
         \A i \in SessionIds : \A n \in asked'[i] : ChatType[n] \in Questions,
         seen' \in [overlap : BOOLEAN, unasked : BOOLEAN, excuse : BOOLEAN],
         seen'.overlap = seen.overlap, seen.excuse => seen'.excuse, seen'.unasked => seen'.excuse,
         ~seen.overlap => /\ new.pc = "create" => LiveSessions = {}
                          /\ new.pc \in HasSession => LiveSessions \subseteq {new.id}
  PROVE  ChatInv'
  <1>1. bot \in [Inbounds -> BotRow] /\ new \in BotRow
    BY ChatTypes DEF ChatInv, GoodRun
  <1>2. bot'[w] = new /\ \A v \in Inbounds : v # w => bot'[v] = bot[v]
    BY <1>1
  <1>3. ChatTypeOK'
    <2>1. bot' \in [Inbounds -> BotRow]
      BY <1>1
    <2> QED BY <2>1 DEF ChatInv, ChatTypeOK, BotRow, Places
  <1>4. RunsAreGood'
    <2>1. \A v \in Inbounds : GoodRun(bot'[v], attended', asked', seen'.excuse)
      <3>1. ASSUME NEW v \in Inbounds, v # w
            PROVE  GoodRun(bot'[v], attended', asked', seen'.excuse)
        <4>1. GoodRun(bot[v], attended, asked, seen.excuse)
          BY DEF ChatInv, RunsAreGood
        <4>2. GoodRun(bot[v], attended', asked', seen'.excuse)
          BY <4>1, GoodRunStays
        <4> QED BY <4>2, <3>1, <1>2
      <3> QED BY <3>1, <1>2
    <2> QED BY <2>1 DEF RunsAreGood
  <1>5. SessionsAreGood'
    <2>1. \A i \in SessionIds : InItsFlow(sessions[i]) /\ WaitsAsked(sessions[i], i, asked', seen'.excuse)
      BY DEF ChatInv, SessionsAreGood, WaitsAsked
    <2> QED BY <2>1 DEF SessionsAreGood
  <1>6. QuestionsAsked' /\ AnswersWereAsked' /\ UnusedIsBlank'
    BY DEF ChatInv, QuestionsAsked, AnswersWereAsked, UnusedIsBlank
  <1>7. OneAtATime'
    <2>1. LiveSessions' = LiveSessions
      BY DEF LiveSessions
    <2>2. \A v \in Inbounds : bot'[v].pc \notin {"new", "done"} => Busy(v)
      BY <1>2 DEF Busy
    <2>3. ASSUME ~seen.overlap
          PROVE  /\ \A v, u \in Inbounds : Busy(v) /\ Busy(u) => v = u
                 /\ \A i, j \in LiveSessions : i = j
                 /\ \A v \in Inbounds : bot[v].pc = "create" => LiveSessions = {}
                 /\ \A v \in Inbounds : bot[v].pc \in HasSession => LiveSessions \subseteq {bot[v].id}
      BY <2>3 DEF ChatInv, OneAtATime
    <2>4. ASSUME ~seen.overlap, NEW v \in Inbounds
          PROVE  /\ bot'[v].pc = "create" => LiveSessions = {}
                 /\ bot'[v].pc \in HasSession => LiveSessions \subseteq {bot'[v].id}
      BY <2>3, <2>4, <1>2
    <2>5. ~seen.overlap => \A v, u \in Inbounds : Busy(v)' /\ Busy(u)' => v = u
      BY <2>2, <2>3 DEF Busy
    <2> QED BY <2>1, <2>3, <2>4, <2>5 DEF OneAtATime
  <1> QED BY <1>3, <1>4, <1>5, <1>6, <1>7 DEF ChatInv

\* A step that writes one session.
LEMMA WriteKeeps ==
  ASSUME ChatInv, NEW w \in Inbounds, Busy(w), NEW new,
         bot' = [bot EXCEPT ![w] = new], new.pc # "new",
         GoodRun(new, attended, asked, seen.excuse),
         NEW i \in SessionIds, NEW row \in ChatSession, sessions' = [sessions EXCEPT ![i] = row],
         InItsFlow(row), WaitsAsked(row, i, asked, seen.excuse), row.status # "none",
         UNCHANGED <<attended, gone, asked, seen>>,
         ~seen.overlap => LiveSessions \subseteq {i},
         new.pc = "done" \/ (new.pc = "route" /\ new.id = i)
  PROVE  ChatInv'
  <1>1. bot \in [Inbounds -> BotRow] /\ new \in BotRow /\ sessions \in [SessionIds -> ChatSession]
    BY ChatTypes DEF ChatInv, GoodRun
  <1>2. /\ bot'[w] = new /\ \A v \in Inbounds : v # w => bot'[v] = bot[v]
        /\ sessions'[i] = row /\ \A j \in SessionIds : j # i => sessions'[j] = sessions[j]
    BY <1>1
  <1>3. ChatTypeOK'
    <2>1. bot' \in [Inbounds -> BotRow] /\ sessions' \in [SessionIds -> ChatSession]
      BY <1>1
    <2> QED BY <2>1 DEF ChatInv, ChatTypeOK, BotRow, Places
  <1>4. RunsAreGood'
    <2>1. \A v \in Inbounds : GoodRun(bot'[v], attended, asked, seen.excuse)
      BY <1>2 DEF ChatInv, RunsAreGood
    <2> QED BY <2>1 DEF RunsAreGood
  <1>5. SessionsAreGood'
    <2>1. \A j \in SessionIds : InItsFlow(sessions'[j]) /\ WaitsAsked(sessions'[j], j, asked, seen.excuse)
      BY <1>2 DEF ChatInv, SessionsAreGood
    <2> QED BY <2>1 DEF SessionsAreGood
  <1>6. QuestionsAsked' /\ AnswersWereAsked' /\ UnusedIsBlank'
    BY <1>2 DEF ChatInv, QuestionsAsked, AnswersWereAsked, UnusedIsBlank
  <1>7. OneAtATime'
    <2>1. ~seen.overlap => LiveSessions' \subseteq {i}
      BY <1>2 DEF LiveSessions
    <2>2. ASSUME ~seen.overlap
          PROVE  \A v \in Inbounds : bot'[v].pc \notin {"new", "done"} => v = w
      BY <2>2, <1>2 DEF ChatInv, OneAtATime, Busy
    <2>3. ASSUME ~seen.overlap, NEW v \in Inbounds
          PROVE  /\ bot'[v].pc # "create"
                 /\ bot'[v].pc \in HasSession => bot'[v].id = i
      BY <2>2, <2>3, <1>2 DEF HasSession
    <2> QED BY <2>1, <2>2, <2>3 DEF OneAtATime, Busy
  <1> QED BY <1>3, <1>4, <1>5, <1>6, <1>7 DEF ChatInv

\* A step of a goroutine that ends, and may have spoken.
LEMMA EndKeeps ==
  ASSUME ChatInv, NEW w \in Inbounds, Busy(w),
         Goes(w, "done") \/ (Says(w, "done") /\ bot[w].pc # "check"),
         UNCHANGED <<sessions, gone, asked, seen>>, attended' = attended \/ attended' = TRUE
  PROVE  ChatInv'
  <1>1. GoodRun(bot[w], attended, asked, seen.excuse)
    BY DEF ChatInv, RunsAreGood
  <1>2. attended \in BOOLEAN /\ attended' \in BOOLEAN /\ (attended => attended')
    BY ChatTypes DEF ChatInv
  <1>3. GoodRun(bot[w], attended', asked, seen.excuse)
    BY <1>1, <1>2, GoodRunStays
  <1>4. PICK new : /\ bot' = [bot EXCEPT ![w] = new]
                   /\ GoodRun(new, attended', asked, seen.excuse) /\ new.pc = "done"
    <2>1. CASE Goes(w, "done")
      <3>1. bot' = [bot EXCEPT ![w] = At(bot[w], "done")]
        BY <2>1 DEF Goes
      <3> QED BY <3>1, <1>3, EndsGood DEF Busy
    <2>2. CASE Says(w, "done") /\ bot[w].pc # "check"
      <3>1. bot' = [bot EXCEPT ![w] = At([bot[w] EXCEPT !.spoke = TRUE], "done")]
        BY <2>2 DEF Says
      <3> QED BY <3>1, <2>2, <1>3, EndsGood DEF Busy
    <2> QED BY <2>1, <2>2
  <1>5. /\ asked \in [SessionIds -> SUBSET ChatNodes]
        /\ seen \in [overlap : BOOLEAN, unasked : BOOLEAN, excuse : BOOLEAN]
        /\ QuestionsAsked /\ AnswersWereAsked
    BY ChatTypes DEF ChatInv
  <1> QED BY <1>2, <1>4, <1>5, TurnKeeps DEF QuestionsAsked, AnswersWereAsked, HasSession

\* A step of a goroutine on its way to the graph: it may learn of a live session.
LEMMA MoveKeeps ==
  ASSUME ChatInv, NEW w \in Inbounds, Busy(w), NEW new, bot' = [bot EXCEPT ![w] = new],
         UNCHANGED <<sessions, attended, gone, asked, seen>>,
         GoodRun(new, attended, asked, seen.excuse), new.pc # "new",
         ~seen.overlap => /\ new.pc = "create" => LiveSessions = {}
                          /\ new.pc \in HasSession => LiveSessions \subseteq {new.id}
  PROVE  ChatInv'
  <1>1. /\ asked \in [SessionIds -> SUBSET ChatNodes] /\ attended \in BOOLEAN
        /\ seen \in [overlap : BOOLEAN, unasked : BOOLEAN, excuse : BOOLEAN]
        /\ QuestionsAsked /\ AnswersWereAsked
    BY ChatTypes DEF ChatInv
  <1> QED BY <1>1, TurnKeeps DEF QuestionsAsked, AnswersWereAsked

\* Up to the session.
LEMMA EarlyKeeps ==
  ASSUME ChatInv, NEW w \in Inbounds,
         CheckTransfer(w) \/ Disabled(w) \/ OutOfHours(w) \/ Actionable(w) \/ FindSession(w)
  PROVE  ChatInv'
  <1>1. /\ GoodRun(bot[w], attended, asked, seen.excuse) /\ bot[w] \in BotRow /\ ChatTypeOK
        /\ SessionsAreGood /\ sessions \in [SessionIds -> ChatSession]
    BY ChatTypes DEF ChatInv, RunsAreGood
  <1>2. ASSUME NEW pc \in {"settings", "session", "create"}, Goes(w, pc), Busy(w),
               UNCHANGED <<sessions, attended, gone, asked, seen>>,
               bot[w].free, pc = "create" => LiveSessions = {}
        PROVE  ChatInv'
    <2> DEFINE new == [bot[w] EXCEPT !.pc = pc]
    <2>1. bot' = [bot EXCEPT ![w] = new]
      BY <1>2 DEF Goes, At
    <2>2. new \in BotRow /\ new.pc = pc
      BY <1>1 DEF BotRow, Places
    <2>3. GoodRun(new, attended, asked, seen.excuse)
      BY <1>1, <1>2, <2>2 DEF GoodRun, HasSession, Busy
    <2>4. new.pc \notin HasSession /\ new.pc # "new"
      BY <2>2 DEF HasSession
    <2> HIDE DEF new
    <2> QED BY <1>2, <2>1, <2>2, <2>3, <2>4, MoveKeeps
  <1>3. CASE CheckTransfer(w)
    <2>1. Busy(w)
      BY <1>3 DEF CheckTransfer, Busy
    <2>2. CASE attended
      BY <1>3, <2>1, <2>2, EndKeeps DEF CheckTransfer
    <2>3. CASE ~attended
      <3>1. bot[w].free /\ Goes(w, "settings")
        BY <1>1, <1>3, <2>3 DEF CheckTransfer, GoodRun
      <3> QED BY <1>2, <1>3, <2>1, <3>1 DEF CheckTransfer
    <2> QED BY <2>2, <2>3
  <1>4. CASE Disabled(w)
    BY <1>4, EndKeeps DEF Disabled, Attend, Busy
  <1>5. CASE OutOfHours(w)
    BY <1>5, EndKeeps DEF OutOfHours, Busy
  <1>6. CASE Actionable(w)
    <2>1. Busy(w) /\ bot[w].free
      BY <1>1, <1>6 DEF Actionable, Busy, GoodRun
    <2>2. CASE bot[w].msg = "empty"
      BY <1>6, <2>1, <2>2, EndKeeps DEF Actionable
    <2>3. CASE bot[w].msg # "empty"
      BY <1>2, <1>6, <2>1, <2>3 DEF Actionable
    <2> QED BY <2>2, <2>3
  <1>7. CASE FindSession(w)
    <2>1. Busy(w) /\ bot[w].free
      BY <1>1, <1>7 DEF FindSession, Busy, GoodRun
    <2>2. CASE LiveSessions = {}
      BY <1>2, <1>7, <2>1, <2>2 DEF FindSession
    <2>3. CASE LiveSessions # {}
      <3>1. PICK i \in LiveSessions : bot' = [bot EXCEPT ![w].pc = "route", ![w].id = i, ![w].s = sessions[i]]
        BY <1>7, <2>3 DEF FindSession
      <3>2. i \in SessionIds /\ sessions[i].status = "active" /\ sessions[i] \in ChatSession
        BY <1>1, <3>1 DEF LiveSessions
      <3> DEFINE new == [bot[w] EXCEPT !.pc = "route", !.id = i, !.s = sessions[i]]
      <3>3. bot' = [bot EXCEPT ![w] = new]
        BY <3>1
      <3>4. /\ new \in BotRow /\ new.pc = "route" /\ new.id = i /\ new.s = sessions[i]
            /\ new.text = bot[w].text /\ new.button = bot[w].button /\ new.msg = bot[w].msg
            /\ new.consumed = bot[w].consumed /\ new.spoke = bot[w].spoke /\ new.free = bot[w].free
        BY <1>1, <3>2 DEF BotRow, Places
      <3> HIDE DEF new
      <3>5. InItsFlow(new.s) /\ WaitsAsked(new.s, new.id, asked, seen.excuse)
        BY <1>1, <3>2, <3>4 DEF SessionsAreGood
      <3>6. GoodRun(new, attended, asked, seen.excuse)
        BY <1>1, <2>1, <3>2, <3>4, <3>5 DEF GoodRun, Busy
      <3>7. ~seen.overlap => LiveSessions \subseteq {new.id}
        BY <3>1, <3>4 DEF ChatInv, OneAtATime
      <3> QED BY <1>7, <2>1, <3>3, <3>4, <3>6, <3>7, MoveKeeps DEF FindSession
    <2> QED BY <2>2, <2>3
  <1> QED BY <1>3, <1>4, <1>5, <1>6, <1>7

\* From the session to the graph.
LEMMA RouteKeeps ==
  ASSUME ChatInv, NEW w \in Inbounds,
         \/ CreateSession(w) \/ TransferKeyword(w) \/ TransferFromKeyword(w) \/ ExitFlow(w) \/ Reply(w)
         \/ NodeNotFound(w) \/ persistChatSession(w)
  PROVE  ChatInv'
  <1>1. /\ GoodRun(bot[w], attended, asked, seen.excuse) /\ bot[w] \in BotRow /\ ChatTypeOK
        /\ sessions \in [SessionIds -> ChatSession] /\ bot[w].id \in SessionIds /\ bot[w].s \in ChatSession
    BY ChatTypes DEF ChatInv, RunsAreGood, BotRow
  <1>2. bot[w].pc \in HasSession /\ ~seen.overlap => LiveSessions \subseteq {bot[w].id}
    BY DEF ChatInv, OneAtATime
  <1>3. CASE CreateSession(w)
    <2>1. PICK i \in SessionIds :
            /\ sessions[i].status = "none"
            /\ sessions' = [sessions EXCEPT ![i].status = "active"]
            /\ bot' = [bot EXCEPT ![w].pc = "route", ![w].id = i, ![w].fresh = TRUE,
                                  ![w].s = [NoSession EXCEPT !.status = "active"]]
      BY <1>3 DEF CreateSession
    <2> DEFINE s == [NoSession EXCEPT !.status = "active"]
               row == [sessions[i] EXCEPT !.status = "active"]
               new == [bot[w] EXCEPT !.pc = "route", !.id = i, !.fresh = TRUE, !.s = s]
    <2>2. bot[w].pc = "create" /\ UNCHANGED <<attended, gone, asked, seen>>
      BY <1>3 DEF CreateSession
    <2>3. /\ s \in ChatSession /\ s.status = "active" /\ s.step = NoStep /\ s.flow = NoFlow
      <3>1. NoSession \in ChatSession /\ NoSession.step = NoStep /\ NoSession.flow = NoFlow
        BY ChatNumbers DEF NoSession, ChatSession
      <3> QED BY <3>1 DEF ChatSession
    <2> HIDE DEF s
    <2>4. InItsFlow(s) /\ WaitsAsked(s, i, asked, seen.excuse)
      BY <2>3 DEF InItsFlow, WaitsAsked
    <2>5. /\ new \in BotRow /\ new.pc = "route" /\ new.id = i /\ new.s = s
          /\ new.text = bot[w].text /\ new.button = bot[w].button /\ new.msg = bot[w].msg
          /\ new.consumed = bot[w].consumed /\ new.spoke = bot[w].spoke /\ new.free = bot[w].free
      BY <1>1, <2>3 DEF BotRow, Places
    <2>6. /\ row \in ChatSession /\ row.status = "active" /\ row.flow = sessions[i].flow /\ row.step = sessions[i].step
      BY <1>1 DEF ChatSession
    <2>7. bot' = [bot EXCEPT ![w] = new] /\ sessions' = [sessions EXCEPT ![i] = row]
      BY <2>1 DEF s
    <2> HIDE DEF new, row
    <2>8. GoodRun(new, attended, asked, seen.excuse)
      BY <1>1, <2>2, <2>3, <2>4, <2>5 DEF GoodRun
    <2>9. InItsFlow(row) /\ WaitsAsked(row, i, asked, seen.excuse)
      BY <2>1, <2>6 DEF ChatInv, UnusedIsBlank, NoSession, InItsFlow, WaitsAsked
    <2>10. ~seen.overlap => LiveSessions \subseteq {i}
      BY <2>2 DEF ChatInv, OneAtATime
    <2> QED BY <2>2, <2>5, <2>6, <2>7, <2>8, <2>9, <2>10, WriteKeeps DEF Busy
  <1>4. CASE TransferKeyword(w)
    <2> DEFINE quiet == [bot[w] EXCEPT !.pc = "hand"]
               spoken == [bot[w] EXCEPT !.spoke = TRUE, !.pc = "hand"]
    <2>1. PICK new \in {quiet, spoken} : bot' = [bot EXCEPT ![w] = new]
      BY <1>4 DEF TransferKeyword, Says, Goes, At
    <2>2. bot[w].pc = "route" /\ UNCHANGED <<sessions, attended, gone, asked, seen>> /\ bot[w].free
      BY <1>1, <1>4 DEF TransferKeyword, GoodRun
    <2>3. /\ new \in BotRow /\ new.pc = "hand" /\ new.id = bot[w].id /\ new.s = bot[w].s
          /\ new.text = bot[w].text /\ new.button = bot[w].button /\ new.msg = bot[w].msg
          /\ new.consumed = bot[w].consumed /\ new.free = bot[w].free
      BY <1>1 DEF BotRow, Places
    <2> HIDE DEF quiet, spoken
    <2>4. GoodRun(new, attended, asked, seen.excuse)
      BY <1>1, <2>2, <2>3 DEF GoodRun, HasSession
    <2>5. ~seen.overlap => LiveSessions \subseteq {new.id}
      BY <1>2, <2>2, <2>3 DEF HasSession
    <2> QED BY <2>1, <2>2, <2>3, <2>4, <2>5, MoveKeeps DEF Busy
  <1>5. CASE TransferFromKeyword(w) \/ Reply(w) \/ NodeNotFound(w)
    BY <1>5, EndKeeps DEF TransferFromKeyword, Reply, NodeNotFound, Attend, Busy
  <1>6. ASSUME NEW row \in ChatSession, sessions' = [sessions EXCEPT ![bot[w].id] = row],
               InItsFlow(row), WaitsAsked(row, bot[w].id, asked, seen.excuse), row.status # "none",
               bot[w].pc \in HasSession, Goes(w, "done"), UNCHANGED <<attended, gone, asked, seen>>
        PROVE  ChatInv'
    <2> DEFINE new == At(bot[w], "done")
    <2>1. bot' = [bot EXCEPT ![w] = new]
      BY <1>6 DEF Goes
    <2>2. GoodRun(new, attended, asked, seen.excuse) /\ new.pc = "done"
      BY <1>1, <1>6, EndsGood DEF HasSession
    <2> HIDE DEF new
    <2> QED BY <1>1, <1>2, <1>6, <2>1, <2>2, WriteKeeps DEF Busy, HasSession
  <1>7. CASE ExitFlow(w)
    <2> DEFINE row == [sessions[bot[w].id] EXCEPT !.status = "completed", !.step = NoStep, !.retries = 0]
    <2>1. row \in ChatSession /\ row.status = "completed" /\ row.step = NoStep
      <3>1. 0 \in 0 .. ChatRetries - 1
        BY ChatNumbers
      <3> QED BY <1>1, <3>1 DEF ChatSession
    <2>2. sessions' = [sessions EXCEPT ![bot[w].id] = row]
      BY <1>7 DEF ExitFlow
    <2> HIDE DEF row
    <2>3. InItsFlow(row) /\ WaitsAsked(row, bot[w].id, asked, seen.excuse)
      BY <2>1 DEF InItsFlow, WaitsAsked
    <2> QED BY <1>6, <1>7, <2>1, <2>2, <2>3 DEF ExitFlow, HasSession
  <1>8. CASE persistChatSession(w)
    <2>1. InItsFlow(bot[w].s) /\ WaitsAsked(bot[w].s, bot[w].id, asked, seen.excuse) /\ bot[w].s.status # "none"
      BY <1>1, <1>8 DEF GoodRun, HasSession, persistChatSession
    <2> QED BY <1>1, <1>6, <1>8, <2>1 DEF persistChatSession, HasSession
  <1> QED BY <1>3, <1>4, <1>5, <1>7, <1>8

-------------------------------------------------------------------------------
(* The graph *)

\* An edge leads to a node of the same flow.
LEMMA ResolvesInFlow ==
  ASSUME NEW n \in ChatNodes, NEW o
  PROVE  \/ ChatResolve(n, o) = NoStep
         \/ ChatResolve(n, o) \in ChatNodes /\ Owner[ChatResolve(n, o)] = Owner[n]
  <1> DEFINE to(cond) == {e.to : e \in {d \in ChatEdges : d.from = n /\ d.cond = cond}}
  <1>1. ASSUME NEW cond, NEW m \in to(cond)
        PROVE  m \in ChatNodes /\ Owner[m] = Owner[n]
    BY <1>1, ChatbotAssumption
  <1>2. ASSUME NEW cond, to(cond) # {}
        PROVE  (CHOOSE m \in to(cond) : TRUE) \in to(cond)
    BY <1>2
  <1>3. CASE to(o) # {}
    <2>1. ChatResolve(n, o) = CHOOSE m \in to(o) : TRUE
      BY <1>3 DEF ChatResolve
    <2> QED BY <1>1, <1>2, <1>3, <2>1
  <1>4. CASE to(o) = {} /\ to("default") # {}
    <2>1. ChatResolve(n, o) = CHOOSE m \in to("default") : TRUE
      BY <1>4 DEF ChatResolve
    <2> QED BY <1>1, <1>2, <1>4, <2>1
  <1>5. CASE to(o) = {} /\ to("default") = {}
    BY <1>5 DEF ChatResolve
  <1> QED BY <1>3, <1>4, <1>5

LEMMA FollowsInFlow ==
  ASSUME NEW s \in ChatSession, s.step # NoStep, InItsFlow(s), s.status # "none", NEW o
  PROVE  /\ Follow(s, o) \in ChatSession /\ InItsFlow(Follow(s, o)) /\ Follow(s, o).step # NoStep
         /\ Follow(s, o).status # "none"
  <1> DEFINE n == ChatResolve(s.step, o)
  <1>1. s.step \in ChatNodes /\ s.flow = Owner[s.step]
    BY DEF ChatSession, InItsFlow
  <1>2. n = NoStep \/ (n \in ChatNodes /\ n # NoStep /\ Owner[n] = s.flow)
    BY <1>1, ResolvesInFlow, ChatbotAssumption
  <1> HIDE DEF n
  <1>3. CASE n = NoStep
    <2>1. Follow(s, o) = [s EXCEPT !.status = "completed"]
      BY <1>3 DEF Follow, n
    <2> QED BY <1>1, <2>1 DEF ChatSession, InItsFlow
  <1>4. CASE n \in ChatNodes /\ n # NoStep /\ Owner[n] = s.flow
    <2>1. Follow(s, o) = [s EXCEPT !.step = n]
      BY <1>4 DEF Follow, n
    <2> QED BY <1>1, <1>4, <2>1 DEF ChatSession, InItsFlow
  <1> QED BY <1>2, <1>3, <1>4

\* What a node yields: it takes an answer that is there and was not used, and a node that
\* waits for an answer takes it, asks or fails.
NodeYields(b, r) ==
    /\ {r.yield, r.err, r.says, r.asks, r.uses, r.hands} \subseteq BOOLEAN
    /\ r.retries \in {"same", "zero", "more"} /\ r.goto \in Flows \cup {NoFlow}
    /\ r.uses => b.text /\ b.consumed = 0
    /\ r.retries = "more" => b.s.retries + 1 < ChatRetries
    /\ r.asks => ChatType[b.s.step] \in Questions
    /\ ChatType[b.s.step] \in Questions /\ b.text /\ b.consumed = 0 => r.uses \/ r.yield \/ r.err

LEMMA NodeResult ==
  ASSUME NEW b \in BotRow, b.s.step \in ChatNodes, b.button \/ b.msg = "form" => b.text,
         NEW r \in executeChatNode(b)
  PROVE  NodeYields(b, r)
  <1>1. /\ b.text \in BOOLEAN /\ b.button \in BOOLEAN /\ b.consumed \in Nat /\ b.s.retries \in Nat
    BY ChatNumbers DEF BotRow, ChatSession
  <1> DEFINE type == ChatType[b.s.step]
  <1> DEFINE plain(o) == {Outcome(o), Failed, [Outcome(o) EXCEPT !.says = TRUE],
                         [Outcome(o) EXCEPT !.says = TRUE, !.asks = FALSE]}
  <1>2. ASSUME NEW o, r \in plain(o)
        PROVE  /\ {r.yield, r.err, r.says, r.asks, r.uses, r.hands} \subseteq BOOLEAN
               /\ r.retries = "same" /\ r.goto = NoFlow /\ ~r.uses /\ ~r.asks
    <2>1. CASE r = Outcome(o)
      BY <2>1 DEF Outcome
    <2>2. CASE r = Failed
      BY <2>2 DEF Outcome, Failed
    <2>3. CASE r = [Outcome(o) EXCEPT !.says = TRUE]
      BY <2>3 DEF Outcome
    <2>4. CASE r = [Outcome(o) EXCEPT !.says = TRUE, !.asks = FALSE]
      BY <2>4 DEF Outcome
    <2> QED BY <1>2, <2>1, <2>2, <2>3, <2>4
  <1>3. CASE type \in {"start", "condition", "timing", "set_variable", "webhook"}
    <2>1. \E o : r = Outcome(o)
      <3>1. CASE type = "start"
        BY <3>1 DEF executeChatNode
      <3>2. CASE type = "condition"
        BY <3>2 DEF executeChatNode, execChatCondition
      <3>3. CASE type = "timing"
        BY <3>3 DEF executeChatNode, execChatTiming
      <3>4. CASE type = "set_variable"
        BY <3>4 DEF executeChatNode, execChatSetVariable
      <3>5. CASE type = "webhook"
        BY <3>5 DEF executeChatNode, execChatWebhook
      <3> QED BY <1>3, <3>1, <3>2, <3>3, <3>4, <3>5
    <2>2. \E o : r \in plain(o)
      BY <2>1
    <2> HIDE DEF plain
    <2>3. /\ {r.yield, r.err, r.says, r.asks, r.uses, r.hands} \subseteq BOOLEAN
          /\ r.retries = "same" /\ r.goto = NoFlow /\ ~r.uses /\ ~r.asks
      BY <1>2, <2>2
    <2> QED BY <1>3, <2>3 DEF NodeYields, Questions
  <1>4. CASE type \in {"message", "ai_response", "end", "api_call"}
    <2>1. \E o : r \in plain(o)
      <3>0. ASSUME NEW o, r \in Sends(Outcome(o))
            PROVE  r \in plain(o)
        BY <3>0 DEF Sends
      <3>1. CASE type = "message"
        BY <3>0, <3>1 DEF executeChatNode, execChatMessage
      <3>2. CASE type = "ai_response"
        <4>1. r \in {Outcome("default")} \cup Sends(Outcome("default"))
          BY <3>2 DEF executeChatNode, execChatAIResponse
        <4> QED BY <3>0, <4>1
      <3>3. CASE type = "end"
        <4>1. r \in {Outcome("")} \cup Sends(Outcome(""))
          BY <3>3 DEF executeChatNode, execChatEnd
        <4> QED BY <3>0, <4>1
      <3>4. CASE type = "api_call"
        <4>1. r \in {Outcome("http:non2xx"), Outcome("http:2xx"), [Outcome("http:2xx") EXCEPT !.says = TRUE], Failed}
          BY <3>4 DEF executeChatNode, execChatAPICall
        <4> QED BY <4>1
      <3> QED BY <1>4, <3>1, <3>2, <3>3, <3>4
    <2> HIDE DEF plain
    <2>2. /\ {r.yield, r.err, r.says, r.asks, r.uses, r.hands} \subseteq BOOLEAN
          /\ r.retries = "same" /\ r.goto = NoFlow /\ ~r.uses /\ ~r.asks
      BY <1>2, <2>1
    <2> QED BY <1>4, <2>2 DEF NodeYields, Questions
  <1>5. CASE type = "transfer"
    BY <1>5 DEF executeChatNode, execChatTransfer, Outcome, NodeYields, Questions
  <1>6. CASE type = "goto_flow"
    <2> DEFINE f == GotoTarget[b.s.step]
    <2>1. r = IF f \in Flows \ gone THEN [Outcome("goto") EXCEPT !.goto = f] ELSE Outcome("")
      BY <1>6 DEF executeChatNode, execChatGotoFlow
    <2> HIDE DEF f
    <2> QED BY <1>6, <2>1 DEF Outcome, NodeYields, Questions
  <1>7. CASE type = "buttons"
    BY <1>1, <1>7 DEF executeChatNode, execChatButtons, Sends, Failed, Question, Outcome, NodeYields, Questions
  <1>8. CASE type = "whatsapp_flow"
    BY <1>1, <1>8 DEF executeChatNode, execChatWhatsAppFlow, Sends, Failed, Question, Outcome, NodeYields, Questions
  <1>9. CASE type = "prompt"
    <2>1. r \in execChatPrompt(b)
      BY <1>9 DEF executeChatNode
    <2>2. CASE ~b.text \/ b.consumed > 0
      <3>1. r \in Sends(Question)
        BY <2>1, <2>2 DEF execChatPrompt
      <3> QED BY <1>1, <1>9, <2>2, <3>1 DEF Sends, Failed, Question, Outcome, NodeYields, Questions
    <2>3. CASE ~(~b.text \/ b.consumed > 0)
      <3>1. b.text /\ b.consumed = 0
        BY <1>1, <2>3
      <3>2. \/ r = [Outcome("default") EXCEPT !.uses = TRUE, !.retries = "zero"]
            \/ r \in handleChatPromptInvalid(b)
        BY <2>1, <2>3 DEF execChatPrompt
      <3>3. \/ r \in {[Outcome(o) EXCEPT !.uses = TRUE, !.retries = "zero"] : o \in {"default", "max_retries"}}
            \/ /\ b.s.retries + 1 < ChatRetries
               /\ r \in {[q EXCEPT !.uses = TRUE, !.retries = "more"] : q \in Sends([Question EXCEPT !.asks = FALSE])}
        <4> DEFINE enough == b.s.retries + 1 >= ChatRetries
        <4>1. ~enough => b.s.retries + 1 < ChatRetries
          BY <1>1, ChatNumbers
        <4>2. handleChatPromptInvalid(b) =
                IF enough THEN {[Outcome("max_retries") EXCEPT !.uses = TRUE, !.retries = "zero"]}
                ELSE {[q EXCEPT !.uses = TRUE, !.retries = "more"] : q \in Sends([Question EXCEPT !.asks = FALSE])}
          BY DEF handleChatPromptInvalid
        <4> HIDE DEF enough
        <4> QED BY <3>2, <4>1, <4>2
      <3>4. CASE r \in {[Outcome(o) EXCEPT !.uses = TRUE, !.retries = "zero"] : o \in {"default", "max_retries"}}
        BY <3>1, <3>4, <1>9 DEF Outcome, NodeYields, Questions
      <3>5. CASE /\ b.s.retries + 1 < ChatRetries
                 /\ r \in {[q EXCEPT !.uses = TRUE, !.retries = "more"] : q \in Sends([Question EXCEPT !.asks = FALSE])}
        <4>1. PICK q \in Sends([Question EXCEPT !.asks = FALSE]) : r = [q EXCEPT !.uses = TRUE, !.retries = "more"]
          BY <3>5
        <4>2. q \in {[[Question EXCEPT !.asks = FALSE] EXCEPT !.says = TRUE],
                     [[Question EXCEPT !.asks = FALSE] EXCEPT !.says = TRUE, !.asks = FALSE], Failed}
          BY <4>1 DEF Sends
        <4>3. PICK yield, err, says \in BOOLEAN :
                q = [out |-> "", yield |-> yield, err |-> err, says |-> says, asks |-> FALSE, uses |-> FALSE,
                     retries |-> "same", hands |-> FALSE, goto |-> NoFlow]
          BY <4>2 DEF Question, Failed, Outcome
        <4>4. r = [out |-> "", yield |-> yield, err |-> err, says |-> says, asks |-> FALSE, uses |-> TRUE,
                   retries |-> "more", hands |-> FALSE, goto |-> NoFlow]
          BY <4>1, <4>3
        <4> QED BY <1>9, <3>1, <3>5, <4>4 DEF NodeYields, Questions
      <3> QED BY <3>3, <3>4, <3>5
    <2> QED BY <2>2, <2>3
  <1>10. CASE type \notin {"start", "condition", "timing", "set_variable", "webhook", "message", "ai_response",
                          "end", "api_call", "transfer", "goto_flow", "buttons", "whatsapp_flow", "prompt"}
    <2>1. executeChatNode(b) = {Failed}
      BY <1>10 DEF executeChatNode
    <2>2. r \in plain("")
      BY <2>1
    <2> HIDE DEF plain
    <2>3. /\ {r.yield, r.err, r.says, r.asks, r.uses, r.hands} \subseteq BOOLEAN
          /\ r.retries = "same" /\ r.goto = NoFlow /\ ~r.uses /\ ~r.asks
      BY <1>2, <2>2
    <2>4. type \notin Questions
      BY <1>10 DEF Questions
    <2> QED BY <2>3, <2>4 DEF NodeYields
  <1> QED BY <1>3, <1>4, <1>5, <1>6, <1>7, <1>8, <1>9, <1>10

LEMMA AfterInFlow ==
  ASSUME NEW s \in ChatSession, s.step # NoStep, InItsFlow(s), s.status # "none", NEW r,
         r.goto \in Flows \cup {NoFlow}, {r.yield, r.err, r.hands} \subseteq BOOLEAN
  PROVE  /\ After(s, r) \in ChatSession /\ InItsFlow(After(s, r)) /\ After(s, r).step # NoStep
         /\ After(s, r).status # "none"
         /\ r.err \/ r.yield => After(s, r).step = s.step /\ (r.hands => After(s, r).status = "completed")
  <1>1. CASE r.err \/ r.yield
    <2>1. After(s, r) = IF r.hands THEN [s EXCEPT !.status = "completed"] ELSE s
      BY <1>1 DEF After
    <2> QED BY <2>1 DEF ChatSession, InItsFlow
  <1>2. CASE ~(r.err \/ r.yield) /\ r.goto \notin {NoFlow, s.flow}
    <2>1. After(s, r) = [s EXCEPT !.flow = r.goto, !.step = EntryNode[r.goto]]
      BY <1>2 DEF After
    <2>2. r.goto \in Flows /\ EntryNode[r.goto] \in ChatNodes /\ Owner[EntryNode[r.goto]] = r.goto
          /\ NoStep \notin ChatNodes
      BY <1>2, ChatbotAssumption
    <2> QED BY <1>2, <2>1, <2>2 DEF ChatSession, InItsFlow
  <1>3. CASE ~(r.err \/ r.yield) /\ r.goto \in {NoFlow, s.flow}
    <2>1. After(s, r) = Follow(s, r.out)
      BY <1>3 DEF After
    <2> QED BY <1>3, <2>1, FollowsInFlow
  <1> QED BY <1>1, <1>2, <1>3

LEMMA RunNodeKeeps ==
  ASSUME ChatInv, NEW w \in Inbounds, RunNode(w)
  PROVE  ChatInv'
  <1> DEFINE b == bot[w]
  <1>1. PICK r \in executeChatNode(b) :
          LET s == [After(b.s, r) EXCEPT !.retries = Retries(b.s, r)]
          IN /\ bot' = [bot EXCEPT ![w] = [b EXCEPT !.s = s, !.left = Countdown(b.left), !.spoke = b.spoke \/ r.says,
                          !.consumed = b.consumed + IF r.uses THEN 1 ELSE 0,
                          !.pc = IF r.err \/ r.yield \/ s.status = "completed" THEN "save" ELSE "run"]]
             /\ attended' = (attended \/ r.hands)
             /\ asked' = IF r.asks THEN [asked EXCEPT ![b.id] = @ \cup {b.s.step}] ELSE asked
             /\ seen' = [seen EXCEPT !.unasked = @ \/ (r.uses /\ b.s.step \notin asked[b.id]),
                           !.excuse = @ \/ ((r.err \/ r.yield) /\ ~r.hands /\ b.s.step \notin asked'[b.id])]
    BY DEF RunNode
  <1>2. b.pc = "run" /\ b.left > 0 /\ sessions' = sessions /\ gone' = gone
    BY DEF RunNode
  <1>3. /\ GoodRun(b, attended, asked, seen.excuse) /\ b \in BotRow /\ ChatTypeOK
        /\ b.id \in SessionIds /\ b.s \in ChatSession /\ b.s.step \in ChatNodes /\ b.s.step # NoStep
        /\ attended \in BOOLEAN /\ asked \in [SessionIds -> SUBSET ChatNodes]
        /\ seen \in [overlap : BOOLEAN, unasked : BOOLEAN, excuse : BOOLEAN]
    <2>1. GoodRun(b, attended, asked, seen.excuse) /\ b \in BotRow /\ ChatTypeOK
      BY ChatTypes DEF ChatInv, RunsAreGood
    <2> QED BY <2>1, <1>2, ChatTypes DEF GoodRun, BotRow, ChatSession
  <1>4. NodeYields(b, r)
    BY <1>1, <1>2, <1>3, NodeResult DEF GoodRun
  <1>5. {r.yield, r.err, r.says, r.asks, r.uses, r.hands} \subseteq BOOLEAN
    BY <1>4 DEF NodeYields
  <1> DEFINE a == After(b.s, r)
             s == [a EXCEPT !.retries = Retries(b.s, r)]
             pc == IF r.err \/ r.yield \/ s.status = "completed" THEN "save" ELSE "run"
             new == [b EXCEPT !.s = s, !.left = Countdown(b.left), !.spoke = b.spoke \/ r.says,
                              !.consumed = b.consumed + IF r.uses THEN 1 ELSE 0, !.pc = pc]
  <1>6. bot' = [bot EXCEPT ![w] = new]
    BY <1>1
  <1>7. /\ a \in ChatSession /\ InItsFlow(a) /\ a.step # NoStep /\ a.status # "none"
        /\ r.err \/ r.yield => a.step = b.s.step /\ (r.hands => a.status = "completed")
    BY <1>2, <1>3, <1>4, AfterInFlow DEF GoodRun, HasSession, NodeYields
  <1> HIDE DEF a
  <1>8. Retries(b.s, r) \in 0 .. ChatRetries - 1
    BY <1>3, <1>4, ChatNumbers DEF Retries, NodeYields, ChatSession
  <1>9. /\ s \in ChatSession /\ s.step = a.step /\ s.status = a.status /\ s.flow = a.flow
    BY <1>7, <1>8 DEF ChatSession
  <1> HIDE DEF s
  <1>10. InItsFlow(s) /\ s.step # NoStep /\ s.status # "none"
    BY <1>7, <1>9 DEF InItsFlow
  <1>11. b.consumed + (IF r.uses THEN 1 ELSE 0) <= 1 /\ b.consumed + (IF r.uses THEN 1 ELSE 0) \in 0 .. Iterations
    BY <1>3, <1>4, ChatNumbers DEF GoodRun, BotRow, NodeYields
  <1>12. Countdown(b.left) \in 0 .. Iterations
    BY <1>2, <1>3, ChatNumbers DEF Countdown, BotRow
  <1>13. (b.spoke \/ r.says) \in BOOLEAN
    BY <1>5, <1>3 DEF BotRow
  <1>14. pc \in {"save", "run"} /\ pc \in Places
    BY DEF Places
  <1>15. /\ pc = "run" => ~r.err /\ ~r.yield
         /\ pc = "save" => r.err \/ r.yield \/ s.status = "completed"
    OBVIOUS
  <1> HIDE DEF pc
  <1>16. /\ new \in BotRow /\ new.pc = pc /\ new.s = s /\ new.id = b.id /\ new.free = b.free
         /\ new.text = b.text /\ new.button = b.button /\ new.msg = b.msg
         /\ new.consumed = b.consumed + (IF r.uses THEN 1 ELSE 0)
    BY <1>3, <1>9, <1>11, <1>12, <1>13, <1>14 DEF BotRow
  <1> HIDE DEF new
  <1>17. /\ asked' \in [SessionIds -> SUBSET ChatNodes]
         /\ \A i \in SessionIds : asked[i] \subseteq asked'[i]
         /\ \A i \in SessionIds : \A n \in asked'[i] : ChatType[n] \in Questions
    BY <1>1, <1>3, <1>4 DEF NodeYields, ChatInv, QuestionsAsked
  <1> DEFINE leaves == (r.err \/ r.yield) /\ ~r.hands /\ b.s.step \notin asked'[b.id]
             takes == r.uses /\ b.s.step \notin asked[b.id]
  <1>18. seen' = [seen EXCEPT !.unasked = @ \/ takes, !.excuse = @ \/ leaves]
    BY <1>1
  <1>19. leaves \in BOOLEAN /\ takes \in BOOLEAN
    BY <1>5
  <1> HIDE DEF leaves, takes
  <1>20. /\ seen' \in [overlap : BOOLEAN, unasked : BOOLEAN, excuse : BOOLEAN]
         /\ seen'.overlap = seen.overlap
         /\ seen'.unasked <=> seen.unasked \/ takes
         /\ seen'.excuse <=> seen.excuse \/ leaves
    BY <1>3, <1>18, <1>19
  \* A text that was not used yet answers a question that was asked.
  <1>21. b.text /\ b.consumed = 0 => b.s.step \in asked[b.id] \/ seen.excuse
    BY <1>2, <1>3 DEF GoodRun
  <1>22. seen'.unasked => seen'.excuse
    BY <1>4, <1>20, <1>21 DEF takes, NodeYields, ChatInv, AnswersWereAsked
  <1>23. pc = "save" => WaitsAsked(s, b.id, asked', seen'.excuse)
    <2>1. ASSUME r.err \/ r.yield, s.status = "active" PROVE s.step \in asked'[b.id] \/ seen'.excuse
      BY <2>1, <1>7, <1>9, <1>20 DEF leaves
    <2> QED BY <2>1, <1>15 DEF WaitsAsked
  <1>24. pc = "run" /\ b.text /\ new.consumed = 0 => s.step \in asked'[b.id] \/ seen'.excuse
    <2>1. ASSUME pc = "run", b.text, new.consumed = 0 PROVE seen.excuse
      <3>1. b.consumed = 0 /\ ~r.uses
        BY <2>1, <1>3, <1>5, <1>16 DEF BotRow
      <3>2. ChatType[b.s.step] \notin Questions
        BY <2>1, <3>1, <1>4, <1>15 DEF NodeYields
      <3>3. b.s.step \notin asked[b.id]
        BY <3>2, <1>3 DEF ChatInv, QuestionsAsked
      <3> QED BY <2>1, <3>1, <3>3, <1>21
    <2> QED BY <2>1, <1>20
  <1>25. GoodRun(new, attended', asked', seen'.excuse)
    <2>1. b.free /\ (b.button \/ b.msg = "form" => b.text)
      BY <1>2, <1>3 DEF GoodRun
    <2> QED BY <2>1, <1>10, <1>11, <1>14, <1>16, <1>23, <1>24 DEF GoodRun, HasSession
  <1>26. attended' \in BOOLEAN /\ (attended => attended')
    BY <1>1, <1>3, <1>5
  <1>27. ~seen.overlap => LiveSessions \subseteq {new.id}
    BY <1>2, <1>16 DEF ChatInv, OneAtATime, HasSession
  <1> QED BY <1>2, <1>6, <1>14, <1>16, <1>17, <1>20, <1>22, <1>25, <1>26, <1>27, TurnKeeps DEF Busy

\* The run is cut off, or leaves a node that is disabled: whatever comes is excused.
LEMMA CutOffKeeps ==
  ASSUME ChatInv, NEW w \in Inbounds, Runaway(w) \/ SkipNode(w)
  PROVE  ChatInv'
  <1> DEFINE b == bot[w]
  <1>1. /\ GoodRun(b, attended, asked, seen.excuse) /\ b \in BotRow /\ b.s \in ChatSession
        /\ b.left \in 0 .. Iterations /\ b.id \in SessionIds
        /\ attended \in BOOLEAN /\ asked \in [SessionIds -> SUBSET ChatNodes]
        /\ seen \in [overlap : BOOLEAN, unasked : BOOLEAN, excuse : BOOLEAN] /\ QuestionsAsked
    BY ChatTypes DEF ChatInv, RunsAreGood, BotRow
  <1>2. /\ b.pc = "run" /\ UNCHANGED <<sessions, attended, gone, asked>>
        /\ seen' = [seen EXCEPT !.excuse = TRUE]
    BY DEF Runaway, SkipNode
  <1>3. InItsFlow(b.s) /\ b.s.status # "none" /\ b.s.step # NoStep
    BY <1>1, <1>2 DEF GoodRun, HasSession
  <1>4. PICK new : /\ bot' = [bot EXCEPT ![w] = new] /\ new \in BotRow /\ new.pc \in {"run", "save"}
                   /\ new.id = b.id /\ new.free = b.free /\ new.spoke = b.spoke
                   /\ new.text = b.text /\ new.button = b.button /\ new.msg = b.msg
                   /\ new.consumed = b.consumed
                   /\ InItsFlow(new.s) /\ new.s.status # "none" /\ new.s.step # NoStep
    <2>1. CASE Runaway(w)
      <3> DEFINE n == [b EXCEPT !.pc = "save"]
      <3>1. bot' = [bot EXCEPT ![w] = n]
        BY <2>1 DEF Runaway, Goes, At
      <3>2. /\ n \in BotRow /\ n.pc \in {"run", "save"}
            /\ n.id = b.id /\ n.free = b.free /\ n.spoke = b.spoke
            /\ n.text = b.text /\ n.button = b.button /\ n.msg = b.msg
            /\ n.consumed = b.consumed /\ n.s = b.s
        BY <1>1 DEF BotRow, Places
      <3> HIDE DEF n
      <3> QED BY <1>3, <3>1, <3>2
    <2>2. CASE SkipNode(w)
      <3> DEFINE s == Follow(b.s, "default")
                 pc == IF s.status = "completed" THEN "save" ELSE "run"
                 left == Countdown(b.left)
                 n == [b EXCEPT !.s = s, !.left = left, !.pc = pc]
      <3>1. bot' = [bot EXCEPT ![w] = n] /\ b.left > 0
        BY <2>2 DEF SkipNode
      <3>2. s \in ChatSession /\ InItsFlow(s) /\ s.step # NoStep /\ s.status # "none"
        BY <1>1, <1>3, FollowsInFlow
      <3>3. pc \in {"run", "save"} /\ left \in 0 .. Iterations
        BY <1>1, <3>1, ChatNumbers DEF Countdown
      <3> HIDE DEF s, pc, left
      <3>4. /\ n \in BotRow /\ n.pc \in {"run", "save"}
            /\ n.id = b.id /\ n.free = b.free /\ n.spoke = b.spoke
            /\ n.text = b.text /\ n.button = b.button /\ n.msg = b.msg
            /\ n.consumed = b.consumed /\ n.s = s
        BY <1>1, <3>2, <3>3 DEF BotRow, Places
      <3> HIDE DEF n
      <3> QED BY <3>1, <3>2, <3>4
    <2> QED BY <2>1, <2>2
  <1>5. /\ seen' \in [overlap : BOOLEAN, unasked : BOOLEAN, excuse : BOOLEAN]
        /\ seen'.overlap = seen.overlap /\ seen'.excuse = TRUE
    BY <1>1, <1>2
  <1>6. GoodRun(new, attended', asked', seen'.excuse)
    BY <1>1, <1>2, <1>4, <1>5 DEF GoodRun, HasSession, WaitsAsked
  <1>7. ~seen.overlap => LiveSessions \subseteq {new.id}
    BY <1>2, <1>4 DEF ChatInv, OneAtATime, HasSession
  <1> QED BY <1>1, <1>2, <1>4, <1>5, <1>6, <1>7, TurnKeeps DEF Busy, QuestionsAsked

\* The words that trigger a flow are no input to it; a session that is in one stands at a node.
LEMMA EnterKeeps ==
  ASSUME ChatInv, NEW w \in Inbounds, ResumeFlow(w) \/ \E f \in Flows : StartFlow(w, f)
  PROVE  ChatInv'
  <1> DEFINE b == bot[w]
  <1>1. /\ GoodRun(b, attended, asked, seen.excuse) /\ b \in BotRow /\ b.s \in ChatSession
    BY ChatTypes DEF ChatInv, RunsAreGood, BotRow
  <1>2. b.pc = "route" /\ UNCHANGED <<sessions, attended, gone, asked, seen>>
    BY DEF ResumeFlow, StartFlow
  <1>3. /\ InItsFlow(b.s) /\ b.s.status = "active" /\ b.free /\ b.consumed <= 1 /\ (b.spoke => b.free)
        /\ b.button \/ b.msg = "form" => b.text
        /\ WaitsAsked(b.s, b.id, asked, seen.excuse)
    BY <1>1, <1>2 DEF GoodRun, HasSession
  <1>4. ~seen.overlap => LiveSessions \subseteq {b.id}
    BY <1>2 DEF ChatInv, OneAtATime, HasSession
  <1>5. CASE ResumeFlow(w)
    <2>1. b.s.flow \in Flows /\ NoFlow \notin Flows
      BY <1>5, ChatbotAssumption DEF ResumeFlow
    <2>2. b.s.step # NoStep
      BY <1>3, <2>1 DEF InItsFlow
    <2> DEFINE new == [b EXCEPT !.pc = "run"]
    <2>3. bot' = [bot EXCEPT ![w] = new]
      BY <1>5, <2>2 DEF ResumeFlow, Begin
    <2>4. /\ new \in BotRow /\ new.pc = "run" /\ new.s = b.s /\ new.id = b.id /\ new.free = b.free
          /\ new.text = b.text /\ new.button = b.button /\ new.msg = b.msg
          /\ new.consumed = b.consumed /\ new.spoke = b.spoke
      BY <1>1 DEF BotRow, Places
    <2> HIDE DEF new
    <2>5. GoodRun(new, attended, asked, seen.excuse)
      BY <1>3, <2>2, <2>4 DEF GoodRun, HasSession, WaitsAsked
    <2> QED BY <1>2, <1>4, <2>3, <2>4, <2>5, MoveKeeps DEF Busy
  <1>6. ASSUME NEW f \in Flows, StartFlow(w, f)
        PROVE  ChatInv'
    <2> DEFINE out == [b.s EXCEPT !.flow = f, !.step = NoStep, !.retries = 0]
               c == [b EXCEPT !.s = out]
               s == [out EXCEPT !.step = EntryNode[f]]
               new == [c EXCEPT !.pc = "run", !.s = s, !.text = FALSE, !.button = FALSE]
    <2>a. out.step = NoStep /\ out.flow = f /\ out.status = b.s.status /\ out \in ChatSession
      <3>1. 0 \in 0 .. ChatRetries - 1
        BY ChatNumbers
      <3> QED BY <1>1, <3>1 DEF ChatSession
    <2>b. c.s = out /\ c \in BotRow
      BY <1>1, <2>a DEF BotRow
    <2>1. b.msg = "trigger" /\ bot' = [bot EXCEPT ![w] = new]
      <3>0. [b EXCEPT !.s.flow = f, !.s.step = NoStep, !.s.retries = 0] = c
        BY <1>1 DEF BotRow, ChatSession
      <3>1. b.msg = "trigger" /\ bot' = [bot EXCEPT ![w] = Begin(c)]
        BY <1>6, <3>0 DEF StartFlow
      <3> HIDE DEF c, out
      <3>2. Begin(c) = [c EXCEPT !.pc = "run", !.s.step = EntryNode[c.s.flow], !.text = FALSE, !.button = FALSE]
        BY <2>a, <2>b DEF Begin
      <3>3. Begin(c) = new
        BY <2>a, <2>b, <3>2
      <3> QED BY <3>1, <3>3
    <2>2. EntryNode[f] \in ChatNodes /\ Owner[EntryNode[f]] = f /\ NoStep \notin ChatNodes
      BY ChatbotAssumption
    <2>3. /\ s \in ChatSession /\ s.status = b.s.status /\ s.flow = f /\ s.step = EntryNode[f]
      <3> HIDE DEF out
      <3> QED BY <2>a, <2>2 DEF ChatSession
    <2> HIDE DEF s
    <2>4. /\ new \in BotRow /\ new.pc = "run" /\ new.s = s /\ new.id = b.id /\ new.free = b.free
          /\ new.text = FALSE /\ new.button = FALSE /\ new.msg = b.msg
          /\ new.consumed = b.consumed /\ new.spoke = b.spoke
      BY <1>1, <2>3 DEF BotRow, Places
    <2> HIDE DEF new
    <2>5. InItsFlow(s) /\ s.step # NoStep
      BY <2>2, <2>3 DEF InItsFlow
    <2>6. GoodRun(new, attended, asked, seen.excuse)
      BY <1>3, <2>1, <2>3, <2>4, <2>5 DEF GoodRun, HasSession
    <2> QED BY <1>2, <1>4, <2>1, <2>4, <2>6, MoveKeeps DEF Busy
  <1> QED BY <1>5, <1>6

\* A message arrives.
LEMMA ReceiveKeeps ==
  ASSUME ChatInv, NEW w \in Inbounds, NEW m \in Messages, Receive(w, m)
  PROVE  ChatInv'
  <1> DEFINE b == bot[w]
             other == \E v \in Inbounds : Busy(v)
             new == [b EXCEPT !.pc = "check", !.msg = m, !.free = ~attended,
                              !.text = m # "empty", !.button = (m = "button")]
  <1>1. /\ GoodRun(b, attended, asked, seen.excuse) /\ b \in BotRow /\ bot \in [Inbounds -> BotRow]
        /\ attended \in BOOLEAN /\ seen \in [overlap : BOOLEAN, unasked : BOOLEAN, excuse : BOOLEAN]
    BY ChatTypes DEF ChatInv, RunsAreGood
  <1>2. /\ b.pc = "new" /\ UNCHANGED <<sessions, attended, gone, asked>>
        /\ bot' = [bot EXCEPT ![w] = new] /\ seen' = [seen EXCEPT !.overlap = @ \/ other]
    BY DEF Receive
  <1>3. other \in BOOLEAN
    OBVIOUS
  <1>4. /\ new \in BotRow /\ new.pc = "check" /\ new.msg = m /\ new.free = ~attended
        /\ new.text = (m # "empty") /\ new.button = (m = "button")
        /\ new.consumed = b.consumed /\ new.spoke = b.spoke
    BY <1>1 DEF BotRow, Places
  <1> HIDE DEF new
  <1>5. /\ seen' \in [overlap : BOOLEAN, unasked : BOOLEAN, excuse : BOOLEAN]
        /\ seen'.excuse = seen.excuse /\ seen'.unasked = seen.unasked
        /\ seen'.overlap <=> seen.overlap \/ other
    <2> HIDE DEF other
    <2> QED BY <1>1, <1>2, <1>3
  <1>6. GoodRun(new, attended, asked, seen.excuse)
    BY <1>1, <1>2, <1>4 DEF GoodRun, HasSession
  <1>7. bot'[w] = new /\ \A v \in Inbounds : v # w => bot'[v] = bot[v]
    BY <1>1, <1>2
  <1>8. ChatTypeOK'
    <2>1. bot' \in [Inbounds -> BotRow]
      BY <1>1, <1>2, <1>4
    <2> QED BY <1>2, <1>5, <2>1 DEF ChatInv, ChatTypeOK, BotRow, Places
  <1>9. RunsAreGood'
    <2>1. \A v \in Inbounds : GoodRun(bot'[v], attended, asked, seen.excuse)
      BY <1>6, <1>7 DEF ChatInv, RunsAreGood
    <2> QED BY <1>2, <1>5, <2>1 DEF RunsAreGood
  <1>10. SessionsAreGood'
    <2>1. SessionsAreGood
      BY DEF ChatInv
    <2> QED BY <1>2, <1>5, <2>1 DEF SessionsAreGood
  <1>11. QuestionsAsked' /\ AnswersWereAsked' /\ UnusedIsBlank'
    BY <1>2, <1>5 DEF ChatInv, QuestionsAsked, AnswersWereAsked, UnusedIsBlank
  <1>12. OneAtATime'
    <2>1. LiveSessions' = LiveSessions
      BY <1>2 DEF LiveSessions
    <2>2. ASSUME ~seen'.overlap
          PROVE  /\ \A v \in Inbounds : bot'[v].pc \notin {"new", "done"} => v = w
                 /\ \A i, j \in LiveSessions : i = j
      BY <2>2, <1>5, <1>7 DEF ChatInv, OneAtATime, Busy
    <2>3. ASSUME ~seen'.overlap, NEW v \in Inbounds
          PROVE  bot'[v].pc # "create" /\ bot'[v].pc \notin HasSession
      BY <2>2, <2>3, <1>4, <1>7 DEF HasSession
    <2> QED BY <2>1, <2>2, <2>3 DEF OneAtATime, Busy
  <1> QED BY <1>8, <1>9, <1>10, <1>11, <1>12 DEF ChatInv

\* What happens around the conversation.
LEMMA AroundKeeps ==
  ASSUME ChatInv, \/ \E i \in SessionIds : TimeOut(i)
                  \/ AttendanceCloses
                  \/ \E x \in Editable : EditFlow(x)
  PROVE  ChatInv'
  <1>1. /\ bot \in [Inbounds -> BotRow] /\ attended \in BOOLEAN
        /\ sessions \in [SessionIds -> ChatSession]
    BY ChatTypes DEF ChatInv
  <1>2. ASSUME NEW i \in SessionIds, TimeOut(i) PROVE ChatInv'
    <2> DEFINE row == [sessions[i] EXCEPT !.timedOut = TRUE]
    <2>1. /\ sessions' = [sessions EXCEPT ![i] = row] /\ UNCHANGED <<attended, gone, bot, asked, seen>>
          /\ sessions[i].status = "active" /\ \A w \in Inbounds : ~Busy(w)
      BY <1>2 DEF TimeOut
    <2>2. /\ row \in ChatSession /\ row.status = sessions[i].status /\ row.flow = sessions[i].flow
          /\ row.step = sessions[i].step /\ row.timedOut = TRUE
      BY <1>1 DEF ChatSession
    <2> HIDE DEF row
    <2>3. /\ sessions'[i] = row /\ \A j \in SessionIds : j # i => sessions'[j] = sessions[j]
          /\ sessions' \in [SessionIds -> ChatSession]
      BY <1>1, <2>1, <2>2
    <2>4. ChatTypeOK' /\ RunsAreGood' /\ QuestionsAsked' /\ AnswersWereAsked'
      BY <2>1, <2>3 DEF ChatInv, ChatTypeOK, RunsAreGood, QuestionsAsked, AnswersWereAsked
    <2>5. SessionsAreGood'
      <3>1. \A j \in SessionIds : InItsFlow(sessions'[j]) /\ WaitsAsked(sessions'[j], j, asked, seen.excuse)
        BY <2>2, <2>3 DEF ChatInv, SessionsAreGood, InItsFlow, WaitsAsked
      <3> QED BY <2>1, <3>1 DEF SessionsAreGood
    <2>6. UnusedIsBlank'
      BY <2>1, <2>2, <2>3 DEF ChatInv, UnusedIsBlank
    <2>7. LiveSessions' \subseteq LiveSessions
      BY <2>2, <2>3 DEF LiveSessions
    <2>8. OneAtATime'
      BY <2>1, <2>7 DEF ChatInv, OneAtATime, Busy
    <2> QED BY <2>4, <2>5, <2>6, <2>8 DEF ChatInv
  <1>3. CASE AttendanceCloses
    <2>1. UNCHANGED <<sessions, gone, asked, seen>> /\ attended' = FALSE
      BY <1>3 DEF AttendanceCloses
    <2>2. ASSUME NEW w \in Inbounds
          PROVE  /\ bot'[w] \in BotRow /\ bot'[w].pc = bot[w].pc /\ bot'[w].id = bot[w].id
                 /\ GoodRun(bot'[w], FALSE, asked, seen.excuse)
      <3>1. GoodRun(bot[w], attended, asked, seen.excuse)
        BY DEF ChatInv, RunsAreGood
      <3>2. CASE Busy(w)
        <4> DEFINE new == [bot[w] EXCEPT !.free = TRUE]
        <4>1. bot'[w] = new
          BY <1>3, <3>2 DEF AttendanceCloses
        <4>2. /\ new \in BotRow /\ new.pc = bot[w].pc /\ new.s = bot[w].s /\ new.id = bot[w].id
              /\ new.free = TRUE /\ new.text = bot[w].text /\ new.button = bot[w].button
              /\ new.msg = bot[w].msg /\ new.consumed = bot[w].consumed /\ new.spoke = bot[w].spoke
          BY <1>1 DEF BotRow
        <4> HIDE DEF new
        <4>3. GoodRun(new, FALSE, asked, seen.excuse)
          BY <3>1, <4>2 DEF GoodRun
        <4> QED BY <4>1, <4>2, <4>3
      <3>3. CASE ~Busy(w)
        <4>1. bot'[w] = bot[w] /\ bot[w].pc \in {"new", "done"}
          BY <1>3, <3>3 DEF AttendanceCloses, Busy
        <4>2. GoodRun(bot[w], FALSE, asked, seen.excuse)
          BY <3>1, <4>1 DEF GoodRun
        <4> QED BY <4>1, <4>2, <1>1
      <3> QED BY <3>2, <3>3
    <2>3. ChatTypeOK'
      <3>1. bot' = [w \in Inbounds |-> bot'[w]]
        BY <1>3 DEF AttendanceCloses
      <3>2. bot' \in [Inbounds -> BotRow]
        BY <3>1, <2>2
      <3> QED BY <2>1, <3>2 DEF ChatInv, ChatTypeOK, BotRow, Places
    <2>4. RunsAreGood'
      BY <2>1, <2>2 DEF RunsAreGood
    <2>5. SessionsAreGood' /\ QuestionsAsked' /\ AnswersWereAsked' /\ UnusedIsBlank'
      BY <2>1 DEF ChatInv, SessionsAreGood, QuestionsAsked, AnswersWereAsked, UnusedIsBlank
    <2>6. OneAtATime'
      <3>1. LiveSessions' = LiveSessions
        BY <2>1 DEF LiveSessions
      <3> QED BY <2>1, <2>2, <3>1 DEF ChatInv, OneAtATime, Busy
    <2> QED BY <2>3, <2>4, <2>5, <2>6 DEF ChatInv
  <1>4. ASSUME NEW x \in Editable, EditFlow(x) PROVE ChatInv'
    <2>1. UNCHANGED <<sessions, attended, bot, asked, seen>> /\ gone' \subseteq Flows \cup ChatNodes
      BY <1>4, ChatbotAssumption DEF EditFlow
    <2>2. ChatTypeOK'
      BY <2>1 DEF ChatInv, ChatTypeOK
    <2>3. LiveSessions' = LiveSessions
      BY <2>1 DEF LiveSessions
    <2>4. OneAtATime'
      BY <2>1, <2>3 DEF ChatInv, OneAtATime, Busy
    <2> QED BY <2>1, <2>2, <2>4
        DEF ChatInv, RunsAreGood, SessionsAreGood, QuestionsAsked, AnswersWereAsked, UnusedIsBlank
  <1> QED BY <1>2, <1>3, <1>4

LEMMA ChatStays ==
  ASSUME ChatInv, UNCHANGED chatVars
  PROVE  ChatInv'
  <1>1. LiveSessions' = LiveSessions
    BY DEF LiveSessions, chatVars
  <1> QED BY <1>1 DEF ChatInv, ChatTypeOK, RunsAreGood, SessionsAreGood, QuestionsAsked, AnswersWereAsked,
                      UnusedIsBlank, OneAtATime, Busy, chatVars

LEMMA ChatInvInit == ChatInit => ChatInv
  <1> SUFFICES ASSUME ChatInit PROVE ChatInv
    OBVIOUS
  <1>1. NoSession \in ChatSession /\ NoSession.status = "none" /\ NoSession.step = NoStep
    BY ChatNumbers DEF NoSession, ChatSession
  <1>2. ASSUME NEW w \in Inbounds
        PROVE  bot[w] \in BotRow /\ bot[w].pc = "new" /\ bot[w].consumed = 0 /\ bot[w].spoke = FALSE
    <2>1. 1 \in SessionIds
      BY ChatNumbers DEF Inbounds, SessionIds
    <2>2. NewRun \in BotRow
      BY <1>1, <2>1, ChatNumbers DEF NewRun, BotRow, Places, Messages
    <2>3. bot[w] = NewRun
      BY DEF ChatInit
    <2> QED BY <2>2, <2>3 DEF NewRun
  <1>3. ChatTypeOK
    <2>1. bot \in [Inbounds -> BotRow]
      BY <1>2 DEF ChatInit
    <2>2. sessions \in [SessionIds -> ChatSession]
      BY <1>1 DEF ChatInit
    <2> QED BY <2>1, <2>2 DEF ChatInit, ChatTypeOK, BotRow, Places
  <1>4. RunsAreGood
    <2>1. ASSUME NEW b \in BotRow, b.pc = "new", b.consumed <= 1, ~b.spoke
          PROVE  GoodRun(b, attended, asked, seen.excuse)
      BY <2>1 DEF GoodRun, HasSession
    <2>2. 0 <= 1
      OBVIOUS
    <2> QED BY <1>2, <2>1, <2>2 DEF RunsAreGood
  <1>5. SessionsAreGood /\ UnusedIsBlank /\ LiveSessions = {}
    BY <1>1 DEF ChatInit, SessionsAreGood, InItsFlow, WaitsAsked, UnusedIsBlank, LiveSessions
  <1>6. QuestionsAsked /\ AnswersWereAsked
    BY DEF ChatInit, QuestionsAsked, AnswersWereAsked
  <1>7. OneAtATime
    BY <1>2, <1>5 DEF OneAtATime, Busy
  <1> QED BY <1>3, <1>4, <1>5, <1>6, <1>7 DEF ChatInv

\* However the messages of a customer overlap, and whatever is edited and closed meanwhile: an
\* answer is used once, for a question that was asked, in the flow of the session
\* (runChatGraph, persistChatSession on a copy), and the bot is silent while an agent attends.
THEOREM ConversationStaysConsistent == ChatSpec => []ConversationConsistent
  <1>1. ChatInv => ConversationConsistent
    <2> SUFFICES ASSUME ChatInv PROVE ConversationConsistent
      OBVIOUS
    <2>1. ChatTypeOK /\ AnswersWereAsked
      BY DEF ChatInv
    <2>2. InputUsedOnce /\ SilentWhileAttended
      BY DEF ChatInv, RunsAreGood, GoodRun, InputUsedOnce, SilentWhileAttended
    <2>3. StepInFlow
      BY DEF ChatInv, SessionsAreGood, InItsFlow, StepInFlow
    <2>4. OneLiveSession
      <3>1. ASSUME ~seen.overlap PROVE Cardinality(LiveSessions) <= 1
        <4>1. \A i, j \in LiveSessions : i = j
          BY <3>1 DEF ChatInv, OneAtATime
        <4>2. CASE LiveSessions = {}
          BY <4>2, FS_EmptySet
        <4>3. ASSUME NEW i \in LiveSessions PROVE Cardinality(LiveSessions) <= 1
          <5>1. LiveSessions = {i}
            BY <4>1, <4>3
          <5> QED BY <5>1, FS_Singleton
        <4> QED BY <4>2, <4>3
      <3>2. IsFiniteSet(LiveSessions)
        <4>1. IsFiniteSet(SessionIds)
          BY FS_Interval, ChatNumbers DEF SessionIds
        <4> QED BY <4>1, FS_Subset DEF LiveSessions
      <3>3. Cardinality(LiveSessions) \in Nat
        BY <3>2, FS_CardinalityType
      <3> QED BY <3>1, <3>3 DEF OneLiveSession
    <2> QED BY <2>1, <2>2, <2>3, <2>4 DEF ConversationConsistent
  <1>2. ChatInv /\ [ChatNext]_chatVars => ChatInv'
    <2> SUFFICES ASSUME ChatInv, [ChatNext]_chatVars PROVE ChatInv'
      OBVIOUS
    <2>1. ASSUME NEW w \in Inbounds, HandleInbound(w) PROVE ChatInv'
      BY <2>1, EarlyKeeps, RouteKeeps, EnterKeeps, CutOffKeeps, RunNodeKeeps DEF HandleInbound
    <2> QED BY <2>1, ReceiveKeeps, AroundKeeps, ChatStays DEF ChatNext
  <1> QED BY <1>1, <1>2, ChatInvInit, PTL DEF ChatSpec

-------------------------------------------------------------------------------
(* Presence: the inductive invariant *)

\* The listener has heard of every reconnection of the agent, and the map has an entry.
Clocked(a) == notices[a][TRUE] = 0 /\ disconnected[a] # None

\* The sweep that is running has not looked at the agent yet, or will forget them.
Ahead(a) ==
    \/ sweep.pc = "list"
    \/ sweep.pc \in {"loop", "clock", "recheck", "return"} /\ (a \in sweep.todo \/ a \notin sweep.live)
    \/ sweep.pc = "forget" /\ a \notin sweep.live

\* A connected agent is not absent.
PresentIsNotAbsent == \A a \in Users : Online(a) => absent[a] = 0

\* Connected or not, a clock is at most one interval ahead,
AlmostTrue == \A a \in Users : Clocked(a) => disconnected[a] <= absent[a] + 1

\* and that of an agent who is connected is one ahead only until the sweep meets it: one that
\* ReadClock started late is cleared by the next sweep.
ClearedInTime == \A a \in Users : (Clocked(a) /\ Online(a) /\ ~Ahead(a)) => disconnected[a] = 0

\* The sweep is about some agent between Consider and the end of the loop's body.
SweepsSomeone == sweep.pc \in {"clock", "recheck", "return"} => sweep.agent \in Users

ReaperInv == ReaperTypeOK /\ PresentIsNotAbsent /\ AlmostTrue /\ ClearedInTime /\ SweepsSomeone

-------------------------------------------------------------------------------
(* Presence: types *)

LEMMA OlderAge ==
  ASSUME NEW age \in Ages \cup {None}
  PROVE  /\ Older(age) \in Ages \cup {None}
         /\ age \in Ages => Older(age) \in Ages
         /\ age = None <=> Older(age) = None
  <1>1. CASE age = None
    BY <1>1, PresenceAssumption DEF Older, Ages
  <1>2. CASE age = Grace
    BY <1>2, PresenceAssumption DEF Older, Ages
  <1>3. CASE age # None /\ age # Grace
    <2>1. age \in 0..Grace /\ Older(age) = age + 1
      BY <1>3 DEF Older, Ages
    <2>2. age + 1 \in 0..Grace
      BY <1>3, <2>1, PresenceAssumption
    <2> QED BY <2>1, <2>2, <1>3, PresenceAssumption DEF Ages
  <1> QED BY <1>1, <1>2, <1>3

LEMMA NotifyType ==
  ASSUME HubTypeOK, NEW a \in Users, NEW online \in BOOLEAN, Notify(a, online)
  PROVE  notices' \in [Users -> [BOOLEAN -> 0..MaxNotices]]
  <1>1. notices[a][online] + 1 \in 0..MaxNotices
    BY HubAssumption DEF Notify, HubTypeOK
  <1> QED BY <1>1 DEF Notify, HubTypeOK

LEMMA DeliverType ==
  ASSUME HubTypeOK, NEW a \in Users, NEW online \in BOOLEAN, Deliver(a, online)
  PROVE  notices' \in [Users -> [BOOLEAN -> 0..MaxNotices]]
  <1>1. notices[a][online] - 1 \in 0..MaxNotices
    BY HubAssumption DEF Deliver, HubTypeOK
  <1> QED BY <1>1 DEF Deliver, HubTypeOK

LEMMA HubType ==
  ASSUME HubTypeOK, NEW a \in Users, NEW tab \in Tabs, Register(a, tab) \/ Unregister(a, tab)
  PROVE  HubTypeOK'
  BY NotifyType DEF Register, Unregister, HubTypeOK

LEMMA ReaperTypeStep ==
  ASSUME ReaperTypeOK, SweepsSomeone, ReaperNext
  PROVE  ReaperTypeOK'
  <1> USE PresenceAssumption DEF ReaperTypeOK
  <1>1. ASSUME NEW a \in Users, NEW tab \in Tabs, OpenTab(a, tab) \/ CloseTab(a, tab)
        PROVE  ReaperTypeOK'
    BY <1>1, HubType DEF OpenTab, CloseTab, Ages
  <1>2. ASSUME NEW a \in Users, Choose(a) \/ Assign(a) \/ CloseLast(a)
        PROVE  ReaperTypeOK'
    BY <1>2 DEF Choose, Assign, CloseLast, HubTypeOK
  <1>3. ASSUME NEW a \in Users, NEW online \in BOOLEAN, OnPresenceChange(a, online)
        PROVE  ReaperTypeOK'
    BY <1>3, DeliverType DEF OnPresenceChange, HubTypeOK, Heard, Ages
  <1>4. CASE NextSweep
    BY <1>4, OlderAge DEF NextSweep, HubTypeOK, Ages
  <1>5. CASE Sweep
    <2> USE DEF HubTypeOK, SweepsSomeone
    <2>1. CASE ListAssigned BY <2>1 DEF ListAssigned
    <2>2. CASE ReadClock
      <3>1. sweep.agent \in Users
        BY <2>2 DEF ReadClock
      <3>2. disconnected' \in [Users -> Ages \cup {None}]
        BY <2>2, <3>1 DEF ReadClock, Ages
      <3>3. \/ sweep' = [sweep EXCEPT !.pc = "recheck"]
            \/ sweep' = [sweep EXCEPT !.pc = "loop", !.agent = None]
        BY <2>2 DEF ReadClock
      <3> QED BY <2>2, <3>2, <3>3 DEF ReadClock
    <2>3. CASE Recheck BY <2>3 DEF Recheck
    <2>4. CASE ReturnTransfers BY <2>4 DEF ReturnTransfers
    <2>5. CASE EndLoop BY <2>5 DEF EndLoop
    <2>6. CASE Forget BY <2>6 DEF Forget, NoSweep
    <2>7. ASSUME NEW a \in Users, Consider(a) PROVE ReaperTypeOK'
      <3>1. CASE Online(a)
        <4>1. sweep' = [sweep EXCEPT !.todo = @ \ {a}] /\ disconnected' \in [Users -> Ages \cup {None}]
          BY <2>7, <3>1 DEF Consider
        <4>2. sweep.todo \ {a} \in SUBSET Users
          OBVIOUS
        <4> QED BY <2>7, <4>1, <4>2 DEF Consider
      <3>2. CASE ~Online(a)
        <4>1. sweep' = [sweep EXCEPT !.pc = "clock", !.agent = a, !.todo = @ \ {a}]
              /\ disconnected' = disconnected
          BY <2>7, <3>2 DEF Consider
        <4>2. sweep.todo \ {a} \in SUBSET Users
          OBVIOUS
        <4> QED BY <2>7, <4>1, <4>2 DEF Consider
      <3> QED BY <3>1, <3>2
    <2> QED BY <1>5, <2>1, <2>2, <2>3, <2>4, <2>5, <2>6, <2>7 DEF Sweep
  <1>6. CASE Restart
    BY <1>6, HubAssumption DEF Restart, HubTypeOK, NoSweep
  <1> QED BY <1>1, <1>2, <1>3, <1>4, <1>5, <1>6 DEF ReaperNext

-------------------------------------------------------------------------------
(* Presence: effect on the clocks *)

\* A notification that is started or delivered leaves those of other agents.
LEMMA NoticesOf ==
  ASSUME HubTypeOK, NEW a \in Users, NEW b \in Users, NEW online \in BOOLEAN
  PROVE  /\ Notify(b, online) => notices'[a][TRUE] =
                IF a = b /\ online = TRUE THEN notices[a][TRUE] + 1 ELSE notices[a][TRUE]
         /\ Deliver(b, online) => notices'[a][TRUE] =
                IF a = b /\ online = TRUE THEN notices[a][TRUE] - 1 ELSE notices[a][TRUE]
  <1>1. notices[b] \in [BOOLEAN -> 0..MaxNotices] /\ notices[a] \in [BOOLEAN -> 0..MaxNotices]
    BY DEF HubTypeOK
  <1>2. ASSUME NEW n, notices' = [notices EXCEPT ![b][online] = n]
        PROVE  notices'[a][TRUE] = IF a = b /\ online = TRUE THEN n ELSE notices[a][TRUE]
    <2>1. notices' = [notices EXCEPT ![b] = [notices[b] EXCEPT ![online] = n]]
      BY <1>2
    <2>2. notices'[a] = IF a = b THEN [notices[b] EXCEPT ![online] = n] ELSE notices[a]
      BY <2>1 DEF HubTypeOK
    <2> QED BY <1>1, <2>2
  <1>3. CASE Notify(b, online)
    BY <1>2, <1>3 DEF Notify, Deliver
  <1> QED BY <1>2 DEF Notify, Deliver

\* What the invariant says of one agent.
GoodClock(a) ==
    /\ Online(a) => absent[a] = 0
    /\ Clocked(a) => disconnected[a] <= absent[a] + 1
    /\ (Clocked(a) /\ Online(a) /\ ~Ahead(a)) => disconnected[a] = 0

LEMMA OpenTabClock ==
  ASSUME ReaperTypeOK, NEW a \in Users, GoodClock(a), NEW b \in Users, NEW tab \in Tabs,
         OpenTab(b, tab)
  PROVE  GoodClock(a)'
  <1>1. disconnected' = disconnected /\ sweep' = sweep
    BY DEF OpenTab
  <1>2. a # b => tabs'[a] = tabs[a] /\ absent'[a] = absent[a] /\ notices'[a][TRUE] = notices[a][TRUE]
    BY NoticesOf DEF OpenTab, Register, ReaperTypeOK, HubTypeOK
  <1>3. CASE a # b
    BY <1>1, <1>2, <1>3 DEF GoodClock, Clocked, Ahead, Online
  <1>4. CASE a = b
    <2>1. absent'[a] = 0 /\ absent[a] \in Nat
      BY <1>4, PresenceAssumption DEF OpenTab, ReaperTypeOK, Ages
    <2>2. CASE tabs[a] = {}
      <3>1. Notify(a, TRUE)
        BY <1>4, <2>2 DEF OpenTab, Register
      <3>2. notices'[a][TRUE] = notices[a][TRUE] + 1
        BY <3>1, NoticesOf DEF ReaperTypeOK
      <3>3. notices[a][TRUE] \in Nat
        <4>1. notices[a] \in [BOOLEAN -> 0..MaxNotices]
          BY DEF ReaperTypeOK, HubTypeOK
        <4>2. \A n \in 0..MaxNotices : n \in Nat
          OBVIOUS
        <4> QED BY <4>1, <4>2, Zenon
      <3>4. notices'[a][TRUE] # 0
        <4>1. \A n \in Nat : n + 1 # 0
          OBVIOUS
        <4> QED BY <3>2, <3>3, <4>1, Zenon
      <3> QED BY <2>1, <3>4 DEF GoodClock, Clocked
    <2>3. CASE tabs[a] # {}
      BY <1>1, <1>4, <2>1, <2>3 DEF GoodClock, Clocked, Ahead, Online, OpenTab, Register
    <2> QED BY <2>2, <2>3
  <1> QED BY <1>3, <1>4

LEMMA CloseTabClock ==
  ASSUME ReaperTypeOK, NEW a \in Users, GoodClock(a), NEW b \in Users, NEW tab \in Tabs,
         CloseTab(b, tab)
  PROVE  GoodClock(a)'
  <1>1. disconnected' = disconnected /\ sweep' = sweep /\ absent' = absent
    BY DEF CloseTab
  <1>2. notices'[a][TRUE] = notices[a][TRUE]
    BY NoticesOf DEF CloseTab, Unregister, ReaperTypeOK, HubTypeOK
  <1>3. Online(a)' => Online(a)
    BY DEF CloseTab, Unregister, Online, ReaperTypeOK, HubTypeOK
  <1> QED BY <1>1, <1>2, <1>3 DEF GoodClock, Clocked, Ahead

\* Delivering "online" clears the entry; delivering "offline" leaves it or starts it.
LEMMA ListenerClock ==
  ASSUME ReaperTypeOK, NEW a \in Users, GoodClock(a), NEW b \in Users, NEW online \in BOOLEAN,
         OnPresenceChange(b, online)
  PROVE  GoodClock(a)'
  <1>1. tabs' = tabs /\ sweep' = sweep /\ absent' = absent
    BY DEF OnPresenceChange
  <1>2. absent[a] \in Nat
    BY PresenceAssumption DEF ReaperTypeOK, Ages
  <1>3. CASE a # b
    <2>1. disconnected'[a] = disconnected[a] /\ notices'[a][TRUE] = notices[a][TRUE]
      BY <1>3, NoticesOf DEF OnPresenceChange, ReaperTypeOK
    <2> QED BY <1>1, <2>1 DEF GoodClock, Clocked, Ahead, Online
  <1>4. CASE a = b
    <2>1. disconnected'[a] = Heard(a, online)
      BY <1>4 DEF OnPresenceChange, ReaperTypeOK
    <2>2. CASE online = TRUE
      BY <1>1, <2>1, <2>2 DEF GoodClock, Clocked, Ahead, Online, Heard
    <2>3. CASE online = FALSE
      <3>1. notices'[a][TRUE] = notices[a][TRUE]
        BY <1>4, <2>3, NoticesOf DEF OnPresenceChange, ReaperTypeOK
      <3>2. CASE disconnected[a] = None /\ ~Online(a)
        <4>1. disconnected'[a] = 0 /\ ~Online(a)'
          BY <1>1, <2>1, <2>3, <3>2 DEF Heard, Online
        <4>2. 0 <= absent'[a] + 1
          BY <1>1, <1>2
        <4> QED BY <4>1, <4>2 DEF GoodClock
      <3>3. CASE ~(disconnected[a] = None /\ ~Online(a))
        <4>1. disconnected'[a] = disconnected[a]
          BY <2>1, <2>3, <3>3 DEF Heard
        <4> QED BY <1>1, <3>1, <4>1 DEF GoodClock, Clocked, Ahead, Online
      <3> QED BY <3>2, <3>3
    <2> QED BY <2>2, <2>3
  <1> QED BY <1>3, <1>4

LEMMA NextSweepClock ==
  ASSUME ReaperTypeOK, NEW a \in Users, GoodClock(a), NextSweep
  PROVE  GoodClock(a)'
  <1>1. /\ tabs' = tabs /\ notices' = notices /\ sweep'.pc = "list"
        /\ disconnected'[a] = Older(disconnected[a])
        /\ absent'[a] = IF Online(a) THEN 0 ELSE Older(absent[a])
    BY DEF NextSweep, ReaperTypeOK
  <1>2. ~Ahead(a)
    BY DEF NextSweep, Ahead
  <1>3. absent[a] \in 0..Grace /\ disconnected[a] \in 0..Grace \cup {None}
    BY DEF ReaperTypeOK, Ages
  <1>4. Ahead(a)'
    BY <1>1 DEF Ahead
  <1>5. (Online(a) => absent[a] = 0)'
    BY <1>1 DEF Online
  <1>6. ASSUME Clocked(a)' PROVE disconnected'[a] <= absent'[a] + 1
    <2>1. Clocked(a) /\ disconnected[a] \in 0..Grace /\ absent[a] # None
      BY <1>1, <1>3, <1>6, PresenceAssumption DEF Clocked, Older
    <2>2. disconnected'[a] <= disconnected[a] + 1 /\ disconnected'[a] \in 0..Grace
      BY <1>1, <2>1, PresenceAssumption DEF Older
    <2>3. CASE Online(a)
      BY <1>1, <1>2, <2>1, <2>2, <2>3, PresenceAssumption DEF GoodClock
    <2>4. CASE ~Online(a)
      <3>1. absent'[a] = IF absent[a] = Grace THEN Grace ELSE absent[a] + 1
        BY <1>1, <2>1, <2>4 DEF Older
      <3> QED BY <1>3, <2>1, <2>2, <3>1, PresenceAssumption DEF GoodClock
    <2> QED BY <2>3, <2>4
  <1> QED BY <1>4, <1>5, <1>6 DEF GoodClock

\* The sweep only starts clocks at zero, or clears them, and leaves no agent behind.
LEMMA SweepClock ==
  ASSUME ReaperTypeOK, SweepsSomeone, NEW a \in Users, GoodClock(a), Sweep
  PROVE  GoodClock(a)'
  <1>1. tabs' = tabs /\ notices' = notices /\ absent' = absent
    BY DEF Sweep, ListAssigned, ReadClock, Recheck, ReturnTransfers, EndLoop, Forget, Consider
  <1>2. absent[a] \in Nat
    BY PresenceAssumption DEF ReaperTypeOK, Ages
  <1> USE DEF GoodClock, Clocked, Online
  <1>3. CASE ListAssigned
    BY <1>1, <1>3 DEF ListAssigned, ReaperTypeOK, Ahead
  <1>4. CASE ReadClock
    <2>1. disconnected'[a] = IF a = sweep.agent /\ disconnected[a] = None THEN 0 ELSE disconnected[a]
      BY <1>4 DEF ReadClock, ReaperTypeOK
    <2>2. Ahead(a) <=> Ahead(a)'
      <3>1. sweep'.todo = sweep.todo /\ sweep'.live = sweep.live
            /\ (sweep'.pc = "loop" \/ sweep'.pc = "recheck") /\ sweep.pc = "clock"
        BY <1>4 DEF ReadClock, ReaperTypeOK
      <3>2. Ahead(a) <=> a \in sweep.todo \/ a \notin sweep.live
        BY <3>1 DEF Ahead
      <3>3. Ahead(a)' <=> a \in sweep'.todo \/ a \notin sweep'.live
        BY <3>1 DEF Ahead
      <3> QED BY <3>1, <3>2, <3>3
    <2>3. CASE a = sweep.agent /\ disconnected[a] = None
      <3>1. disconnected'[a] = 0 /\ 0 <= absent'[a] + 1
        BY <1>1, <1>2, <2>1, <2>3
      <3> QED BY <1>1, <3>1
    <2>4. CASE ~(a = sweep.agent /\ disconnected[a] = None)
      <3>1. disconnected'[a] = disconnected[a]
        BY <2>1, <2>4
      <3> QED BY <1>1, <2>2, <3>1
    <2> QED BY <2>3, <2>4
  <1>5. CASE Recheck
    BY <1>1, <1>5 DEF Recheck, ReaperTypeOK, Ahead
  <1>6. CASE ReturnTransfers
    <2>1. disconnected'[a] = IF a = sweep.agent THEN None ELSE disconnected[a]
      BY <1>6 DEF ReturnTransfers, ReaperTypeOK
    <2>2. Ahead(a) <=> Ahead(a)'
      BY <1>6 DEF ReturnTransfers, ReaperTypeOK, Ahead
    <2> QED BY <1>1, <2>1, <2>2
  <1>7. CASE EndLoop
    BY <1>1, <1>7 DEF EndLoop, ReaperTypeOK, Ahead
  <1>8. CASE Forget
    BY <1>1, <1>8 DEF Forget, ReaperTypeOK, Ahead, NoSweep
  <1>9. ASSUME NEW b \in Users, Consider(b) PROVE GoodClock(a)'
    <2>1. CASE a = b /\ Online(a)
      BY <1>1, <1>9, <2>1 DEF Consider, ReaperTypeOK
    <2>2. CASE a = b /\ ~Online(a)
      BY <1>1, <1>9, <2>2 DEF Consider, ReaperTypeOK
    <2>3. CASE a # b
      <3>1. disconnected'[a] = disconnected[a]
        BY <1>9, <2>3 DEF Consider, ReaperTypeOK
      <3>2. Ahead(a) <=> Ahead(a)'
        <4>1. sweep'.todo = sweep.todo \ {b} /\ sweep'.live = sweep.live
              /\ sweep'.pc \in {"loop", "clock"} /\ sweep.pc = "loop"
          BY <1>9 DEF Consider, ReaperTypeOK
        <4> QED BY <2>3, <4>1 DEF Ahead
      <3> QED BY <1>1, <3>1, <3>2
    <2> QED BY <2>1, <2>2, <2>3
  <1> QED BY <1>3, <1>4, <1>5, <1>6, <1>7, <1>8, <1>9 DEF Sweep

-------------------------------------------------------------------------------
(* Presence: theorems *)

LEMMA GoodClocks ==
  ReaperInv <=> ReaperTypeOK /\ SweepsSomeone /\ \A a \in Users : GoodClock(a)
  BY DEF ReaperInv, PresentIsNotAbsent, AlmostTrue, ClearedInTime, GoodClock

LEMMA ReaperInvInit == ReaperInit => ReaperInv
  BY PresenceAssumption, HubAssumption
  DEF ReaperInit, HubInit, ReaperInv, ReaperTypeOK, HubTypeOK, NoSweep, Ages, PresentIsNotAbsent,
      AlmostTrue, ClearedInTime, SweepsSomeone, Clocked, Online

LEMMA ReaperInvStep == ReaperInv /\ [ReaperNext]_reaperVars => ReaperInv'
  <1> SUFFICES ASSUME ReaperInv, [ReaperNext]_reaperVars PROVE ReaperInv'
    OBVIOUS
  <1>1. ReaperTypeOK /\ SweepsSomeone /\ \A a \in Users : GoodClock(a)
    BY GoodClocks
  <1>2. CASE UNCHANGED reaperVars
    BY <1>2
    DEF reaperVars, ReaperInv, ReaperTypeOK, HubTypeOK, PresentIsNotAbsent, AlmostTrue,
        ClearedInTime, SweepsSomeone, Clocked, Online, Ahead
  <1>3. CASE ReaperNext
    <2>1. ReaperTypeOK'
      BY <1>1, <1>3, ReaperTypeStep
    <2>2. SweepsSomeone'
      <3>1. CASE sweep' = sweep
        BY <1>1, <3>1 DEF SweepsSomeone
      <3>2. sweep' = sweep \/ NextSweep \/ Sweep \/ Restart
        BY <1>3 DEF ReaperNext, OpenTab, CloseTab, Choose, Assign, CloseLast, OnPresenceChange
      <3>3. CASE NextSweep \/ Restart
        BY <1>1, <3>3 DEF NextSweep, Restart, NoSweep, SweepsSomeone, ReaperTypeOK
      <3>4. CASE \E a \in Users : Consider(a)
        BY <1>1, <3>4 DEF Consider, SweepsSomeone, ReaperTypeOK
      <3>5. ListAssigned \/ ReturnTransfers \/ EndLoop \/ Forget => sweep'.pc \in {"loop", "forget", "idle"}
        <4>1. ListAssigned \/ EndLoop => sweep'.pc \in {"loop", "forget"}
          BY <1>1 DEF ListAssigned, EndLoop, ReaperTypeOK
        <4>2. ReturnTransfers => sweep'.pc = "loop"
          BY <1>1 DEF ReturnTransfers, ReaperTypeOK
        <4>3. Forget => sweep'.pc = "idle"
          BY DEF Forget, NoSweep
        <4> QED BY <4>1, <4>2, <4>3
      <3>8. sweep'.pc \in {"loop", "forget", "idle"} => SweepsSomeone'
        BY DEF SweepsSomeone
      <3>7. CASE ReadClock
        <4>1. sweep' = [sweep EXCEPT !.pc = "recheck"]
              \/ sweep' = [sweep EXCEPT !.pc = "loop", !.agent = None]
          BY <3>7 DEF ReadClock
        <4> QED BY <1>1, <3>7, <4>1 DEF ReadClock, SweepsSomeone, ReaperTypeOK
      <3>6. CASE Recheck
        BY <1>1, <3>6 DEF Recheck, SweepsSomeone, ReaperTypeOK
      <3> QED BY <3>1, <3>2, <3>3, <3>4, <3>5, <3>6, <3>7, <3>8 DEF Sweep
    <2>3. ASSUME NEW a \in Users PROVE GoodClock(a)'
      <3>1. GoodClock(a)
        BY <1>1
      <3>2. ASSUME NEW b \in Users, Choose(b) \/ Assign(b) \/ CloseLast(b) PROVE GoodClock(a)'
        BY <3>1, <3>2 DEF Choose, Assign, CloseLast, GoodClock, Clocked, Online, Ahead
      <3>3. CASE Restart
        BY <3>3 DEF Restart, GoodClock, Clocked, Online
      <3> QED BY <1>1, <1>3, <3>1, <3>2, <3>3, OpenTabClock, CloseTabClock, ListenerClock,
                 NextSweepClock, SweepClock DEF ReaperNext
    <2> QED BY <2>1, <2>2, <2>3, GoodClocks DEF ReaperInv, PresentIsNotAbsent, AlmostTrue,
               ClearedInTime, GoodClock
  <1> QED BY <1>2, <1>3

LEMMA ReaperInvariant == ReaperSpec => []ReaperInv
  BY ReaperInvInit, ReaperInvStep, PTL DEF ReaperSpec

\* The state of the reaper stays well typed, whatever connects, is assigned and restarts.
THEOREM ReaperTypeCorrect == ReaperSpec => []ReaperTypeOK
  BY ReaperInvariant, PTL DEF ReaperInv

\* The reaper's clock never runs more than one sweep interval ahead of an agent's real absence
\* once it has heard of their reconnections (OnPresenceChange, Sweep).
THEOREM ClockIsHonest == ReaperSpec => []ClockHonest
  <1>1. ReaperInv => ClockHonest
    BY DEF ReaperInv, AlmostTrue, ClockHonest, Clocked
  <1> QED BY <1>1, ReaperInvariant, PTL

===============================================================================
