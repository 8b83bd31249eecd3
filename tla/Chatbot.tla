------------------------------- MODULE Chatbot --------------------------------
(***************************************************************************)
(* The chatbot's side of one conversation.  Every inbound message is       *)
(* handled by a goroutine of its own: it looks for an active transfer,     *)
(* reads or creates the session, and either answers at once or runs the    *)
(* flow graph on a copy of the session that is saved, whole, at the end.   *)
(***************************************************************************)
EXTENDS Naturals, FiniteSets

CONSTANTS
    LastInbound,    \* number of inbound messages: each is handled by a goroutine
    Arriving,       \* the kinds of message each of them may be
    AtOnce,         \* how many are handled at the same time
    MaxSessions,    \* rows of chatbot_sessions, enough for one per message
    ChatNodes, ChatEdges, ChatType, Owner, EntryNode, GotoTarget, Skippable, Editable,
    ChatRetries,    \* max_retries of a prompt
    Iterations      \* maxChatGraphIterations

NoFlow == "no flow"
NoStep == "no step"
Flows == DOMAIN EntryNode
Questions == {"prompt", "buttons", "whatsapp_flow"}      \* the nodes that wait for an answer

\* The graph of a flow is stored with the flow: its edges stay within it.
ASSUME ChatbotAssumption ==
    /\ MaxSessions \in Nat /\ MaxSessions >= LastInbound /\ ChatRetries \in Nat \ {0} /\ Iterations \in Nat \ {0}
    /\ ChatType \in [ChatNodes -> STRING] /\ Skippable \subseteq ChatNodes
    /\ Owner \in [ChatNodes -> Flows] /\ NoStep \notin ChatNodes /\ NoFlow \notin Flows
    /\ \A f \in Flows : EntryNode[f] \in ChatNodes /\ Owner[EntryNode[f]] = f
    /\ \A e \in ChatEdges : e.from \in ChatNodes => e.to \in ChatNodes /\ Owner[e.to] = Owner[e.from]
    /\ Editable \subseteq ChatNodes \cup Flows /\ LastInbound \in Nat /\ AtOnce \in Nat

VARIABLES
    sessions,       \* chatbot_sessions of the contact
    attended,       \* an active agent transfer exists
    gone,           \* flows deleted and nodes edited away since the sessions were started
    bot,            \* the goroutines
    asked,          \* auxiliary: the nodes whose question reached the customer, by session
    seen            \* auxiliary: facts the properties speak of

chatVars == <<sessions, attended, gone, bot, asked, seen>>

Inbounds == 1 .. LastInbound      \* in the order of their arrival
SessionIds == 1 .. MaxSessions
Messages == {"text", "button", "media", "form", "trigger", "agent", "keyword", "empty"}
ChatSession == [status : {"none", "active", "completed"}, timedOut : BOOLEAN, flow : Flows \cup {NoFlow},
                step : ChatNodes \cup {NoStep}, retries : 0 .. ChatRetries - 1]
NoSession == [status |-> "none", timedOut |-> FALSE, flow |-> NoFlow, step |-> NoStep, retries |-> 0]

ChatTypeOK ==
    /\ sessions \in [SessionIds -> ChatSession]
    /\ attended \in BOOLEAN
    /\ gone \subseteq Flows \cup ChatNodes
    /\ bot \in [Inbounds -> [pc : {"new", "check", "settings", "session", "create", "route", "hand", "run", "save", "done"},
                             msg : Messages, id : SessionIds, s : ChatSession, fresh : BOOLEAN,
                             text : BOOLEAN, button : BOOLEAN, consumed : 0 .. Iterations, left : 0 .. Iterations,
                             spoke : BOOLEAN, free : BOOLEAN]]
    /\ asked \in [SessionIds -> SUBSET ChatNodes]
    /\ seen \in [overlap : BOOLEAN, unasked : BOOLEAN, excuse : BOOLEAN]

NewRun == [pc |-> "new", msg |-> "empty", id |-> 1, s |-> NoSession, fresh |-> FALSE, text |-> FALSE,
           button |-> FALSE, consumed |-> 0, left |-> Iterations, spoke |-> FALSE, free |-> FALSE]
ChatInit ==
    /\ sessions = [i \in SessionIds |-> NoSession]
    /\ attended = FALSE /\ gone = {}
    /\ bot = [w \in Inbounds |-> NewRun]
    /\ asked = [i \in SessionIds |-> {}]
    /\ seen = [overlap |-> FALSE, unasked |-> FALSE, excuse |-> FALSE]

Busy(w) == bot[w].pc \notin {"new", "done"}
\* A goroutine that ends keeps what the properties ask about.
At(b, pc) == IF pc = "done" THEN [NewRun EXCEPT !.pc = pc, !.spoke = b.spoke, !.free = b.free, !.consumed = b.consumed]
             ELSE [b EXCEPT !.pc = pc]
Goes(w, pc) == bot' = [bot EXCEPT ![w] = At(@, pc)]
Says(w, pc) == bot' = [bot EXCEPT ![w] = At([@ EXCEPT !.spoke = TRUE], pc)]
\* Somebody attends the contact from now on: the unique index absorbs a second row.
Attend == attended' = TRUE

-------------------------------------------------------------------------------
(* processIncomingMessageFull up to the session *)

\* The message is saved and the inactivity tracking cleared before anything else.
\* chatbotInput: text of a reply, id of a button, URL of a file; some have none.
Receive(w, m) ==
    /\ bot[w].pc = "new" /\ \A v \in Inbounds : v < w => bot[v].pc # "new"
    /\ m \in Arriving[w] /\ Cardinality({v \in Inbounds : Busy(v)}) < AtOnce
    /\ bot' = [bot EXCEPT ![w].pc = "check", ![w].msg = m, ![w].free = ~attended,
                          ![w].text = m # "empty", ![w].button = (m = "button")]
    /\ seen' = [seen EXCEPT !.overlap = @ \/ \E v \in Inbounds : Busy(v)]
    /\ UNCHANGED <<sessions, attended, gone, asked>>

\* hasActiveAgentTransfer: with one the chatbot is silent.
CheckTransfer(w) ==
    /\ bot[w].pc = "check"
    /\ Goes(w, IF attended THEN "done" ELSE "settings")
    /\ UNCHANGED <<sessions, attended, gone, asked, seen>>

\* A disabled chatbot queues the contact; out of hours it says so, or nothing.
Disabled(w) ==
    /\ bot[w].pc = "settings"
    /\ Attend /\ Goes(w, "done")
    /\ UNCHANGED <<sessions, gone, asked, seen>>
OutOfHours(w) ==
    /\ bot[w].pc = "settings" \/ (bot[w].pc = "route" /\ bot[w].msg = "agent")
    /\ Says(w, "done") \/ Goes(w, "done")
    /\ UNCHANGED <<sessions, attended, gone, asked, seen>>
Actionable(w) ==
    /\ bot[w].pc = "settings"
    /\ Goes(w, IF bot[w].msg = "empty" THEN "done" ELSE "session")
    /\ UNCHANGED <<sessions, attended, gone, asked, seen>>

\* getOrCreateSession: the lookup and the insert are two statements.
LiveSessions == {i \in SessionIds : sessions[i].status = "active" /\ ~sessions[i].timedOut}
FindSession(w) ==
    /\ bot[w].pc = "session"
    /\ IF LiveSessions = {} THEN Goes(w, "create")
       ELSE \E i \in LiveSessions :
              bot' = [bot EXCEPT ![w].pc = "route", ![w].id = i, ![w].s = sessions[i]]
    /\ UNCHANGED <<sessions, attended, gone, asked, seen>>
CreateSession(w) ==
    /\ bot[w].pc = "create"
    /\ \E i \in SessionIds :
         /\ sessions[i].status = "none" /\ \A j \in SessionIds : j < i => sessions[j].status # "none"
         /\ sessions' = [sessions EXCEPT ![i].status = "active"]
         /\ bot' = [bot EXCEPT ![w].pc = "route", ![w].id = i, ![w].fresh = TRUE,
                               ![w].s = [NoSession EXCEPT !.status = "active"]]
    /\ UNCHANGED <<attended, gone, asked, seen>>

-------------------------------------------------------------------------------
(* processIncomingMessageFull from the session on *)

\* A transfer keyword comes first: a message, then the transfer.
TransferKeyword(w) ==
    /\ bot[w].pc = "route" /\ bot[w].msg = "agent"
    /\ Says(w, "hand") \/ Goes(w, "hand")
    /\ UNCHANGED <<sessions, attended, gone, asked, seen>>
TransferFromKeyword(w) ==
    /\ bot[w].pc = "hand"
    /\ Attend /\ Goes(w, "done")
    /\ UNCHANGED <<sessions, gone, asked, seen>>

\* exitFlow: the flow the session is in cannot be loaded any more.
ExitFlow(w) ==
    /\ bot[w].pc = "route" /\ bot[w].msg # "agent" /\ bot[w].s.flow \in gone
    /\ sessions' = [sessions EXCEPT ![bot[w].id] =
                        [@ EXCEPT !.status = "completed", !.step = NoStep, !.retries = 0]]
    /\ Goes(w, "done")
    /\ UNCHANGED <<attended, gone, asked, seen>>

\* runChatGraph begins at the session's node, or at the entry node without input:
\* the words that triggered the flow answer no question of it.
Begin(b) ==
    IF b.s.step = NoStep
    THEN [b EXCEPT !.pc = "run", !.s.step = EntryNode[b.s.flow], !.text = FALSE, !.button = FALSE]
    ELSE [b EXCEPT !.pc = "run"]
ResumeFlow(w) ==
    /\ bot[w].pc = "route" /\ bot[w].msg # "agent" /\ bot[w].s.flow \in Flows \ gone
    /\ bot' = [bot EXCEPT ![w] = Begin(@)]
    /\ UNCHANGED <<sessions, attended, gone, asked, seen>>
\* matchFlowTrigger: the copy enters the flow; nothing is written yet.
StartFlow(w, f) ==
    /\ bot[w].pc = "route" /\ bot[w].msg = "trigger" /\ bot[w].s.flow = NoFlow /\ f \notin gone
    /\ bot' = [bot EXCEPT ![w] = Begin([@ EXCEPT !.s.flow = f, !.s.step = NoStep, !.s.retries = 0])]
    /\ UNCHANGED <<sessions, attended, gone, asked, seen>>

\* Greeting of a new session, keyword reply, AI answer or fallback: each is one
\* message at most.  A file without words gets no answer.
Reply(w) ==
    /\ bot[w].pc = "route" /\ bot[w].s.flow = NoFlow /\ bot[w].msg \notin {"agent", "trigger"}
    /\ Goes(w, "done") \/ (bot[w].msg # "media" /\ Says(w, "done"))
    /\ UNCHANGED <<sessions, attended, gone, asked, seen>>

-------------------------------------------------------------------------------
(* runChatGraph *)

ChatResolve(node, outcome) ==
    LET to(cond) == {e.to : e \in {d \in ChatEdges : d.from = node /\ d.cond = cond}}
    IN CASE to(outcome) # {} -> CHOOSE n \in to(outcome) : TRUE
         [] to(outcome) = {} /\ to("default") # {} -> CHOOSE n \in to("default") : TRUE
         [] OTHER -> NoStep

\* What executing a node yields: an outcome to follow, or the wait for an answer.
Outcome(o) == [out |-> o, yield |-> FALSE, err |-> FALSE, says |-> FALSE, asks |-> FALSE, uses |-> FALSE,
               retries |-> "same", hands |-> FALSE, goto |-> NoFlow]
\* SendOutgoingMessage reports an error only if the row cannot be inserted; when
\* WhatsApp refuses the message the flow goes on as if it had been sent.
Failed == [Outcome("") EXCEPT !.err = TRUE]
Sends(r) == {[r EXCEPT !.says = TRUE], [r EXCEPT !.says = TRUE, !.asks = FALSE], Failed}
Question == [Outcome("") EXCEPT !.yield = TRUE, !.asks = TRUE]

execChatMessage(b) == Sends(Outcome("default"))
execChatButtons_Greedy(b) ==
    IF b.button THEN {[Outcome(o) EXCEPT !.uses = TRUE] : o \in {"button:1", "button:2"}} ELSE Sends(Question)
execChatButtons(b) ==
    IF b.consumed = 0 /\ b.button
    THEN {[Outcome(o) EXCEPT !.uses = TRUE] : o \in {"button:1", "button:2"}}
    ELSE Sends(Question)
handleChatPromptInvalid(b) ==
    IF b.s.retries + 1 >= ChatRetries
    THEN {[Outcome("max_retries") EXCEPT !.uses = TRUE, !.retries = "zero"]}
    ELSE {[r EXCEPT !.uses = TRUE, !.retries = "more"] : r \in Sends([Question EXCEPT !.asks = FALSE])}
execChatPrompt(b) ==
    IF ~b.text \/ b.consumed > 0 THEN Sends(Question)
    ELSE {[Outcome("default") EXCEPT !.uses = TRUE, !.retries = "zero"]} \cup handleChatPromptInvalid(b)
execChatAPICall(b) == {Outcome("http:non2xx"), Outcome("http:2xx"), [Outcome("http:2xx") EXCEPT !.says = TRUE], Failed}
execChatCondition(b) == {Outcome("true"), Outcome("false")}
execChatTiming(b) == {Outcome("in_hours"), Outcome("out_of_hours")}
execChatSetVariable(b) == {Outcome("default")}
execChatAIResponse(b) == {Outcome("default")} \cup Sends(Outcome("default"))
execChatTransfer(b) == {[Outcome("") EXCEPT !.yield = TRUE, !.hands = TRUE, !.says = x] : x \in BOOLEAN}
execChatWebhook(b) == {Outcome("default")}
execChatGotoFlow(b) ==
    LET f == GotoTarget[b.s.step]
    IN {IF f \in Flows \ gone THEN [Outcome("goto") EXCEPT !.goto = f] ELSE Outcome("")}
execChatWhatsAppFlow(b) ==
    IF b.consumed = 0 /\ b.msg = "form" THEN {[Outcome("default") EXCEPT !.uses = TRUE]} ELSE Sends(Question)
execChatEnd(b) == {Outcome("")} \cup Sends(Outcome(""))
executeChatNode(b) ==
    CASE ChatType[b.s.step] = "start" -> {Outcome("default")}
      [] ChatType[b.s.step] = "message" -> execChatMessage(b)
      [] ChatType[b.s.step] = "buttons" -> execChatButtons(b)
      [] ChatType[b.s.step] = "prompt" -> execChatPrompt(b)
      [] ChatType[b.s.step] = "api_call" -> execChatAPICall(b)
      [] ChatType[b.s.step] = "condition" -> execChatCondition(b)
      [] ChatType[b.s.step] = "timing" -> execChatTiming(b)
      [] ChatType[b.s.step] = "set_variable" -> execChatSetVariable(b)
      [] ChatType[b.s.step] = "ai_response" -> execChatAIResponse(b)
      [] ChatType[b.s.step] = "transfer" -> execChatTransfer(b)
      [] ChatType[b.s.step] = "webhook" -> execChatWebhook(b)
      [] ChatType[b.s.step] = "goto_flow" -> execChatGotoFlow(b)
      [] ChatType[b.s.step] = "whatsapp_flow" -> execChatWhatsAppFlow(b)
      [] ChatType[b.s.step] = "end" -> execChatEnd(b)
      [] OTHER -> {Failed}

\* The session leaves a node by an outcome; without an edge the flow is over.
Follow(s, outcome) ==
    IF ChatResolve(s.step, outcome) = NoStep THEN [s EXCEPT !.status = "completed"]
    ELSE [s EXCEPT !.step = ChatResolve(s.step, outcome)]
\* goto_flow goes on at the entry of the other flow within the same run.
After(s, r) ==
    CASE r.err \/ r.yield -> IF r.hands THEN [s EXCEPT !.status = "completed"] ELSE s
      [] ~(r.err \/ r.yield) /\ r.goto \notin {NoFlow, s.flow} -> [s EXCEPT !.flow = r.goto, !.step = EntryNode[r.goto]]
      [] OTHER -> Follow(s, r.out)
Retries(s, r) == CASE r.retries = "same" -> s.retries [] r.retries = "zero" -> 0 [] r.retries = "more" -> s.retries + 1

\* One turn of the loop.  maxChatGraphIterations ends a cycle; a node that is not
\* in the graph any more ends the run with nothing saved.
Countdown_Endless(n) == n
Countdown(n) == n - 1
Runaway(w) ==
    /\ bot[w].pc = "run" /\ bot[w].left = 0
    /\ Goes(w, "save")
    /\ seen' = [seen EXCEPT !.excuse = TRUE]
    /\ UNCHANGED <<sessions, attended, gone, asked>>
NodeNotFound(w) ==
    /\ bot[w].pc = "run" /\ bot[w].left > 0 /\ bot[w].s.step \in gone
    /\ Goes(w, "done")
    /\ UNCHANGED <<sessions, attended, gone, asked, seen>>
SkipNode(w) ==
    /\ bot[w].pc = "run" /\ bot[w].left > 0 /\ bot[w].s.step \in Skippable \ gone
    /\ LET s == Follow(bot[w].s, "default")
       IN bot' = [bot EXCEPT ![w].s = s, ![w].left = Countdown(@),
                             ![w].pc = IF s.status = "completed" THEN "save" ELSE "run"]
    /\ seen' = [seen EXCEPT !.excuse = TRUE]
    /\ UNCHANGED <<sessions, attended, gone, asked>>
RunNode(w) ==
    /\ bot[w].pc = "run" /\ bot[w].left > 0 /\ bot[w].s.step \notin gone
    /\ LET b == bot[w] IN \E r \in executeChatNode(b) :
         LET s == [After(b.s, r) EXCEPT !.retries = Retries(b.s, r)]
         IN /\ bot' = [bot EXCEPT ![w] = [b EXCEPT !.s = s, !.left = Countdown(b.left), !.spoke = b.spoke \/ r.says,
                          !.consumed = b.consumed + IF r.uses THEN 1 ELSE 0,
                          !.pc = IF r.err \/ r.yield \/ s.status = "completed" THEN "save" ELSE "run"]]
            /\ attended' = (attended \/ r.hands)
            /\ asked' = IF r.asks THEN [asked EXCEPT ![b.id] = @ \cup {b.s.step}] ELSE asked
            /\ seen' = [seen EXCEPT !.unasked = @ \/ (r.uses /\ b.s.step \notin asked[b.id]),
                                    !.excuse = @ \/ ((r.err \/ r.yield) /\ ~r.hands /\ b.s.step \notin asked'[b.id])]
    /\ UNCHANGED <<sessions, gone>>

\* persistChatSession writes every column of the copy.
persistChatSession(w) ==
    /\ bot[w].pc = "save"
    /\ sessions' = [sessions EXCEPT ![bot[w].id] = bot[w].s]
    /\ Goes(w, "done")
    /\ UNCHANGED <<attended, gone, asked, seen>>

-------------------------------------------------------------------------------
(* What happens around the conversation *)

\* The last activity of a session falls out of the time-out.
TimeOut(i) ==
    /\ sessions[i].status = "active" /\ ~sessions[i].timedOut
    /\ \A w \in Inbounds : ~Busy(w)
    /\ sessions' = [sessions EXCEPT ![i].timedOut = TRUE]
    /\ UNCHANGED <<attended, gone, bot, asked, seen>>
\* The attendance of the contact is closed.
AttendanceCloses ==
    /\ attended
    /\ attended' = FALSE
    /\ bot' = [w \in Inbounds |-> IF Busy(w) THEN [bot[w] EXCEPT !.free = TRUE] ELSE bot[w]]
    /\ UNCHANGED <<sessions, gone, asked, seen>>
\* A flow is deleted, or edited so that a node is no longer there.
EditFlow(x) ==
    /\ gone = {}
    /\ gone' = {x}
    /\ UNCHANGED <<sessions, attended, bot, asked, seen>>

HandleInbound(w) ==
    \/ CheckTransfer(w) \/ Disabled(w) \/ OutOfHours(w) \/ Actionable(w)
    \/ FindSession(w) \/ CreateSession(w)
    \/ TransferKeyword(w) \/ TransferFromKeyword(w) \/ ExitFlow(w) \/ ResumeFlow(w) \/ Reply(w)
    \/ \E f \in Flows : StartFlow(w, f)
    \/ Runaway(w) \/ NodeNotFound(w) \/ SkipNode(w) \/ RunNode(w) \/ persistChatSession(w)

ChatNext ==
    \/ \E w \in Inbounds : HandleInbound(w) \/ \E m \in Messages : Receive(w, m)
    \/ \E i \in SessionIds : TimeOut(i)
    \/ AttendanceCloses
    \/ \E x \in Editable : EditFlow(x)

ChatFairness == \A w \in Inbounds : WF_chatVars(HandleInbound(w))
ChatSpec == ChatInit /\ [][ChatNext]_chatVars /\ ChatFairness

-------------------------------------------------------------------------------
(* Properties *)

\* An inbound message answers at most one question: of the blocking nodes a run
\* passes, only the first one takes it (ctx.consumed).
InputUsedOnce == \A w \in Inbounds : bot[w].consumed <= 1

\* A message that arrives during an attendance, and is handled while it lasts,
\* never makes the chatbot speak.
SilentWhileAttended == \A w \in Inbounds : bot[w].spoke => bot[w].free

\* A prompt or a menu takes an answer only if its question reached the customer,
\* however messages overlap, unless a session was left at a node whose question never
\* reached the customer: it could not be sent, or the node was skipped or the run cut off.
AnswersWereAsked == seen.unasked => seen.excuse

\* The step a session stands at is a node of the flow it is in.
StepInFlow == \A i \in SessionIds : sessions[i].step # NoStep => Owner[sessions[i].step] = sessions[i].flow

\* Two live sessions of one contact come from overlapping messages only.
OneLiveSession == Cardinality(LiveSessions) > 1 => seen.overlap

\* However the messages of a customer overlap: an answer is used once, for a question that
\* was asked, in the flow of the session; the bot is silent while an agent attends; and a
\* prompt is never asked more often than its retries allow.
ConversationConsistent ==
    ChatTypeOK /\ InputUsedOnce /\ SilentWhileAttended /\ AnswersWereAsked /\ StepInFlow /\ OneLiveSession

\* Every run ends, whatever cycle the author of the flow has drawn: there is always
\* a later moment at which no message is being handled.
InboundIsHandled == (\E w \in Inbounds : Busy(w)) ~> (\A w \in Inbounds : ~Busy(w))
===============================================================================
