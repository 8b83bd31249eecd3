----------------------------- MODULE OutgoingCall -----------------------------
(***************************************************************************)
(* One call an agent places: dialling, the webhooks that report it, the    *)
(* wait for the SDP answer, the two peer connections and the hang-up with  *)
(* its optional post-call IVR.  Each webhook, callback and request runs in *)
(* a goroutine of its own.                                                 *)
(***************************************************************************)
EXTENDS Naturals, FiniteSets

CONSTANTS
    Workers,        \* webhook, callback and request goroutines
    PostCallIVR     \* an outgoing_end flow is configured for the account

ASSUME OutgoingAssumption == PostCallIVR \in BOOLEAN

VARIABLES
    out,            \* CallSession of the call
    outLog,         \* its call_logs row
    dial,           \* InitiateOutgoingCall
    answerWait,     \* waitForWASDPAnswer
    endFlow,        \* the post-call IVR goroutine
    worker,
    events,         \* webhooks WhatsApp has still to deliver, in any order
    recordings      \* auxiliary: times a recording was finalized

outVars == <<out, outLog, dial, answerWait, endFlow, worker, events, recordings>>

CallEvents == {"ringing", "accepted", "rejected", "terminate"}
Final == {"completed", "rejected", "failed", "missed"}
DisconnectedBy == {"none", "client", "agent", "system"}
Ready == [pc |-> "idle", ev |-> "none", by |-> "none", answered |-> FALSE]

OutTypeOK ==
    /\ out \in [stored : BOOLEAN, live : BOOLEAN, status : {"initiating", "ringing", "answered", "completed"},
                agentPC : BOOLEAN, waPC : BOOLEAN, ivr : BOOLEAN, answer : BOOLEAN,
                once : BOOLEAN, recorder : BOOLEAN]
    /\ outLog \in [status : {"initiating", "ringing", "answered"} \cup Final, answered : BOOLEAN,
                   by : DisconnectedBy]
    /\ dial \in {"setup", "api", "store", "done", "failed"}
    /\ answerWait \in {"idle", "wait", "cleanup", "done"}
    /\ endFlow \in {"idle", "run", "log", "cleanup", "done"}
    /\ worker \in [Workers -> [pc : {"idle", "event", "log", "orphan", "cleanup", "hangup", "agentLog",
                                     "teardown", "startIVR", "agentCleanup", "mark"},
                               ev : CallEvents \cup {"none"}, by : DisconnectedBy, answered : BOOLEAN]]
    /\ events \subseteq CallEvents
    /\ recordings \in Nat

\* The row has been inserted; the agent's browser is being connected.
OutInit ==
    /\ out = [stored |-> FALSE, live |-> FALSE, status |-> "initiating", agentPC |-> TRUE,
              waPC |-> TRUE, ivr |-> FALSE, answer |-> FALSE, once |-> FALSE, recorder |-> FALSE]
    /\ outLog = [status |-> "initiating", answered |-> FALSE, by |-> "none"]
    /\ dial = "setup"
    /\ answerWait = "idle"
    /\ endFlow = "idle"
    /\ worker = [w \in Workers |-> Ready]
    /\ events = {}
    /\ recordings = 0

\* A call that could not be placed and whose webhooks are all handled.
OutEnded ==
    /\ out = [stored |-> FALSE, live |-> FALSE, status |-> "initiating", agentPC |-> FALSE,
              waPC |-> FALSE, ivr |-> FALSE, answer |-> FALSE, once |-> FALSE, recorder |-> FALSE]
    /\ outLog = [status |-> "initiating", answered |-> FALSE, by |-> "none"]
    /\ dial = "failed" /\ answerWait = "idle" /\ endFlow = "idle"
    /\ worker = [w \in Workers |-> Ready]
    /\ events = {} /\ recordings = 0

WGo(w, pc) == worker' = [worker EXCEPT ![w].pc = pc]
WRest(w) == worker' = [worker EXCEPT ![w] = Ready]

\* cleanupSession, and the recorder it takes along for finalizeRecording.
Cleaned == [out EXCEPT !.live = FALSE, !.agentPC = FALSE, !.waPC = FALSE, !.recorder = FALSE]
Finalized == recordings + IF out.recorder THEN 1 ELSE 0
CleanupOutgoing ==
    IF out.live THEN out' = Cleaned /\ recordings' = Finalized ELSE UNCHANGED <<out, recordings>>

-------------------------------------------------------------------------------
(* InitiateOutgoingCall *)

\* Preparing the two peer connections; an error returns and leaves the row as it is.
PrepareCall(works) ==
    /\ dial = "setup"
    /\ dial' = IF works THEN "api" ELSE "failed"
    /\ out' = IF works THEN out ELSE [out EXCEPT !.agentPC = FALSE, !.waPC = FALSE]
    /\ UNCHANGED <<outLog, answerWait, endFlow, worker, events, recordings>>

\* The request to WhatsApp, which may report on the call from now on.
InitiateCall(works) ==
    /\ dial = "api"
    /\ IF works
       THEN dial' = "store" /\ events' = CallEvents /\ UNCHANGED <<out, outLog>>
       ELSE /\ dial' = "failed" /\ UNCHANGED events
            /\ out' = [out EXCEPT !.agentPC = FALSE, !.waPC = FALSE]
            /\ outLog' = [outLog EXCEPT !.status = "failed", !.by = "system"]
    /\ UNCHANGED <<answerWait, endFlow, worker, recordings>>

\* m.sessions[callID] = session: before it the webhooks know of no session.
StoreSession ==
    /\ dial = "store"
    /\ dial' = "done"
    /\ out' = [out EXCEPT !.stored = TRUE, !.live = TRUE]
    /\ answerWait' = "wait"
    /\ UNCHANGED <<outLog, endFlow, worker, events, recordings>>

\* waitForWASDPAnswer takes the answer, or gives up after thirty seconds.
TakeAnswer ==
    /\ answerWait = "wait" /\ out.answer
    /\ answerWait' = "done"
    /\ UNCHANGED <<out, outLog, dial, endFlow, worker, events, recordings>>
AnswerTimeout ==
    /\ answerWait = "wait"
    /\ answerWait' = "cleanup"
    /\ outLog' = IF outLog.status \in {"initiating", "ringing"}
                 THEN [outLog EXCEPT !.status = "failed", !.by = "system"] ELSE outLog
    /\ UNCHANGED <<out, dial, endFlow, worker, events, recordings>>
CleanupAfterTimeout ==
    /\ answerWait = "cleanup"
    /\ CleanupOutgoing
    /\ answerWait' = "done"
    /\ UNCHANGED <<outLog, dial, endFlow, worker, events>>

\* OnTrack of the second of the two peer connections starts the bridge, once, and
\* with it the recorders.
TracksArrive ==
    /\ out.stored /\ ~out.once /\ out.waPC /\ out.agentPC
    /\ out' = [out EXCEPT !.once = TRUE, !.recorder = TRUE]
    /\ UNCHANGED <<outLog, dial, answerWait, endFlow, worker, events, recordings>>

-------------------------------------------------------------------------------
(* processCallWebhook and processCallStatusWebhook *)

\* The session is looked up; without one only terminate has an effect.
Deliver(w, ev) ==
    /\ worker[w].pc = "idle" /\ ev \in events
    /\ events' = events \ {ev}
    /\ IF out.live
       THEN worker' = [worker EXCEPT ![w].pc = "event", ![w].ev = ev]
       ELSE IF ev = "terminate"
       THEN worker' = [worker EXCEPT ![w].pc = "orphan", ![w].ev = ev,
                                     ![w].by = outLog.by, ![w].answered = outLog.answered]
       ELSE UNCHANGED worker
    /\ UNCHANGED <<out, outLog, dial, answerWait, endFlow, recordings>>

OnRinging(w) ==
    /\ worker[w].pc = "event" /\ worker[w].ev = "ringing"
    /\ out' = [out EXCEPT !.status = "ringing"]
    /\ outLog' = [outLog EXCEPT !.status = "ringing"]
    /\ WRest(w)
    /\ UNCHANGED <<dial, answerWait, endFlow, events, recordings>>

\* The SDP answer goes into a channel of one place.
OnAccepted(w) ==
    /\ worker[w].pc = "event" /\ worker[w].ev = "accepted"
    /\ out' = [out EXCEPT !.status = "answered", !.answer = TRUE]
    /\ outLog' = [outLog EXCEPT !.status = "answered", !.answered = TRUE]
    /\ WRest(w)
    /\ UNCHANGED <<dial, answerWait, endFlow, events, recordings>>

OnRejected(w) ==
    /\ worker[w].pc = "event" /\ worker[w].ev = "rejected"
    /\ outLog' = [outLog EXCEPT !.status = "rejected", !.by = "client"]
    /\ WGo(w, "cleanup")
    /\ UNCHANGED <<out, dial, answerWait, endFlow, events, recordings>>

\* During the post-call IVR the flow is told to end; otherwise the row is read.
OnTerminate(w) ==
    /\ worker[w].pc = "event" /\ worker[w].ev = "terminate"
    /\ IF out.ivr /\ ~out.agentPC
       THEN out' = [out EXCEPT !.status = "completed"] /\ WRest(w)
       ELSE worker' = [worker EXCEPT ![w].pc = "log", ![w].by = outLog.by] /\ UNCHANGED out
    /\ UNCHANGED <<outLog, dial, answerWait, endFlow, events, recordings>>

\* The row is completed; disconnected_by only if the row read had none.
LogTerminated(w) ==
    /\ worker[w].pc = "log"
    /\ outLog' = [outLog EXCEPT !.status = "completed",
                                !.by = IF worker[w].by = "none" THEN "client" ELSE @]
    /\ WGo(w, "cleanup")
    /\ UNCHANGED <<out, dial, answerWait, endFlow, events, recordings>>

\* handleOrphanedOutgoingCallEvent: the session is gone, or not stored yet.
LogOrphaned_Ignored(w) ==
    /\ worker[w].pc = "orphan"
    /\ WRest(w)
    /\ UNCHANGED <<out, outLog, dial, answerWait, endFlow, events, recordings>>
LogOrphaned(w) ==
    /\ worker[w].pc = "orphan"
    /\ outLog' = [outLog EXCEPT !.status = IF worker[w].answered THEN "completed" ELSE "missed",
                                !.by = IF worker[w].by = "none" THEN "client" ELSE @]
    /\ WRest(w)
    /\ UNCHANGED <<out, dial, answerWait, endFlow, events, recordings>>

CleanupByWorker(w) ==
    /\ worker[w].pc = "cleanup"
    /\ CleanupOutgoing
    /\ WRest(w)
    /\ UNCHANGED <<outLog, dial, answerWait, endFlow, events>>

\* A peer connection reports that the far end is gone: EndCall.
OutgoingPeerGone(w) ==
    /\ worker[w].pc = "idle" /\ out.live /\ (out.agentPC \/ out.waPC)
    /\ WGo(w, "cleanup")
    /\ UNCHANGED <<out, outLog, dial, answerWait, endFlow, events, recordings>>

-------------------------------------------------------------------------------
(* HangupOutgoingCall *)

\* The agent hangs up; a second request while the post-call IVR runs is left out.
HangupOutgoingCall(w) ==
    /\ worker[w].pc = "idle" /\ out.live /\ endFlow = "idle"
    /\ WGo(w, IF PostCallIVR THEN "teardown" ELSE "agentLog")
    /\ UNCHANGED <<out, outLog, dial, answerWait, endFlow, events, recordings>>

LogAgentHangup(w) ==
    /\ worker[w].pc = "agentLog"
    /\ outLog' = [outLog EXCEPT !.status = "completed", !.by = "agent"]
    /\ WGo(w, "agentCleanup")
    /\ UNCHANGED <<out, dial, answerWait, endFlow, events, recordings>>
CleanupAfterHangup(w) ==
    /\ worker[w].pc = "agentCleanup"
    /\ CleanupOutgoing
    /\ WGo(w, "mark")
    /\ UNCHANGED <<outLog, dial, answerWait, endFlow, events>>

\* The agent's side is taken down and its recording finalized; WhatsApp stays.
TeardownAgentSide(w) ==
    /\ worker[w].pc = "teardown"
    /\ out' = [out EXCEPT !.agentPC = FALSE, !.recorder = FALSE]
    /\ recordings' = Finalized
    /\ WGo(w, "startIVR")
    /\ UNCHANGED <<outLog, dial, answerWait, endFlow, events>>
StartPostCallIVR(w) ==
    /\ worker[w].pc = "startIVR"
    /\ out' = [out EXCEPT !.ivr = TRUE]
    /\ outLog' = [outLog EXCEPT !.by = "agent"]
    /\ endFlow' = IF endFlow = "idle" THEN "run" ELSE endFlow
    /\ WGo(w, "mark")
    /\ UNCHANGED <<dial, answerWait, events, recordings>>

\* The endpoint marks the row once more.
MarkDisconnected(w) ==
    /\ worker[w].pc = "mark"
    /\ outLog' = [outLog EXCEPT !.by = "agent"]
    /\ WRest(w)
    /\ UNCHANGED <<out, dial, answerWait, endFlow, events, recordings>>

\* runIVRFlow returns, the call is terminated, the row completed, the session removed.
PostCallIVREnds ==
    /\ endFlow = "run"
    /\ endFlow' = "log"
    /\ UNCHANGED <<out, outLog, dial, answerWait, worker, events, recordings>>
LogPostCall ==
    /\ endFlow = "log"
    /\ outLog' = [outLog EXCEPT !.status = "completed"]
    /\ endFlow' = "cleanup"
    /\ UNCHANGED <<out, dial, answerWait, worker, events, recordings>>
CleanupPostCall ==
    /\ endFlow = "cleanup"
    /\ CleanupOutgoing
    /\ endFlow' = "done"
    /\ UNCHANGED <<outLog, dial, answerWait, worker, events>>

-------------------------------------------------------------------------------
DialStep == (\E works \in BOOLEAN : PrepareCall(works) \/ InitiateCall(works)) \/ StoreSession
AnswerStep == TakeAnswer \/ AnswerTimeout \/ CleanupAfterTimeout
FlowStep == PostCallIVREnds \/ LogPostCall \/ CleanupPostCall
WorkerStep(w) ==
    \/ OnRinging(w) \/ OnAccepted(w) \/ OnRejected(w) \/ OnTerminate(w)
    \/ LogTerminated(w) \/ LogOrphaned(w) \/ CleanupByWorker(w)
    \/ LogAgentHangup(w) \/ CleanupAfterHangup(w)
    \/ TeardownAgentSide(w) \/ StartPostCallIVR(w) \/ MarkDisconnected(w)

OutNext ==
    \/ DialStep \/ AnswerStep \/ FlowStep
    \/ TracksArrive
    \/ \E w \in Workers : \/ WorkerStep(w) \/ OutgoingPeerGone(w) \/ HangupOutgoingCall(w)
                          \/ \E ev \in CallEvents : Deliver(w, ev)

\* Goroutines go on, WhatsApp delivers the end of the call, and no connection
\* lasts for ever: its peer finally goes away.
OutFairness ==
    /\ WF_outVars(DialStep) /\ WF_outVars(AnswerStep) /\ WF_outVars(FlowStep)
    /\ \A w \in Workers : WF_outVars(WorkerStep(w))
    /\ WF_outVars(\E w \in Workers : Deliver(w, "terminate"))
    /\ WF_outVars(\E w \in Workers : OutgoingPeerGone(w))

OutSpec == OutInit /\ [][OutNext]_outVars /\ OutFairness

-------------------------------------------------------------------------------
(* Properties *)

\* The recorder of a call is finalized at most once, whichever of the agent's
\* hang-up, a webhook, a lost connection and the timeout ends the call.
RecordedOnce == recordings <= 1

\* No session outlives its call: once stored it is removed, however webhooks,
\* timeout and hang-up interleave, and even if the end was reported before the
\* session was stored.
SessionRemoved == out.live ~> ~out.live

\* A call that got as far as WhatsApp does not stay "initiating": its row is
\* settled with a final status at some time.
CallIsSettled == (dial = "store") ~> (outLog.status \in Final)

=============================================================================
