----------------------------- MODULE IncomingCall -----------------------------
(***************************************************************************)
(* One incoming call: its session in the call manager, the IVR goroutine   *)
(* that may hand it to the agents, the goroutine that rings them, the      *)
(* agents' requests and the caller hanging up.  A step is one region under *)
(* the session's mutex, or one statement of the database.                  *)
(***************************************************************************)
EXTENDS Naturals, FiniteSets

CONSTANTS
    Callees,        \* agents who can take the call
    Hops,           \* the call_transfers rows that can be created
    Handlers,       \* HTTP and webhook goroutines
    NoOne,
    CallBounds      \* bounds of a behaviour: its rows, requests of agents and terminate webhooks

ASSUME CallAssumption ==
    /\ NoOne \notin Callees \cup Hops
    /\ CallBounds \subseteq [rows : SUBSET Hops, requests : Nat, hangups : Nat]

VARIABLES
    session,        \* CallSession
    hop,            \* call_transfers
    callLog,
    ring,           \* by row: the goroutine that rings the agents
    stop,           \* by row: how its context or channel told it to end
    ivr,            \* the IVR goroutine
    handler,
    claims,         \* auxiliary: passes of the session's claim, by row
    outcomes,       \* auxiliary: outcomes sent to the IVR, by row
    budget

callVars == <<session, hop, callLog, ring, stop, ivr, handler, claims, outcomes, budget>>

CallTransferStatus == {"waiting", "connected", "completed", "no_answer", "abandoned"}

\* cancel: whose TransferCancel is stored; done: TransferDone is not nil.
CallSession ==
    [live : BOOLEAN, tid : Hops \cup {NoOne}, tst : CallTransferStatus \cup {"none"},
     pc : Hops \cup {NoOne}, done : BOOLEAN,
     cancel : Hops \cup {NoOne}]
NoHop == [status |-> "unused", agent |-> NoOne, team |-> FALSE]
CallTransfer == [status : CallTransferStatus \cup {"unused", "absent"}, agent : Callees \cup {NoOne},
                 team : BOOLEAN]
CallLog == [status : {"ringing", "answered", "transferring", "completed", "missed"},
            agent : Callees \cup {NoOne}]

Teardown == {"cleanup", "abandon", "abandonRow", "abandonSession", "release"}
Silent == [pc |-> "none", tried |-> {}, of |-> NoOne]
Ring == [pc : {"none", "direct", "rotate", "offered", "wait", "noanswer", "signal", "done"}
              \cup Teardown,
         tried : SUBSET Callees, of : Hops \cup {NoOne}]
IVR == [pc : {"idle", "run", "insert", "block", "done"}, hop : Hops \cup {NoOne},
        terminal : BOOLEAN, result : {"none", "completed", "no_answer", "abandoned"}]
\* hop: the row a request names; of: the transfer a teardown found waiting.
AtRest == [pc |-> "idle", agent |-> NoOne, hop |-> NoOne, of |-> NoOne]
Handler == [pc : {"idle", "claim", "connect", "revert", "setup", "track", "record",
                  "end", "signal", "endcall", "insert"}
                 \cup Teardown,
            agent : Callees \cup {NoOne}, hop : Hops \cup {NoOne}, of : Hops \cup {NoOne}]

CallTypeOK ==
    /\ session \in CallSession
    /\ hop \in [Hops -> CallTransfer]
    /\ callLog \in CallLog
    /\ ring \in [Hops -> Ring]
    /\ stop \in [Hops -> {"no", "accepted", "cancelled"}]
    /\ ivr \in IVR
    /\ handler \in [Handlers -> Handler]
    /\ claims \in [Hops -> Nat]
    /\ outcomes \in [Hops -> Nat]
    /\ budget \in [rows : SUBSET Hops, requests : Nat, hangups : Nat]

\* HandleIncomingCall: the session is stored; media is still being negotiated.
CallInit ==
    /\ session = [live |-> TRUE, tid |-> NoOne, tst |-> "none", pc |-> NoOne, done |-> FALSE, cancel |-> NoOne]
    /\ \E b \in CallBounds :
        /\ hop = [x \in Hops |-> [NoHop EXCEPT !.status = IF x \in b.rows THEN @ ELSE "absent"]]
        /\ budget = b
    /\ callLog = [status |-> "answered", agent |-> NoOne]
    /\ ring = [x \in Hops |-> Silent]
    /\ stop = [x \in Hops |-> "no"]
    /\ ivr = [pc |-> "idle", hop |-> NoOne, terminal |-> FALSE, result |-> "none"]
    /\ handler = [h \in Handlers |-> AtRest]
    /\ claims = [x \in Hops |-> 0]
    /\ outcomes = [x \in Hops |-> 0]

-------------------------------------------------------------------------------
\* Where a goroutine goes next; one that has ended forgets its locals.
RTo(x, pc, of) == ring' = [ring EXCEPT ![x] = IF pc = "done" THEN [Silent EXCEPT !.pc = pc]
                                              ELSE [@ EXCEPT !.pc = pc, !.of = of]]
RGo(x, pc) == RTo(x, pc, NoOne)
HAt(h, pc) == handler[h].pc = pc
HGo(h, pc) == handler' = [handler EXCEPT ![h].pc = pc]
HTo(h, pc, of) ==
    handler' = [handler EXCEPT ![h] = IF pc = "done" THEN AtRest
                                      ELSE [@ EXCEPT !.pc = pc, !.of = of]]
HRest(h) == handler' = [handler EXCEPT ![h] = AtRest]
\* The bound on rows: one is left for whoever is about to insert, and one more.
FreeRow ==
    Cardinality({x \in Hops : hop[x].status = "unused"}) >
        Cardinality({h \in Handlers : HAt(h, "insert")}) + IF ivr.pc = "insert" THEN 1 ELSE 0
\* A request of an agent begins.
HBegin(h, pc, a, x) ==
    /\ HAt(h, "idle") /\ budget.requests > 0
    /\ handler' = [handler EXCEPT ![h] = [pc |-> pc, agent |-> a, hop |-> x, of |-> NoOne]]
    /\ budget' = [budget EXCEPT !.requests = @ - 1]

\* IsAgentOnActiveCall, as far as this call's rows tell.
OnActiveCall(a) == \E x \in Hops : hop[x].status = "connected" /\ hop[x].agent = a

\* TransferCancel(), and safeClose(TransferAccepted) when the call was accepted.
Stopped(how) ==
    IF session.cancel = NoOne THEN stop
    ELSE [stop EXCEPT ![session.cancel] = IF @ = "no" THEN how ELSE @]

\* What is sent to, or the close of, TransferDone, whose reader is the IVR.
Outcome(what) ==
    /\ ivr' = [ivr EXCEPT !.result = what]
    /\ outcomes' = IF ivr.hop = NoOne THEN outcomes ELSE [outcomes EXCEPT ![ivr.hop] = @ + 1]
Resumed_NeverSent(what) ==
    session' = [session EXCEPT !.done = FALSE] /\ UNCHANGED <<ivr, outcomes>>
\* The channel is taken out of the session before it is used.
Resumed(what) == Outcome(what) /\ session' = [session EXCEPT !.done = FALSE]

-------------------------------------------------------------------------------
(* The IVR goroutine *)

Ended == [pc |-> "done", hop |-> NoOne, terminal |-> FALSE, result |-> "none"]

\* negotiateWebRTC ends: media is connected and the flow starts, or a sticky
\* call goes straight to a transfer.
MediaConnected(sticky) ==
    /\ ivr.pc = "idle" /\ (sticky => FreeRow)
    /\ ivr' = [ivr EXCEPT !.pc = IF sticky THEN "insert" ELSE "run", !.terminal = sticky]
    /\ UNCHANGED <<session, hop, callLog, ring, stop, handler, claims, outcomes, budget>>

\* executeTransfer: a node with outgoing edges waits for the outcome.
ExecuteTransfer(terminal) ==
    /\ ivr.pc = "run" /\ FreeRow
    /\ ivr' = [ivr EXCEPT !.pc = "insert", !.terminal = terminal, !.hop = NoOne]
    /\ session' = [session EXCEPT !.done = @ \/ ~terminal]
    /\ UNCHANGED <<hop, callLog, ring, stop, handler, claims, outcomes, budget>>

\* The rest of the node loop: any nodes, then the end of the flow.
EndFlow ==
    /\ ivr.pc = "run"
    /\ ivr' = Ended
    /\ UNCHANGED <<session, hop, callLog, ring, stop, handler, claims, outcomes, budget>>

\* initiateTransfer: the row, the status of the call log and the session, and the
\* agents are rung: first pickDirectAgent's choice, if any, else the team in turn,
\* else everybody.
InitiateTransfer(x, team, direct) ==
    /\ ivr.pc = "insert"
    /\ hop[x].status = "unused"
    /\ hop' = [hop EXCEPT ![x] = [status |-> "waiting", agent |-> NoOne, team |-> team]]
    /\ callLog' = [callLog EXCEPT !.status = "transferring"]
    /\ session' = [session EXCEPT !.tid = x, !.tst = "waiting", !.cancel = x]
    /\ RGo(x, IF direct THEN "direct" ELSE IF team THEN "rotate" ELSE "wait")
    /\ ivr' = IF ivr.terminal THEN Ended ELSE [ivr EXCEPT !.pc = "block", !.hop = x]
    /\ UNCHANGED <<stop, handler, claims, outcomes, budget>>

\* The INSERT failed: the function returns, and executeTransfer waits all the same.
InitiateTransferFails ==
    /\ ivr.pc = "insert"
    /\ ivr' = IF ivr.terminal THEN Ended ELSE [ivr EXCEPT !.pc = "block"]
    /\ UNCHANGED <<session, hop, callLog, ring, stop, handler, claims, outcomes, budget>>

\* The goroutine leaves executeTransfer with a fresh player and goes on.
ResumeIVR ==
    /\ ivr.pc = "block" /\ ivr.result # "none"
    /\ ivr' = [ivr EXCEPT !.pc = "run", !.hop = NoOne, !.result = "none"]
    /\ UNCHANGED <<session, hop, callLog, ring, stop, handler, claims, outcomes, budget>>

-------------------------------------------------------------------------------
(* Ringing: the goroutine of initiateTransfer, runTransferRotation, waitForTransferTimeout *)

\* The select of the direct ring ends without an accepting agent: in time or by
\* an abandoned call alike, the team or everybody is rung under a new context.
FallBack(x) ==
    /\ ring[x].pc = "direct"
    /\ IF session.tst = "connected"
       THEN RGo(x, "done") /\ UNCHANGED <<session, stop>>
       ELSE /\ RGo(x, IF hop[x].team THEN "rotate" ELSE "wait")
            /\ session' = [session EXCEPT !.cancel = x]
            /\ stop' = [stop EXCEPT ![x] = "no"]
    /\ UNCHANGED <<hop, callLog, ivr, handler, claims, outcomes, budget>>

\* One turn of the rotation: the next agent who is not on a call is rung.
Offer(x, a) ==
    /\ ring[x].pc = "rotate" /\ stop[x] # "cancelled"
    /\ session.tst = "waiting"
    /\ a \notin ring[x].tried
    /\ ring' = [ring EXCEPT ![x].tried = @ \cup {a},
                            ![x].pc = IF OnActiveCall(a) THEN "rotate" ELSE "offered"]
    /\ hop' = IF OnActiveCall(a) THEN hop ELSE [hop EXCEPT ![x].agent = a]
    /\ UNCHANGED <<session, callLog, stop, ivr, handler, claims, outcomes, budget>>

\* agentTimer: the agent is taken off the row, whatever happened to it meanwhile.
AgentTimeout(x) ==
    /\ ring[x].pc = "offered"
    /\ hop' = [hop EXCEPT ![x].agent = NoOne]
    /\ RGo(x, "rotate")
    /\ UNCHANGED <<session, callLog, stop, ivr, handler, claims, outcomes, budget>>

\* AssignToTeam finds nobody: whoever is available by now is rung together, or
\* the call is not answered.
Exhausted(x, some) ==
    /\ ring[x].pc = "rotate"
    /\ IF session.tst # "waiting" THEN RGo(x, "done") /\ UNCHANGED hop
       ELSE IF some /\ stop[x] = "no"
       THEN RGo(x, "wait") /\ hop' = [hop EXCEPT ![x].agent = NoOne]
       ELSE RGo(x, "noanswer") /\ UNCHANGED hop
    /\ UNCHANGED <<session, callLog, stop, ivr, handler, claims, outcomes, budget>>

\* The goroutine sees the closed TransferAccepted or the cancelled context.
Told(x) ==
    /\ ring[x].pc \in {"direct", "offered", "wait"} /\ stop[x] # "no"
    /\ RGo(x, "done")
    /\ UNCHANGED <<session, hop, callLog, stop, ivr, handler, claims, outcomes, budget>>

\* totalCtx is done while an agent is rung or between two: the agent is taken off
\* the row, and a session that waits is taken for this transfer's own.
Deadline(x) ==
    /\ ring[x].pc \in {"offered", "rotate"}
    /\ hop' = IF ring[x].pc = "offered" THEN [hop EXCEPT ![x].agent = NoOne] ELSE hop
    /\ RGo(x, IF session.tst = "waiting" THEN "noanswer" ELSE "done")
    /\ UNCHANGED <<session, callLog, stop, ivr, handler, claims, outcomes, budget>>

\* waitForTransferTimeout, and the last select of the rotation.
WaitForTransferTimeout(x) ==
    /\ ring[x].pc = "wait" /\ stop[x] = "no"
    /\ RGo(x, "noanswer")
    /\ UNCHANGED <<session, hop, callLog, stop, ivr, handler, claims, outcomes, budget>>

\* handleTransferNoAnswer: only a waiting session, of whichever transfer.
NoAnswer(x) ==
    /\ ring[x].pc = "noanswer"
    /\ IF session.tst = "waiting"
       THEN session' = [session EXCEPT !.tst = "no_answer"] /\ RGo(x, "signal")
       ELSE RGo(x, "done") /\ UNCHANGED session
    /\ UNCHANGED <<hop, callLog, stop, ivr, handler, claims, outcomes, budget>>

\* A waiting IVR is resumed; without one the call is torn down.
Signal(what) == IF session.done THEN Resumed(what) ELSE UNCHANGED <<session, ivr, outcomes>>
AfterSignal == IF session.done THEN "done" ELSE "cleanup"

NoAnswerSignal(x) ==
    /\ ring[x].pc = "signal"
    /\ hop' = [hop EXCEPT ![x].status = "no_answer"]
    /\ Signal("no_answer") /\ RGo(x, AfterSignal)
    /\ UNCHANGED <<callLog, stop, handler, claims, budget>>

-------------------------------------------------------------------------------
(* cleanupSession and HandleCallerHangupDuringTransfer, run by a handler or by the
   ringing goroutine: to is what the actor does next. *)

\* A waiting session is not removed: its transfer is abandoned first.
CleanupSession(to) ==
    /\ to = IF ~session.live THEN "done"
            ELSE IF session.tst = "waiting" THEN "abandon" ELSE "release"
    /\ session' = IF to = "release" THEN [session EXCEPT !.live = FALSE] ELSE session
    /\ UNCHANGED <<hop, stop, ivr, outcomes>>

FindWaiting(to) ==
    /\ to = IF session.tid = NoOne \/ session.tst # "waiting" THEN "done" ELSE "abandonRow"
    /\ UNCHANGED <<session, hop, stop, ivr, outcomes>>
AbandonRow(of, to) ==
    /\ to = "abandonSession"
    /\ hop' = [hop EXCEPT ![of].status = "abandoned"]
    /\ UNCHANGED <<session, stop, ivr, outcomes>>
\* The wait is stopped, and the IVR told or the call torn down.
AbandonSession(to) ==
    /\ to = AfterSignal
    /\ stop' = Stopped("accepted")
    /\ session' = [session EXCEPT !.tst = "abandoned", !.done = FALSE]
    /\ IF session.done THEN Outcome("abandoned") ELSE UNCHANGED <<ivr, outcomes>>
    /\ UNCHANGED hop

\* The resources of a removed session; a transfer begun since is abandoned too,
\* and closing TransferDone reads as completed.
ReleaseSession(to) ==
    LET abandons == session.tst = "waiting" /\ session.tid # NoOne IN
    /\ to = "done"
    /\ IF session.done THEN Outcome("completed") ELSE UNCHANGED <<ivr, outcomes>>
    /\ session' = [session EXCEPT !.pc = NoOne, !.cancel = NoOne, !.done = FALSE,
                                  !.tst = IF abandons THEN "abandoned" ELSE @]
    /\ hop' = IF abandons /\ hop[session.tid].status = "waiting"
              THEN [hop EXCEPT ![session.tid].status = "abandoned"] ELSE hop
    /\ stop' = Stopped("cancelled")

TeardownStep(pc, of, to) ==
    \/ pc = "cleanup" /\ CleanupSession(to)
    \/ pc = "abandon" /\ FindWaiting(to)
    \/ pc = "abandonRow" /\ AbandonRow(of, to)
    \/ pc = "abandonSession" /\ AbandonSession(to)
    \/ pc = "release" /\ ReleaseSession(to)
\* The transfer found waiting is held while it is abandoned.
TeardownHolds(of, to) ==
    IF to = "abandonRow" THEN session.tid ELSE IF to = "abandonSession" THEN of ELSE NoOne

RingTearsDown(x) ==
    /\ \E to \in Teardown \cup {"done"} :
        TeardownStep(ring[x].pc, ring[x].of, to) /\ RTo(x, to, TeardownHolds(ring[x].of, to))
    /\ UNCHANGED <<callLog, handler, claims, budget>>
HandlerTearsDown(h) ==
    /\ \E to \in Teardown \cup {"done"} :
        TeardownStep(handler[h].pc, handler[h].of, to)
        /\ HTo(h, to, TeardownHolds(handler[h].of, to))
    /\ UNCHANGED <<callLog, ring, claims, budget>>

-------------------------------------------------------------------------------
(* ConnectCallTransfer and ConnectAgentToTransfer *)

\* The row is read: it waits, and a call without a team rings one agent only.
Accept(h, a, x) ==
    /\ HBegin(h, "claim", a, x)
    /\ hop[x].status = "waiting"
    /\ hop[x].team \/ hop[x].agent \in {a, NoOne}
    /\ UNCHANGED <<session, hop, callLog, ring, stop, ivr, claims, outcomes>>

\* The UPDATE ... WHERE status = waiting; a body without an offer ends here.
ClaimRow(h, offers) ==
    LET x == handler[h].hop IN
    /\ HAt(h, "claim")
    /\ IF hop[x].status = "waiting"
       THEN /\ hop' = [hop EXCEPT ![x].status = "connected"]
            /\ IF offers THEN HGo(h, "connect") ELSE HRest(h)
       ELSE HRest(h) /\ UNCHANGED hop
    /\ UNCHANGED <<session, callLog, ring, stop, ivr, claims, outcomes, budget>>

ClaimSession_AnyState(h) ==
    LET x == handler[h].hop IN
    /\ HAt(h, "connect")
    /\ IF session.live /\ session.tid = x
       THEN /\ session' = [session EXCEPT !.tst = "connected", !.cancel = NoOne]
            /\ stop' = Stopped("accepted")
            /\ claims' = [claims EXCEPT ![x] = @ + 1]
            /\ HGo(h, "setup")
       ELSE HGo(h, "revert") /\ UNCHANGED <<session, stop, claims>>
    /\ UNCHANGED <<hop, callLog, ring, ivr, outcomes, budget>>
ClaimSession(h) ==
    LET x == handler[h].hop IN
    /\ HAt(h, "connect")
    /\ IF session.live /\ session.tid = x /\ session.tst = "waiting"
       THEN /\ session' = [session EXCEPT !.tst = "connected", !.cancel = NoOne]
            /\ stop' = Stopped("accepted")
            /\ claims' = [claims EXCEPT ![x] = @ + 1]
            /\ HGo(h, "setup")
       ELSE HGo(h, "revert") /\ UNCHANGED <<session, stop, claims>>
    /\ UNCHANGED <<hop, callLog, ring, ivr, outcomes, budget>>

\* The agent's peer connection is negotiated and stored; or it fails.
SetUp(h, works) ==
    /\ HAt(h, "setup")
    /\ session' = IF works THEN [session EXCEPT !.pc = handler[h].hop] ELSE session
    /\ HGo(h, IF works THEN "track" ELSE "revert")
    /\ UNCHANGED <<hop, callLog, ring, stop, ivr, claims, outcomes, budget>>

\* The error path of the handler puts the row back, never the session.
Revert(h) ==
    LET x == handler[h].hop IN
    /\ HAt(h, "revert")
    /\ hop' = IF hop[x].status = "connected" THEN [hop EXCEPT ![x].status = "waiting"] ELSE hop
    /\ HRest(h)
    /\ UNCHANGED <<session, callLog, ring, stop, ivr, claims, outcomes, budget>>

\* completeTransferConnection: the microphone arrives in time and the bridge takes
\* over, or the transfer ends.
TrackReady(h, inTime) ==
    /\ HAt(h, "track")
    /\ IF inTime
       THEN /\ stop' = Stopped("cancelled")
            /\ session' = [session EXCEPT !.tst = "connected"]
            /\ HGo(h, "record")
       ELSE HGo(h, "end") /\ UNCHANGED <<session, stop>>
    /\ UNCHANGED <<hop, callLog, ring, ivr, claims, outcomes, budget>>

\* The background update of the row and of the call log.
RecordConnection(h) ==
    LET x == handler[h].hop IN
    /\ HAt(h, "record")
    /\ hop' = [hop EXCEPT ![x].status = "connected", ![x].agent = handler[h].agent]
    /\ callLog' = [callLog EXCEPT !.agent = handler[h].agent]
    /\ HRest(h)
    /\ UNCHANGED <<session, ring, stop, ivr, claims, outcomes, budget>>

-------------------------------------------------------------------------------
(* EndTransfer, from the hangup endpoint or from the agent's peer connection *)

HangupCallTransfer(h, x) ==
    /\ HBegin(h, "end", NoOne, x)
    /\ hop[x].status \notin {"unused", "absent"}
    /\ UNCHANGED <<session, hop, callLog, ring, stop, ivr, claims, outcomes>>

PeerGone(h, x) ==
    /\ HAt(h, "idle") /\ session.pc = x
    /\ handler' = [handler EXCEPT ![h].pc = "end", ![h].hop = x]
    /\ UNCHANGED <<session, hop, callLog, ring, stop, ivr, claims, outcomes, budget>>

EndTransfer(h) ==
    /\ HAt(h, "end")
    /\ IF session.live /\ session.tid = handler[h].hop /\ session.tst # "completed"
       THEN /\ session' = [session EXCEPT !.tst = "completed", !.pc = NoOne, !.cancel = NoOne]
            /\ stop' = Stopped("cancelled")
            /\ HGo(h, "signal")
       ELSE HRest(h) /\ UNCHANGED <<session, stop>>
    /\ UNCHANGED <<hop, callLog, ring, ivr, claims, outcomes, budget>>

EndTransferSignal(h) ==
    /\ HAt(h, "signal")
    /\ hop' = [hop EXCEPT ![handler[h].hop].status = "completed"]
    /\ Signal("completed") /\ HTo(h, AfterSignal, NoOne)
    /\ UNCHANGED <<callLog, ring, stop, claims, budget>>

-------------------------------------------------------------------------------
(* The caller leaves *)

\* The terminate webhook: a call that reached no agent and no transfer is missed.
HangUp(h) ==
    /\ HAt(h, "idle") /\ budget.hangups > 0
    /\ budget' = [budget EXCEPT !.hangups = @ - 1]
    /\ callLog' = [callLog EXCEPT
            !.status = IF callLog.agent = NoOne /\ callLog.status # "transferring"
                       THEN "missed" ELSE "completed"]
    /\ HGo(h, "endcall")
    /\ UNCHANGED <<session, hop, ring, stop, ivr, claims, outcomes>>

\* The peer connection of the caller fails; its notifications come one at a time.
CallerLost(h) ==
    /\ HAt(h, "idle") /\ session.live
    /\ \A g \in Handlers : handler[g].pc \notin Teardown \cup {"endcall"}
    /\ HGo(h, "endcall")
    /\ UNCHANGED <<session, hop, callLog, ring, stop, ivr, claims, outcomes, budget>>

EndCall(h) ==
    /\ HAt(h, "endcall")
    /\ HGo(h, IF session.live /\ session.tst = "waiting" THEN "abandon" ELSE "cleanup")
    /\ UNCHANGED <<session, hop, callLog, ring, stop, ivr, claims, outcomes, budget>>

-------------------------------------------------------------------------------
(* The connected agent passes the call on *)

\* The agent's side is taken down under the lock, before there is a row.
InitiateAgentTransfer(h, a) ==
    /\ HBegin(h, "insert", a, NoOne) /\ FreeRow
    /\ session.live /\ session.tst # "waiting"
    /\ session' = [session EXCEPT !.pc = NoOne, !.tid = NoOne, !.tst = "waiting"]
    /\ UNCHANGED <<hop, callLog, ring, stop, ivr, claims, outcomes>>

\* Then the row, and a chosen agent is rung until the timeout, or the team in turn.
InsertAgentTransfer(h, x, target) ==
    /\ HAt(h, "insert")
    /\ hop[x].status = "unused"
    /\ hop' = [hop EXCEPT ![x] = [status |-> "waiting", agent |-> target, team |-> TRUE]]
    /\ callLog' = [callLog EXCEPT !.status = "transferring"]
    /\ session' = [session EXCEPT !.tid = x, !.cancel = x]
    /\ RGo(x, IF target = NoOne THEN "rotate" ELSE "wait")
    /\ HRest(h)
    /\ UNCHANGED <<stop, ivr, claims, outcomes, budget>>

InsertAgentTransferFails(h) ==
    /\ HAt(h, "insert")
    /\ HRest(h)
    /\ UNCHANGED <<session, hop, callLog, ring, stop, ivr, claims, outcomes, budget>>

-------------------------------------------------------------------------------
IVRStep ==
    \/ \E sticky \in BOOLEAN : MediaConnected(sticky)
    \/ \E terminal \in BOOLEAN : ExecuteTransfer(terminal)
    \/ EndFlow
    \/ \E x \in Hops, team, direct \in BOOLEAN : InitiateTransfer(x, team, direct)
    \/ InitiateTransferFails
    \/ ResumeIVR

RingStep(x) ==
    \/ FallBack(x) \/ (\E a \in Callees : Offer(x, a)) \/ AgentTimeout(x)
    \/ (\E some \in BOOLEAN : Exhausted(x, some)) \/ Told(x) \/ Deadline(x)
    \/ WaitForTransferTimeout(x) \/ NoAnswer(x) \/ NoAnswerSignal(x)
    \/ RingTearsDown(x)

\* What a handler that has begun does next.
HandlerStep(h) ==
    \/ \E yes \in BOOLEAN : ClaimRow(h, yes) \/ SetUp(h, yes) \/ TrackReady(h, yes)
    \/ ClaimSession(h) \/ Revert(h) \/ RecordConnection(h)
    \/ EndTransfer(h) \/ EndTransferSignal(h) \/ EndCall(h)
    \/ (\E x \in Hops, target \in Callees \cup {NoOne} : InsertAgentTransfer(h, x, target))
    \/ InsertAgentTransferFails(h)
    \/ HandlerTearsDown(h)

Request(h) ==
    \/ \E a \in Callees, x \in Hops : Accept(h, a, x)
    \/ \E x \in Hops : HangupCallTransfer(h, x) \/ PeerGone(h, x)
    \/ \E a \in Callees : InitiateAgentTransfer(h, a)
    \/ HangUp(h) \/ CallerLost(h)

CallNext == IVRStep \/ (\E x \in Hops : RingStep(x)) \/ (\E h \in Handlers : HandlerStep(h) \/ Request(h))

\* Goroutines that can run do, timers fire, and no caller stays for ever.
CallFairness ==
    /\ WF_callVars(IVRStep)
    /\ \A x \in Hops : WF_callVars(RingStep(x))
    /\ \A h \in Handlers : WF_callVars(HandlerStep(h))
    /\ WF_callVars(\E h \in Handlers : CallerLost(h))

CallSpec == CallInit /\ [][CallNext]_callVars /\ CallFairness

-------------------------------------------------------------------------------
(* Properties *)

\* At most one agent ever passes the session's claim for a transfer, although the
\* row may be claimed, reverted and claimed again.
OneAgentPerTransfer == \A x \in Hops : claims[x] <= 1

\* TransferDone carries one outcome per transfer, whoever of the agent, the timeout
\* and the caller ends it: the goroutine is resumed once and nobody blocks on a
\* channel that is read once.
OneOutcome == \A x \in Hops : outcomes[x] <= 1

\* While the session waits on a transfer somebody will end the wait: the goroutine
\* that rings for it lives, and has not been told to stop nor given up.
Ringing == {"direct", "rotate", "offered", "wait", "noanswer"}
WaitingHasRinger ==
    session.tst = "waiting" /\ session.tid # NoOne => ring[session.tid].pc \in Ringing

\* However agents, timers and hangups race: one agent gets a transfer, it has one
\* outcome, and while it waits some goroutine still rings or times it out.
TransfersSettleOnce == CallTypeOK /\ OneAgentPerTransfer /\ OneOutcome /\ WaitingHasRinger

\* A transfer an agent began whose row could not be inserted: the session waits on
\* nothing, and neither EndCall nor cleanupSession takes it down any more.
Orphaned ==
    /\ session.tst = "waiting" /\ session.tid = NoOne
    /\ \A h \in Handlers : ~HAt(h, "insert")

\* A flow that handed the caller to the agents goes on: whatever becomes of the
\* transfer, the goroutine blocked on TransferDone is resumed, unless the session
\* is orphaned.
IVRResumes == (ivr.pc = "block" /\ ivr.hop # NoOne) ~> (ivr.pc # "block" \/ Orphaned)

=============================================================================
