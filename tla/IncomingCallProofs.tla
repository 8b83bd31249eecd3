--------------------------- MODULE IncomingCallProofs ---------------------------
(***************************************************************************)
(* Proofs about IncomingCall, for any agents, rows, goroutines and bounds: *)
(* a transfer gets one agent and its IVR one outcome, and while a session  *)
(* waits on a transfer the goroutine that rings for it is alive.           *)
(***************************************************************************)
EXTENDS IncomingCall, TLAPS

-------------------------------------------------------------------------------
(* The inductive invariant *)

\* Nothing refers to a row that was not inserted.
Untouched(x) ==
    /\ claims[x] = 0 /\ outcomes[x] = 0 /\ stop[x] = "no" /\ ring[x].pc = "none"
    /\ session.tid # x /\ session.cancel # x /\ ivr.hop # x
UnusedUntouched == \A x \in Hops : hop[x].status = "unused" => Untouched(x)

\* The session's transfer was claimed by nobody while it waits, and its goroutine
\* has not been told to stop: whoever tells it settles the session in that step.
WaitingIsFresh ==
    session.tst = "waiting" /\ session.tid # NoOne =>
        claims[session.tid] = 0 /\ stop[session.tid] = "no"

\* The channel of the IVR's transfer is in the session only until it was used.
ChannelIsFresh == session.done /\ ivr.hop # NoOne => outcomes[ivr.hop] = 0

CallInv ==
    /\ CallTypeOK /\ UnusedUntouched /\ WaitingIsFresh /\ WaitingHasRinger /\ ChannelIsFresh
    /\ OneAgentPerTransfer /\ OneOutcome

-------------------------------------------------------------------------------
(* Kinds of steps *)

\* A row never goes back to being unused.
RowsStay == \A x \in Hops : hop'[x].status = "unused" => hop[x].status = "unused"

\* Neither the session begins to wait on a transfer, nor is one's goroutine told to stop
\* while the session goes on waiting on it.
NewsOfWaiting ==
    session'.tst = "waiting" /\ session'.tid # NoOne =>
        /\ session.tst = "waiting" /\ session'.tid = session.tid
        /\ claims'[session.tid] = claims[session.tid]
        /\ stop'[session.tid] = stop[session.tid]
        /\ ring'[session.tid].pc \in Ringing

\* The channel is neither made nor used for the transfer the IVR waits on; or it is
\* taken out of the session as it is used.
NewsOfChannel ==
    \/ outcomes' = outcomes /\ ivr'.hop = ivr.hop /\ (session'.done => session.done)
    \/ outcomes' = outcomes /\ ivr'.hop = NoOne
    \/ /\ session.done /\ ~session'.done /\ ivr'.hop = ivr.hop
       /\ outcomes' = IF ivr.hop = NoOne THEN outcomes ELSE [outcomes EXCEPT ![ivr.hop] = @ + 1]

\* What is done to unused rows: nothing.
NewsOfRows ==
    \A x \in Hops : hop'[x].status = "unused" =>
        /\ claims'[x] = claims[x] /\ stop'[x] = stop[x] /\ ring'[x].pc = ring[x].pc
        /\ session'.tid = x => session.tid = x
        /\ session'.cancel = x => session.cancel = x

\* A step of a transfer that is under way keeps the invariant.
LEMMA CallsGoOn ==
  ASSUME CallInv, CallTypeOK', RowsStay, NewsOfWaiting, NewsOfChannel, NewsOfRows,
         \/ claims' = claims
         \/ \E x \in Hops : claims[x] = 0 /\ claims' = [claims EXCEPT ![x] = 1]
  PROVE  CallInv'
  <1>1. CallTypeOK
    BY DEF CallInv
  <1>2. OneAgentPerTransfer'
    BY <1>1 DEF CallInv, OneAgentPerTransfer, CallTypeOK
  <1>3. OneOutcome' /\ ChannelIsFresh'
    BY <1>1 DEF CallInv, OneOutcome, ChannelIsFresh, NewsOfChannel, CallTypeOK, IVR
  <1>4. WaitingIsFresh' /\ WaitingHasRinger'
    BY DEF CallInv, WaitingIsFresh, WaitingHasRinger, NewsOfWaiting
  <1>5. UnusedUntouched'
    <2> SUFFICES ASSUME NEW x \in Hops, hop'[x].status = "unused"
                 PROVE  Untouched(x)'
      BY DEF UnusedUntouched
    <2>1. Untouched(x)
      BY DEF RowsStay, CallInv, UnusedUntouched
    <2>2. ivr'.hop # x /\ outcomes'[x] = outcomes[x]
      BY <1>1, <2>1, CallAssumption DEF NewsOfChannel, Untouched, CallTypeOK, IVR
    <2> QED BY <2>1, <2>2 DEF NewsOfRows, Untouched
  <1> QED BY <1>2, <1>3, <1>4, <1>5 DEF CallInv

-------------------------------------------------------------------------------
(* Moves of the goroutines and of the rows *)

RingPCs == {"none", "direct", "rotate", "offered", "wait", "noanswer", "signal", "done"}
              \cup Teardown
HandlerPCs == {"idle", "claim", "connect", "revert", "setup", "track", "record",
               "end", "signal", "endcall", "insert"} \cup Teardown

LEMMA RingMoves ==
  ASSUME ring \in [Hops -> Ring], NEW x \in Hops, NEW pc \in RingPCs,
         NEW of \in Hops \cup {NoOne}, RTo(x, pc, of)
  PROVE  /\ ring' \in [Hops -> Ring] /\ ring'[x].pc = pc
         /\ \A y \in Hops : y # x => ring'[y] = ring[y]
  <1> DEFINE new == IF pc = "done" THEN [Silent EXCEPT !.pc = pc]
                    ELSE [ring[x] EXCEPT !.pc = pc, !.of = of]
  <1>1. new \in Ring /\ new.pc = pc
    BY DEF Ring, RingPCs, Silent
  <1>2. ring' = [ring EXCEPT ![x] = new]
    BY DEF RTo
  <1> HIDE DEF new
  <1> QED BY <1>1, <1>2

LEMMA RingGoes ==
  ASSUME ring \in [Hops -> Ring], NEW x \in Hops, NEW pc \in RingPCs, RGo(x, pc)
  PROVE  /\ ring' \in [Hops -> Ring] /\ ring'[x].pc = pc
         /\ \A y \in Hops : y # x => ring'[y] = ring[y]
  BY RingMoves DEF RGo

LEMMA HandlerMoves ==
  ASSUME handler \in [Handlers -> Handler], NEW h \in Handlers, NEW pc \in HandlerPCs \cup {"done"},
         NEW of \in Hops \cup {NoOne},
         HTo(h, pc, of) \/ HRest(h) \/ (pc # "done" /\ HGo(h, pc))
  PROVE  handler' \in [Handlers -> Handler]
  <1>1. AtRest \in Handler
    BY DEF AtRest, Handler
  <1>2. CASE HRest(h) \/ (pc = "done" /\ HTo(h, pc, of))
    BY <1>1, <1>2 DEF HRest, HTo
  <1>3. CASE pc # "done" /\ HTo(h, pc, of)
    <2>1. [handler[h] EXCEPT !.pc = pc, !.of = of] \in Handler
      BY <1>3 DEF Handler, HandlerPCs
    <2>2. handler' = [handler EXCEPT ![h] = [handler[h] EXCEPT !.pc = pc, !.of = of]]
      BY <1>3 DEF HTo
    <2> QED BY <2>1, <2>2
  <1>4. CASE pc # "done" /\ HGo(h, pc)
    <2>1. [handler[h] EXCEPT !.pc = pc] \in Handler
      BY <1>4 DEF Handler, HandlerPCs
    <2>2. handler' = [handler EXCEPT ![h] = [handler[h] EXCEPT !.pc = pc]]
      BY <1>4 DEF HGo
    <2> QED BY <2>1, <2>2
  <1> QED BY <1>2, <1>3, <1>4

LEMMA HandlerGoes ==
  ASSUME handler \in [Handlers -> Handler], NEW h \in Handlers, NEW pc \in HandlerPCs,
         HGo(h, pc) \/ HRest(h)
  PROVE  handler' \in [Handlers -> Handler]
  <1>1. pc # "done" /\ pc \in HandlerPCs \cup {"done"} /\ NoOne \in Hops \cup {NoOne}
    BY DEF HandlerPCs, Teardown
  <1> QED BY <1>1, HandlerMoves

LEMMA HandlerBegins ==
  ASSUME CallTypeOK, NEW h \in Handlers, NEW pc \in HandlerPCs, NEW a \in Callees \cup {NoOne},
         NEW x \in Hops \cup {NoOne}, HBegin(h, pc, a, x)
  PROVE  /\ handler' \in [Handlers -> Handler]
         /\ budget' \in [rows : SUBSET Hops, requests : Nat, hangups : Nat]
  <1>1. [pc |-> pc, agent |-> a, hop |-> x, of |-> NoOne] \in Handler
    BY DEF Handler, HandlerPCs
  <1> QED BY <1>1 DEF HBegin, CallTypeOK

\* A status or an agent is written to a row, if there is one.
LEMMA StatusWrites ==
  ASSUME hop \in [Hops -> CallTransfer], NEW x, NEW s \in CallTransferStatus,
         hop' = [hop EXCEPT ![x].status = s]
  PROVE  hop' \in [Hops -> CallTransfer] /\ RowsStay
  <1>1. CASE x \in Hops
    <2>1. [hop[x] EXCEPT !.status = s] \in CallTransfer /\ s # "unused"
      BY <1>1 DEF CallTransfer, CallTransferStatus
    <2> QED BY <1>1, <2>1 DEF RowsStay, CallTransfer
  <1>2. CASE x \notin Hops
    BY <1>2 DEF RowsStay
  <1> QED BY <1>1, <1>2

LEMMA AgentWrites ==
  ASSUME hop \in [Hops -> CallTransfer], NEW x \in Hops, NEW a \in Callees \cup {NoOne},
         hop' = [hop EXCEPT ![x].agent = a]
  PROVE  hop' \in [Hops -> CallTransfer] /\ RowsStay
  <1>1. [hop[x] EXCEPT !.agent = a] \in CallTransfer /\ [hop[x] EXCEPT !.agent = a].status = hop[x].status
    BY DEF CallTransfer
  <1> QED BY <1>1 DEF RowsStay

\* The session's own goroutine is told to stop.
LEMMA StoppedOne ==
  ASSUME CallTypeOK, NEW how \in {"accepted", "cancelled"}
  PROVE  /\ Stopped(how) \in [Hops -> {"no", "accepted", "cancelled"}]
         /\ \A x \in Hops : x # session.cancel => Stopped(how)[x] = stop[x]
  BY DEF Stopped, CallTypeOK

\* What ringing, used and unused rows are.
LEMMA CallFacts ==
  ASSUME CallInv
  PROVE  /\ CallTypeOK
         /\ session \in CallSession /\ hop \in [Hops -> CallTransfer] /\ ring \in [Hops -> Ring]
         /\ handler \in [Handlers -> Handler] /\ ivr \in IVR
         /\ \A x \in Hops : hop[x].status = "unused" => Untouched(x)
         /\ \A x \in Hops : ring[x].pc # "none" => hop[x].status # "unused"
         /\ \A x \in Hops : session.tst = "waiting" /\ session.tid = x =>
              claims[x] = 0 /\ stop[x] = "no" /\ ring[x].pc \in Ringing /\ x # NoOne
  BY CallAssumption
     DEF CallInv, CallTypeOK, UnusedUntouched, Untouched, WaitingIsFresh, WaitingHasRinger

\* A step that leaves the session, the claims, the outcomes and the IVR alone.
LEMMA QuietCalls ==
  ASSUME CallInv, UNCHANGED <<session, stop, ivr, claims, outcomes>>,
         hop' \in [Hops -> CallTransfer], RowsStay, callLog' \in CallLog,
         ring' \in [Hops -> Ring], handler' \in [Handlers -> Handler],
         budget' \in [rows : SUBSET Hops, requests : Nat, hangups : Nat],
         \A x \in Hops : hop'[x].status = "unused" => ring'[x].pc = ring[x].pc,
         \A x \in Hops : session.tst = "waiting" /\ session.tid = x => ring'[x].pc \in Ringing
  PROVE  CallInv'
  <1>1. CallTypeOK'
    BY DEF CallInv, CallTypeOK
  <1>2. NewsOfWaiting
    BY CallFacts DEF NewsOfWaiting, CallSession
  <1> QED BY <1>1, <1>2, CallsGoOn DEF NewsOfChannel, NewsOfRows

-------------------------------------------------------------------------------
(* Steps that leave the session alone *)

LEMMA RingQuiet ==
  ASSUME CallInv, NEW x \in Hops,
         \/ \E a \in Callees : Offer(x, a)
         \/ \E some \in BOOLEAN : Exhausted(x, some)
         \/ AgentTimeout(x) \/ Told(x) \/ Deadline(x) \/ WaitForTransferTimeout(x)
  PROVE  CallInv'
  <1>1. /\ UNCHANGED <<session, callLog, stop, ivr, handler, claims, outcomes, budget>>
        /\ ring[x].pc # "none" /\ ring[x].pc \in {"direct", "rotate", "offered", "wait"}
    BY DEF Offer, Exhausted, AgentTimeout, Told, Deadline, WaitForTransferTimeout
  <1>2. hop[x].status # "unused"
    BY <1>1, CallFacts
  <1>3. hop' \in [Hops -> CallTransfer] /\ RowsStay
    <2>1. CASE hop' = hop
      BY <2>1, CallFacts DEF RowsStay
    <2>2. CASE \E a \in Callees \cup {NoOne} : hop' = [hop EXCEPT ![x].agent = a]
      BY <2>2, CallFacts, AgentWrites
    <2> QED BY <2>1, <2>2
          DEF Offer, Exhausted, AgentTimeout, Told, Deadline, WaitForTransferTimeout
  <1>4. /\ ring' \in [Hops -> Ring] /\ \A y \in Hops : y # x => ring'[y] = ring[y]
        /\ session.tst = "waiting" /\ session.tid = x => ring'[x].pc \in Ringing
    <2>1. CASE \E a \in Callees : Offer(x, a)
      <3>1. PICK a \in Callees : Offer(x, a)
        BY <2>1
      <3> DEFINE pc == IF OnActiveCall(a) THEN "rotate" ELSE "offered"
                 new == [ring[x] EXCEPT !.tried = @ \cup {a}, !.pc = pc]
      <3>2. pc \in {"rotate", "offered"}
        OBVIOUS
      <3>3. ring' = [ring EXCEPT ![x] = new]
        BY <3>1, CallFacts DEF Offer
      <3> HIDE DEF pc
      <3>4. new \in Ring /\ new.pc = pc
        BY <3>2, CallFacts DEF Ring
      <3> HIDE DEF new
      <3> QED BY <3>2, <3>3, <3>4, CallFacts DEF Ringing
    <2>2. CASE \E some \in BOOLEAN : Exhausted(x, some)
      <3>1. PICK pc \in {"done", "wait", "noanswer"} :
              RGo(x, pc) /\ (session.tst = "waiting" => pc # "done")
        BY <2>2 DEF Exhausted
      <3>2. pc \in RingPCs
        BY DEF RingPCs
      <3> QED BY <3>1, <3>2, CallFacts, RingGoes DEF Ringing
    <2>3. CASE Told(x)
      <3>1. "done" \in RingPCs
        BY DEF RingPCs
      <3> QED BY <2>3, <3>1, CallFacts, RingGoes DEF Told
    <2>4. CASE Deadline(x) \/ WaitForTransferTimeout(x) \/ AgentTimeout(x)
      <3>1. PICK pc \in {"done", "rotate", "noanswer"} :
              RGo(x, pc) /\ (session.tst = "waiting" => pc # "done")
        BY <2>4 DEF Deadline, WaitForTransferTimeout, AgentTimeout
      <3>2. pc \in RingPCs
        BY DEF RingPCs
      <3> QED BY <3>1, <3>2, CallFacts, RingGoes DEF Ringing
    <2> QED BY <2>1, <2>2, <2>3, <2>4
  <1>5. \A y \in Hops : session.tst = "waiting" /\ session.tid = y => ring'[y].pc \in Ringing
    BY <1>4, CallFacts
  <1>6. \A y \in Hops : hop'[y].status = "unused" => ring'[y].pc = ring[y].pc
    BY <1>2, <1>3, <1>4 DEF RowsStay
  <1> QED BY <1>1, <1>3, <1>4, <1>5, <1>6, CallFacts, QuietCalls DEF CallTypeOK

LEMMA RequestQuiet ==
  ASSUME CallInv, NEW h \in Handlers,
         \/ \E a \in Callees, x \in Hops : Accept(h, a, x)
         \/ \E x \in Hops : HangupCallTransfer(h, x) \/ PeerGone(h, x)
         \/ HangUp(h) \/ CallerLost(h) \/ EndCall(h) \/ InsertAgentTransferFails(h)
  PROVE  CallInv'
  <1>1. /\ UNCHANGED <<session, stop, ivr, claims, outcomes, hop, ring>>
        /\ CallTypeOK /\ handler \in [Handlers -> Handler]
        /\ {"claim", "end", "endcall", "abandon", "cleanup", "idle"} \subseteq HandlerPCs
    BY CallFacts DEF Accept, HangupCallTransfer, PeerGone, HangUp, CallerLost, EndCall,
           InsertAgentTransferFails, HandlerPCs, Teardown
  <1>2. /\ handler' \in [Handlers -> Handler]
        /\ budget' \in [rows : SUBSET Hops, requests : Nat, hangups : Nat]
    <2>1. CASE \E a \in Callees, x \in Hops : Accept(h, a, x)
      BY <1>1, <2>1, HandlerBegins DEF Accept
    <2>2. CASE \E x \in Hops : HangupCallTransfer(h, x)
      BY <1>1, <2>2, HandlerBegins DEF HangupCallTransfer
    <2>3. CASE \E x \in Hops : PeerGone(h, x)
      <3>1. PICK x \in Hops : PeerGone(h, x)
        BY <2>3
      <3>2. [handler[h] EXCEPT !.pc = "end", !.hop = x] \in Handler
        BY <1>1 DEF Handler
      <3> QED BY <1>1, <3>1, <3>2 DEF PeerGone, CallTypeOK
    <2>4. CASE HangUp(h)
      <3>1. handler' \in [Handlers -> Handler]
        BY <1>1, <2>4, HandlerGoes DEF HangUp
      <3>2. budget.hangups > 0 /\ budget.hangups \in Nat /\ budget.hangups - 1 \in Nat
        BY <1>1, <2>4 DEF HangUp, CallTypeOK
      <3> QED BY <1>1, <2>4, <3>1, <3>2 DEF HangUp, CallTypeOK
    <2>5. CASE CallerLost(h)
      BY <1>1, <2>5, HandlerGoes DEF CallerLost, CallTypeOK
    <2>6. CASE EndCall(h)
      BY <1>1, <2>6, HandlerGoes DEF EndCall, CallTypeOK
    <2>7. CASE InsertAgentTransferFails(h)
      BY <1>1, <2>7, HandlerGoes DEF InsertAgentTransferFails, CallTypeOK
    <2> QED BY <2>1, <2>2, <2>3, <2>4, <2>5, <2>6, <2>7
  <1>3. callLog' \in CallLog
    BY <1>1 DEF CallTypeOK, CallLog, Accept, HangupCallTransfer, PeerGone, HangUp, CallerLost,
           EndCall, InsertAgentTransferFails
  <1> QED BY <1>1, <1>2, <1>3, CallFacts, QuietCalls DEF RowsStay

LEMMA RowQuiet ==
  ASSUME CallInv, NEW h \in Handlers,
         (\E offers \in BOOLEAN : ClaimRow(h, offers)) \/ Revert(h) \/ RecordConnection(h)
  PROVE  CallInv'
  <1>1. /\ UNCHANGED <<session, stop, ivr, claims, outcomes, ring, budget>>
        /\ CallTypeOK /\ handler \in [Handlers -> Handler] /\ hop \in [Hops -> CallTransfer]
        /\ handler[h].agent \in Callees \cup {NoOne}
        /\ {"connect", "idle"} \subseteq HandlerPCs
    BY CallFacts DEF ClaimRow, Revert, RecordConnection, HandlerPCs, Handler
  <1>2. handler' \in [Handlers -> Handler]
    BY <1>1, HandlerGoes DEF ClaimRow, Revert, RecordConnection
  <1>3. callLog' \in CallLog
    BY <1>1 DEF ClaimRow, Revert, RecordConnection, CallTypeOK, CallLog
  <1>4. hop' \in [Hops -> CallTransfer] /\ RowsStay
    <2>1. CASE hop' = hop
      BY <1>1, <2>1 DEF RowsStay
    <2>2. CASE \E s \in {"connected", "waiting"} : hop' = [hop EXCEPT ![handler[h].hop].status = s]
      BY <1>1, <2>2, StatusWrites DEF CallTransferStatus
    <2>3. CASE RecordConnection(h)
      <3> DEFINE x == handler[h].hop
                 new == [hop[x] EXCEPT !.status = "connected", !.agent = handler[h].agent]
      <3>1. CASE x \in Hops
        <4>0. hop[x] \in CallTransfer
          BY <1>1, <3>1
        <4>1. new \in CallTransfer /\ new.status = "connected"
          BY <1>1, <4>0 DEF CallTransfer, CallTransferStatus
        <4>2. hop' = [hop EXCEPT ![x] = new]
          BY <1>1, <2>3 DEF RecordConnection
        <4> HIDE DEF new, x
        <4> QED BY <1>1, <3>1, <4>1, <4>2 DEF RowsStay
      <3>2. CASE x \notin Hops
        BY <1>1, <2>3, <3>2 DEF RecordConnection, RowsStay
      <3> QED BY <3>1, <3>2
    <2> QED BY <2>1, <2>2, <2>3 DEF ClaimRow, Revert
  <1> QED BY <1>1, <1>2, <1>3, <1>4, CallFacts, QuietCalls DEF CallTypeOK

-------------------------------------------------------------------------------
(* The IVR *)

LEMMA IVRKeeps ==
  ASSUME CallInv,
         \/ \E sticky \in BOOLEAN : MediaConnected(sticky)
         \/ \E terminal \in BOOLEAN : ExecuteTransfer(terminal)
         \/ EndFlow \/ InitiateTransferFails \/ ResumeIVR
  PROVE  CallInv'
  <1>1. /\ UNCHANGED <<hop, callLog, ring, stop, handler, claims, outcomes, budget>>
        /\ CallTypeOK /\ session \in CallSession /\ ivr \in IVR
    BY CallFacts DEF MediaConnected, ExecuteTransfer, EndFlow, InitiateTransferFails, ResumeIVR
  <1>2. session' \in CallSession /\ session'.tid = session.tid /\ session'.tst = session.tst
        /\ session'.cancel = session.cancel
    <2>1. CASE \E terminal \in BOOLEAN : ExecuteTransfer(terminal)
      <3>1. PICK done \in BOOLEAN : session' = [session EXCEPT !.done = done]
        <4>1. session.done \in BOOLEAN
          BY <1>1 DEF CallSession
        <4> QED BY <2>1, <4>1 DEF ExecuteTransfer
      <3> QED BY <1>1, <3>1 DEF CallSession
    <2>2. CASE session' = session
      BY <1>1, <2>2
    <2> QED BY <2>1, <2>2 DEF MediaConnected, EndFlow, InitiateTransferFails, ResumeIVR
  <1>3. ivr' \in IVR /\ (ivr'.hop = NoOne \/ (session' = session /\ ivr'.hop = ivr.hop))
    <2>1. CASE \E sticky \in BOOLEAN : MediaConnected(sticky)
      <3>1. PICK pc \in {"insert", "run"}, sticky \in BOOLEAN :
              ivr' = [ivr EXCEPT !.pc = pc, !.terminal = sticky] /\ session' = session
        BY <2>1 DEF MediaConnected
      <3> QED BY <1>1, <3>1 DEF IVR
    <2>2. CASE \E terminal \in BOOLEAN : ExecuteTransfer(terminal)
      BY <1>1, <2>2 DEF IVR, ExecuteTransfer
    <2>3. CASE EndFlow \/ (InitiateTransferFails /\ ivr.terminal)
      <3>1. Ended \in IVR /\ Ended.hop = NoOne
        BY DEF IVR, Ended
      <3> QED BY <2>3, <3>1 DEF EndFlow, InitiateTransferFails
    <2>4. CASE InitiateTransferFails /\ ~ivr.terminal
      BY <1>1, <2>4 DEF IVR, InitiateTransferFails
    <2>5. CASE ResumeIVR
      BY <1>1, <2>5 DEF IVR, ResumeIVR
    <2> QED BY <2>1, <2>2, <2>3, <2>4, <2>5
  <1>4. CallTypeOK'
    BY <1>1, <1>2, <1>3 DEF CallTypeOK
  <1>5. NewsOfChannel
    <2>1. CASE ivr'.hop = NoOne
      BY <1>1, <2>1 DEF NewsOfChannel
    <2>2. CASE session' = session /\ ivr'.hop = ivr.hop
      BY <1>1, <2>2 DEF NewsOfChannel
    <2> QED BY <1>3, <2>1, <2>2
  <1>6. NewsOfWaiting
    BY <1>1, <1>2, CallFacts DEF NewsOfWaiting, CallSession
  <1> QED BY <1>1, <1>2, <1>4, <1>5, <1>6, CallsGoOn DEF NewsOfRows, RowsStay

-------------------------------------------------------------------------------
(* A transfer begins *)

\* The session waits on a row that was not used, and its goroutine rings.
LEMMA Begins ==
  ASSUME CallInv, CallTypeOK', NEW x \in Hops, hop[x].status = "unused",
         hop'[x].status # "unused", \A y \in Hops : y # x => hop'[y] = hop[y],
         ring'[x].pc \in Ringing, \A y \in Hops : y # x => ring'[y] = ring[y],
         session'.tid = x, session'.cancel = x, session'.done = session.done,
         ivr'.hop \in {x, NoOne} \/ ivr'.hop = ivr.hop,
         UNCHANGED <<stop, claims, outcomes>>
  PROVE  CallInv'
  <1>1. /\ Untouched(x) /\ x # NoOne /\ outcomes[x] = 0 /\ claims[x] = 0 /\ stop[x] = "no"
        /\ CallTypeOK /\ ivr \in IVR
    BY CallFacts, CallAssumption DEF Untouched
  <1>2. UnusedUntouched'
    <2> SUFFICES ASSUME NEW y \in Hops, hop'[y].status = "unused"
                 PROVE  Untouched(y)'
      BY DEF UnusedUntouched
    <2>1. y # x /\ Untouched(y) /\ y # NoOne
      BY CallFacts, CallAssumption
    <2> QED BY <1>1, <2>1 DEF Untouched
  <1>3. WaitingIsFresh' /\ WaitingHasRinger'
    BY <1>1 DEF WaitingIsFresh, WaitingHasRinger
  <1>4. ChannelIsFresh' /\ OneOutcome' /\ OneAgentPerTransfer'
    BY <1>1 DEF ChannelIsFresh, OneOutcome, OneAgentPerTransfer, CallInv
  <1> QED BY <1>2, <1>3, <1>4 DEF CallInv

LEMMA InitiateKeeps ==
  ASSUME CallInv, NEW x \in Hops, NEW team \in BOOLEAN, NEW direct \in BOOLEAN,
         InitiateTransfer(x, team, direct)
  PROVE  CallInv'
  <1>1. CallTypeOK /\ session \in CallSession /\ ivr \in IVR /\ hop[x].status = "unused"
        /\ hop \in [Hops -> CallTransfer] /\ ring \in [Hops -> Ring]
    BY CallFacts DEF InitiateTransfer
  <1> DEFINE row == [status |-> "waiting", agent |-> NoOne, team |-> team]
             pc == IF direct THEN "direct" ELSE IF team THEN "rotate" ELSE "wait"
  <1>2. row \in CallTransfer /\ row.status = "waiting"
    BY DEF CallTransfer, CallTransferStatus
  <1>3. hop' = [hop EXCEPT ![x] = row]
    BY DEF InitiateTransfer
  <1>4. pc \in RingPCs /\ pc \in Ringing /\ RGo(x, pc)
    BY DEF RingPCs, Ringing, InitiateTransfer
  <1> HIDE DEF row, pc
  <1>5. hop' \in [Hops -> CallTransfer] /\ hop'[x].status = "waiting"
        /\ \A y \in Hops : y # x => hop'[y] = hop[y]
    BY <1>1, <1>2, <1>3
  <1>6. /\ ring' \in [Hops -> Ring] /\ ring'[x].pc = pc
        /\ \A y \in Hops : y # x => ring'[y] = ring[y]
    BY <1>1, <1>4, RingGoes
  <1>7. session' \in CallSession /\ session'.tid = x /\ session'.cancel = x
        /\ session'.done = session.done
    BY <1>1 DEF InitiateTransfer, CallSession, CallTransferStatus
  <1>8. ivr' \in IVR /\ ivr'.hop \in {x, NoOne}
    BY <1>1 DEF InitiateTransfer, IVR, Ended
  <1>9. callLog' \in CallLog
    BY <1>1 DEF InitiateTransfer, CallTypeOK, CallLog
  <1>10. UNCHANGED <<stop, handler, claims, outcomes, budget>>
    BY DEF InitiateTransfer
  <1>11. CallTypeOK'
    BY <1>1, <1>5, <1>6, <1>7, <1>8, <1>9, <1>10 DEF CallTypeOK
  <1> QED BY <1>1, <1>4, <1>5, <1>6, <1>7, <1>8, <1>10, <1>11, Begins

LEMMA InsertKeeps ==
  ASSUME CallInv, NEW h \in Handlers, NEW x \in Hops, NEW target \in Callees \cup {NoOne},
         InsertAgentTransfer(h, x, target)
  PROVE  CallInv'
  <1>1. CallTypeOK /\ session \in CallSession /\ hop[x].status = "unused"
        /\ hop \in [Hops -> CallTransfer] /\ ring \in [Hops -> Ring]
        /\ handler \in [Handlers -> Handler]
    BY CallFacts DEF InsertAgentTransfer
  <1> DEFINE row == [status |-> "waiting", agent |-> target, team |-> TRUE]
             pc == IF target = NoOne THEN "rotate" ELSE "wait"
  <1>2. row \in CallTransfer /\ row.status = "waiting"
    BY DEF CallTransfer, CallTransferStatus
  <1>3. hop' = [hop EXCEPT ![x] = row]
    BY DEF InsertAgentTransfer
  <1>4. pc \in RingPCs /\ pc \in Ringing /\ RGo(x, pc)
    BY DEF RingPCs, Ringing, InsertAgentTransfer
  <1> HIDE DEF row, pc
  <1>5. hop' \in [Hops -> CallTransfer] /\ hop'[x].status = "waiting"
        /\ \A y \in Hops : y # x => hop'[y] = hop[y]
    BY <1>1, <1>2, <1>3
  <1>6. /\ ring' \in [Hops -> Ring] /\ ring'[x].pc = pc
        /\ \A y \in Hops : y # x => ring'[y] = ring[y]
    BY <1>1, <1>4, RingGoes
  <1>7. session' \in CallSession /\ session'.tid = x /\ session'.cancel = x
        /\ session'.done = session.done
    BY <1>1 DEF InsertAgentTransfer, CallSession
  <1>8. handler' \in [Handlers -> Handler]
    <2>1. "idle" \in HandlerPCs
      BY DEF HandlerPCs
    <2> QED BY <1>1, <2>1, HandlerGoes DEF InsertAgentTransfer
  <1>9. callLog' \in CallLog
    BY <1>1 DEF InsertAgentTransfer, CallTypeOK, CallLog
  <1>10. UNCHANGED <<stop, ivr, claims, outcomes, budget>>
    BY DEF InsertAgentTransfer
  <1>11. CallTypeOK'
    BY <1>1, <1>5, <1>6, <1>7, <1>8, <1>9, <1>10 DEF CallTypeOK
  <1> QED BY <1>1, <1>4, <1>5, <1>6, <1>7, <1>10, <1>11, Begins

-------------------------------------------------------------------------------
(* Teardowns *)

LEMMA OutcomeSent ==
  ASSUME CallTypeOK, NEW what \in {"completed", "no_answer", "abandoned"}, Outcome(what)
  PROVE  /\ ivr' \in IVR /\ ivr'.hop = ivr.hop /\ outcomes' \in [Hops -> Nat]
         /\ outcomes' = IF ivr.hop = NoOne THEN outcomes ELSE [outcomes EXCEPT ![ivr.hop] = @ + 1]
  BY DEF Outcome, CallTypeOK, IVR

\* What a teardown may find and do, whoever runs it.
LEMMA TearsDown ==
  ASSUME CallInv, NEW pc, NEW of \in Hops \cup {NoOne}, NEW to, TeardownStep(pc, of, to),
         UNCHANGED <<callLog, claims, budget>>,
         ring' \in [Hops -> Ring], handler' \in [Handlers -> Handler],
         \A x \in Hops : hop[x].status = "unused" => ring'[x].pc = ring[x].pc,
         \A x \in Hops : session.tst = "waiting" /\ session.tid = x => ring'[x].pc \in Ringing
  PROVE  CallInv'
  <1>1. CallTypeOK /\ session \in CallSession /\ hop \in [Hops -> CallTransfer] /\ ivr \in IVR
        /\ {"abandoned", "completed"} \subseteq CallTransferStatus
    BY CallFacts DEF CallTransferStatus
  <1>2. CASE CleanupSession(to) \/ FindWaiting(to)
    <2>1. UNCHANGED <<hop, stop, ivr, outcomes>> /\ session' \in CallSession
          /\ session'.tid = session.tid /\ session'.tst = session.tst
          /\ session'.cancel = session.cancel /\ session'.done = session.done
      BY <1>1, <1>2 DEF CleanupSession, FindWaiting, CallSession
    <2>2. CallTypeOK'
      BY <1>1, <2>1 DEF CallTypeOK
    <2>3. NewsOfWaiting /\ NewsOfChannel /\ NewsOfRows /\ RowsStay
      BY <1>1, <2>1, CallFacts
         DEF NewsOfWaiting, NewsOfChannel, NewsOfRows, RowsStay, CallSession
    <2> QED BY <2>2, <2>3, CallsGoOn
  <1>3. CASE AbandonRow(of, to)
    <2>1. UNCHANGED <<session, stop, ivr, outcomes>>
          /\ hop' \in [Hops -> CallTransfer] /\ RowsStay
      BY <1>1, <1>3, StatusWrites DEF AbandonRow
    <2>2. CallTypeOK'
      BY <1>1, <2>1 DEF CallTypeOK
    <2>3. NewsOfWaiting /\ NewsOfChannel /\ NewsOfRows
      BY <1>1, <2>1, CallFacts DEF NewsOfWaiting, NewsOfChannel, NewsOfRows, RowsStay, CallSession
    <2> QED BY <2>1, <2>2, <2>3, CallsGoOn
  <1>4. CASE AbandonSession(to)
    <2>1. /\ session' \in CallSession /\ session'.tid = session.tid /\ session'.tst = "abandoned"
          /\ session'.cancel = session.cancel /\ ~session'.done /\ hop' = hop
      BY <1>1, <1>4 DEF AbandonSession, CallSession
    <2>2. stop' \in [Hops -> {"no", "accepted", "cancelled"}]
          /\ \A x \in Hops : x # session.cancel => stop'[x] = stop[x]
      BY <1>1, <1>4, StoppedOne DEF AbandonSession
    <2>3. ivr' \in IVR /\ outcomes' \in [Hops -> Nat] /\ NewsOfChannel
      BY <1>1, <1>4, <2>1, OutcomeSent DEF AbandonSession, NewsOfChannel, CallTypeOK
    <2>4. CallTypeOK'
      BY <1>1, <2>1, <2>2, <2>3 DEF CallTypeOK
    <2>5. NewsOfWaiting /\ RowsStay /\ NewsOfRows
      BY <2>1, <2>2, CallFacts DEF NewsOfWaiting, RowsStay, NewsOfRows, Untouched
    <2> QED BY <2>3, <2>4, <2>5, CallsGoOn
  <1>5. CASE ReleaseSession(to)
    <2> DEFINE abandons == session.tst = "waiting" /\ session.tid # NoOne
    <2>1. /\ session' \in CallSession /\ session'.tid = session.tid
          /\ session'.tst = (IF abandons THEN "abandoned" ELSE session.tst)
          /\ session'.cancel = NoOne /\ ~session'.done
      BY <1>1, <1>5 DEF ReleaseSession, CallSession
    <2>2. stop' \in [Hops -> {"no", "accepted", "cancelled"}]
          /\ \A x \in Hops : x # session.cancel => stop'[x] = stop[x]
      BY <1>1, <1>5, StoppedOne DEF ReleaseSession
    <2>3. ivr' \in IVR /\ outcomes' \in [Hops -> Nat] /\ NewsOfChannel
      BY <1>1, <1>5, <2>1, OutcomeSent DEF ReleaseSession, NewsOfChannel, CallTypeOK
    <2>4. hop' \in [Hops -> CallTransfer] /\ RowsStay
      <3>1. CASE hop' = hop
        BY <1>1, <3>1 DEF RowsStay
      <3>2. CASE hop' = [hop EXCEPT ![session.tid].status = "abandoned"]
        BY <1>1, <3>2, StatusWrites
      <3> QED BY <1>5, <3>1, <3>2 DEF ReleaseSession
    <2>5. CallTypeOK'
      BY <1>1, <2>1, <2>2, <2>3, <2>4 DEF CallTypeOK
    <2>6. NewsOfWaiting
      BY <2>1 DEF NewsOfWaiting
    <2>7. NewsOfRows
      BY <2>1, <2>2, <2>4, CallFacts, CallAssumption DEF RowsStay, NewsOfRows, Untouched
    <2> QED BY <2>3, <2>4, <2>5, <2>6, <2>7, CallsGoOn
  <1> QED BY <1>2, <1>3, <1>4, <1>5 DEF TeardownStep

LEMMA TeardownKeeps ==
  ASSUME CallInv,
         (\E x \in Hops : RingTearsDown(x)) \/ (\E h \in Handlers : HandlerTearsDown(h))
  PROVE  CallInv'
  <1>1. CallTypeOK /\ session.tid \in Hops \cup {NoOne}
        /\ ring \in [Hops -> Ring] /\ handler \in [Handlers -> Handler]
    BY CallFacts DEF CallSession
  <1>2. ASSUME NEW x \in Hops, RingTearsDown(x)
        PROVE  CallInv'
    <2>1. PICK to \in Teardown \cup {"done"} :
            /\ TeardownStep(ring[x].pc, ring[x].of, to)
            /\ RTo(x, to, TeardownHolds(ring[x].of, to))
      BY <1>2 DEF RingTearsDown
    <2>2. ring[x].of \in Hops \cup {NoOne} /\ to \in RingPCs
      BY <1>1 DEF Ring, RingPCs
    <2>3. TeardownHolds(ring[x].of, to) \in Hops \cup {NoOne}
      BY <1>1, <2>2 DEF TeardownHolds
    <2>4. ring' \in [Hops -> Ring] /\ \A y \in Hops : y # x => ring'[y] = ring[y]
      BY <1>1, <2>1, <2>2, <2>3, RingMoves
    <2>5. ring[x].pc \notin Ringing /\ ring[x].pc # "none" /\ hop[x].status # "unused"
      BY <2>1, CallFacts DEF TeardownStep, Ringing
    <2>6. UNCHANGED <<callLog, handler, claims, budget>>
      BY <1>2 DEF RingTearsDown
    <2> QED BY <1>1, <2>1, <2>2, <2>4, <2>5, <2>6, CallFacts, TearsDown
  <1>3. ASSUME NEW h \in Handlers, HandlerTearsDown(h)
        PROVE  CallInv'
    <2>1. PICK to \in Teardown \cup {"done"} :
            /\ TeardownStep(handler[h].pc, handler[h].of, to)
            /\ HTo(h, to, TeardownHolds(handler[h].of, to))
      BY <1>3 DEF HandlerTearsDown
    <2>2. handler[h].of \in Hops \cup {NoOne} /\ to \in HandlerPCs \cup {"done"}
      BY <1>1 DEF Handler, HandlerPCs
    <2>3. TeardownHolds(handler[h].of, to) \in Hops \cup {NoOne}
      BY <1>1, <2>2 DEF TeardownHolds
    <2>4. handler' \in [Handlers -> Handler]
      BY <1>1, <2>1, <2>2, <2>3, HandlerMoves
    <2>5. UNCHANGED <<callLog, ring, claims, budget>>
      BY <1>3 DEF HandlerTearsDown
    <2> QED BY <1>1, <2>1, <2>2, <2>4, <2>5, CallFacts, TearsDown
  <1> QED BY <1>2, <1>3

-------------------------------------------------------------------------------
(* Ringing ends, or falls back *)

LEMMA FallBackKeeps ==
  ASSUME CallInv, NEW x \in Hops, FallBack(x)
  PROVE  CallInv'
  <1>1. /\ CallTypeOK /\ session \in CallSession /\ hop[x].status # "unused"
        /\ ring \in [Hops -> Ring]
        /\ UNCHANGED <<hop, callLog, ivr, handler, claims, outcomes, budget>>
    BY CallFacts DEF FallBack
  <1>2. /\ session' \in CallSession /\ session'.tid = session.tid /\ session'.tst = session.tst
        /\ session'.cancel \in {session.cancel, x} /\ session'.done = session.done
    BY <1>1 DEF FallBack, CallSession
  <1>3. /\ stop' \in [Hops -> {"no", "accepted", "cancelled"}]
        /\ \A y \in Hops : y # x => stop'[y] = stop[y]
        /\ session.tst = "waiting" => stop'[x] = "no"
    BY <1>1 DEF FallBack, CallTypeOK
  <1>4. PICK pc \in {"done", "rotate", "wait"} :
          RGo(x, pc) /\ (session.tst = "waiting" => pc # "done")
    BY DEF FallBack
  <1>5. /\ ring' \in [Hops -> Ring] /\ ring'[x].pc = pc
        /\ \A y \in Hops : y # x => ring'[y] = ring[y]
    <2>1. pc \in RingPCs
      BY DEF RingPCs
    <2> QED BY <1>1, <1>4, <2>1, RingGoes
  <1>6. CallTypeOK'
    BY <1>1, <1>2, <1>3, <1>5 DEF CallTypeOK
  <1>7. NewsOfWaiting
    BY <1>1, <1>2, <1>3, <1>4, <1>5, CallFacts DEF NewsOfWaiting, CallSession, Ringing
  <1>8. NewsOfRows /\ NewsOfChannel /\ RowsStay
    BY <1>1, <1>2, <1>3, <1>5 DEF NewsOfRows, NewsOfChannel, RowsStay
  <1> QED BY <1>1, <1>6, <1>7, <1>8, CallsGoOn

LEMMA NoAnswerKeeps ==
  ASSUME CallInv, NEW x \in Hops, NoAnswer(x)
  PROVE  CallInv'
  <1>1. /\ CallTypeOK /\ session \in CallSession /\ hop[x].status # "unused"
        /\ ring \in [Hops -> Ring]
        /\ UNCHANGED <<hop, callLog, stop, ivr, handler, claims, outcomes, budget>>
    BY CallFacts DEF NoAnswer
  <1>2. /\ session' \in CallSession /\ session'.tid = session.tid /\ session'.tst # "waiting"
        /\ session'.cancel = session.cancel /\ session'.done = session.done
    BY <1>1 DEF NoAnswer, CallSession, CallTransferStatus
  <1>3. ring' \in [Hops -> Ring] /\ \A y \in Hops : y # x => ring'[y] = ring[y]
    <2>1. {"signal", "done"} \subseteq RingPCs
      BY DEF RingPCs
    <2> QED BY <1>1, <2>1, RingGoes DEF NoAnswer
  <1>4. CallTypeOK'
    BY <1>1, <1>2, <1>3 DEF CallTypeOK
  <1>5. NewsOfWaiting /\ NewsOfRows /\ NewsOfChannel /\ RowsStay
    BY <1>1, <1>2, <1>3 DEF NewsOfWaiting, NewsOfRows, NewsOfChannel, RowsStay
  <1> QED BY <1>1, <1>4, <1>5, CallsGoOn

\* A waiting IVR is resumed, by whoever settled the session.
LEMMA SignalSent ==
  ASSUME CallInv, NEW what \in {"completed", "no_answer", "abandoned"}, Signal(what)
  PROVE  /\ session' \in CallSession /\ session'.tid = session.tid /\ session'.tst = session.tst
         /\ session'.cancel = session.cancel
         /\ ivr' \in IVR /\ outcomes' \in [Hops -> Nat] /\ NewsOfChannel
  <1>1. CallTypeOK /\ session \in CallSession /\ ivr \in IVR
    BY CallFacts
  <1>2. CASE session.done
    <2>1. Outcome(what) /\ session' = [session EXCEPT !.done = FALSE]
      BY <1>2 DEF Signal, Resumed
    <2>2. session' \in CallSession /\ session'.tid = session.tid /\ session'.tst = session.tst
          /\ session'.cancel = session.cancel /\ ~session'.done
      BY <1>1, <2>1 DEF CallSession
    <2> QED BY <1>1, <1>2, <2>1, <2>2, OutcomeSent DEF NewsOfChannel
  <1>3. CASE ~session.done
    BY <1>1, <1>3 DEF Signal, NewsOfChannel, CallTypeOK
  <1> QED BY <1>2, <1>3

LEMMA SignalKeeps ==
  ASSUME CallInv,
         (\E x \in Hops : NoAnswerSignal(x)) \/ (\E h \in Handlers : EndTransferSignal(h))
  PROVE  CallInv'
  <1>1. CallTypeOK /\ hop \in [Hops -> CallTransfer] /\ ring \in [Hops -> Ring]
        /\ session \in CallSession /\ handler \in [Handlers -> Handler]
        /\ AfterSignal \in RingPCs /\ AfterSignal \in HandlerPCs \cup {"done"}
        /\ {"no_answer", "completed"} \subseteq CallTransferStatus
    BY CallFacts DEF AfterSignal, RingPCs, HandlerPCs, Teardown, CallTransferStatus
  <1>2. UNCHANGED <<callLog, stop, claims, budget>>
    BY DEF NoAnswerSignal, EndTransferSignal
  <1>3. hop' \in [Hops -> CallTransfer] /\ RowsStay
    BY <1>1, StatusWrites DEF NoAnswerSignal, EndTransferSignal
  <1>4. /\ session' \in CallSession /\ session'.tid = session.tid /\ session'.tst = session.tst
        /\ session'.cancel = session.cancel
        /\ ivr' \in IVR /\ outcomes' \in [Hops -> Nat] /\ NewsOfChannel
    BY SignalSent DEF NoAnswerSignal, EndTransferSignal
  <1>5. /\ ring' \in [Hops -> Ring]
        /\ \A y \in Hops : hop[y].status = "unused" => ring'[y] = ring[y]
        /\ \A y \in Hops : session.tst = "waiting" /\ session.tid = y => ring'[y] = ring[y]
    <2>1. CASE \E x \in Hops : NoAnswerSignal(x)
      <3>1. PICK x \in Hops : NoAnswerSignal(x)
        BY <2>1
      <3>2. ring' \in [Hops -> Ring] /\ \A y \in Hops : y # x => ring'[y] = ring[y]
        BY <1>1, <3>1, RingGoes DEF NoAnswerSignal
      <3>3. ring[x].pc = "signal" /\ hop[x].status # "unused"
            /\ ~(session.tst = "waiting" /\ session.tid = x)
        BY <3>1, CallFacts DEF NoAnswerSignal, Ringing
      <3> QED BY <3>2, <3>3
    <2>2. CASE \E h \in Handlers : EndTransferSignal(h)
      BY <1>1, <2>2 DEF EndTransferSignal
    <2> QED BY <2>1, <2>2
  <1>6. handler' \in [Handlers -> Handler]
    <2>1. NoOne \in Hops \cup {NoOne}
      OBVIOUS
    <2> QED BY <1>1, <2>1, HandlerMoves DEF NoAnswerSignal, EndTransferSignal
  <1>7. CallTypeOK'
    BY <1>1, <1>2, <1>3, <1>4, <1>5, <1>6 DEF CallTypeOK
  <1>8. NewsOfWaiting
    BY <1>1, <1>2, <1>4, <1>5, CallFacts DEF NewsOfWaiting, CallSession
  <1>9. NewsOfRows
    BY <1>1, <1>2, <1>3, <1>4, <1>5, CallFacts DEF NewsOfRows, RowsStay, NewsOfChannel, Untouched
  <1> QED BY <1>2, <1>3, <1>4, <1>7, <1>8, <1>9, CallsGoOn

-------------------------------------------------------------------------------
(* The session is claimed, set up, ended, passed on *)

LEMMA ClaimKeeps ==
  ASSUME CallInv, NEW h \in Handlers, ClaimSession(h)
  PROVE  CallInv'
  <1>1. /\ CallTypeOK /\ session \in CallSession /\ handler \in [Handlers -> Handler]
        /\ {"setup", "revert"} \subseteq HandlerPCs
        /\ UNCHANGED <<hop, callLog, ring, ivr, outcomes, budget>>
    BY CallFacts DEF ClaimSession, HandlerPCs
  <1>2. handler' \in [Handlers -> Handler]
    BY <1>1, HandlerGoes DEF ClaimSession
  <1> DEFINE x == handler[h].hop
  <1>3. CASE session.live /\ session.tid = x /\ session.tst = "waiting"
    <2>1. /\ session' \in CallSession /\ session'.tid = session.tid /\ session'.tst = "connected"
          /\ session'.cancel = NoOne /\ session'.done = session.done
      BY <1>1, <1>3 DEF ClaimSession, CallSession, CallTransferStatus
    <2>2. /\ stop' \in [Hops -> {"no", "accepted", "cancelled"}]
          /\ \A y \in Hops : y # session.cancel => stop'[y] = stop[y]
      BY <1>1, <1>3, StoppedOne DEF ClaimSession
    <2>3. claims' = [claims EXCEPT ![x] = @ + 1]
      BY <1>3 DEF ClaimSession
    <2>4. x \in Hops => claims[x] = 0 /\ hop[x].status # "unused"
      BY <1>3, CallFacts DEF Untouched
    <2> HIDE DEF x
    <2>5. \/ claims' = claims
          \/ \E y \in Hops : y = x /\ claims[y] = 0 /\ claims' = [claims EXCEPT ![y] = 1]
      <3>1. claims \in [Hops -> Nat]
        BY <1>1 DEF CallTypeOK
      <3>2. CASE x \in Hops
        <4>1. claims' = [claims EXCEPT ![x] = 1]
          <5>1. claims[x] + 1 = 1
            BY <2>4, <3>2
          <5> QED BY <2>3, <5>1
        <4> QED BY <2>4, <3>2, <4>1
      <3>3. CASE x \notin Hops
        <4>1. claims' = claims
          BY <2>3, <3>1, <3>3
        <4> QED BY <4>1
      <3> QED BY <3>2, <3>3
    <2>6. claims' \in [Hops -> Nat]
      BY <1>1, <2>5 DEF CallTypeOK
    <2>7. CallTypeOK'
      BY <1>1, <1>2, <2>1, <2>2, <2>6 DEF CallTypeOK
    <2>8. NewsOfWaiting /\ NewsOfChannel /\ RowsStay
      BY <1>1, <2>1 DEF NewsOfWaiting, NewsOfChannel, RowsStay
    <2>9. NewsOfRows
      BY <1>1, <2>1, <2>2, <2>4, <2>5, CallFacts, CallAssumption
         DEF NewsOfRows, Untouched, CallTypeOK
    <2> QED BY <2>5, <2>7, <2>8, <2>9, CallsGoOn
  <1>4. CASE ~(session.live /\ session.tid = x /\ session.tst = "waiting")
    BY <1>1, <1>2, <1>4, CallFacts, QuietCalls DEF ClaimSession, CallTypeOK, RowsStay
  <1> QED BY <1>3, <1>4

\* Steps of a handler that settle the session, or leave its transfer as it is.
LEMMA SettleKeeps ==
  ASSUME CallInv, NEW h \in Handlers,
         \/ \E yes \in BOOLEAN : SetUp(h, yes) \/ TrackReady(h, yes)
         \/ EndTransfer(h)
         \/ \E a \in Callees : InitiateAgentTransfer(h, a)
  PROVE  CallInv'
  <1>1. /\ CallTypeOK /\ session \in CallSession /\ handler \in [Handlers -> Handler]
        /\ handler[h].hop \in Hops \cup {NoOne}
        /\ {"track", "revert", "record", "end", "signal", "idle", "insert"} \subseteq HandlerPCs
        /\ UNCHANGED <<hop, callLog, ring, ivr, claims, outcomes>>
    BY CallFacts DEF SetUp, TrackReady, EndTransfer, InitiateAgentTransfer, HandlerPCs, Handler
  <1>2. /\ handler' \in [Handlers -> Handler]
        /\ budget' \in [rows : SUBSET Hops, requests : Nat, hangups : Nat]
    <2>1. CASE \E a \in Callees : InitiateAgentTransfer(h, a)
      BY <1>1, <2>1, HandlerBegins DEF InitiateAgentTransfer
    <2>2. CASE EndTransfer(h)
      BY <1>1, <2>2, HandlerGoes DEF EndTransfer, CallTypeOK
    <2>3. CASE \E yes \in BOOLEAN : SetUp(h, yes)
      BY <1>1, <2>3, HandlerGoes DEF SetUp, CallTypeOK
    <2>4. CASE \E yes \in BOOLEAN : TrackReady(h, yes)
      BY <1>1, <2>4, HandlerGoes DEF TrackReady, CallTypeOK
    <2> QED BY <2>1, <2>2, <2>3, <2>4
  <1>3. /\ session' \in CallSession /\ session'.done = session.done
        /\ session'.tid \in {session.tid, NoOne} /\ session'.cancel \in {session.cancel, NoOne}
    <2>1. CASE \E a \in Callees : InitiateAgentTransfer(h, a)
      BY <1>1, <2>1 DEF InitiateAgentTransfer, CallSession, CallTransferStatus
    <2>2. CASE EndTransfer(h)
      BY <1>1, <2>2 DEF EndTransfer, CallSession, CallTransferStatus
    <2>3. CASE \E yes \in BOOLEAN : SetUp(h, yes)
      BY <1>1, <2>3 DEF SetUp, CallSession
    <2>4. CASE \E yes \in BOOLEAN : TrackReady(h, yes)
      BY <1>1, <2>4 DEF TrackReady, CallSession, CallTransferStatus
    <2> QED BY <2>1, <2>2, <2>3, <2>4
  <1>4. \/ session'.tst # "waiting" \/ session'.tid = NoOne
        \/ session'.tst = session.tst /\ session'.tid = session.tid /\ stop' = stop
    BY <1>1 DEF SetUp, TrackReady, EndTransfer, InitiateAgentTransfer, CallSession
  <1>5. /\ stop' \in [Hops -> {"no", "accepted", "cancelled"}]
        /\ \A y \in Hops : y # session.cancel => stop'[y] = stop[y]
    <2>1. CASE stop' = stop
      BY <1>1, <2>1 DEF CallTypeOK
    <2>2. CASE stop' = Stopped("cancelled")
      BY <1>1, <2>2, StoppedOne
    <2> QED BY <2>1, <2>2 DEF SetUp, TrackReady, EndTransfer, InitiateAgentTransfer
  <1>6. CallTypeOK'
    BY <1>1, <1>2, <1>3, <1>5 DEF CallTypeOK
  <1>7. NewsOfWaiting
    BY <1>1, <1>4, CallFacts DEF NewsOfWaiting, CallSession
  <1>8. NewsOfChannel /\ RowsStay
    BY <1>1, <1>3 DEF NewsOfChannel, RowsStay
  <1>9. NewsOfRows
    BY <1>1, <1>3, <1>5, CallFacts, CallAssumption DEF NewsOfRows, Untouched
  <1> QED BY <1>1, <1>6, <1>7, <1>8, <1>9, CallsGoOn

-------------------------------------------------------------------------------
(* The theorem *)

LEMMA CallInvInit == CallInit => CallInv
  <1> SUFFICES ASSUME CallInit PROVE CallInv
    OBVIOUS
  <1>1. session \in CallSession /\ session.tid = NoOne /\ session.cancel = NoOne /\ ~session.done
    BY DEF CallInit, CallSession
  <1>2. ivr \in IVR /\ ivr.hop = NoOne
    BY DEF CallInit, IVR
  <1>3. Silent \in Ring /\ Silent.pc = "none" /\ AtRest \in Handler
    BY DEF Silent, Ring, AtRest, Handler
  <1>4. hop \in [Hops -> CallTransfer]
    <2>1. PICK b \in CallBounds :
            hop = [x \in Hops |-> [NoHop EXCEPT !.status = IF x \in b.rows THEN @ ELSE "absent"]]
      BY DEF CallInit
    <2>2. \A x \in Hops : [NoHop EXCEPT !.status = IF x \in b.rows THEN @ ELSE "absent"]
                            \in CallTransfer
      BY DEF NoHop, CallTransfer
    <2> QED BY <2>1, <2>2
  <1>5. budget \in [rows : SUBSET Hops, requests : Nat, hangups : Nat]
    BY CallAssumption DEF CallInit
  <1>6. callLog \in CallLog
    BY DEF CallInit, CallLog
  <1>7. CallTypeOK
    BY <1>1, <1>2, <1>3, <1>4, <1>5, <1>6 DEF CallInit, CallTypeOK
  <1>8. UnusedUntouched
    BY <1>1, <1>2, <1>3, CallAssumption DEF CallInit, UnusedUntouched, Untouched
  <1> QED BY <1>1, <1>2, <1>7, <1>8
       DEF CallInit, CallInv, WaitingIsFresh, WaitingHasRinger, ChannelIsFresh, OneAgentPerTransfer,
           OneOutcome

LEMMA CallInvStep == CallInv /\ [CallNext]_callVars => CallInv'
  <1> SUFFICES ASSUME CallInv, [CallNext]_callVars PROVE CallInv'
    OBVIOUS
  <1>1. CASE IVRStep
    BY <1>1, IVRKeeps, InitiateKeeps DEF IVRStep
  <1>2. ASSUME NEW x \in Hops, RingStep(x)
        PROVE  CallInv'
    BY <1>2, RingQuiet, FallBackKeeps, NoAnswerKeeps, SignalKeeps, TeardownKeeps DEF RingStep
  <1>3. ASSUME NEW h \in Handlers, HandlerStep(h)
        PROVE  CallInv'
    BY <1>3, RowQuiet, RequestQuiet, ClaimKeeps, SettleKeeps, SignalKeeps, InsertKeeps,
       TeardownKeeps DEF HandlerStep
  <1>4. ASSUME NEW h \in Handlers, Request(h)
        PROVE  CallInv'
    BY <1>4, RequestQuiet, SettleKeeps DEF Request
  <1>5. CASE UNCHANGED callVars
    BY <1>5, CallFacts, QuietCalls DEF callVars, CallTypeOK, RowsStay
  <1> QED BY <1>1, <1>2, <1>3, <1>4, <1>5 DEF CallNext

\* However agents, timers, hangups and teardowns race: one agent gets a transfer, the
\* IVR hears one outcome of it, and while the session waits its ringing goroutine lives
\* (ConnectAgentToTransfer, handleTransferNoAnswer, HandleCallerHangupDuringTransfer).
THEOREM CallsSettleOnce == CallSpec => []TransfersSettleOnce
  <1>1. CallInv => TransfersSettleOnce
    BY DEF CallInv, TransfersSettleOnce
  <1> QED BY <1>1, CallInvInit, CallInvStep, PTL DEF CallSpec
===============================================================================
