------------------------------ MODULE MediaProofs -------------------------------
(***************************************************************************)
(* Proofs about the media of a call, for every flow graph, buffer, number  *)
(* of bridges and width of the RTP sequence number: the IVR follows the    *)
(* keys and the path of its caller; the bridge has one reader of the       *)
(* caller's track, loses neither side and continues the stream; and an     *)
(* outgoing call is recorded once.                                         *)
(***************************************************************************)
EXTENDS Media, SequenceTheorems, FiniteSetTheorems, TLAPS

-------------------------------------------------------------------------------
(* The inductive invariant of the interpreter *)

\* An end packet of the press in transmission would still count as a new digit.
PressPending == keypad.ends > 0 /\ NewPress(keypad.key, TRUE)

\* A press whose digit has not been detected yet is one the caller made.
DigitsOwed == digits.detected <= digits.pressed /\ (PressPending => digits.detected < digits.pressed)

\* What is being transmitted is a key.
PressIsAKey == keypad.ends > 0 => keypad.key \in Keys

\* While a menu listens, the buffer holds digits of this visit only.
MenuHearsItself ==
    ~digits.stale /\ (flow.pc = "menu" => \A i \in 1..Len(buffer) : buffer[i].visit = flow.visit)

\* The path in memory lags behind the nodes dispatched by the one in execution; the path
\* saved at the end does not.
PathKeepsUp ==
    /\ flow.pc = "loop" => Range(flow.path) = visited
    /\ flow.pc \in {"play", "menu", "gather", "http", "transfer"} => Range(flow.path) \cup {flow.at} = visited
    /\ flow.pc = "done" => Range(saved) = visited

IVRInv == IVRTypeOK /\ DigitsOwed /\ PressIsAKey /\ MenuHearsItself /\ PathKeepsUp

-------------------------------------------------------------------------------
(* The inductive invariant of the outgoing call *)

\* A recorder exists only after the bridge was started, and is finalized when it is taken.
RecorderOwed ==
    /\ out.recorder => recordings = 0 /\ out.once
    /\ recordings <= 1
    /\ ~out.once => recordings = 0

OutInv == OutTypeOK /\ RecorderOwed

-------------------------------------------------------------------------------
(* The inductive invariant of the bridge *)

Untouched == [stopped |-> FALSE, attached |-> FALSE, slot |-> FALSE, leg |-> "none"]

\* Bridges are numbered as they are set up; those to come are untouched.
Numbered ==
    /\ \A b \in Ids : b > media.made => bridge[b] = Untouched
    /\ media.bridge # 0 => media.bridge = media.made
    /\ connector.pc = "setup" => media.made < MaxBridges
    /\ connector.pc \in {"signal", "late", "start"} =>
           media.made > 0 /\ connector.id = media.made /\ bridge[media.made].leg = "none"
    /\ holder.pc # "idle" => holder.id > 0 /\ holder.id <= media.made
    /\ onTrack.bridge <= media.made

\* Hold music, a bridge that is being set up and one that is being taken down exclude
\* each other and the bridge in use.
TakesTurns ==
    /\ media.hold \/ connector.pc = "setup" \/ holder.pc # "idle" => media.bridge = 0
    /\ media.hold => connector.pc # "setup" /\ holder.pc = "idle"
    /\ connector.pc = "setup" => holder.pc = "idle"

\* The bridge in use and the one hold has just taken are the only ones not stopped.
OthersStopped ==
    /\ \A b \in Ids : b <= media.made /\ ~bridge[b].stopped =>
           b = media.bridge \/ (holder.pc = "stop" /\ holder.id = b)
    /\ media.bridge # 0 => ~bridge[media.bridge].stopped

\* The caller's track has landed when OnTrack has run.
TrackKnown ==
    /\ onTrack.pc = "idle" <=> ~media.track
    /\ ~media.track => ~connector.track /\ \A b \in Ids : ~bridge[b].attached

\* Once the track is there, the bridge in use reads it, has it in its slot, or somebody
\* is about to hand it over.
TrackReaches ==
    media.track /\ media.bridge # 0 =>
        \/ AgentHears
        \/ onTrack.pc = "attach" /\ onTrack.bridge = media.bridge /\ ~bridge[media.bridge].attached
        \/ connector.pc \in {"signal", "late"}
        \/ connector.pc = "start" /\ connector.track

NextOf(seq) == (seq + 1) % RtpMod

\* Until a call is resumed or a source stops on 0, whoever sends next continues after the
\* receiver's high-water mark.
Continues ==
    /\ ~rtp.dropped
    /\ media.hold \/ holder.pc = "play" => rtp.player = NextOf(rtp.high)
    /\ connector.pc = "setup" => /\ connector.seed = NextOf(rtp.high)
                                 /\ connector.seed > 0
    /\ (media.made > 0 /\ ~media.hold /\ connector.pc # "setup" /\ holder.pc # "play") =>
           /\ rtp.offset > 0
           /\ rtp.first => rtp.offset = NextOf(rtp.high) /\ rtp.last = 0
           /\ ~rtp.first => rtp.last = rtp.high /\ Rewritten(rtp.base) = NextOf(rtp.high)

HandsOver == Numbered /\ TakesTurns /\ OthersStopped /\ TrackKnown /\ TrackReaches

BridgeInv == BridgeTypeOK /\ HandsOver /\ (rtp.resumed \/ rtp.zero \/ Continues)

-------------------------------------------------------------------------------
(* The outgoing call *)

OutType == [stored : BOOLEAN, live : BOOLEAN, status : {"initiating", "ringing", "answered", "completed"},
            agentPC : BOOLEAN, waPC : BOOLEAN, ivr : BOOLEAN, answer : BOOLEAN,
            once : BOOLEAN, recorder : BOOLEAN]
OutLogType == [status : {"initiating", "ringing", "answered"} \cup Final, answered : BOOLEAN,
               by : DisconnectedBy]
WorkerType == [pc : {"idle", "event", "log", "orphan", "cleanup", "hangup", "agentLog",
                     "teardown", "startIVR", "agentCleanup", "mark"},
               ev : CallEvents \cup {"none"}, by : DisconnectedBy, answered : BOOLEAN]

LEMMA OutInitInv == OutInit => OutInv
  BY DEF OutInit, OutInv, OutTypeOK, RecorderOwed, Ready, DisconnectedBy, Final

\* cleanupSession takes the recorder along at most once.
LEMMA CleanupFinalizes ==
  ASSUME OutInv, CleanupOutgoing
  PROVE  out' \in OutType /\ recordings' \in Nat /\ RecorderOwed'
  <1> USE DEF OutInv, OutTypeOK, OutType
  <1>1. CASE ~out.live
    BY <1>1 DEF CleanupOutgoing, RecorderOwed
  <1>2. CASE out.live
    <2>1. out' = Cleaned /\ recordings' = Finalized
      BY <1>2 DEF CleanupOutgoing
    <2>2. /\ out' \in OutType /\ ~out'.recorder /\ out'.once = out.once
      BY <2>1 DEF Cleaned
    <2>3. recordings' = IF out.recorder THEN 1 ELSE recordings
      BY <2>1 DEF Finalized, RecorderOwed
    <2> QED BY <2>2, <2>3 DEF RecorderOwed
  <1> QED BY <1>1, <1>2

\* A worker that goes to another place, or rests, stays a worker.
LEMMA WorkerMoves ==
  ASSUME OutInv, NEW w \in Workers,
         \/ WRest(w)
         \/ \E pc \in {"cleanup", "agentLog", "teardown", "startIVR", "agentCleanup", "mark"} : WGo(w, pc)
  PROVE  worker' \in [Workers -> WorkerType]
  <1> USE DEF OutInv, OutTypeOK, WorkerType
  <1>1. CASE WRest(w)
    BY <1>1 DEF WRest, Ready, DisconnectedBy
  <1>2. CASE \E pc \in {"cleanup", "agentLog", "teardown", "startIVR", "agentCleanup", "mark"} : WGo(w, pc)
    BY <1>2 DEF WGo
  <1> QED BY <1>1, <1>2

LEMMA DialKeeps == ASSUME OutInv, DialStep PROVE OutInv'
  <1> USE DEF OutInv, OutTypeOK, RecorderOwed
  <1>1. ASSUME NEW works \in BOOLEAN, PrepareCall(works) PROVE OutInv'
    BY <1>1 DEF PrepareCall
  <1>2. ASSUME NEW works \in BOOLEAN, InitiateCall(works) PROVE OutInv'
    <2>1. outLog' \in OutLogType
      BY <1>2 DEF InitiateCall, OutLogType, Final, DisconnectedBy
    <2>2. /\ out' \in OutType /\ out'.once = out.once /\ out'.recorder = out.recorder
          /\ events' \subseteq CallEvents
      <3>1. CASE works
        BY <1>2, <3>1 DEF InitiateCall, OutType
      <3>2. CASE ~works
        <4>1. events' = events /\ out' = [out EXCEPT !.agentPC = FALSE, !.waPC = FALSE]
          BY <1>2, <3>2 DEF InitiateCall
        <4>2. out' \in OutType
          BY <4>1 DEF OutType
        <4> QED BY <4>1, <4>2
      <3> QED BY <3>1, <3>2
    <2> QED BY <1>2, <2>1, <2>2 DEF InitiateCall, OutLogType, OutType
  <1>3. ASSUME StoreSession PROVE OutInv'
    BY <1>3 DEF StoreSession
  <1> QED BY <1>1, <1>2, <1>3 DEF DialStep

LEMMA AnswerKeeps == ASSUME OutInv, AnswerStep PROVE OutInv'
  <1>1. CASE TakeAnswer
    BY <1>1 DEF TakeAnswer, OutInv, OutTypeOK, RecorderOwed
  <1>2. CASE AnswerTimeout
    <2>1. outLog' \in OutLogType
      BY <1>2 DEF AnswerTimeout, OutInv, OutTypeOK, OutLogType, Final, DisconnectedBy
    <2> QED BY <1>2, <2>1 DEF AnswerTimeout, OutInv, OutTypeOK, RecorderOwed, OutLogType
  <1>3. CASE CleanupAfterTimeout
    BY <1>3, CleanupFinalizes DEF CleanupAfterTimeout, OutInv, OutTypeOK, OutType
  <1> QED BY <1>1, <1>2, <1>3 DEF AnswerStep

LEMMA FlowKeeps == ASSUME OutInv, FlowStep PROVE OutInv'
  <1>1. CASE PostCallIVREnds
    BY <1>1 DEF PostCallIVREnds, OutInv, OutTypeOK, RecorderOwed
  <1>2. CASE LogPostCall
    BY <1>2 DEF LogPostCall, OutInv, OutTypeOK, RecorderOwed, Final, DisconnectedBy
  <1>3. CASE CleanupPostCall
    BY <1>3, CleanupFinalizes DEF CleanupPostCall, OutInv, OutTypeOK, OutType
  <1> QED BY <1>1, <1>2, <1>3 DEF FlowStep

\* The steps of a webhook that has found its session, or none.
LEMMA WebhookKeeps ==
  ASSUME OutInv, NEW w \in Workers,
         \/ OnRinging(w) \/ OnAccepted(w) \/ OnRejected(w) \/ OnTerminate(w)
         \/ LogTerminated(w) \/ LogOrphaned(w)
  PROVE  OutInv'
  <1> DEFINE Typed(l) == l \in OutLogType
  <1>0. worker[w] \in WorkerType /\ Typed(outLog)
    BY DEF OutInv, OutTypeOK, WorkerType, OutLogType
  <1>1. ASSUME Typed(outLog'), worker' \in [Workers -> WorkerType],
               out' \in OutType, out'.once = out.once, out'.recorder = out.recorder,
               UNCHANGED <<dial, answerWait, endFlow, events, recordings>>
        PROVE  OutInv'
    BY <1>1 DEF OutInv, OutTypeOK, RecorderOwed, OutLogType, WorkerType, OutType
  <1>2. CASE OnRinging(w)
    <2>1. Typed(outLog') /\ out' \in OutType /\ out'.once = out.once /\ out'.recorder = out.recorder
      BY <1>2, <1>0 DEF OnRinging, OutInv, OutTypeOK, OutType, OutLogType
    <2> QED BY <1>1, <1>2, <2>1, WorkerMoves DEF OnRinging
  <1>3. CASE OnAccepted(w)
    <2>1. Typed(outLog') /\ out' \in OutType /\ out'.once = out.once /\ out'.recorder = out.recorder
      BY <1>3, <1>0 DEF OnAccepted, OutInv, OutTypeOK, OutType, OutLogType
    <2> QED BY <1>1, <1>3, <2>1, WorkerMoves DEF OnAccepted
  <1>4. CASE OnRejected(w)
    <2>1. Typed(outLog')
      BY <1>4, <1>0 DEF OnRejected, OutLogType, Final, DisconnectedBy
    <2> QED BY <1>1, <1>4, <2>1, WorkerMoves DEF OnRejected, OutInv, OutTypeOK, OutType
  <1>5. CASE OnTerminate(w)
    <2>1. CASE out.ivr /\ ~out.agentPC
      <3>1. out' \in OutType /\ out'.once = out.once /\ out'.recorder = out.recorder
        BY <1>5, <2>1 DEF OnTerminate, OutInv, OutTypeOK, OutType
      <3> QED BY <1>0, <1>1, <1>5, <2>1, <3>1, WorkerMoves DEF OnTerminate
    <2>2. CASE ~(out.ivr /\ ~out.agentPC)
      <3>1. outLog.by \in DisconnectedBy
        BY <1>0 DEF OutLogType
      <3>2. worker' \in [Workers -> WorkerType]
        BY <1>5, <2>2, <3>1 DEF OnTerminate, OutInv, OutTypeOK, WorkerType
      <3> QED BY <1>0, <1>1, <1>5, <2>2, <3>2 DEF OnTerminate, OutInv, OutTypeOK, OutType
    <2> QED BY <2>1, <2>2
  <1>6. CASE LogTerminated(w)
    <2>1. Typed(outLog')
      BY <1>6, <1>0 DEF LogTerminated, OutLogType, Final, DisconnectedBy
    <2> QED BY <1>1, <1>6, <2>1, WorkerMoves DEF LogTerminated, OutInv, OutTypeOK, OutType
  <1>7. CASE LogOrphaned(w)
    <2>1. Typed(outLog')
      BY <1>7, <1>0 DEF LogOrphaned, OutLogType, Final, DisconnectedBy
    <2> QED BY <1>1, <1>7, <2>1, WorkerMoves DEF LogOrphaned, OutInv, OutTypeOK, OutType
  <1> QED BY <1>2, <1>3, <1>4, <1>5, <1>6, <1>7

LEMMA HangupKeeps ==
  ASSUME OutInv, NEW w \in Workers,
         \/ CleanupByWorker(w) \/ LogAgentHangup(w) \/ CleanupAfterHangup(w)
         \/ TeardownAgentSide(w) \/ StartPostCallIVR(w) \/ MarkDisconnected(w)
         \/ OutgoingPeerGone(w) \/ HangupOutgoingCall(w)
  PROVE  OutInv'
  <1>0. /\ out \in OutType /\ outLog \in OutLogType
        /\ dial \in {"setup", "api", "store", "done", "failed"}
        /\ answerWait \in {"idle", "wait", "cleanup", "done"}
        /\ endFlow \in {"idle", "run", "log", "cleanup", "done"}
        /\ events \subseteq CallEvents /\ recordings \in Nat
    BY DEF OutInv, OutTypeOK, OutType, OutLogType
  <1>1. ASSUME out' \in OutType, outLog' \in OutLogType, worker' \in [Workers -> WorkerType],
               endFlow' \in {"idle", "run", "log", "cleanup", "done"},
               recordings' \in Nat, RecorderOwed', UNCHANGED <<dial, answerWait, events>>
        PROVE  OutInv'
    BY <1>0, <1>1 DEF OutInv, OutTypeOK, OutType, OutLogType, WorkerType
  <1>2. worker' \in [Workers -> WorkerType]
    BY WorkerMoves DEF CleanupByWorker, LogAgentHangup, CleanupAfterHangup, TeardownAgentSide,
       StartPostCallIVR, MarkDisconnected, OutgoingPeerGone, HangupOutgoingCall
  <1>3. CASE CleanupByWorker(w)
    BY <1>0, <1>1, <1>2, <1>3, CleanupFinalizes DEF CleanupByWorker
  <1>4. CASE LogAgentHangup(w)
    <2>1. outLog' \in OutLogType
      BY <1>0, <1>4 DEF LogAgentHangup, OutLogType, Final, DisconnectedBy
    <2> QED BY <1>0, <1>1, <1>2, <1>4, <2>1 DEF LogAgentHangup, OutInv, RecorderOwed
  <1>5. CASE CleanupAfterHangup(w)
    BY <1>0, <1>1, <1>2, <1>5, CleanupFinalizes DEF CleanupAfterHangup
  <1>6. CASE TeardownAgentSide(w)
    <2>1. out' \in OutType /\ ~out'.recorder /\ out'.once = out.once
      BY <1>0, <1>6 DEF TeardownAgentSide, OutType
    <2>2. recordings' = IF out.recorder THEN 1 ELSE recordings
      BY <1>0, <1>6 DEF TeardownAgentSide, Finalized, OutInv, RecorderOwed
    <2>3. recordings' \in Nat /\ RecorderOwed'
      BY <1>0, <2>1, <2>2 DEF OutInv, RecorderOwed
    <2> QED BY <1>0, <1>1, <1>2, <1>6, <2>1, <2>3 DEF TeardownAgentSide
  <1>7. CASE StartPostCallIVR(w)
    <2>1. out' \in OutType /\ out'.recorder = out.recorder /\ out'.once = out.once
      BY <1>0, <1>7 DEF StartPostCallIVR, OutType
    <2>2. outLog' \in OutLogType
      BY <1>0, <1>7 DEF StartPostCallIVR, OutLogType, DisconnectedBy
    <2>3. RecorderOwed' /\ recordings' \in Nat
      BY <1>0, <1>7, <2>1 DEF StartPostCallIVR, OutInv, RecorderOwed
    <2> QED BY <1>0, <1>1, <1>2, <1>7, <2>1, <2>2, <2>3 DEF StartPostCallIVR
  <1>8. CASE MarkDisconnected(w)
    <2>1. outLog' \in OutLogType
      BY <1>0, <1>8 DEF MarkDisconnected, OutLogType, DisconnectedBy
    <2> QED BY <1>0, <1>1, <1>2, <1>8, <2>1 DEF MarkDisconnected, OutInv, RecorderOwed
  <1>9. CASE OutgoingPeerGone(w) \/ HangupOutgoingCall(w)
    BY <1>0, <1>1, <1>2, <1>9 DEF OutgoingPeerGone, HangupOutgoingCall, OutInv, RecorderOwed
  <1> QED BY <1>3, <1>4, <1>5, <1>6, <1>7, <1>8, <1>9

LEMMA DeliverKeeps ==
  ASSUME OutInv, NEW w \in Workers, NEW ev \in CallEvents, Deliver(w, ev)
  PROVE  OutInv'
  <1>0. outLog.by \in DisconnectedBy /\ outLog.answered \in BOOLEAN
    BY DEF OutInv, OutTypeOK
  <1>1. worker' \in [Workers -> WorkerType]
    <2>1. CASE out.live
      BY <2>1 DEF Deliver, OutInv, OutTypeOK, WorkerType
    <2>2. CASE ~out.live /\ ev = "terminate"
      BY <1>0, <2>2 DEF Deliver, OutInv, OutTypeOK, WorkerType
    <2>3. CASE ~out.live /\ ev # "terminate"
      BY <2>3 DEF Deliver, OutInv, OutTypeOK, WorkerType
    <2> QED BY <2>1, <2>2, <2>3
  <1>2. events' \subseteq CallEvents /\ UNCHANGED <<out, outLog, dial, answerWait, endFlow, recordings>>
    BY DEF Deliver, OutInv, OutTypeOK
  <1> QED BY <1>1, <1>2 DEF OutInv, OutTypeOK, RecorderOwed, WorkerType

LEMMA OutStep == ASSUME OutInv, [OutNext]_outVars PROVE OutInv'
  <1>1. CASE TracksArrive
    BY <1>1 DEF TracksArrive, OutInv, OutTypeOK, RecorderOwed
  <1>2. CASE UNCHANGED outVars
    BY <1>2 DEF outVars, OutInv, OutTypeOK, RecorderOwed
  <1> QED BY <1>1, <1>2, DialKeeps, AnswerKeeps, FlowKeeps, WebhookKeeps, HangupKeeps, DeliverKeeps
          DEF OutNext, WorkerStep

-------------------------------------------------------------------------------
(* The path of the interpreter *)

FlowType == [at : Nodes, pc : {"loop", "play", "menu", "gather", "http", "transfer", "done"},
             attempt : 0 .. MaxRetries, got : Seq(Keys), path : Seq(Nodes), visit : Nat]
Digit == [key : Keys, visit : Nat]
CallType == [status : {"answered", "completed"}, here : BOOLEAN, by : {"none", "system"}]
Executing == {"play", "menu", "gather", "http", "transfer"}

GoodFlow == flow \in FlowType /\ saved \in Seq(Nodes) /\ visited \subseteq Nodes /\ PathKeepsUp

LEMMA RangeOfAppend ==
  ASSUME NEW S, NEW s \in Seq(S), NEW e \in S
  PROVE  Range(Append(s, e)) = Range(s) \cup {e} /\ Append(s, e) \in Seq(S)
  <1> DEFINE t == Append(s, e)
  <1>1. /\ t \in Seq(S) /\ DOMAIN t = 1..Len(s) + 1 /\ DOMAIN s = 1..Len(s) /\ Len(s) \in Nat
        /\ \A i \in 1..Len(s) : t[i] = s[i]
        /\ t[Len(s) + 1] = e
    OBVIOUS
  <1> HIDE DEF t
  <1>2. ASSUME NEW x \in Range(t) PROVE x \in Range(s) \cup {e}
    <2>1. PICK i \in DOMAIN t : x = t[i]
      BY <1>2 DEF Range
    <2>2. i \in 1..Len(s) \/ i = Len(s) + 1
      BY <1>1
    <2> QED BY <1>1, <2>1, <2>2 DEF Range
  <1>3. ASSUME NEW x \in Range(s) \cup {e} PROVE x \in Range(t)
    <2>1. Len(s) + 1 \in DOMAIN t /\ DOMAIN s \subseteq DOMAIN t
      BY <1>1
    <2>2. CASE x = e
      BY <1>1, <2>1, <2>2 DEF Range
    <2>3. CASE x \in Range(s)
      <3>1. PICK i \in DOMAIN s : x = s[i]
        BY <2>3 DEF Range
      <3> QED BY <1>1, <2>1, <3>1 DEF Range
    <2> QED BY <1>3, <2>2, <2>3
  <1>4. Range(t) = Range(s) \cup {e}
    BY <1>2, <1>3
  <1> QED BY <1>1, <1>4 DEF t

\* An edge leads to a node of the flow.
LEMMA ResolveType ==
  ASSUME NEW node, NEW outcome
  PROVE  Resolve(node, outcome) \in Nodes \cup {NoNode}
  <1> DEFINE to(cond) == {e.to : e \in {d \in Edges : d.from = node /\ d.cond = cond}}
  <1>1. \A cond : to(cond) \subseteq Nodes
    BY IVRAssumption
  <1>2. CASE to(outcome) # {}
    <2>1. Resolve(node, outcome) = CHOOSE n \in to(outcome) : TRUE
      BY <1>2 DEF Resolve
    <2> QED BY <1>1, <1>2, <2>1
  <1>3. CASE to(outcome) = {} /\ to("default") # {}
    <2>1. Resolve(node, outcome) = CHOOSE n \in to("default") : TRUE
      BY <1>3 DEF Resolve
    <2> QED BY <1>1, <1>3, <2>1
  <1>4. CASE to(outcome) = {} /\ to("default") = {}
    BY <1>4 DEF Resolve
  <1> QED BY <1>2, <1>3, <1>4

\* Leaving a node records it, in memory or, at the end, in the call log.
LEMMA AdvanceFacts ==
  ASSUME flow \in FlowType, saved \in Seq(Nodes), NEW outcome, Advance(outcome)
  PROVE  /\ flow' \in FlowType /\ saved' \in Seq(Nodes) /\ flow'.pc \in {"loop", "done"}
         /\ flow'.pc = "loop" => Range(flow'.path) = Range(flow.path) \cup {flow.at}
         /\ flow'.pc = "done" => Range(saved') = Range(flow.path) \cup {flow.at}
  <1> DEFINE path == Append(flow.path, flow.at)
             next == Resolve(flow.at, outcome)
  <1>1. path \in Seq(Nodes) /\ Range(path) = Range(flow.path) \cup {flow.at}
    BY RangeOfAppend DEF FlowType
  <1>2. next \in Nodes \cup {NoNode}
    BY ResolveType
  <1>3. IF next = NoNode THEN Ended(path)
        ELSE /\ flow' = [flow EXCEPT !.at = next, !.pc = "loop", !.attempt = 0, !.got = <<>>, !.path = path]
             /\ UNCHANGED saved
    BY DEF Advance
  <1> HIDE DEF path, next
  <1>4. CASE next = NoNode
    <2>1. flow' = [flow EXCEPT !.pc = "done", !.path = path] /\ saved' = path
      BY <1>3, <1>4 DEF Ended
    <2> QED BY <1>1, <2>1 DEF FlowType
  <1>5. CASE next # NoNode
    <2>1. flow' = [flow EXCEPT !.at = next, !.pc = "loop", !.attempt = 0, !.got = <<>>, !.path = path]
      BY <1>3, <1>5
    <2>2. 0 \in 0..MaxRetries /\ next \in Nodes
      BY <1>2, <1>5, IVRAssumption
    <2>3. <<>> \in Seq(Keys)
      OBVIOUS
    <2>4. flow' \in FlowType /\ flow'.pc = "loop" /\ flow'.path = path
      BY <1>1, <2>1, <2>2, <2>3 DEF FlowType
    <2> QED BY <1>1, <1>3, <1>5, <2>4
  <1> QED BY <1>4, <1>5

LEMMA Leaves ==
  ASSUME GoodFlow, flow.pc \in Executing, NEW outcome, Advance(outcome), UNCHANGED visited
  PROVE  GoodFlow' /\ flow'.pc # "menu"
  <1>1. flow' \in FlowType /\ saved' \in Seq(Nodes) /\ flow'.pc \in {"loop", "done"}
    BY AdvanceFacts DEF GoodFlow
  <1>2. Range(flow.path) \cup {flow.at} = visited
    BY DEF GoodFlow, PathKeepsUp, Executing
  <1>3. PathKeepsUp'
    BY <1>1, <1>2, AdvanceFacts DEF GoodFlow, PathKeepsUp
  <1> QED BY <1>1, <1>3 DEF GoodFlow

LEMMA Retries ==
  ASSUME GoodFlow, flow.pc \in Executing, NextAttempt, UNCHANGED visited
  PROVE  GoodFlow' /\ flow'.pc \in {flow.pc, "loop", "done"}
  <1>1. CASE flow.attempt + 1 < MaxRetries
    <2>1. flow' = [flow EXCEPT !.attempt = @ + 1] /\ saved' = saved
      BY <1>1 DEF NextAttempt
    <2>2. flow.attempt + 1 \in 0..MaxRetries
      BY <1>1, IVRAssumption DEF GoodFlow, FlowType
    <2>3. /\ flow' \in FlowType /\ flow'.pc = flow.pc /\ flow'.path = flow.path /\ flow'.at = flow.at
      BY <2>1, <2>2 DEF GoodFlow, FlowType
    <2> QED BY <2>1, <2>3 DEF GoodFlow, PathKeepsUp
  <1>2. CASE ~(flow.attempt + 1 < MaxRetries)
    <2>1. Advance("max_retries")
      BY <1>2 DEF NextAttempt
    <2>2. flow'.pc \in {"loop", "done"}
      BY <2>1, AdvanceFacts DEF GoodFlow
    <2> QED BY <2>1, <2>2, Leaves
  <1> QED BY <1>1, <1>2

LEMMA Collects ==
  ASSUME GoodFlow, flow.pc = "gather", NEW got, Collected(got), UNCHANGED visited
  PROVE  GoodFlow' /\ flow'.pc # "menu"
  <1>1. flow.pc \in Executing /\ flow.pc # "menu"
    BY DEF Executing
  <1>2. CASE got # <<>>
    BY <1>1, <1>2, Leaves DEF Collected
  <1>3. CASE got = <<>>
    BY <1>1, <1>3, Retries DEF Collected
  <1> QED BY <1>2, <1>3

LEMMA Dispatches ==
  ASSUME GoodFlow, NEW pc \in Executing, Enter(pc)
  PROVE  GoodFlow' /\ flow'.pc = pc
  <1>0. flow' = [flow EXCEPT !.pc = pc, !.visit = @ + 1]
    BY DEF Enter
  <1>1. /\ flow' \in FlowType /\ flow'.pc = pc /\ flow'.path = flow.path /\ flow'.at = flow.at
        /\ saved' = saved /\ visited' = visited \cup {flow.at} /\ flow.at \in Nodes
    <2>1. flow \in FlowType /\ flow.visit + 1 \in Nat
      BY DEF GoodFlow, FlowType
    <2>2. flow' \in FlowType /\ flow'.pc = pc /\ flow'.path = flow.path /\ flow'.at = flow.at
      BY <1>0, <2>1 DEF FlowType, Executing
    <2> QED BY <2>1, <2>2 DEF Enter, FlowType
  <1>2. Range(flow.path) = visited
    BY DEF Enter, GoodFlow, PathKeepsUp
  <1> QED BY <1>1, <1>2 DEF GoodFlow, PathKeepsUp, Executing

-------------------------------------------------------------------------------
(* The digits *)

LEMMA SplitIVRInv ==
  IVRInv <=> /\ GoodFlow /\ call \in CallType
             /\ buffer \in Seq(Digit) /\ Len(buffer) <= BufferCap
             /\ keypad \in [key : Keys \cup {NoNode}, ends : 0 .. 2]
             /\ decoder \in [event : Keys \cup {NoNode}, end : BOOLEAN]
             /\ digits \in [pressed : 0 .. MaxPresses, detected : Nat, stale : BOOLEAN]
             /\ DigitsOwed /\ PressIsAKey /\ MenuHearsItself
  BY DEF IVRInv, IVRTypeOK, GoodFlow, FlowType, CallType, Digit

LEMMA JoinIVRInv ==
  ASSUME GoodFlow', call' \in CallType, buffer' \in Seq(Digit), Len(buffer') <= BufferCap,
         keypad' \in [key : Keys \cup {NoNode}, ends : 0 .. 2],
         decoder' \in [event : Keys \cup {NoNode}, end : BOOLEAN],
         digits' \in [pressed : 0 .. MaxPresses, detected : Nat, stale : BOOLEAN],
         DigitsOwed', PressIsAKey', MenuHearsItself'
  PROVE  IVRInv'
  BY DEF IVRInv, IVRTypeOK, GoodFlow, FlowType, CallType, Digit

LEMMA IVRInitInv == IVRInit => IVRInv
  <1> SUFFICES ASSUME IVRInit PROVE IVRInv
    OBVIOUS
  <1> USE DEF IVRInit, IVRStart
  <1>1. GoodFlow
    <2>1. 0 \in 0..MaxRetries /\ Entry[1] \in Nodes /\ <<>> \in Seq(Keys) /\ <<>> \in Seq(Nodes)
      BY IVRAssumption
    <2>2. flow \in FlowType /\ saved \in Seq(Nodes)
      BY <2>1 DEF FlowType
    <2>3. Range(<<>>) = {}
      BY DEF Range
    <2> QED BY <2>2, <2>3 DEF GoodFlow, PathKeepsUp
  <1>2. call \in CallType /\ buffer \in Seq(Digit) /\ Len(buffer) <= BufferCap
    BY IVRAssumption DEF CallType
  <1>3. /\ keypad \in [key : Keys \cup {NoNode}, ends : 0 .. 2]
        /\ decoder \in [event : Keys \cup {NoNode}, end : BOOLEAN]
        /\ digits \in [pressed : 0 .. MaxPresses, detected : Nat, stale : BOOLEAN]
    BY IVRAssumption
  <1>4. DigitsOwed /\ PressIsAKey /\ MenuHearsItself
    BY DEF DigitsOwed, PressPending, PressIsAKey, MenuHearsItself
  <1> QED BY <1>1, <1>2, <1>3, <1>4, SplitIVRInv

LEMMA BufferTail ==
  ASSUME IVRInv, buffer # <<>>
  PROVE  /\ Tail(buffer) \in Seq(Digit) /\ Len(Tail(buffer)) <= BufferCap
         /\ Head(buffer) \in Digit /\ Head(buffer) = buffer[1] /\ 1 \in 1..Len(buffer)
  <1>1. buffer \in Seq(Digit) /\ Len(buffer) <= BufferCap /\ BufferCap \in Nat
    BY SplitIVRInv, IVRAssumption
  <1> QED BY <1>1

\* A step of the interpreter that leaves the phone alone.
LEMMA InterpreterKeeps ==
  ASSUME IVRInv, GoodFlow', call' \in CallType,
         buffer' \in Seq(Digit), Len(buffer') <= BufferCap,
         UNCHANGED <<keypad, decoder, digits>>,
         flow'.pc = "menu" => buffer' = <<>> \/ (buffer' = buffer /\ flow'.pc = flow.pc /\ flow'.visit = flow.visit)
  PROVE  IVRInv'
  <1>1. DigitsOwed' /\ PressIsAKey'
    BY SplitIVRInv DEF DigitsOwed, PressPending, NewPress, PressIsAKey
  <1>2. MenuHearsItself'
    <2>1. ~digits'.stale
      BY SplitIVRInv DEF MenuHearsItself
    <2>2. ASSUME flow'.pc = "menu", NEW i \in 1..Len(buffer') PROVE buffer'[i].visit = flow'.visit
      <3>1. CASE buffer' = <<>>
        BY <2>2, <3>1
      <3>2. CASE buffer' = buffer /\ flow'.pc = flow.pc /\ flow'.visit = flow.visit
        BY <2>2, <3>2, SplitIVRInv DEF MenuHearsItself
      <3> QED BY <2>2, <3>1, <3>2
    <2> QED BY <2>1, <2>2 DEF MenuHearsItself
  <1> QED BY <1>1, <1>2, SplitIVRInv, JoinIVRInv

LEMMA PressKeeps == ASSUME IVRInv, NEW key \in Keys, Press(key) PROVE IVRInv'
  <1>1. digits' = [digits EXCEPT !.pressed = @ + 1] /\ digits.pressed < MaxPresses /\ keypad.ends = 0
    BY DEF Press
  <1>2. /\ digits' \in [pressed : 0 .. MaxPresses, detected : Nat, stale : BOOLEAN]
        /\ digits'.pressed = digits.pressed + 1 /\ digits'.detected = digits.detected
        /\ digits'.stale = digits.stale
    <2>1. digits.pressed + 1 \in 0..MaxPresses
      BY <1>1, SplitIVRInv, IVRAssumption
    <2> QED BY <1>1, <2>1, SplitIVRInv
  <1>3. DigitsOwed'
    BY <1>2, SplitIVRInv DEF DigitsOwed
  <1>4. UNCHANGED <<flow, saved, visited, call, buffer>>
    BY DEF Press
  <1>5. GoodFlow' /\ MenuHearsItself'
    BY <1>2, <1>4, SplitIVRInv DEF MenuHearsItself, GoodFlow, PathKeepsUp
  <1>6. keypad' = [key |-> key, ends |-> 2] /\ decoder' \in {decoder, [event |-> key, end |-> FALSE]}
    BY DEF Press
  <1>7. keypad' \in [key : Keys \cup {NoNode}, ends : 0 .. 2] /\ PressIsAKey'
    BY <1>6 DEF PressIsAKey
  <1>8. decoder' \in [event : Keys \cup {NoNode}, end : BOOLEAN]
    <2>1. [event |-> key, end |-> FALSE] \in [event : Keys \cup {NoNode}, end : BOOLEAN]
      OBVIOUS
    <2>2. decoder \in [event : Keys \cup {NoNode}, end : BOOLEAN]
      BY SplitIVRInv
    <2> QED BY <1>6, <2>1, <2>2
  <1> QED BY <1>2, <1>3, <1>4, <1>5, <1>7, <1>8, SplitIVRInv, JoinIVRInv

LEMMA HangUpKeeps == ASSUME IVRInv, CallerHangsUp PROVE IVRInv'
  <1>1. call' \in CallType
    BY SplitIVRInv DEF CallerHangsUp, CallType
  <1>2. keypad' \in [key : Keys \cup {NoNode}, ends : 0 .. 2] /\ keypad'.ends = 0
    BY SplitIVRInv DEF CallerHangsUp
  <1>3. DigitsOwed' /\ PressIsAKey'
    BY <1>2, SplitIVRInv DEF CallerHangsUp, DigitsOwed, PressPending, PressIsAKey
  <1>4. buffer' = <<>> /\ UNCHANGED <<flow, saved, visited, decoder, digits>>
    BY DEF CallerHangsUp
  <1>5. GoodFlow'
    BY <1>4, SplitIVRInv DEF GoodFlow, PathKeepsUp
  <1>6. buffer' \in Seq(Digit) /\ Len(buffer') <= BufferCap
    BY <1>4, IVRAssumption
  <1>7. MenuHearsItself'
    <2>1. \A i \in 1..Len(buffer') : FALSE
      BY <1>4
    <2> QED BY <1>4, <2>1, SplitIVRInv DEF MenuHearsItself
  <1> QED BY <1>1, <1>2, <1>3, <1>4, <1>5, <1>6, <1>7, SplitIVRInv, JoinIVRInv

\* Only the first end packet to arrive counts, whichever are lost.
LEMMA EndPacketKeeps == ASSUME IVRInv, EndPacket PROVE IVRInv'
  <1>1. /\ keypad' \in [key : Keys \cup {NoNode}, ends : 0 .. 2]
        /\ keypad'.key = keypad.key /\ keypad.ends > 0
    <2>1. keypad.ends - 1 \in 0..2 /\ keypad.ends > 0
      BY SplitIVRInv DEF EndPacket
    <2> QED BY <2>1, SplitIVRInv DEF EndPacket
  <1>2. GoodFlow' /\ call' \in CallType /\ UNCHANGED flow /\ PressIsAKey'
    BY <1>1, SplitIVRInv DEF EndPacket, GoodFlow, PathKeepsUp, PressIsAKey
  <1>3. CASE UNCHANGED <<decoder, digits, buffer>>
    <2>1. PressPending' => PressPending
      BY <1>1, <1>3 DEF PressPending, NewPress
    <2>2. DigitsOwed' /\ MenuHearsItself'
      BY <1>2, <1>3, <2>1, SplitIVRInv DEF DigitsOwed, MenuHearsItself
    <2> QED BY <1>1, <1>2, <1>3, <2>2, SplitIVRInv, JoinIVRInv
  <1>4. CASE Receive(keypad.key, TRUE)
    <2> DEFINE new == NewPress(keypad.key, TRUE)
               digit == [key |-> keypad.key, visit |-> flow.visit]
    <2>1. decoder' = [event |-> keypad.key, end |-> TRUE]
      BY <1>4 DEF Receive
    <2>2. decoder' \in [event : Keys \cup {NoNode}, end : BOOLEAN] /\ ~PressPending'
      BY <1>1, <2>1, SplitIVRInv DEF PressPending, NewPress
    <2>3. new => digits.detected < digits.pressed
      BY <1>1, SplitIVRInv DEF DigitsOwed, PressPending
    <2>4. digits' = [digits EXCEPT !.detected = @ + IF new THEN 1 ELSE 0]
      BY <1>4 DEF Receive
    <2>5. new \in BOOLEAN
      BY DEF NewPress
    <2>6. buffer' = IF new /\ call.here /\ HasRoom(buffer) THEN Append(buffer, digit) ELSE buffer
      BY <1>4 DEF Receive
    <2>7. digit \in Digit /\ digit.visit = flow.visit
      BY <1>1, SplitIVRInv DEF PressIsAKey, Digit, GoodFlow, FlowType
    <2> HIDE DEF new, digit
    <2>8. /\ digits' \in [pressed : 0 .. MaxPresses, detected : Nat, stale : BOOLEAN]
          /\ digits'.pressed = digits.pressed /\ digits'.stale = digits.stale
          /\ digits'.detected = digits.detected + IF new THEN 1 ELSE 0
      BY <2>4, SplitIVRInv
    <2>9. DigitsOwed'
      <3>1. digits'.detected <= digits'.pressed
        BY <2>3, <2>8, SplitIVRInv DEF DigitsOwed
      <3> QED BY <2>2, <3>1 DEF DigitsOwed
    <2>10. buffer' \in Seq(Digit) /\ Len(buffer') <= BufferCap /\ MenuHearsItself'
      <3>0. buffer \in Seq(Digit) /\ Len(buffer) <= BufferCap /\ BufferCap \in Nat /\ MenuHearsItself
        BY SplitIVRInv, IVRAssumption
      <3>1. CASE buffer' = buffer
        BY <1>2, <2>8, <3>0, <3>1 DEF MenuHearsItself
      <3>2. CASE buffer' = Append(buffer, digit) /\ Len(buffer) < BufferCap
        <4>1. /\ buffer' \in Seq(Digit) /\ Len(buffer') <= BufferCap /\ Len(buffer') = Len(buffer) + 1
              /\ \A i \in 1..Len(buffer') : (i \in 1..Len(buffer) /\ buffer'[i] = buffer[i]) \/ buffer'[i] = digit
          BY <2>7, <3>0, <3>2
        <4>2. MenuHearsItself'
          BY <1>2, <2>7, <2>8, <3>0, <4>1 DEF MenuHearsItself
        <4> QED BY <4>1, <4>2
      <3> QED BY <2>6, <3>1, <3>2 DEF HasRoom
    <2> QED BY <1>1, <1>2, <2>2, <2>8, <2>9, <2>10, SplitIVRInv, JoinIVRInv
  <1> QED BY <1>3, <1>4 DEF EndPacket

-------------------------------------------------------------------------------
(* The steps of the interpreter *)

\* The call has ended, or it waits: another party than the caller decides the edge.
LEMMA OutsideKeeps ==
  ASSUME IVRInv, NEW outcome,
         \/ CallOver \/ GreetingOver \/ CallBackOver(outcome) \/ TransferOver(outcome)
  PROVE  IVRInv'
  <1>0. GoodFlow /\ call \in CallType /\ buffer \in Seq(Digit) /\ Len(buffer) <= BufferCap
    BY SplitIVRInv
  <1>1. CASE CallOver
    <2>1. flow' = [flow EXCEPT !.pc = "done", !.path = flow.path] /\ saved' = flow.path
      BY <1>1 DEF CallOver, Ended
    <2>2. flow' \in FlowType /\ flow'.pc = "done" /\ saved' \in Seq(Nodes)
      BY <1>0, <2>1 DEF GoodFlow, FlowType
    <2>3. Range(saved') = visited' /\ visited' \subseteq Nodes
      BY <1>0, <1>1, <2>1 DEF CallOver, GoodFlow, PathKeepsUp
    <2>4. GoodFlow'
      BY <2>2, <2>3 DEF GoodFlow, PathKeepsUp
    <2> QED BY <1>0, <1>1, <2>2, <2>4, InterpreterKeeps DEF CallOver
  <1>2. CASE GreetingOver
    <2>1. GoodFlow' /\ flow'.pc # "menu"
      <3>1. flow.pc \in Executing /\ Advance("default") /\ UNCHANGED visited
        BY <1>2 DEF GreetingOver, Executing, Rest
      <3> QED BY <1>0, <3>1, Leaves
    <2>2. buffer' = buffer \/ (buffer # <<>> /\ buffer' = Tail(buffer))
      BY <1>2 DEF GreetingOver
    <2>3. buffer' \in Seq(Digit) /\ Len(buffer') <= BufferCap
      BY <1>0, <2>2, BufferTail
    <2> QED BY <1>0, <1>2, <2>1, <2>3, InterpreterKeeps DEF GreetingOver, Rest
  <1>3. CASE CallBackOver(outcome) \/ TransferOver(outcome)
    <2>1. flow.pc \in Executing /\ Advance(outcome) /\ Rest /\ UNCHANGED <<buffer, digits>>
      BY <1>3 DEF CallBackOver, TransferOver, Executing
    <2>2. GoodFlow' /\ flow'.pc # "menu"
      BY <1>0, <2>1, Leaves DEF Rest
    <2> QED BY <1>0, <2>1, <2>2, InterpreterKeeps DEF Rest
  <1> QED BY <1>1, <1>2, <1>3

LEMMA OpenKeeps == ASSUME IVRInv, Greet \/ OpenMenu \/ OpenGather \/ CallBack PROVE IVRInv'
  <1>0. GoodFlow /\ call \in CallType /\ buffer \in Seq(Digit) /\ Len(buffer) <= BufferCap
    BY SplitIVRInv
  <1>1. <<>> \in Seq(Digit) /\ Len(<<>>) <= BufferCap
    BY IVRAssumption
  <1>2. ASSUME NEW pc \in Executing, Enter(pc), buffer' = <<>> \/ (pc # "menu" /\ buffer' = buffer)
        PROVE  IVRInv'
    <2>1. GoodFlow' /\ flow'.pc = pc
      BY <1>0, <1>2, Dispatches
    <2>2. buffer' \in Seq(Digit) /\ Len(buffer') <= BufferCap
      BY <1>0, <1>1, <1>2
    <2>3. call' \in CallType /\ UNCHANGED <<keypad, decoder, digits>>
      BY <1>0, <1>2 DEF Enter
    <2> QED BY <1>2, <2>1, <2>2, <2>3, InterpreterKeeps
  <1> QED BY <1>2 DEF Greet, OpenMenu, OpenGather, CallBack, Executing, Drained

\* What a menu acts on is at the head of a buffer that holds this visit's digits only.
LEMMA MenuKeeps == ASSUME IVRInv, MenuDigit \/ MenuTimeout PROVE IVRInv'
  <1>0. /\ GoodFlow /\ call \in CallType /\ buffer \in Seq(Digit) /\ Len(buffer) <= BufferCap
        /\ flow.pc = "menu" /\ flow.pc \in Executing /\ Rest
    BY SplitIVRInv DEF MenuDigit, MenuTimeout, Executing
  <1>1. <<>> \in Seq(Digit) /\ Len(<<>>) <= BufferCap
    BY IVRAssumption
  <1>2. call' \in CallType /\ UNCHANGED <<visited, keypad, decoder>>
    BY <1>0 DEF Rest
  <1>3. CASE NextAttempt /\ buffer' = <<>> /\ UNCHANGED digits
    <2>1. GoodFlow'
      BY <1>0, <1>2, <1>3, Retries
    <2> QED BY <1>1, <1>2, <1>3, <2>1, InterpreterKeeps
  <1>4. CASE MenuDigit /\ Head(buffer).key \in ValidDigits
    <2>1. /\ Advance(Head(buffer).key) /\ buffer' = Tail(buffer)
          /\ digits' = [digits EXCEPT !.stale = @ \/ Head(buffer).visit # flow.visit]
          /\ buffer # <<>>
      BY <1>4 DEF MenuDigit
    <2>2. GoodFlow' /\ flow'.pc # "menu"
      BY <1>0, <1>2, <2>1, Leaves
    <2>3. Head(buffer).visit = flow.visit
      BY <1>0, <2>1, BufferTail, SplitIVRInv DEF MenuHearsItself
    <2>4. digits' = digits
      BY <2>1, <2>3, SplitIVRInv DEF MenuHearsItself
    <2> QED BY <1>2, <2>1, <2>2, <2>4, BufferTail, InterpreterKeeps
  <1> QED BY <1>3, <1>4 DEF MenuDigit, MenuTimeout, Drained

LEMMA GatherKeeps == ASSUME IVRInv, GatherDigit \/ GatherTimeout PROVE IVRInv'
  <1>0. /\ GoodFlow /\ call \in CallType /\ buffer \in Seq(Digit) /\ Len(buffer) <= BufferCap
        /\ flow.pc = "gather" /\ Rest /\ UNCHANGED digits
    BY SplitIVRInv DEF GatherDigit, GatherTimeout
  <1>1. call' \in CallType /\ UNCHANGED <<visited, keypad, decoder, digits>>
    BY <1>0 DEF Rest
  <1>2. buffer' \in Seq(Digit) /\ Len(buffer') <= BufferCap
    BY <1>0, BufferTail DEF GatherDigit, GatherTimeout
  <1>3. ASSUME NEW got, Collected(got) PROVE IVRInv'
    <2>1. GoodFlow' /\ flow'.pc # "menu"
      BY <1>0, <1>1, <1>3, Collects
    <2> QED BY <1>1, <1>2, <2>1, InterpreterKeeps
  <1>4. CASE GatherDigit /\ flow' = [flow EXCEPT !.got = Append(flow.got, Head(buffer).key)] /\ UNCHANGED saved
    <2>1. Append(flow.got, Head(buffer).key) \in Seq(Keys)
      <3>1. Head(buffer).key \in Keys /\ flow.got \in Seq(Keys)
        BY <1>0, <1>4, BufferTail DEF GatherDigit, GoodFlow, FlowType, Digit
      <3> QED BY <3>1
    <2>2. /\ flow' \in FlowType /\ flow'.pc = "gather" /\ flow'.path = flow.path /\ flow'.at = flow.at
      BY <1>0, <1>4, <2>1 DEF GoodFlow, FlowType
    <2>3. GoodFlow' /\ flow'.pc # "menu"
      BY <1>0, <1>1, <1>4, <2>2 DEF GoodFlow, PathKeepsUp
    <2> QED BY <1>1, <1>2, <2>3, InterpreterKeeps
  <1>5. CASE GatherDigit
    BY <1>3, <1>4, <1>5 DEF GatherDigit
  <1> QED BY <1>3, <1>5 DEF GatherTimeout

\* Nodes that run to their end in one step record themselves as they are dispatched.
LEMMA AtOnceKeeps ==
  ASSUME IVRInv, NEW outcome,
         CheckHours(outcome) \/ Transfer \/ GotoFlow \/ HangUpNode
  PROVE  IVRInv'
  <1> DEFINE path == Append(flow.path, flow.at)
  <1>0. /\ GoodFlow /\ call \in CallType /\ buffer \in Seq(Digit) /\ Len(buffer) <= BufferCap
        /\ flow \in FlowType /\ saved \in Seq(Nodes) /\ flow.at \in Nodes
        /\ flow.pc = "loop" /\ Range(flow.path) = visited /\ visited \subseteq Nodes
    BY SplitIVRInv DEF GoodFlow, FlowType, PathKeepsUp, CheckHours, Transfer, GotoFlow, HangUpNode
  <1>1. /\ path \in Seq(Nodes) /\ Range(path) = visited \cup {flow.at}
    BY <1>0, RangeOfAppend DEF FlowType
  <1>2. /\ visited' = visited \cup {flow.at} /\ visited' \subseteq Nodes
        /\ UNCHANGED <<buffer, keypad, decoder, digits>>
    BY <1>0 DEF CheckHours, Transfer, GotoFlow, HangUpNode
  <1>3. call' \in CallType
    BY <1>0 DEF CheckHours, Transfer, GotoFlow, HangUpNode, CallType
  <1> HIDE DEF path
  <1>4. ASSUME flow' \in FlowType, saved' \in Seq(Nodes), flow'.pc \in {"loop", "done", "transfer"},
               flow'.pc = "loop" => Range(flow'.path) = visited \cup {flow.at},
               flow'.pc = "transfer" => Range(flow'.path) = visited \cup {flow.at} /\ flow'.at = flow.at,
               flow'.pc = "done" => Range(saved') = visited \cup {flow.at}
        PROVE  IVRInv'
    <2>1. GoodFlow'
      BY <1>2, <1>4 DEF GoodFlow, PathKeepsUp
    <2> QED BY <1>0, <1>2, <1>3, <1>4, <2>1, InterpreterKeeps
  <1>5. CASE CheckHours(outcome)
    BY <1>0, <1>4, <1>5, AdvanceFacts DEF CheckHours
  <1>6. CASE Transfer
    <2>1. saved' = path /\ \E pc \in {"done", "transfer"} : flow' = [flow EXCEPT !.pc = pc, !.path = path]
      BY <1>6 DEF Transfer, path
    <2>2. /\ flow' \in FlowType /\ flow'.path = path /\ flow'.at = flow.at
          /\ flow'.pc \in {"done", "transfer"}
      BY <1>0, <1>1, <2>1 DEF FlowType
    <2> QED BY <1>1, <1>4, <2>1, <2>2
  <1>7. CASE GotoFlow
    <2> DEFINE entry == Entry[Target[flow.at]]
    <2>1. entry \in Nodes \cup {NoNode}
      BY <1>0, <1>7, IVRAssumption DEF GotoFlow, Is
    <2>2. /\ saved' = path
          /\ flow' = IF entry = NoNode THEN [flow EXCEPT !.pc = "done", !.path = path]
                     ELSE [flow EXCEPT !.at = entry, !.path = path]
      BY <1>7 DEF GotoFlow, path
    <2> HIDE DEF entry
    <2>3. CASE entry = NoNode
      <3>1. flow' \in FlowType /\ flow'.pc = "done"
        BY <1>0, <1>1, <2>2, <2>3 DEF FlowType
      <3> QED BY <1>1, <1>4, <2>2, <3>1
    <2>4. CASE entry # NoNode
      <3>1. flow' \in FlowType /\ flow'.pc = "loop" /\ flow'.path = path
        BY <1>0, <1>1, <2>1, <2>2, <2>4 DEF FlowType
      <3> QED BY <1>1, <1>4, <2>2, <3>1
    <2> QED BY <2>3, <2>4
  <1>8. CASE HangUpNode
    <2>1. flow' = [flow EXCEPT !.pc = "done", !.path = path] /\ saved' = path
      BY <1>8 DEF HangUpNode, Ended, path
    <2>2. flow' \in FlowType /\ flow'.pc = "done"
      BY <1>0, <1>1, <2>1 DEF FlowType
    <2> QED BY <1>1, <1>4, <2>1, <2>2
  <1> QED BY <1>5, <1>6, <1>7, <1>8

LEMMA IVRStep == ASSUME IVRInv, [IVRNext]_ivrVars PROVE IVRInv'
  <1>1. CASE Interpret
    BY <1>1, OutsideKeeps, OpenKeeps, MenuKeeps, GatherKeeps, AtOnceKeeps DEF Interpret
  <1>2. CASE UNCHANGED ivrVars
    <2>1. GoodFlow' /\ DigitsOwed' /\ PressIsAKey' /\ MenuHearsItself'
      BY <1>2, SplitIVRInv DEF ivrVars, GoodFlow, PathKeepsUp, DigitsOwed, PressPending, NewPress,
         PressIsAKey, MenuHearsItself
    <2> QED BY <1>2, <2>1, SplitIVRInv, JoinIVRInv DEF ivrVars
  <1> QED BY <1>1, <1>2, EndPacketKeeps, HangUpKeeps, PressKeeps DEF IVRNext

\* For every flow graph, number of retries and size of the buffer: however the caller's keys,
\* their repeated and lost packets, the timeouts and the hang-up interleave with the node loop,
\* no digit is invented, a menu acts only on keys pressed for its own prompt, the buffer keeps
\* its bound, and the path saved at the end names exactly the nodes that ran (executeNodeLoop,
\* executeMenu, decodeDTMFEvent).
THEOREM IVRFollowsItsCaller == IVRSpec => []IVRFollowsCaller
  <1>1. IVRInit => IVRInv
    BY IVRInitInv
  <1>2. IVRInv /\ [IVRNext]_ivrVars => IVRInv'
    BY IVRStep
  <1>3. IVRInv => IVRFollowsCaller
    BY DEF IVRInv, IVRFollowsCaller, DigitsOwed, MenuHearsItself, PathKeepsUp, NoPhantomDigits,
       MenuActsOnFreshDigit, PathIsComplete
  <1> QED BY <1>1, <1>2, <1>3, PTL DEF IVRSpec

-------------------------------------------------------------------------------
(* The hand-over of the caller's track *)

BridgeType == [stopped : BOOLEAN, attached : BOOLEAN, slot : BOOLEAN,
               leg : {"none", "reserved", "forward", "gone"}]
MediaType == [track : BOOLEAN, bridge : 0 .. MaxBridges, made : 0 .. MaxBridges, signalled : BOOLEAN,
              hold : BOOLEAN]
OnTrackType == [pc : {"idle", "attach", "done"}, bridge : 0 .. MaxBridges]
ConnectorType == [pc : {"idle", "setup", "signal", "late", "start"}, track : BOOLEAN, seed : Seqs,
                  id : 0 .. MaxBridges]
HolderType == [pc : {"idle", "stop", "wait", "play"}, id : 0 .. MaxBridges, track : BOOLEAN]
RtpType == [player : Seqs, agent : Seqs, base : Seqs, offset : Seqs, first : BOOLEAN, high : Seqs,
            last : Seqs, sent : 0 .. MaxPackets, resumed : BOOLEAN, zero : BOOLEAN, dropped : BOOLEAN]

Hands ==
    /\ media \in MediaType /\ bridge \in [Ids -> BridgeType] /\ onTrack \in OnTrackType
    /\ connector \in ConnectorType /\ holder \in HolderType /\ consumers \in Nat
    /\ HandsOver

LEMMA SplitBridgeInv ==
  BridgeInv <=> Hands /\ rtp \in RtpType /\ (rtp.resumed \/ rtp.zero \/ Continues)
  BY DEF BridgeInv, BridgeTypeOK, Hands, MediaType, BridgeType, OnTrackType, ConnectorType,
     HolderType, RtpType

LEMMA TrackLandsKeeps == ASSUME Hands, TrackLands PROVE Hands'
  <1> USE DEF Hands, HandsOver, MediaType, OnTrackType
  <1>1. /\ media' \in MediaType /\ media'.track /\ media'.bridge = media.bridge
        /\ media'.made = media.made /\ media'.hold = media.hold
        /\ onTrack' = [pc |-> "attach", bridge |-> media.bridge]
        /\ UNCHANGED <<bridge, connector, holder, consumers>>
    BY DEF TrackLands
  <1>2. Numbered'
    BY <1>1 DEF Numbered
  <1>3. TakesTurns' /\ OthersStopped' /\ TrackKnown'
    BY <1>1 DEF TakesTurns, OthersStopped, TrackKnown
  <1>4. TrackReaches'
    <2>1. ~media.track
      BY DEF TrackLands, TrackKnown
    <2>2. media.bridge # 0 => ~bridge[media.bridge].attached
      BY <2>1 DEF TrackKnown, Ids
    <2> QED BY <1>1, <2>2 DEF TrackReaches
  <1> QED BY <1>1, <1>2, <1>3, <1>4

LEMMA AttachKeeps == ASSUME Hands, AttachCaller PROVE Hands'
  <1> DEFINE b == onTrack.bridge
  <1> USE DEF Hands, HandsOver
  <1>1. /\ onTrack' \in OnTrackType /\ onTrack'.pc = "done" /\ onTrack'.bridge = b /\ onTrack.pc = "attach"
        /\ b \in 0..MaxBridges /\ b <= media.made /\ media.track
        /\ UNCHANGED <<media, connector, holder>>
    BY DEF AttachCaller, OnTrackType, Numbered, TrackKnown
  <1>2. CASE b = 0 \/ Served(b)
    <2>1. consumers' \in Nat /\ bridge' = bridge
      BY <1>2 DEF AttachCaller
    <2>2. Numbered' /\ TakesTurns' /\ OthersStopped' /\ TrackKnown'
      BY <1>1, <2>1 DEF Numbered, TakesTurns, OthersStopped, TrackKnown
    <2>3. TrackReaches'
      BY <1>1, <1>2, <2>1 DEF Served, TrackReaches, AgentHears, OthersStopped
    <2> QED BY <1>1, <2>1, <2>2, <2>3
  <1>3. CASE b # 0 /\ ~Served(b)
    <2>1. b \in Ids /\ bridge' = [bridge EXCEPT ![b].attached = TRUE, ![b].slot = TRUE] /\ consumers' = consumers
      BY <1>1, <1>3 DEF AttachCaller, Ids
    <2>2. /\ bridge' \in [Ids -> BridgeType]
          /\ \A c \in Ids : /\ bridge'[c].stopped = bridge[c].stopped /\ bridge'[c].leg = bridge[c].leg
                            /\ c # b => bridge'[c] = bridge[c]
          /\ bridge'[b].slot
      BY <2>1 DEF BridgeType
    <2>3. Numbered'
      BY <1>1, <2>1, <2>2 DEF Numbered, MediaType, Ids
    <2>4. TakesTurns' /\ OthersStopped' /\ TrackKnown'
      BY <1>1, <2>2 DEF TakesTurns, OthersStopped, TrackKnown, MediaType, Ids
    <2>5. TrackReaches'
      BY <1>1, <2>2 DEF TrackReaches, AgentHears, MediaType, Ids
    <2> QED BY <1>1, <2>1, <2>2, <2>3, <2>4, <2>5
  <1> QED BY <1>2, <1>3

LEMMA ConsumerStandsKeeps == ASSUME Hands, ConsumerStands PROVE Hands'
  <1>1. consumers' \in Nat /\ UNCHANGED <<media, bridge, onTrack, connector, holder>>
    BY DEF ConsumerStands, Hands
  <1> QED BY <1>1 DEF Hands, HandsOver, Numbered, TakesTurns, OthersStopped, TrackKnown, TrackReaches, AgentHears

LEMMA ConnectKeeps == ASSUME Hands, rtp \in RtpType, NEW resume \in BOOLEAN, Connect(resume) PROVE Hands'
  <1> USE DEF Hands, HandsOver
  <1>1. /\ media' \in MediaType /\ media'.track = media.track /\ media'.bridge = media.bridge
        /\ media'.made = media.made /\ ~media'.hold
        /\ media.hold /\ media.made < MaxBridges /\ connector.pc = "idle"
        /\ UNCHANGED <<bridge, onTrack, holder, consumers>>
    BY DEF Connect, MediaType
  <1>2. /\ connector' \in ConnectorType /\ connector'.pc = "setup" /\ connector'.track = media.track
    BY BridgeAssumption DEF Connect, ConnectorType, MediaType, RtpType, Seqs
  <1>3. Numbered' /\ TakesTurns'
    BY <1>1, <1>2 DEF Numbered, TakesTurns
  <1>4. OthersStopped' /\ TrackKnown' /\ TrackReaches'
    BY <1>1, <1>2 DEF OthersStopped, TrackKnown, TrackReaches, TakesTurns
  <1> QED BY <1>1, <1>2, <1>3, <1>4

LEMMA SetUpKeeps == ASSUME Hands, SetUpBridge PROVE Hands'
  <1> DEFINE b == media.made + 1
  <1> USE DEF Hands, HandsOver
  <1>1. /\ connector.pc = "setup" /\ holder.pc = "idle" /\ media.bridge = 0 /\ ~media.hold
        /\ media.made \in Nat /\ b \in Ids /\ b \in 0..MaxBridges
    BY BridgeAssumption DEF SetUpBridge, TakesTurns, Numbered, MediaType, Ids
  <1>2. /\ media' \in MediaType /\ media'.track = media.track /\ media'.bridge = b
        /\ media'.made = b /\ media'.hold = media.hold
    BY <1>1 DEF SetUpBridge, MediaType
  <1>3. /\ connector' \in ConnectorType /\ connector'.pc = "signal" /\ connector'.id = b
        /\ connector'.track = connector.track
    BY <1>1 DEF SetUpBridge, ConnectorType
  <1>4. UNCHANGED <<bridge, onTrack, holder, consumers>> /\ bridge[b] = Untouched
    BY <1>1 DEF SetUpBridge, Numbered
  <1>5. Numbered'
    BY <1>1, <1>2, <1>3, <1>4 DEF Numbered, Untouched, Ids, OnTrackType
  <1>6. TakesTurns'
    BY <1>1, <1>2, <1>3, <1>4 DEF TakesTurns
  <1>7. OthersStopped'
    BY <1>1, <1>2, <1>4 DEF OthersStopped, Untouched, Ids
  <1>8. TrackKnown' /\ TrackReaches'
    BY <1>2, <1>3, <1>4 DEF TrackKnown, TrackReaches
  <1> QED BY <1>2, <1>3, <1>4, <1>5, <1>6, <1>7, <1>8

LEMMA SignalKeeps == ASSUME Hands, SignalBridgeStarted \/ LookAgain PROVE Hands'
  <1> USE DEF Hands, HandsOver
  <1>1. /\ media' \in MediaType /\ media'.track = media.track /\ media'.bridge = media.bridge
        /\ media'.made = media.made /\ media'.hold = media.hold
        /\ UNCHANGED <<bridge, onTrack, holder, consumers>>
    BY DEF SignalBridgeStarted, LookAgain, MediaType
  <1>2. /\ connector' \in ConnectorType /\ connector'.id = connector.id
        /\ connector.pc \in {"signal", "late"} /\ connector'.pc \in {"late", "start"}
        /\ connector'.pc = "late" => connector'.track = connector.track
        /\ connector'.pc = "start" => connector'.track = (connector.track \/ media.track)
    BY DEF SignalBridgeStarted, LookAgain, LateCallerTrack, ConnectorType, MediaType
  <1>3. Numbered' /\ TakesTurns'
    BY <1>1, <1>2 DEF Numbered, TakesTurns
  <1>4. OthersStopped' /\ TrackKnown' /\ TrackReaches'
    BY <1>1, <1>2 DEF OthersStopped, TrackKnown, TrackReaches
  <1> QED BY <1>1, <1>2, <1>3, <1>4

LEMMA StartKeeps == ASSUME Hands, Start PROVE Hands'
  <1> DEFINE b == connector.id
  <1> USE DEF Hands, HandsOver
  <1>1. /\ connector.pc = "start" /\ b = media.made /\ b \in Ids /\ bridge[b].leg = "none"
        /\ UNCHANGED <<media, onTrack, holder, consumers>>
    BY DEF Start, Numbered, ConnectorType, Ids
  <1>2. /\ connector' \in ConnectorType /\ connector'.pc = "idle" /\ connector'.track = connector.track
        /\ connector.track \in BOOLEAN
    BY DEF Start, ConnectorType
  <1>3. /\ bridge' \in [Ids -> BridgeType]
        /\ \A c \in Ids : /\ bridge'[c].stopped = bridge[c].stopped /\ bridge'[c].slot = bridge[c].slot
                          /\ c # b => bridge'[c] = bridge[c]
        /\ bridge'[b].attached = (bridge[b].attached \/ connector.track)
        /\ bridge'[b].leg = IF connector.track THEN "forward" ELSE "reserved"
    BY <1>1, <1>2 DEF Start, BridgeType
  <1>4. Numbered'
    BY <1>1, <1>2, <1>3 DEF Numbered, MediaType, Ids
  <1>5. TakesTurns' /\ OthersStopped'
    BY <1>1, <1>2, <1>3 DEF TakesTurns, OthersStopped, MediaType, Ids
  <1>6. TrackKnown'
    BY <1>1, <1>2, <1>3 DEF TrackKnown
  <1>7. TrackReaches'
    BY <1>1, <1>2, <1>3 DEF TrackReaches, AgentHears, Numbered, MediaType, Ids
  <1> QED BY <1>1, <1>2, <1>3, <1>4, <1>5, <1>6, <1>7

LEMMA LegKeeps == ASSUME Hands, NEW b \in Ids, TakeSlot(b) \/ LegEnds(b) PROVE Hands'
  <1> USE DEF Hands, HandsOver
  <1>1. UNCHANGED <<media, onTrack, connector, holder, consumers>>
    BY DEF TakeSlot, LegEnds
  <1>2. bridge[b].leg \in {"reserved", "forward"} /\ (bridge[b].stopped \/ bridge'[b].leg = "forward")
    BY DEF TakeSlot, LegEnds, BridgeType
  <1>3. /\ bridge' \in [Ids -> BridgeType]
        /\ \A c \in Ids : /\ bridge'[c].stopped = bridge[c].stopped /\ bridge'[c].attached = bridge[c].attached
                          /\ c # b => bridge'[c] = bridge[c]
    BY DEF TakeSlot, LegEnds, BridgeType
  <1>4. b <= media.made
    BY <1>2 DEF Numbered, Untouched, Ids, MediaType
  <1>5. Numbered'
    BY <1>1, <1>2, <1>3, <1>4 DEF Numbered, MediaType, Ids
  <1>6. TakesTurns' /\ OthersStopped' /\ TrackKnown'
    BY <1>1, <1>3 DEF TakesTurns, OthersStopped, TrackKnown, MediaType, Ids
  <1>7. TrackReaches'
    BY <1>1, <1>2, <1>3 DEF TrackReaches, AgentHears, OthersStopped, MediaType, Ids
  <1> QED BY <1>1, <1>3, <1>5, <1>6, <1>7

LEMMA HoldCallKeeps == ASSUME Hands, HoldCall PROVE Hands'
  <1> USE DEF Hands, HandsOver
  <1>0. media.bridge \in Ids /\ media.bridge = media.made /\ ~media.hold /\ holder.pc = "idle"
    BY BridgeAssumption DEF HoldCall, MediaType, Numbered, Ids
  <1>1. /\ media' \in MediaType /\ media'.track = media.track /\ media'.bridge = 0
        /\ media'.made = media.made /\ media'.hold = media.hold
        /\ holder' = [pc |-> "stop", id |-> media.bridge, track |-> media.track]
        /\ UNCHANGED <<bridge, onTrack, connector, consumers>>
    <2>1. /\ media' = [media EXCEPT !.bridge = 0, !.signalled = FALSE]
          /\ media \in MediaType /\ 0 \in 0..MaxBridges
      BY BridgeAssumption DEF HoldCall
    <2>2. /\ media' \in MediaType /\ media'.track = media.track /\ media'.bridge = 0
          /\ media'.made = media.made /\ media'.hold = media.hold
      BY <2>1 DEF MediaType
    <2> QED BY <2>2 DEF HoldCall
  <1>2. holder' \in HolderType
    BY <1>0, <1>1 DEF HolderType, MediaType
  <1>3. Numbered' /\ TakesTurns'
    BY <1>0, <1>1 DEF Numbered, TakesTurns, MediaType, Ids
  <1>4. OthersStopped' /\ TrackKnown' /\ TrackReaches'
    BY <1>0, <1>1 DEF OthersStopped, TrackKnown, TrackReaches
  <1> QED BY <1>1, <1>2, <1>3, <1>4

LEMMA StopKeeps == ASSUME Hands, StopBridge PROVE Hands'
  <1> DEFINE b == holder.id
  <1> USE DEF Hands, HandsOver
  <1>1. /\ holder.pc = "stop" /\ b \in Ids /\ media.bridge = 0 /\ b <= media.made
        /\ UNCHANGED <<media, onTrack, connector, consumers>>
    BY DEF StopBridge, Numbered, TakesTurns, HolderType, Ids
  <1>2. holder' \in HolderType /\ holder'.pc = "wait" /\ holder'.id = b
    BY DEF StopBridge, HolderType
  <1>3. /\ bridge' \in [Ids -> BridgeType]
        /\ \A c \in Ids : /\ bridge'[c].leg = bridge[c].leg /\ bridge'[c].attached = bridge[c].attached
                          /\ c # b => bridge'[c] = bridge[c]
        /\ bridge'[b].stopped
    <2> DEFINE new == [bridge[b] EXCEPT !.stopped = TRUE]
    <2>1. bridge' = [bridge EXCEPT ![b] = new] /\ bridge \in [Ids -> BridgeType] /\ b \in Ids
      BY <1>1 DEF StopBridge
    <2>2. new \in BridgeType /\ new.leg = bridge[b].leg /\ new.attached = bridge[b].attached /\ new.stopped
      BY <2>1 DEF BridgeType
    <2> HIDE DEF new, b, Hands, HandsOver
    <2>3. bridge' \in [Ids -> BridgeType] /\ bridge'[b] = new /\ \A c \in Ids : c # b => bridge'[c] = bridge[c]
      BY <2>1, <2>2
    <2> QED BY <2>1, <2>2, <2>3
  <1>4. Numbered'
    BY <1>1, <1>2, <1>3 DEF Numbered, MediaType, Ids
  <1>5. TakesTurns' /\ OthersStopped' /\ TrackKnown'
    BY <1>1, <1>2, <1>3 DEF TakesTurns, OthersStopped, TrackKnown
  <1>6. TrackReaches'
    BY <1>1 DEF TrackReaches
  <1> QED BY <1>1, <1>2, <1>3, <1>4, <1>5, <1>6

LEMMA HoldMusicKeeps == ASSUME Hands, BridgeWaited \/ HoldMusic PROVE Hands'
  <1> USE DEF Hands, HandsOver
  <1>1. /\ media' \in MediaType /\ media'.track = media.track /\ media'.bridge = media.bridge
        /\ media'.made = media.made /\ media'.hold \in {media.hold, TRUE}
        /\ holder.pc \in {"wait", "play"} /\ media.bridge = 0 /\ connector.pc # "setup"
        /\ UNCHANGED <<bridge, onTrack, connector>>
    BY DEF BridgeWaited, HoldMusic, MediaType, TakesTurns
  <1>2. consumers' \in Nat
    BY DEF BridgeWaited, HoldMusic
  <1>3. /\ holder' \in HolderType /\ holder'.pc \in {"idle", "play"} /\ holder'.id = holder.id
        /\ media'.hold => media.hold \/ holder'.pc = "idle"
    BY DEF BridgeWaited, HoldMusic, HolderType, MediaType
  <1>4. Numbered' /\ TakesTurns'
    BY <1>1, <1>3 DEF Numbered, TakesTurns
  <1>5. OthersStopped' /\ TrackKnown' /\ TrackReaches'
    BY <1>1, <1>3 DEF OthersStopped, TrackKnown, TrackReaches
  <1> QED BY <1>1, <1>2, <1>3, <1>4, <1>5

-------------------------------------------------------------------------------
(* Sequence numbers *)

LEMMA Wraps ==
  ASSUME NEW a \in Nat
  PROVE  /\ a % RtpMod \in Seqs
         /\ a < RtpMod => a % RtpMod = a
         /\ RtpMod <= a /\ a < 2 * RtpMod => a % RtpMod = a - RtpMod
         /\ 2 * RtpMod <= a /\ a < 3 * RtpMod => a % RtpMod = a - 2 * RtpMod
         /\ 3 * RtpMod <= a /\ a < 4 * RtpMod => a % RtpMod = a - 3 * RtpMod
  <1>1. a % RtpMod \in Seqs
    BY BridgeAssumption DEF Seqs
  <1>2. a < RtpMod => a % RtpMod = a
    BY BridgeAssumption
  <1>3. RtpMod <= a /\ a < 2 * RtpMod => a % RtpMod = a - RtpMod
    BY BridgeAssumption
  <1>4. 2 * RtpMod <= a /\ a < 3 * RtpMod => a % RtpMod = a - 2 * RtpMod
    BY BridgeAssumption
  <1>5. 3 * RtpMod <= a /\ a < 4 * RtpMod => a % RtpMod = a - 3 * RtpMod
    BY BridgeAssumption
  <1> QED BY <1>1, <1>2, <1>3, <1>4, <1>5

LEMMA NextOfIs ==
  ASSUME NEW seq \in Seqs
  PROVE  /\ NextOf(seq) \in Seqs
         /\ NextOf(seq) = IF seq = RtpMod - 1 THEN 0 ELSE seq + 1
  <1>1. seq + 1 \in Nat /\ seq + 1 <= RtpMod
    BY BridgeAssumption DEF Seqs
  <1> QED BY <1>1, Wraps, BridgeAssumption DEF NextOf, Seqs

\* The receiver takes the next number, and the one after it.
LEMMA NextIsAhead ==
  ASSUME rtp.high \in Seqs
  PROVE  Ahead(NextOf(rtp.high)) /\ Ahead(NextOf(NextOf(rtp.high)))
  <1> DEFINE h == rtp.high
             n == NextOf(h)
             m == NextOf(n)
  <1>0. h \in Nat /\ h < RtpMod /\ RtpMod \in Nat /\ RtpMod >= 4
    BY BridgeAssumption DEF Seqs
  <1>1. n \in Seqs /\ n = IF h = RtpMod - 1 THEN 0 ELSE h + 1
    BY NextOfIs
  <1>2. m \in Seqs /\ m = IF n = RtpMod - 1 THEN 0 ELSE n + 1
    BY <1>1, NextOfIs
  <1>3. RtpMod \div 2 >= 2
    BY <1>0
  <1> HIDE DEF h, n, m
  <1>4. n + RtpMod - h \in Nat /\ (n + RtpMod - h) \in {1, RtpMod + 1}
    BY <1>0, <1>1
  <1>5. m + RtpMod - h = 2 \/ m + RtpMod - h = RtpMod + 2
    BY <1>0, <1>1, <1>2
  <1>6. (n + RtpMod - h) % RtpMod = 1
    BY <1>0, <1>4, Wraps
  <1>7. (m + RtpMod - h) % RtpMod = 2
    <2>1. 2 % RtpMod = 2 /\ (RtpMod + 2) % RtpMod = 2
      BY <1>0
    <2>2. CASE m + RtpMod - h = 2
      BY <2>1, <2>2
    <2>3. CASE m + RtpMod - h = RtpMod + 2
      BY <2>1, <2>3
    <2> QED BY <1>5, <2>2, <2>3
  <1>8. /\ Ahead(n) <=> (n + RtpMod - h) % RtpMod > 0 /\ (n + RtpMod - h) % RtpMod <= RtpMod \div 2
        /\ Ahead(m) <=> (m + RtpMod - h) % RtpMod > 0 /\ (m + RtpMod - h) % RtpMod <= RtpMod \div 2
    BY DEF Ahead, h
  <1>9. Ahead(n) /\ Ahead(m)
    BY <1>0, <1>3, <1>6, <1>7, <1>8
  <1> QED BY <1>9 DEF h, n, m

\* forward keeps the distance between the agent's numbers, over the wrap of either side.
Rewrite(offset, agent, base) == (offset + (agent + RtpMod - base) + 1) % RtpMod

LEMMA RewriteNext ==
  ASSUME NEW offset \in Seqs, NEW agent \in Seqs, NEW base \in Seqs
  PROVE  /\ Rewrite(offset, agent, base) \in Seqs
         /\ Rewrite(offset, agent, agent) = NextOf(offset)
         /\ Rewrite(offset, NextOf(agent), base) = NextOf(Rewrite(offset, agent, base))
  <1> DEFINE x == offset + (agent + RtpMod - base) + 1
             y == offset + (NextOf(agent) + RtpMod - base) + 1
             z == x % RtpMod
  <1>0. /\ offset \in Nat /\ offset < RtpMod /\ agent \in Nat /\ agent < RtpMod
        /\ base \in Nat /\ base < RtpMod /\ RtpMod \in Nat /\ RtpMod >= 4
    BY BridgeAssumption DEF Seqs
  <1>1. NextOf(agent) = IF agent = RtpMod - 1 THEN 0 ELSE agent + 1
    BY NextOfIs
  <1>2. x \in Nat /\ x < 3 * RtpMod /\ x >= 1
    BY <1>0
  <1>3. y \in Nat /\ y = IF agent = RtpMod - 1 THEN x + 1 - RtpMod ELSE x + 1
    BY <1>0, <1>1
  <1>4. agent = RtpMod - 1 => x + 1 >= RtpMod
    BY <1>0
  <1>5. z \in Seqs /\ NextOf(z) = IF z = RtpMod - 1 THEN 0 ELSE z + 1
    BY <1>2, Wraps, NextOfIs
  <1>6. Rewrite(offset, agent, agent) = NextOf(offset)
    <2>1. offset + (agent + RtpMod - agent) + 1 = offset + 1 + RtpMod
      BY <1>0
    <2>2. (offset + 1 + RtpMod) % RtpMod = IF offset = RtpMod - 1 THEN 0 ELSE offset + 1
      BY <1>0, Wraps
    <2> QED BY <2>1, <2>2, NextOfIs DEF Rewrite
  <1> HIDE DEF x, y
  <1>7. /\ z = IF x < RtpMod THEN x ELSE IF x < 2 * RtpMod THEN x - RtpMod ELSE x - 2 * RtpMod
    BY <1>0, <1>2, Wraps
  <1>8. y % RtpMod = IF y < RtpMod THEN y ELSE IF y < 2 * RtpMod THEN y - RtpMod
                     ELSE IF y < 3 * RtpMod THEN y - 2 * RtpMod ELSE y - 3 * RtpMod
    <2>1. y < 4 * RtpMod
      BY <1>0, <1>2, <1>3
    <2>2. /\ y < RtpMod => y % RtpMod = y
          /\ RtpMod <= y /\ y < 2 * RtpMod => y % RtpMod = y - RtpMod
          /\ 2 * RtpMod <= y /\ y < 3 * RtpMod => y % RtpMod = y - 2 * RtpMod
          /\ 3 * RtpMod <= y /\ y < 4 * RtpMod => y % RtpMod = y - 3 * RtpMod
      BY <1>3, Wraps
    <2> QED BY <1>0, <1>3, <2>1, <2>2
  <1> HIDE DEF z
  <1>9. y % RtpMod = NextOf(z)
    BY <1>0, <1>2, <1>3, <1>4, <1>5, <1>7, <1>8
  <1> QED BY <1>5, <1>6, <1>9 DEF Rewrite, x, y, z

-------------------------------------------------------------------------------
(* The stream to the caller *)

LEMMA DeliveredFacts ==
  ASSUME rtp \in RtpType, rtp.sent < MaxPackets, NEW seq \in Seqs, NEW d, d = Delivered(rtp, seq)
  PROVE  /\ d \in RtpType
         /\ d.player = rtp.player /\ d.agent = rtp.agent /\ d.base = rtp.base /\ d.offset = rtp.offset
         /\ d.first = rtp.first /\ d.last = rtp.last /\ d.resumed = rtp.resumed /\ d.zero = rtp.zero
         /\ Ahead(seq) => d.high = seq /\ d.dropped = rtp.dropped
  <1>1. rtp.sent + 1 \in 0..MaxPackets
    BY BridgeAssumption DEF RtpType
  <1>2. Ahead(seq) \in BOOLEAN
    BY DEF Ahead
  <1> DEFINE ahead == Ahead(seq)
  <1>3. d = [rtp EXCEPT !.sent = @ + 1, !.dropped = @ \/ ~ahead, !.high = IF ahead THEN seq ELSE @]
    BY DEF Delivered
  <1> HIDE DEF ahead
  <1>4. (rtp.dropped \/ ~ahead) \in BOOLEAN /\ (IF ahead THEN seq ELSE rtp.high) \in Seqs
    BY DEF RtpType
  <1>5. /\ d \in RtpType
        /\ d.player = rtp.player /\ d.agent = rtp.agent /\ d.base = rtp.base /\ d.offset = rtp.offset
        /\ d.first = rtp.first /\ d.last = rtp.last /\ d.resumed = rtp.resumed /\ d.zero = rtp.zero
        /\ d.high = (IF ahead THEN seq ELSE rtp.high) /\ d.dropped = (rtp.dropped \/ ~ahead)
    BY <1>1, <1>3, <1>4 DEF RtpType
  <1>6. ahead => d.dropped = rtp.dropped
    BY <1>5 DEF RtpType
  <1> QED BY <1>5, <1>6 DEF ahead

Streams == rtp \in RtpType /\ (rtp.resumed \/ rtp.zero \/ Continues)

\* The player goes on where the receiver is.
LEMMA PlayStreams == ASSUME Hands, Streams, PlayPacket PROVE Streams'
  <1> DEFINE d == Delivered(rtp, rtp.player)
  <1>1. /\ rtp \in RtpType /\ rtp.sent < MaxPackets /\ rtp.player \in Seqs /\ rtp.high \in Seqs
        /\ media.hold /\ UNCHANGED <<media, connector, holder>>
    BY DEF Streams, PlayPacket, RtpType
  <1>2. /\ d \in RtpType /\ d.player = rtp.player /\ d.resumed = rtp.resumed /\ d.zero = rtp.zero
        /\ Ahead(rtp.player) => d.high = rtp.player /\ d.dropped = rtp.dropped
    BY <1>1, DeliveredFacts
  <1>3. rtp' = [d EXCEPT !.player = (@ + 1) % RtpMod]
    BY DEF PlayPacket
  <1> HIDE DEF d
  <1>4. rtp' = [d EXCEPT !.player = NextOf(rtp.player)] /\ NextOf(rtp.player) \in Seqs
    BY <1>1, <1>2, <1>3, NextOfIs DEF NextOf
  <1>5. /\ rtp' \in RtpType /\ rtp'.player = NextOf(rtp.player) /\ rtp'.high = d.high
        /\ rtp'.dropped = d.dropped /\ rtp'.resumed = rtp.resumed /\ rtp'.zero = rtp.zero
    BY <1>2, <1>4 DEF RtpType
  <1>6. CASE rtp.resumed \/ rtp.zero
    BY <1>5, <1>6 DEF Streams
  <1>7. CASE Continues
    <2>1. rtp.player = NextOf(rtp.high) /\ ~rtp.dropped
      BY <1>1, <1>7 DEF Continues
    <2>2. rtp'.high = rtp.player /\ ~rtp'.dropped
      BY <1>1, <1>2, <1>5, <2>1, NextIsAhead
    <2>3. connector.pc # "setup" /\ holder.pc = "idle"
      BY <1>1 DEF Hands, HandsOver, TakesTurns
    <2>4. Continues'
      BY <1>1, <1>5, <2>2, <2>3 DEF Continues
    <2> QED BY <1>5, <2>4 DEF Streams
  <1> QED BY <1>6, <1>7 DEF Streams

\* The bridge goes on where the music stopped, or where its last packet left off.
LEMMA ForwardStreams == ASSUME Hands, Streams, ForwardAgentPacket PROVE Streams'
  <1> DEFINE base == IF rtp.first THEN rtp.agent ELSE rtp.base
             seq == IF rtp.offset > 0 THEN Rewritten(base) ELSE rtp.agent
             d == Delivered(rtp, seq)
  <1>1. /\ rtp \in RtpType /\ rtp.sent < MaxPackets /\ UNCHANGED <<media, connector, holder>>
        /\ rtp.agent \in Seqs /\ rtp.high \in Seqs /\ rtp.offset \in Seqs /\ base \in Seqs
        /\ media.bridge # 0
    BY DEF Streams, ForwardAgentPacket, RtpType
  <1>2. /\ ~media.hold /\ connector.pc # "setup" /\ holder.pc = "idle" /\ media.made > 0
    <2>1. media.bridge \in 0..MaxBridges /\ media.bridge = media.made
      BY <1>1 DEF Hands, HandsOver, Numbered, MediaType
    <2> QED BY <1>1, <2>1, BridgeAssumption DEF Hands, HandsOver, TakesTurns
  <1>3. Rewritten(base) = Rewrite(rtp.offset, rtp.agent, base)
    BY DEF Rewritten, Rewrite
  <1>4. seq \in Seqs
    BY <1>1, <1>3, RewriteNext
  <1>5. /\ d \in RtpType /\ d.agent = rtp.agent /\ d.offset = rtp.offset
        /\ d.resumed = rtp.resumed /\ d.zero = rtp.zero
        /\ Ahead(seq) => d.high = seq /\ d.dropped = rtp.dropped
    BY <1>1, <1>4, DeliveredFacts
  <1>6. rtp' = [d EXCEPT !.first = FALSE, !.base = base, !.last = seq, !.agent = (@ + 1) % RtpMod]
    BY DEF ForwardAgentPacket
  <1>7. rtp.offset > 0 => seq = Rewrite(rtp.offset, rtp.agent, base)
    BY <1>3
  <1>8. rtp.first => base = rtp.agent
    OBVIOUS
  <1>9. ~rtp.first => base = rtp.base
    OBVIOUS
  <1> HIDE DEF d, seq, base
  <1>10. /\ rtp' = [d EXCEPT !.first = FALSE, !.base = base, !.last = seq, !.agent = NextOf(rtp.agent)]
         /\ NextOf(rtp.agent) \in Seqs
    BY <1>1, <1>5, <1>6, NextOfIs DEF NextOf
  <1>11. /\ rtp' \in RtpType /\ ~rtp'.first /\ rtp'.base = base /\ rtp'.last = seq /\ rtp'.high = d.high
         /\ rtp'.agent = NextOf(rtp.agent) /\ rtp'.offset = rtp.offset
         /\ rtp'.dropped = d.dropped /\ rtp'.resumed = rtp.resumed /\ rtp'.zero = rtp.zero
    BY <1>1, <1>4, <1>5, <1>10 DEF RtpType
  <1>12. CASE rtp.resumed \/ rtp.zero
    BY <1>11, <1>12 DEF Streams
  <1>13. CASE Continues
    <2>1. /\ rtp.offset > 0 /\ ~rtp.dropped
          /\ rtp.first => rtp.offset = NextOf(rtp.high)
          /\ ~rtp.first => Rewrite(rtp.offset, rtp.agent, rtp.base) = NextOf(rtp.high)
      BY <1>2, <1>13 DEF Continues, Rewritten, Rewrite
    <2>2. seq \in {NextOf(rtp.high), NextOf(NextOf(rtp.high))}
      <3>1. CASE rtp.first
        BY <1>1, <1>7, <1>8, <2>1, <3>1, RewriteNext
      <3>2. CASE ~rtp.first
        BY <1>7, <1>9, <2>1, <3>2
      <3> QED BY <3>1, <3>2
    <2>3. rtp'.high = seq /\ ~rtp'.dropped
      BY <1>1, <1>5, <1>11, <2>1, <2>2, NextIsAhead
    <2>4. Rewritten(rtp.base)' = NextOf(seq)
      <3>1. Rewritten(rtp.base)' = Rewrite(rtp.offset, NextOf(rtp.agent), base)
        BY <1>11 DEF Rewritten, Rewrite
      <3> QED BY <1>1, <1>7, <2>1, <3>1, RewriteNext
    <2>5. Continues'
      BY <1>1, <1>2, <1>11, <2>1, <2>3, <2>4 DEF Continues, NextOf
    <2> QED BY <1>11, <2>5 DEF Streams
  <1> QED BY <1>12, <1>13 DEF Streams

\* The transfer remembers where the music stopped.
LEMMA ConnectStreams ==
  ASSUME Hands, Streams, NEW resume \in BOOLEAN, Connect(resume) PROVE Streams'
  <1>1. /\ rtp' = [rtp EXCEPT !.resumed = rtp.resumed \/ resume, !.zero = rtp.zero \/ (~resume /\ rtp.player = 0)]
        /\ rtp \in RtpType
    BY DEF Connect, Streams
  <1>2. /\ rtp' \in RtpType /\ rtp'.resumed = (rtp.resumed \/ resume)
        /\ rtp'.zero = (rtp.zero \/ (~resume /\ rtp.player = 0))
        /\ rtp'.dropped = rtp.dropped /\ rtp'.high = rtp.high /\ rtp'.player = rtp.player
    BY <1>1 DEF RtpType
  <1>3. CASE rtp.resumed \/ rtp.zero \/ resume \/ rtp.player = 0
    BY <1>2, <1>3 DEF Streams, RtpType
  <1>4. CASE ~(rtp.resumed \/ rtp.zero \/ resume \/ rtp.player = 0)
    <2>1. Continues /\ media.hold /\ connector.pc = "idle" /\ holder' = holder
      BY <1>4 DEF Streams, Connect
    <2>2. holder.pc = "idle"
      BY <2>1 DEF Hands, HandsOver, TakesTurns
    <2>3. connector'.pc = "setup" /\ connector'.seed = rtp.player /\ ~media'.hold
      BY <1>4 DEF Connect, Hands, MediaType
    <2>4. rtp.player > 0
      BY <1>1, <1>4, BridgeAssumption DEF RtpType, Seqs
    <2>5. Continues'
      BY <1>2, <2>1, <2>2, <2>3, <2>4 DEF Continues, NextOf
    <2> QED BY <1>2, <2>5 DEF Streams
  <1> QED BY <1>3, <1>4

LEMMA SetUpStreams == ASSUME Hands, Streams, SetUpBridge PROVE Streams'
  <1>1. /\ rtp' = [rtp EXCEPT !.offset = connector.seed, !.first = connector.seed > 0, !.last = 0]
        /\ rtp \in RtpType /\ connector.seed \in Seqs /\ 0 \in Seqs /\ (connector.seed > 0) \in BOOLEAN
    BY BridgeAssumption DEF SetUpBridge, SeedBridge, Streams, Hands, ConnectorType, Seqs
  <1>2. /\ rtp' \in RtpType /\ rtp'.resumed = rtp.resumed /\ rtp'.zero = rtp.zero
        /\ rtp'.dropped = rtp.dropped /\ rtp'.high = rtp.high
        /\ rtp'.offset = connector.seed /\ rtp'.first = (connector.seed > 0) /\ rtp'.last = 0
    BY <1>1 DEF RtpType
  <1>3. /\ connector.pc = "setup" /\ holder.pc = "idle" /\ ~media.hold
    BY DEF SetUpBridge, Hands, HandsOver, TakesTurns
  <1>4. connector'.pc = "signal" /\ holder' = holder /\ media'.hold = media.hold
    BY DEF SetUpBridge, Hands, ConnectorType, MediaType
  <1>5. CASE Continues
    <2>1. Continues'
      BY <1>2, <1>3, <1>4, <1>5 DEF Continues, NextOf
    <2> QED BY <1>2, <2>1 DEF Streams
  <1> QED BY <1>2, <1>5 DEF Streams

\* Hold music goes on past the last packet of the bridge, unless that was number 0.
LEMMA WaitedStreams == ASSUME Hands, Streams, BridgeWaited PROVE Streams'
  <1>1. /\ rtp' = [rtp EXCEPT !.player = ContinuePast(rtp.last), !.zero = rtp.zero \/ rtp.last = 0]
        /\ rtp \in RtpType /\ rtp.last \in Seqs /\ UNCHANGED <<media, connector>>
    BY DEF BridgeWaited, Streams, RtpType
  <1>2. ContinuePast(rtp.last) \in Seqs /\ (rtp.last > 0 => ContinuePast(rtp.last) = NextOf(rtp.last))
    BY <1>1, NextOfIs, BridgeAssumption DEF ContinuePast, NextOf, Seqs
  <1>3. /\ rtp' \in RtpType /\ rtp'.resumed = rtp.resumed /\ rtp'.zero = (rtp.zero \/ rtp.last = 0)
        /\ rtp'.dropped = rtp.dropped /\ rtp'.high = rtp.high /\ rtp'.player = ContinuePast(rtp.last)
        /\ rtp'.last = rtp.last /\ rtp'.offset = rtp.offset /\ rtp'.first = rtp.first
        /\ rtp'.base = rtp.base /\ rtp'.agent = rtp.agent
    BY <1>1, <1>2 DEF RtpType
  <1>4. /\ holder.pc = "wait" /\ holder'.pc = "play" /\ connector.pc # "setup" /\ ~media.hold
        /\ media.made > 0
    <2>1. holder.id \in Nat /\ media.made \in Nat /\ holder.pc = "wait"
      BY BridgeAssumption DEF BridgeWaited, Hands, HolderType, MediaType
    <2> QED BY <2>1 DEF BridgeWaited, Hands, HandsOver, HolderType, TakesTurns, Numbered
  <1>5. CASE rtp.resumed \/ rtp.zero \/ rtp.last = 0
    BY <1>3, <1>5 DEF Streams, RtpType
  <1>6. CASE ~(rtp.resumed \/ rtp.zero \/ rtp.last = 0)
    <2>1. Continues /\ rtp.last > 0
      BY <1>1, <1>6, BridgeAssumption DEF Streams, Seqs
    <2>2. rtp.last = rtp.high /\ ~rtp.dropped
      BY <1>4, <1>6, <2>1 DEF Continues
    <2>3. rtp'.player = NextOf(rtp.high)
      BY <1>2, <1>3, <2>1, <2>2
    <2>4. Continues'
      BY <1>1, <1>3, <1>4, <2>2, <2>3 DEF Continues, NextOf
    <2> QED BY <1>3, <2>4 DEF Streams
  <1> QED BY <1>5, <1>6

\* The other steps send nothing; those of HoldCall only move between phases.
LEMMA QuietStreams ==
  ASSUME Hands, Streams, UNCHANGED rtp,
         \/ UNCHANGED <<media, connector, holder>>
         \/ TrackLands \/ SignalBridgeStarted \/ LookAgain \/ Start \/ HoldCall \/ StopBridge \/ HoldMusic
  PROVE  Streams'
  <1>1. /\ media'.made = media.made
        /\ media'.hold \/ holder'.pc = "play" <=> media.hold \/ holder.pc = "play"
        /\ connector'.pc = "setup" <=> connector.pc = "setup"
        /\ connector'.seed = connector.seed
    <2> USE DEF Hands, MediaType, ConnectorType, HolderType
    <2>1. CASE UNCHANGED <<media, connector, holder>>
      BY <2>1
    <2>2. CASE TrackLands \/ SignalBridgeStarted
      BY <2>2 DEF TrackLands, SignalBridgeStarted
    <2>3. CASE LookAgain
      BY <2>3 DEF LookAgain
    <2>4. CASE Start
      BY <2>4 DEF Start
    <2>5. CASE HoldCall
      BY <2>5 DEF HoldCall
    <2>6. CASE StopBridge
      BY <2>6 DEF StopBridge
    <2>7. CASE HoldMusic
      BY <2>7 DEF HoldMusic
    <2> QED BY <2>1, <2>2, <2>3, <2>4, <2>5, <2>6, <2>7
  <1>2. Continues => Continues'
    <2>1. Rewritten(rtp.base)' = Rewritten(rtp.base)
      BY DEF Rewritten
    <2> QED BY <1>1, <2>1 DEF Continues, NextOf
  <1> QED BY <1>2 DEF Streams

-------------------------------------------------------------------------------
(* The media of the call *)

LEMMA BridgeInitInv == BridgeInit => BridgeInv
  <1> SUFFICES ASSUME BridgeInit PROVE BridgeInv
    OBVIOUS
  <1> USE BridgeAssumption
  <1>0. /\ media = [track |-> FALSE, bridge |-> 0, made |-> 0, signalled |-> FALSE, hold |-> TRUE]
        /\ bridge = [b \in Ids |-> Untouched]
        /\ onTrack = [pc |-> "idle", bridge |-> 0]
        /\ connector = [pc |-> "idle", track |-> FALSE, seed |-> 0, id |-> 0]
        /\ holder = [pc |-> "idle", id |-> 0, track |-> FALSE] /\ consumers = 0
    BY DEF BridgeInit, Untouched
  <1>1. /\ media \in MediaType /\ bridge \in [Ids -> BridgeType] /\ onTrack \in OnTrackType
        /\ connector \in ConnectorType /\ holder \in HolderType /\ consumers \in Nat
    BY <1>0 DEF MediaType, BridgeType, OnTrackType, ConnectorType, HolderType, Seqs, Untouched
  <1>2. Numbered /\ TakesTurns
    BY <1>0 DEF Numbered, TakesTurns
  <1>3. OthersStopped /\ TrackKnown /\ TrackReaches
    BY <1>0 DEF OthersStopped, TrackKnown, TrackReaches, Untouched, Ids
  <1>4. PICK a \in Seqs : rtp = [player |-> 0, agent |-> a, base |-> 0, offset |-> 0, first |-> FALSE,
                                 high |-> RtpMod - 1, last |-> 0, sent |-> 0, resumed |-> FALSE,
                                 zero |-> FALSE, dropped |-> FALSE]
    BY DEF BridgeInit
  <1>5. 0 \in Seqs /\ RtpMod - 1 \in Seqs /\ 0 \in 0..MaxPackets
    BY DEF Seqs
  <1>6. rtp \in RtpType
    BY <1>4, <1>5 DEF RtpType
  <1>7. Continues
    <2>1. NextOf(rtp.high) = 0
      BY <1>4, <1>5, NextOfIs
    <2> QED BY <1>0, <1>4, <2>1 DEF Continues
  <1> QED BY <1>1, <1>2, <1>3, <1>6, <1>7, SplitBridgeInv DEF Hands, HandsOver

LEMMA BridgeStepKeeps == ASSUME BridgeInv, [BridgeNext]_bridgeVars PROVE BridgeInv'
  <1>0. Hands /\ Streams /\ rtp \in RtpType
    BY SplitBridgeInv DEF Streams
  <1>1. Hands' /\ Streams' => BridgeInv'
    BY DEF BridgeInv, BridgeTypeOK, Hands, Streams, MediaType, BridgeType, OnTrackType, ConnectorType,
       HolderType, RtpType
  <1>2. CASE TrackLands
    BY <1>0, <1>1, <1>2, TrackLandsKeeps, QuietStreams DEF TrackLands
  <1>3. CASE AttachCaller
    BY <1>0, <1>1, <1>3, AttachKeeps, QuietStreams DEF AttachCaller
  <1>4. CASE ConsumerStands
    BY <1>0, <1>1, <1>4, ConsumerStandsKeeps, QuietStreams DEF ConsumerStands
  <1>5. CASE SignalBridgeStarted \/ LookAgain
    BY <1>0, <1>1, <1>5, SignalKeeps, QuietStreams DEF SignalBridgeStarted, LookAgain
  <1>6. CASE Start
    BY <1>0, <1>1, <1>6, StartKeeps, QuietStreams DEF Start
  <1>7. ASSUME NEW b \in Ids, TakeSlot(b) \/ LegEnds(b) PROVE BridgeInv'
    BY <1>0, <1>1, <1>7, LegKeeps, QuietStreams DEF TakeSlot, LegEnds
  <1>8. CASE HoldCall
    BY <1>0, <1>1, <1>8, HoldCallKeeps, QuietStreams DEF HoldCall
  <1>9. CASE StopBridge
    BY <1>0, <1>1, <1>9, StopKeeps, QuietStreams DEF StopBridge
  <1>10. CASE HoldMusic
    BY <1>0, <1>1, <1>10, HoldMusicKeeps, QuietStreams DEF HoldMusic
  <1>11. CASE BridgeWaited
    BY <1>0, <1>1, <1>11, HoldMusicKeeps, WaitedStreams
  <1>12. CASE SetUpBridge
    BY <1>0, <1>1, <1>12, SetUpKeeps, SetUpStreams
  <1>13. ASSUME NEW resume \in BOOLEAN, Connect(resume) PROVE BridgeInv'
    BY <1>0, <1>1, <1>13, ConnectKeeps, ConnectStreams
  <1>14. ASSUME UNCHANGED <<media, bridge, onTrack, connector, holder, consumers>> PROVE Hands'
    BY <1>0, <1>14 DEF Hands, HandsOver, Numbered, TakesTurns, OthersStopped, TrackKnown, TrackReaches,
       AgentHears
  <1>15. CASE PlayPacket
    BY <1>0, <1>1, <1>14, <1>15, PlayStreams DEF PlayPacket
  <1>16. CASE ForwardAgentPacket
    BY <1>0, <1>1, <1>14, <1>16, ForwardStreams DEF ForwardAgentPacket
  <1>17. CASE UNCHANGED bridgeVars
    BY <1>0, <1>1, <1>14, <1>17, QuietStreams DEF bridgeVars
  <1> QED BY <1>2, <1>3, <1>4, <1>5, <1>6, <1>7, <1>8, <1>9, <1>10, <1>11, <1>12, <1>13, <1>15,
             <1>16, <1>17 DEF BridgeNext, BridgeStep

\* The live legs are the one of the bridge in use, or the one of the bridge hold has taken.
LEMMA OneLegOnly == ASSUME BridgeInv PROVE OneLeg
  <1> DEFINE live == {b \in Ids : bridge[b].leg = "forward" /\ ~bridge[b].stopped}
  <1>0. Hands
    BY SplitBridgeInv
  <1>1. PICK x : \A b \in live : b = x
    <2>1. ASSUME NEW b \in live PROVE b <= media.made
      BY <1>0, <2>1, BridgeAssumption DEF Hands, HandsOver, Numbered, Untouched, MediaType, Ids
    <2>2. ASSUME NEW b \in live PROVE b = media.bridge \/ (holder.pc = "stop" /\ holder.id = b)
      BY <1>0, <2>1, <2>2 DEF Hands, HandsOver, OthersStopped
    <2>3. CASE holder.pc = "stop"
      <3>1. \A b \in live : b # media.bridge
        BY <1>0, <2>3 DEF Hands, HandsOver, TakesTurns, Ids
      <3> QED BY <2>2, <3>1
    <2>4. CASE holder.pc # "stop"
      BY <2>2, <2>4
    <2> QED BY <2>3, <2>4
  <1>2. live \subseteq {x}
    BY <1>1
  <1>3. IsFiniteSet({x}) /\ Cardinality({x}) = 1
    BY FS_Singleton
  <1>4. Cardinality(live) <= 1
    BY <1>2, <1>3, FS_Subset
  <1> QED BY <1>4 DEF OneLeg

\* For every number of bridges and width of the sequence number: however the arrival of the
\* caller's track interleaves with setting up, holding and resuming, the caller's audio has one
\* reader and reaches the agent, and no packet to the caller is taken for an old one unless a
\* resumed call or a source stopped on number 0 explains it; and however webhooks, timeout and
\* hang-up interleave, an outgoing call is recorded at most once (AudioBridge, HoldCall,
\* completeTransferConnection, cleanupSession).
THEOREM MediaKeepsFlowing == OutSpec /\ BridgeSpec => []MediaFlows
  <1>1. OutInit /\ BridgeInit => OutInv /\ BridgeInv
    BY OutInitInv, BridgeInitInv
  <1>2. OutInv /\ BridgeInv /\ [OutNext]_outVars /\ [BridgeNext]_bridgeVars => OutInv' /\ BridgeInv'
    BY OutStep, BridgeStepKeeps
  <1>3. OutInv /\ BridgeInv => MediaFlows
    <2> SUFFICES ASSUME OutInv, BridgeInv PROVE MediaFlows
      OBVIOUS
    <2>1. OutTypeOK /\ RecordedOnce
      BY DEF OutInv, RecorderOwed, RecordedOnce
    <2>2. NoOneWayAudio
      BY DEF BridgeInv, HandsOver, TrackReaches, NoOneWayAudio, Quiet
    <2>3. StreamContinues
      BY DEF BridgeInv, Continues, StreamContinues
    <2> QED BY <2>1, <2>2, <2>3, OneLegOnly DEF MediaFlows, BridgeInv
  <1> QED BY <1>1, <1>2, <1>3, PTL DEF OutSpec, BridgeSpec

================================================================================
