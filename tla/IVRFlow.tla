------------------------------- MODULE IVRFlow --------------------------------
(***************************************************************************)
(* The IVR interpreter of one call: the node loop, its executors, and the  *)
(* keys the caller presses, which reach it as RTP telephone-events through *)
(* a debouncing decoder and a bounded channel filled by another goroutine. *)
(***************************************************************************)
EXTENDS Naturals, Sequences, SequencesExt

CONSTANTS
    Nodes, Edges,           \* the graphs of all flows: [from, cond, to]
    NodeType, Target,       \* type of a node, flow a goto_flow node names
    Entry,                  \* entry node of each flow; NoNode: cannot be run
    NoNode, Keys, Terminator, ValidDigits,
    MaxRetries, MaxDigits, BufferCap, MaxPresses

\* validateFlowGraph: the entry and every edge name a node of the flow.
ASSUME IVRAssumption ==
    /\ {MaxRetries, MaxDigits, BufferCap} \subseteq Nat \ {0} /\ MaxPresses \in Nat
    /\ \A e \in Edges : e.to \in Nodes
    /\ Entry[1] \in Nodes
    /\ \A n \in Nodes : NodeType[n] = "goto_flow" => Entry[Target[n]] \in Nodes \cup {NoNode}

VARIABLES
    flow,       \* the interpreter: node, program counter, attempt, digits, path
    saved,      \* ivr_path of the call log
    visited,    \* auxiliary: nodes the loop has dispatched
    call,       \* session: status and whether the caller is still there
    buffer,     \* DTMFBuffer: [key, visit] with the visit it was sent in (auxiliary)
    keypad,     \* the caller's phone: the press being transmitted
    decoder,    \* lastEvent and lastEndBit
    digits      \* auxiliary: keys pressed, digits detected, digit a menu accepted

ivrVars == <<flow, saved, visited, call, buffer, keypad, decoder, digits>>

NodeTypes == {"greeting", "menu", "gather", "http_callback", "transfer", "goto_flow", "timing", "hangup"}
IVRTypeOK ==
    /\ flow \in [at : Nodes, pc : {"loop", "play", "menu", "gather", "http", "transfer", "done"},
                 attempt : 0 .. MaxRetries, got : Seq(Keys), path : Seq(Nodes), visit : Nat]
    /\ saved \in Seq(Nodes) /\ visited \subseteq Nodes
    /\ call \in [status : {"answered", "completed"}, here : BOOLEAN, by : {"none", "system"}]
    /\ buffer \in Seq([key : Keys, visit : Nat]) /\ Len(buffer) <= BufferCap
    /\ keypad \in [key : Keys \cup {NoNode}, ends : 0 .. 2]
    /\ decoder \in [event : Keys \cup {NoNode}, end : BOOLEAN]
    /\ digits \in [pressed : 0 .. MaxPresses, detected : Nat, stale : BOOLEAN]

IVRStart(pc) ==
    /\ flow = [at |-> Entry[1], pc |-> pc, attempt |-> 0, got |-> <<>>, path |-> <<>>, visit |-> 0]
    /\ saved = <<>> /\ visited = {}
    /\ call = [status |-> "answered", here |-> TRUE, by |-> "none"]
    /\ buffer = <<>>
    /\ keypad = [key |-> NoNode, ends |-> 0]
    /\ decoder = [event |-> NoNode, end |-> FALSE]
    /\ digits = [pressed |-> 0, detected |-> 0, stale |-> FALSE]
IVRInit == IVRStart("loop")
IVREnded == IVRStart("done")

-------------------------------------------------------------------------------
(* The phone, the RTP stream and the decoder *)

\* decodeDTMFEvent: a digit is new with the first end packet of its event.
NewPress(key, end) == end /\ (decoder.event # key \/ ~decoder.end)

\* sendDTMFDigit does not block: a full or closed buffer drops the digit.
HasRoom(b) == Len(b) < BufferCap
Receive(key, end) ==
    LET new == NewPress(key, end)
        fits == call.here /\ HasRoom(buffer)
    IN
    /\ decoder' = [event |-> key, end |-> end]
    /\ digits' = [digits EXCEPT !.detected = @ + IF new THEN 1 ELSE 0]
    /\ buffer' = IF new /\ fits THEN Append(buffer, [key |-> key, visit |-> flow.visit]) ELSE buffer

\* Each packet of a press may be lost; its end is sent more than once.
Press(key) ==
    /\ call.here /\ keypad.ends = 0 /\ digits.pressed < MaxPresses
    /\ keypad' = [key |-> key, ends |-> 2]
    /\ digits' = [digits EXCEPT !.pressed = @ + 1]
    /\ decoder' \in {decoder, [event |-> key, end |-> FALSE]}
    /\ UNCHANGED <<flow, saved, visited, call, buffer>>
EndPacket ==
    /\ keypad.ends > 0
    /\ keypad' = [keypad EXCEPT !.ends = @ - 1]
    /\ \/ Receive(keypad.key, TRUE)
       \/ UNCHANGED <<decoder, digits, buffer>>
    /\ UNCHANGED <<flow, saved, visited, call>>

\* The caller hangs up: cleanupSession closes the buffer; only the terminate
\* webhook of a post-call IVR also changes the status.
CallerHangsUp ==
    /\ call.here
    /\ \E status \in {call.status, "completed"} : call' = [call EXCEPT !.here = FALSE, !.status = status]
    /\ buffer' = <<>>
    /\ keypad' = [keypad EXCEPT !.ends = 0]
    /\ UNCHANGED <<flow, saved, visited, decoder, digits>>

-------------------------------------------------------------------------------
(* executeNodeLoop *)

\* ResolveEdge: an exact condition wins over a default edge.
Resolve(node, outcome) ==
    LET to(cond) == {e.to : e \in {d \in Edges : d.from = node /\ d.cond = cond}}
    IN CASE to(outcome) # {} -> CHOOSE n \in to(outcome) : TRUE
         [] to(outcome) = {} /\ to("default") # {} -> CHOOSE n \in to("default") : TRUE
         [] OTHER -> NoNode

Ended(path) == flow' = [flow EXCEPT !.pc = "done", !.path = path] /\ saved' = path

\* The step is recorded after its execution and the next node looked up; with
\* none the path is saved and the flow ends.
Advance(outcome) ==
    LET path == Append(flow.path, flow.at)
        next == Resolve(flow.at, outcome)
    IN IF next = NoNode THEN Ended(path)
       ELSE /\ flow' = [flow EXCEPT !.at = next, !.pc = "loop", !.attempt = 0, !.got = <<>>, !.path = path]
            /\ UNCHANGED saved

Enter(pc) ==
    /\ flow.pc = "loop" /\ call.status = "answered"
    /\ flow' = [flow EXCEPT !.pc = pc, !.visit = @ + 1]
    /\ visited' = visited \cup {flow.at}
    /\ UNCHANGED <<saved, call, keypad, decoder, digits>>
Is(type) == NodeType[flow.at] = type
Rest == UNCHANGED <<visited, call, keypad, decoder>>

CallOver ==
    /\ flow.pc = "loop" /\ call.status # "answered"
    /\ Ended(flow.path)
    /\ UNCHANGED <<visited, call, buffer, keypad, decoder, digits>>

\* executeGreeting: the buffer is drained, the audio plays to its end or a key
\* interrupts it.
Greet == Is("greeting") /\ Enter("play") /\ buffer' = <<>>
GreetingOver ==
    /\ flow.pc = "play"
    /\ Advance("default")
    /\ buffer' \in {buffer} \cup {Tail(b) : b \in {buffer} \ {<<>>}}
    /\ Rest /\ UNCHANGED digits

\* executeMenu: every attempt drains the buffer before its prompt.
Drained_Kept(b) == b
Drained(b) == <<>>
OpenMenu == Is("menu") /\ Enter("menu") /\ buffer' = Drained(buffer)
NextAttempt ==
    IF flow.attempt + 1 < MaxRetries
    THEN flow' = [flow EXCEPT !.attempt = @ + 1] /\ UNCHANGED saved
    ELSE Advance("max_retries")
MenuDigit ==
    LET d == Head(buffer) IN
    /\ flow.pc = "menu" /\ buffer # <<>>
    /\ IF d.key \in ValidDigits
       THEN /\ Advance(d.key) /\ buffer' = Tail(buffer)
            /\ digits' = [digits EXCEPT !.stale = @ \/ d.visit # flow.visit]
       ELSE NextAttempt /\ buffer' = Drained(Tail(buffer)) /\ UNCHANGED digits
    /\ Rest
\* waitForDTMF times out, or finds the buffer closed.
MenuTimeout ==
    /\ flow.pc = "menu" /\ buffer = <<>>
    /\ NextAttempt
    /\ buffer' = Drained(buffer)
    /\ Rest /\ UNCHANGED digits

\* executeGather: drained once; digits until the terminator, the maximum or the
\* timeout, and another attempt only if none came.
OpenGather == Is("gather") /\ Enter("gather") /\ buffer' = <<>>
Collected(got) ==
    IF got # <<>> THEN Advance("default")
    ELSE NextAttempt
GatherDigit ==
    LET d == Head(buffer).key
        got == Append(flow.got, d)
    IN
    /\ flow.pc = "gather" /\ buffer # <<>>
    /\ buffer' = Tail(buffer)
    /\ IF d = Terminator THEN Collected(flow.got)
       ELSE IF Len(got) = MaxDigits THEN Collected(got)
       ELSE flow' = [flow EXCEPT !.got = got] /\ UNCHANGED saved
    /\ Rest /\ UNCHANGED digits
GatherTimeout ==
    /\ flow.pc = "gather"
    /\ Collected(flow.got)
    /\ Rest /\ UNCHANGED <<buffer, digits>>

\* executeHTTPCallback and executeTiming: an outside answer decides the edge.
CallBack == Is("http_callback") /\ Enter("http") /\ UNCHANGED buffer
CallBackOver(outcome) ==
    /\ flow.pc = "http"
    /\ Advance(outcome)
    /\ Rest /\ UNCHANGED <<buffer, digits>>
CheckHours(outcome) ==
    /\ Is("timing") /\ flow.pc = "loop" /\ call.status = "answered"
    /\ Advance(outcome)
    /\ visited' = visited \cup {flow.at}
    /\ UNCHANGED <<call, buffer, keypad, decoder, digits>>

\* executeTransfer: the path is saved with the node; without outgoing edges the
\* flow is over, otherwise it waits, and the loop records the node once more.
Transfer ==
    /\ Is("transfer") /\ flow.pc = "loop" /\ call.status = "answered"
    /\ LET path == Append(flow.path, flow.at)
           terminal == \A e \in Edges : e.from # flow.at
       IN /\ saved' = path
          /\ flow' = [flow EXCEPT !.pc = IF terminal THEN "done" ELSE "transfer", !.path = path]
    /\ visited' = visited \cup {flow.at}
    /\ UNCHANGED <<call, buffer, keypad, decoder, digits>>
TransferOver(outcome) ==
    /\ flow.pc = "transfer"
    /\ Advance(outcome)
    /\ Rest /\ UNCHANGED <<buffer, digits>>

\* executeGotoFlow: the path is saved first, because runIVRFlow of the target
\* starts from the path in the call log.
GotoFlow ==
    /\ Is("goto_flow") /\ flow.pc = "loop" /\ call.status = "answered"
    /\ LET path == Append(flow.path, flow.at)
           entry == Entry[Target[flow.at]]
       IN /\ saved' = path
          /\ flow' = IF entry = NoNode THEN [flow EXCEPT !.pc = "done", !.path = path]
                     ELSE [flow EXCEPT !.at = entry, !.path = saved']
    /\ visited' = visited \cup {flow.at}
    /\ UNCHANGED <<call, buffer, keypad, decoder, digits>>

\* executeHangup marks the row before the call is terminated.
HangUpNode ==
    /\ Is("hangup") /\ flow.pc = "loop" /\ call.status = "answered"
    /\ call' = [call EXCEPT !.by = "system"]
    /\ Ended(Append(flow.path, flow.at))
    /\ visited' = visited \cup {flow.at}
    /\ UNCHANGED <<buffer, keypad, decoder, digits>>

-------------------------------------------------------------------------------
Interpret ==
    \/ CallOver \/ Greet \/ GreetingOver \/ OpenMenu \/ MenuDigit \/ MenuTimeout
    \/ OpenGather \/ GatherDigit \/ GatherTimeout \/ CallBack \/ Transfer \/ GotoFlow \/ HangUpNode
    \/ \E o \in {"http:2xx", "http:non2xx"} : CallBackOver(o)
    \/ \E o \in {"in_hours", "out_of_hours"} : CheckHours(o)
    \/ \E o \in {"completed", "no_answer", "abandoned"} : TransferOver(o)

IVRNext == Interpret \/ EndPacket \/ CallerHangsUp \/ \E k \in Keys : Press(k)

IVRSpec == IVRInit /\ [][IVRNext]_ivrVars /\ WF_ivrVars(Interpret)

-------------------------------------------------------------------------------
(* Properties *)

\* One press is one digit at most, although its end is sent several times and
\* any of its packets may be lost (decodeDTMFEvent).
NoPhantomDigits == digits.detected <= digits.pressed

\* A menu never acts on a key pressed before its own prompt: what was typed
\* during an earlier node is drained.
MenuActsOnFreshDigit == ~digits.stale

\* When the interpreter stops, the call log's path names exactly the nodes that
\* ran, across goto_flow, which reloads it, and every way of ending.
PathIsComplete == flow.pc = "done" => Range(saved) = visited

\* The menu acts on what the caller pressed: no digit is invented or left over from an
\* earlier question, and the path that is saved is the one that was taken; the DTMF
\* buffer never holds more than its capacity.
IVRFollowsCaller == IVRTypeOK /\ NoPhantomDigits /\ MenuActsOnFreshDigit /\ PathIsComplete

\* A caller who hangs up never leaves the interpreter waiting for a key.
FlowEnds == ~call.here ~> flow.pc = "done"

===============================================================================
