----------------------------- MODULE AudioBridge ------------------------------
(***************************************************************************)
(* The media of an incoming call: who reads the caller's audio track while *)
(* the IVR, a transfer, hold and resume hand it over, and the RTP sequence *)
(* numbers the caller receives from players and bridges in turn.           *)
(***************************************************************************)
EXTENDS Naturals, FiniteSets

CONSTANTS
    MaxBridges,     \* bound: bridges set up during the call
    RtpMod,         \* sequence numbers count modulo RtpMod (2^16 in RTP)
    MaxPackets      \* bound: packets sent to the caller

\* Fewer than four numbers leave no room for the one forward skips after a seed.
ASSUME BridgeAssumption == /\ MaxBridges \in Nat \ {0} /\ MaxPackets \in Nat
                           /\ RtpMod \in Nat /\ RtpMod >= 4

VARIABLES
    media,      \* the session's fields
    bridge,     \* the AudioBridge objects
    onTrack,    \* the OnTrack callback of the caller's track
    connector,  \* completeTransferConnection or ResumeCall
    holder,     \* HoldCall
    consumers,  \* goroutines consuming the caller's track until BridgeStarted
    rtp         \* the stream to the caller

bridgeVars == <<media, bridge, onTrack, connector, holder, consumers, rtp>>
Ids == 1 .. MaxBridges
Seqs == 0 .. RtpMod - 1

BridgeTypeOK ==
    /\ media \in [track : BOOLEAN, bridge : 0 .. MaxBridges, made : 0 .. MaxBridges, signalled : BOOLEAN,
                  hold : BOOLEAN]
    /\ bridge \in [Ids -> [stopped : BOOLEAN, attached : BOOLEAN, slot : BOOLEAN,
                           leg : {"none", "reserved", "forward", "gone"}]]
    /\ onTrack \in [pc : {"idle", "attach", "done"}, bridge : 0 .. MaxBridges]
    /\ connector \in [pc : {"idle", "setup", "signal", "late", "start"}, track : BOOLEAN, seed : Seqs, id : 0 .. MaxBridges]
    /\ holder \in [pc : {"idle", "stop", "wait", "play"}, id : 0 .. MaxBridges, track : BOOLEAN]
    /\ consumers \in Nat
    /\ rtp \in [player : Seqs, agent : Seqs, base : Seqs, offset : Seqs, first : BOOLEAN, high : Seqs,
                last : Seqs, sent : 0 .. MaxPackets, resumed : BOOLEAN, zero : BOOLEAN, dropped : BOOLEAN]

\* A transfer waits: hold music plays to the caller, whose own track may not have
\* landed yet; the agent's stream starts anywhere.
BridgeInit ==
    /\ media = [track |-> FALSE, bridge |-> 0, made |-> 0, signalled |-> FALSE, hold |-> TRUE]
    /\ bridge = [b \in Ids |-> [stopped |-> FALSE, attached |-> FALSE, slot |-> FALSE, leg |-> "none"]]
    /\ onTrack = [pc |-> "idle", bridge |-> 0]
    /\ connector = [pc |-> "idle", track |-> FALSE, seed |-> 0, id |-> 0]
    /\ holder = [pc |-> "idle", id |-> 0, track |-> FALSE]
    /\ consumers = 0
    /\ \E a \in Seqs : rtp = [player |-> 0, agent |-> a, base |-> 0, offset |-> 0, first |-> FALSE,
                              high |-> RtpMod - 1, last |-> 0, sent |-> 0, resumed |-> FALSE,
                              zero |-> FALSE, dropped |-> FALSE]

-------------------------------------------------------------------------------
(* OnTrack of the caller's peer connection *)

TrackLands ==
    /\ onTrack.pc = "idle"
    /\ media' = [media EXCEPT !.track = TRUE]
    /\ onTrack' = [pc |-> "attach", bridge |-> media.bridge]
    /\ UNCHANGED <<bridge, connector, holder, consumers, rtp>>

\* AttachCaller hands the leg to a bridge that is neither stopped nor served;
\* without a bridge a goroutine consumes the track and looks for digits.
Served(b) == bridge[b].stopped \/ bridge[b].attached
AttachCaller ==
    LET b == onTrack.bridge IN
    /\ onTrack.pc = "attach"
    /\ onTrack' = [onTrack EXCEPT !.pc = "done"]
    /\ IF b = 0 THEN consumers' = consumers + 1 /\ UNCHANGED bridge
       ELSE /\ bridge' = IF Served(b) THEN bridge
                         ELSE [bridge EXCEPT ![b].attached = TRUE, ![b].slot = TRUE]
            /\ UNCHANGED consumers
    /\ UNCHANGED <<media, connector, holder, rtp>>

\* consumeAudioTrack and consumeAudioWithDTMF stand down when they see
\* BridgeStarted closed, between two packets.
ConsumerStands ==
    /\ consumers > 0 /\ media.signalled
    /\ consumers' = consumers - 1
    /\ UNCHANGED <<media, bridge, onTrack, connector, holder, rtp>>

-------------------------------------------------------------------------------
(* completeTransferConnection and ResumeCall *)

\* The hold player is taken and stopped, the tracks are looked up.  Only the
\* transfer remembers where the music stopped.
Connect(resume) ==
    /\ connector.pc = "idle" /\ media.hold /\ media.made < MaxBridges
    /\ resume <=> media.made > 0
    /\ media' = [media EXCEPT !.hold = FALSE]
    /\ connector' = [pc |-> "setup", track |-> media.track, id |-> 0, seed |-> IF resume THEN 0 ELSE rtp.player]
    /\ rtp' = [rtp EXCEPT !.resumed = @ \/ resume, !.zero = @ \/ (~resume /\ rtp.player = 0)]
    /\ UNCHANGED <<bridge, onTrack, holder, consumers>>

\* setupAudioBridge makes the bridge visible; SeedSequence if the seed is not 0.
SeedBridge_Ignored(seed) == [rtp EXCEPT !.offset = 0, !.first = FALSE, !.last = 0]
SeedBridge(seed) == [rtp EXCEPT !.offset = seed, !.first = seed > 0, !.last = 0]
SetUpBridge ==
    /\ connector.pc = "setup"
    /\ media' = [media EXCEPT !.made = @ + 1, !.bridge = media.made + 1]
    /\ connector' = [connector EXCEPT !.pc = "signal", !.id = media.made + 1]
    /\ rtp' = SeedBridge(connector.seed)
    /\ UNCHANGED <<bridge, onTrack, holder, consumers>>
SignalBridgeStarted ==
    /\ connector.pc = "signal"
    /\ media' = [media EXCEPT !.signalled = TRUE]
    /\ connector' = [connector EXCEPT !.pc = "late"]
    /\ UNCHANGED <<bridge, onTrack, holder, consumers, rtp>>
\* lateCallerTrack: a track that landed before the bridge was visible.
LateCallerTrack(found) == found \/ media.track
LookAgain ==
    /\ connector.pc = "late"
    /\ connector' = [connector EXCEPT !.pc = "start", !.track = LateCallerTrack(@)]
    /\ UNCHANGED <<media, bridge, onTrack, holder, consumers, rtp>>
\* Start launches the leg, or reserves the slot for it.
Start ==
    LET b == connector.id IN
    /\ connector.pc = "start"
    /\ connector' = [connector EXCEPT !.pc = "idle"]
    /\ bridge' = [bridge EXCEPT ![b].attached = @ \/ connector.track,
                                ![b].leg = IF connector.track THEN "forward" ELSE "reserved"]
    /\ UNCHANGED <<media, onTrack, holder, consumers, rtp>>
\* The reserved goroutine takes the late leg, or ends when the bridge stops.
TakeSlot(b) ==
    /\ bridge[b].leg = "reserved" /\ bridge[b].slot
    /\ bridge' = [bridge EXCEPT ![b].leg = "forward", ![b].slot = FALSE]
    /\ UNCHANGED <<media, onTrack, connector, holder, consumers, rtp>>
LegEnds(b) ==
    /\ bridge[b].leg \in {"reserved", "forward"} /\ bridge[b].stopped
    /\ bridge' = [bridge EXCEPT ![b].leg = "gone"]
    /\ UNCHANGED <<media, onTrack, connector, holder, consumers, rtp>>

-------------------------------------------------------------------------------
(* HoldCall *)

HoldCall ==
    /\ holder.pc = "idle" /\ ~media.hold /\ media.bridge # 0
    /\ holder' = [pc |-> "stop", id |-> media.bridge, track |-> media.track]
    /\ media' = [media EXCEPT !.bridge = 0, !.signalled = FALSE]
    /\ UNCHANGED <<bridge, onTrack, connector, consumers, rtp>>
StopBridge ==
    /\ holder.pc = "stop"
    /\ bridge' = [bridge EXCEPT ![holder.id].stopped = TRUE]
    /\ holder' = [holder EXCEPT !.pc = "wait"]
    /\ UNCHANGED <<media, onTrack, connector, consumers, rtp>>
\* The forwarding goroutines are waited for; the player continues past them.
ContinuePast(seq) == IF seq > 0 THEN (seq + 1) % RtpMod ELSE 0
BridgeWaited ==
    /\ holder.pc = "wait" /\ bridge[holder.id].leg \in {"none", "gone"}
    /\ holder' = [holder EXCEPT !.pc = "play"]
    /\ rtp' = [rtp EXCEPT !.player = ContinuePast(rtp.last),
                          !.zero = @ \/ rtp.last = 0]
    /\ UNCHANGED <<media, bridge, onTrack, connector, consumers>>
HoldMusic ==
    /\ holder.pc = "play"
    /\ media' = [media EXCEPT !.hold = TRUE]
    /\ consumers' = consumers + IF holder.track THEN 1 ELSE 0
    /\ holder' = [holder EXCEPT !.pc = "idle"]
    /\ UNCHANGED <<bridge, onTrack, connector, rtp>>

-------------------------------------------------------------------------------
(* Packets to the caller *)

\* The receiver keeps a packet that is ahead of its high-water mark by less
\* than half the range, and drops it as old otherwise.
Ahead(seq) == LET d == (seq + RtpMod - rtp.high) % RtpMod IN d > 0 /\ d <= RtpMod \div 2
Delivered(r, seq) == [r EXCEPT !.sent = @ + 1, !.dropped = @ \/ ~Ahead(seq),
                               !.high = IF Ahead(seq) THEN seq ELSE @]

\* PlayFile sends the next packet of the hold music.
PlayPacket ==
    /\ media.hold /\ rtp.sent < MaxPackets
    /\ rtp' = [Delivered(rtp, rtp.player) EXCEPT !.player = (@ + 1) % RtpMod]
    /\ UNCHANGED <<media, bridge, onTrack, connector, holder, consumers>>

\* forward rewrites the agent's numbers past the seed, if there is one.
Rewritten(base) == (rtp.offset + (rtp.agent + RtpMod - base) + 1) % RtpMod
ForwardAgentPacket ==
    LET base == IF rtp.first THEN rtp.agent ELSE rtp.base
        seq == IF rtp.offset > 0 THEN Rewritten(base) ELSE rtp.agent
    IN
    /\ media.bridge # 0 /\ bridge[media.bridge].leg # "none" /\ rtp.sent < MaxPackets
    /\ rtp' = [Delivered(rtp, seq) EXCEPT !.first = FALSE, !.base = base, !.last = seq,
                                          !.agent = (@ + 1) % RtpMod]
    /\ UNCHANGED <<media, bridge, onTrack, connector, holder, consumers>>

-------------------------------------------------------------------------------
BridgeStep ==
    \/ AttachCaller \/ ConsumerStands \/ SetUpBridge \/ SignalBridgeStarted \/ LookAgain \/ Start
    \/ StopBridge \/ BridgeWaited \/ HoldMusic
    \/ \E b \in Ids : TakeSlot(b) \/ LegEnds(b)
BridgeNext ==
    \/ BridgeStep \/ TrackLands \/ HoldCall \/ PlayPacket \/ ForwardAgentPacket
    \/ \E resume \in BOOLEAN : Connect(resume)

BridgeSpec == BridgeInit /\ [][BridgeNext]_bridgeVars /\ WF_bridgeVars(BridgeStep)

-------------------------------------------------------------------------------
(* Properties *)

\* Two live bridges never read the caller's track at once: a bridge that hold
\* takes is stopped, even one whose Start has not run yet, before the next.
OneLeg == Cardinality({b \in Ids : bridge[b].leg = "forward" /\ ~bridge[b].stopped}) <= 1

Quiet == connector.pc = "idle" /\ holder.pc = "idle" /\ onTrack.pc # "attach"
AgentHears == bridge[media.bridge].leg = "forward" \/ bridge[media.bridge].slot

\* However the track's arrival interleaves with the setting up of the bridge,
\* once both are there the bridge reads the track: no one-way audio.
NoOneWayAudio == (Quiet /\ media.track /\ media.bridge # 0) => AgentHears

\* A packet to the caller is dropped as old only if a call was resumed from hold,
\* whose bridge is not seeded, or a source stopped on sequence number 0, which is
\* taken for not having sent anything.
StreamContinues == rtp.dropped => (rtp.resumed \/ rtp.zero)

===============================================================================
