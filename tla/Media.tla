--------------------------------- MODULE Media ---------------------------------
(***************************************************************************)
(* The media of a call: the call an agent places, the IVR interpreter and  *)
(* the bridge.  They share no variable; the runs explore one at a time.    *)
(***************************************************************************)
EXTENDS OutgoingCall, IVRFlow, AudioBridge

VARIABLE focus      \* the component a behaviour is about
mediaVars == <<focus, outVars, ivrVars, bridgeVars>>

\* The components that are not in focus have already ended.
MediaInit ==
    /\ focus \in {"out", "ivr", "bridge"}
    /\ IF focus = "out" THEN OutInit ELSE OutEnded
    /\ IF focus = "ivr" THEN IVRInit ELSE IVREnded
    /\ BridgeInit /\ (focus # "bridge" => rtp.agent = 0)
MediaNext ==
    \/ focus = "out" /\ OutNext /\ UNCHANGED <<focus, ivrVars, bridgeVars>>
    \/ focus = "ivr" /\ IVRNext /\ UNCHANGED <<focus, outVars, bridgeVars>>
    \/ focus = "bridge" /\ BridgeNext /\ UNCHANGED <<focus, outVars, ivrVars>>
MediaSpec == /\ MediaInit /\ [][MediaNext]_mediaVars
             /\ OutFairness /\ WF_ivrVars(Interpret)

-------------------------------------------------------------------------------
(* Properties *)

\* A call has one leg to the agent, both sides are heard, the stream goes on over a
\* change of bridge, and the call is recorded once; the outgoing call and the bridge
\* stay well typed.
MediaFlows ==
    /\ OutTypeOK /\ RecordedOnce
    /\ BridgeTypeOK /\ OneLeg /\ NoOneWayAudio /\ StreamContinues

\* A session is removed, its log reaches an outcome, and the flow ends after the caller
\* has gone.
CallsEnd == SessionRemoved /\ CallIsSettled /\ FlowEnds
================================================================================
