------------------------------- MODULE MCDialog -------------------------------
(* The conversation with the chatbot, the service level of an attendance, one AI *)
(* completion with tools, the presence of an agent and one confirmed tool call,  *)
(* one of them at a time.                                                        *)
(* A conversation has two flows: questions, a jump, and a cycle of nodes that do *)
(* not wait for the customer.                                                    *)
EXTENDS Chatbot, ServiceLevel, ToolLoop, Presence

CONSTANT Nil
VARIABLES focus, conf, transfer, thread, enabled, open, announced, outages
confirmVars == <<conf, transfer, thread, enabled, open, announced, outages>>
dialogVars == <<focus, chatVars, slaVars, toolVars, reaperVars, confirmVars>>

\* One confirmation, whose taps and sweeps may outlive any age.
Tapped == INSTANCE Confirmation WITH
    Confs <- {"c1"}, Threads <- {"t1"}, Transfers <- {"x1"}, TTL <- 1, MinAge <- 0, MaxAttempts <- 2,
    Limit <- 2, Window <- 1, Cooldown <- 1, Timely <- FALSE, MaxOutages <- 2, told <- announced

CTo(f, c, t) == [from |-> f, cond |-> c, to |-> t]
MCChatType == [st |-> "start", pr |-> "prompt", bu |-> "buttons", tr |-> "transfer", go |-> "goto_flow",
               ap |-> "api_call", co |-> "condition", ti |-> "timing", sv |-> "set_variable", wh |-> "webhook",
               me |-> "message", ai |-> "ai_response", wa |-> "whatsapp_flow", en |-> "end"]
MCChatNodes == DOMAIN MCChatType
MCOwner == [n \in MCChatNodes |-> IF n \in {"st", "pr", "bu", "tr", "go"} THEN "f1" ELSE "f2"]
MCEntryNode == [f1 |-> "pr", f2 |-> "ap"]
MCGoto == [go |-> "f2"]
MCChatEdges == {CTo("st", "default", "pr"), CTo("pr", "default", "bu"), CTo("pr", "max_retries", "tr"),
                CTo("bu", "button:1", "tr"), CTo("bu", "button:2", "go"),
                CTo("ap", "http:2xx", "co"), CTo("ap", "default", "ti"), CTo("co", "true", "me"),
                CTo("co", "default", "wa"), CTo("ti", "in_hours", "sv"), CTo("ti", "default", "ai"),
                CTo("sv", "default", "wh"), CTo("wh", "default", "ap"), CTo("me", "default", "en"),
                CTo("ai", "default", "en"), CTo("wa", "default", "en")}
MCArriving == <<{"trigger", "media"}, {"text", "agent"}, {"button", "form", "empty"}>>

\* A read tool and a write tool that are available, and one only the model knows.
PolicyOf(known, risk) == [global |-> TRUE, known |-> known, org |-> TRUE, feature |-> TRUE,
                          risk |-> risk, write |-> TRUE, confirm |-> TRUE]
MCPolicy == [hours |-> PolicyOf(TRUE, "read"), transfer |-> PolicyOf(TRUE, "write"), made_up |-> PolicyOf(FALSE, "other")]
MCTools == DOMAIN MCPolicy

DialogInit ==
    /\ focus \in {"chat", "sla", "tools", "reaper", "confirming"}
    /\ ChatInit
    /\ IF focus = "sla" THEN SlaInit ELSE SlaEnded
    /\ IF focus = "tools" THEN ToolInit \/ NewLoop("off") ELSE ToolEnded
    /\ ReaperInit /\ Tapped!ConfInit
DialogNext ==
    \/ focus = "chat" /\ ChatNext /\ UNCHANGED <<focus, slaVars, toolVars, reaperVars, confirmVars>>
    \/ focus = "sla" /\ SlaNext /\ UNCHANGED <<focus, chatVars, toolVars, reaperVars, confirmVars>>
    \/ focus = "tools" /\ ToolNext /\ UNCHANGED <<focus, chatVars, slaVars, reaperVars, confirmVars>>
    \/ focus = "reaper" /\ ReaperNext /\ UNCHANGED <<focus, chatVars, slaVars, toolVars, confirmVars>>
    \/ focus = "confirming" /\ Tapped!ConfNext /\ UNCHANGED <<focus, chatVars, slaVars, toolVars, reaperVars>>

\* The fairness of each component, in the behaviours in which it runs.
DialogFairness ==
    /\ ChatFairness /\ WF_slaVars(Tick) /\ WF_slaVars(focus = "sla" /\ PassTime)
    /\ WF_reaperVars(focus = "reaper" /\ NextSweep) /\ WF_reaperVars(focus = "reaper" /\ Sweep)
    /\ \A a \in Users : /\ WF_reaperVars(focus = "reaper" /\ Assign(a))
                        /\ \A online \in BOOLEAN : WF_reaperVars(focus = "reaper" /\ OnPresenceChange(a, online))
    /\ WF_confirmVars(focus = "confirming" /\ Tapped!Tick)
    /\ WF_confirmVars(focus = "confirming" /\ Tapped!Run("t1"))
    /\ SF_confirmVars(focus = "confirming" /\ Tapped!BeginSweep("t1"))
DialogSpec == DialogInit /\ [][DialogNext]_dialogVars /\ DialogFairness

\* Every inbound message is handled, and an attendance nobody answers is closed.
DialogSettles == InboundIsHandled /\ UnansweredIsClosed

\* A confirmed request reaches an outcome as long as the reconciler runs, however many
\* attempts die ("a request left confirmed has to be closed").
ConfirmedIsClosed == Tapped!ConfirmedEnds
===============================================================================
