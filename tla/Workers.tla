-------------------------------- MODULE Workers --------------------------------
(***************************************************************************)
(* The work done in the background for contacts: a campaign with its queue *)
(* and workers, and the confirmations of a contact.  They share no         *)
(* variable; the runs explore one at a time.  A campaign is either sent,   *)
(* where nobody retries it and no recipient is refused before sending, or  *)
(* handled in every way.                                                   *)
(***************************************************************************)
EXTENDS Campaign, Confirmation

VARIABLE focus      \* what a behaviour is about
workersVars == <<focus, vars, confVars>>

SendingNext ==
    /\ Next
    /\ \A q \in Requests : req'[q].kind # "retry"
    /\ \A w \in Workers : worker'[w].pc # "optout"

WorkersInit == focus \in {"sending", "retrying", "confirming"} /\ Init /\ ConfInit
WorkersNext ==
    \/ focus = "sending" /\ SendingNext /\ UNCHANGED <<focus, confVars>>
    \/ focus = "retrying" /\ Next /\ UNCHANGED <<focus, confVars>>
    \/ focus = "confirming" /\ ConfNext /\ UNCHANGED <<focus, vars>>
WorkersSpec == WorkersInit /\ [][WorkersNext]_workersVars

-------------------------------------------------------------------------------
(* Properties *)

\* Without retries and refusals before sending, whatever requests, crashes and redeliveries
\* race: no recipient that is still pending in a running campaign is forgotten
\* (StartCampaign, Consume, the skip of a paused campaign);
PendingKeepsJob == focus = "sending" => PendingHasJob

\* and a campaign is completed only when it has processed everybody ("completed: All
\* messages have been processed"), and does not stay in processing when it has
\* (checkCampaignCompletion; RetryFailed makes recipients pending before it writes the status).
CompletionIsExact == focus = "sending" => CompletedMeansProcessed /\ FinishedIsCompleted
===============================================================================
