-------------------------------- MODULE Campaign --------------------------------
(***************************************************************************)
(* A bulk message campaign: the handlers that start, pause, cancel, retry  *)
(* and delete it, the Redis stream its recipients are queued on, and the   *)
(* workers that send to them.  A handler reads the campaign, decides, and  *)
(* writes later without looking again; a worker acknowledges a job after   *)
(* handling it, so a crash leaves the job pending in the consumer group.   *)
(*                                                                         *)
(* The counters, the messages table and the delivery receipts of the       *)
(* webhook are not in this module.                                         *)
(***************************************************************************)
EXTENDS Integers, Sequences, FiniteSets, SequencesExt

CONSTANTS
    Recipients,
    OptedOut,       \* recipients a worker may fail before sending
    Workers,        \* goroutines of Consume
    Requests,       \* bound: requests running at one time
    Kinds,          \* the handlers in use
    None,
    MaxRequests,    \* bound: requests
    MaxJobs,        \* bound: entries of the stream
    MaxCrashes,     \* bound: workers that die
    MaxDbErrors     \* bound: campaigns that a worker fails to load

ASSUME CampaignAssumption ==
    /\ OptedOut \subseteq Recipients
    /\ Kinds \subseteq {"start", "pause", "cancel", "retry", "delete"}
    /\ None \notin Nat \cup {"start", "pause", "cancel", "retry", "delete"}
    /\ IsFiniteSet(Recipients)
    /\ {MaxRequests, MaxJobs, MaxCrashes, MaxDbErrors} \subseteq Nat

VARIABLES
    status,         \* BulkMessageCampaign.Status, or "deleted"
    recipient,      \* BulkMessageRecipient.Status
    stream,         \* the recipients of the jobs; a job's id is its place
    read,           \* the last job delivered to the group
    pending,        \* the jobs delivered and not acknowledged
    worker,
    req,
    sends,          \* auxiliary: messages WhatsApp accepted, by job
    begun, crashes, dbErrors

db == <<status, recipient>>
queue == <<stream, read, pending>>
bounds == <<begun, crashes, dbErrors>>
vars == <<db, queue, worker, req, sends, bounds>>

Status == {"draft", "processing", "paused", "completed", "cancelled", "deleted"}
Jobs == 1..MaxJobs

\* claims: what XPENDING listed and is not claimed yet.
Stopped == [pc |-> "down", job |-> None, claims |-> {}, outcome |-> "pending"]
Worker == [pc : {"down", "idle", "load", "optout", "send", "mark", "count", "reload",
                 "complete", "ack"},
           job : Jobs \cup {None}, claims : SUBSET Jobs,
           outcome : {"pending", "sent", "failed"}]

Free == [kind |-> None, pc |-> "free", todo |-> {}]
Request == [kind : Kinds \cup {None},
            pc : {"free", "load", "reset", "write", "enqueue", "revert"},
            todo : SUBSET Recipients]

TypeOK ==
    /\ status \in Status
    /\ recipient \in [Recipients -> {"pending", "sent", "failed", "deleted"}]
    /\ stream \in Seq(Recipients) /\ Len(stream) <= MaxJobs
    /\ read \in 0..Len(stream)
    /\ pending \subseteq 1..read
    /\ worker \in [Workers -> Worker]
    /\ req \in [Requests -> Request]
    /\ sends \in [Jobs -> Nat]
    /\ begun \in 0..MaxRequests
    /\ crashes \in 0..MaxCrashes
    /\ dbErrors \in 0..MaxDbErrors

Init ==
    /\ status = "draft"
    /\ recipient = [r \in Recipients |-> "pending"]
    /\ stream = <<>> /\ read = 0 /\ pending = {}
    /\ worker = [w \in Workers |-> Stopped]
    /\ req = [q \in Requests |-> Free]
    /\ sends = [j \in Jobs |-> 0]
    /\ begun = 0 /\ crashes = 0 /\ dbErrors = 0

In(s) == {r \in Recipients : recipient[r] = s}

\* An UPDATE of the campaign finds no row once it is soft-deleted.
StatusWritten(s) == IF status = "deleted" THEN status ELSE s

-------------------------------------------------------------------------------
(* Handlers *)

\* The state check at the top of each handler.
Permits(kind, s) ==
    CASE kind = "start"  -> s \in {"draft", "paused"}
      [] kind = "pause"  -> s = "processing"
      [] kind = "cancel" -> s \notin {"completed", "cancelled", "deleted"}
      [] kind = "retry"  -> s \in {"completed", "paused"}
      [] kind = "delete" -> s \notin {"processing", "deleted"}

Begin(q, kind) ==
    /\ req[q].pc = "free"
    /\ begun < MaxRequests
    /\ Permits(kind, status)
    /\ begun' = begun + 1
    /\ req' = [req EXCEPT ![q] = [kind |-> kind, todo |-> {},
                 pc |-> IF kind \in {"start", "retry"} THEN "load"
                        ELSE IF kind = "delete" THEN "reset" ELSE "write"]]
    /\ UNCHANGED <<db, queue, worker, sends, crashes, dbErrors>>

\* StartCampaign takes the pending recipients, RetryFailed the failed ones; with
\* none the request is refused.
LoadRecipients(q) ==
    LET todo == In(IF req[q].kind = "start" THEN "pending" ELSE "failed") IN
    /\ req[q].pc = "load"
    /\ req' = [req EXCEPT ![q] =
                 IF todo = {} THEN Free
                 ELSE [@ EXCEPT !.todo = todo,
                                !.pc = IF req[q].kind = "start" THEN "write" ELSE "reset"]]
    /\ UNCHANGED <<db, queue, worker, sends, bounds>>

\* RetryFailed makes pending whoever is failed now.
ResetFailed(q) ==
    /\ req[q].pc = "reset" /\ req[q].kind = "retry"
    /\ recipient' = [r \in Recipients |-> IF recipient[r] = "failed" THEN "pending" ELSE recipient[r]]
    /\ req' = [req EXCEPT ![q].pc = "write"]
    /\ UNCHANGED <<status, queue, worker, sends, bounds>>

\* DeleteCampaign removes the recipients, then the campaign.
DeleteRecipients(q) ==
    /\ req[q].pc = "reset" /\ req[q].kind = "delete"
    /\ recipient' = [r \in Recipients |-> "deleted"]
    /\ req' = [req EXCEPT ![q].pc = "write"]
    /\ UNCHANGED <<status, queue, worker, sends, bounds>>

Becomes(kind) ==
    CASE kind \in {"start", "retry"} -> "processing"
      [] kind = "pause"  -> "paused"
      [] kind = "cancel" -> "cancelled"
      [] kind = "delete" -> "deleted"

WriteStatus(q) ==
    /\ req[q].pc = "write"
    /\ status' = StatusWritten(Becomes(req[q].kind))
    /\ req' = [req EXCEPT ![q] = IF @.kind \in {"start", "retry"}
                                 THEN [@ EXCEPT !.pc = "enqueue"] ELSE Free]
    /\ UNCHANGED <<recipient, queue, worker, sends, bounds>>

\* EnqueueRecipients: one XADD for each recipient, in one pipeline.
Enqueue(q) ==
    /\ req[q].pc = "enqueue"
    /\ Len(stream) + Cardinality(req[q].todo) <= MaxJobs
    /\ stream' = stream \o SetToSeq(req[q].todo)
    /\ req' = [req EXCEPT ![q] = Free]
    /\ UNCHANGED <<db, read, pending, worker, sends, bounds>>

\* The pipeline breaks after some of them; only StartCampaign reverts.
EnqueueFails(q) ==
    /\ req[q].pc = "enqueue"
    /\ \E done \in SUBSET req[q].todo :
        /\ Len(stream) + Cardinality(done) <= MaxJobs
        /\ stream' = stream \o SetToSeq(done)
    /\ req' = [req EXCEPT ![q] = IF @.kind = "start" THEN [@ EXCEPT !.pc = "revert"] ELSE Free]
    /\ UNCHANGED <<db, read, pending, worker, sends, bounds>>

RevertStatus(q) ==
    /\ req[q].pc = "revert"
    /\ status' = StatusWritten("draft")
    /\ req' = [req EXCEPT ![q] = Free]
    /\ UNCHANGED <<recipient, queue, worker, sends, bounds>>

-------------------------------------------------------------------------------
(* Workers *)

\* The jobs some worker is handling.
Handled == {worker[w].job : w \in Workers} \ {None}

\* Delivered, not acknowledged, and left alone longer than ClaimMinIdleTime: no
\* worker takes that long over a job it is still handling.
Abandoned == pending \ Handled

\* Consume lists the pending jobs once, when the worker starts; how old each is
\* decides which of them it sees.
StartWorker(w) ==
    /\ worker[w].pc = "down"
    /\ \E claims \in SUBSET Abandoned :
         worker' = [worker EXCEPT ![w] = [Stopped EXCEPT !.pc = "idle", !.claims = claims]]
    /\ UNCHANGED <<db, queue, req, sends, bounds>>

\* XCLAIM gives nothing if the job was acknowledged or claimed in the meantime.
Claim(w) ==
    /\ worker[w].pc = "idle"
    /\ \E j \in worker[w].claims :
        /\ \A i \in worker[w].claims : j <= i
        /\ worker' = [worker EXCEPT ![w].claims = @ \ {j},
                                    ![w].pc = IF j \in Abandoned THEN "load" ELSE @,
                                    ![w].job = IF j \in Abandoned THEN j ELSE @]
    /\ UNCHANGED <<db, queue, req, sends, bounds>>

\* XREADGROUP ">": the next job nobody in the group has been given.
ReadGroup(w) ==
    /\ worker[w].pc = "idle" /\ worker[w].claims = {}
    /\ read < Len(stream)
    /\ read' = read + 1
    /\ pending' = pending \cup {read + 1}
    /\ worker' = [worker EXCEPT ![w].pc = "load", ![w].job = read + 1]
    /\ UNCHANGED <<db, stream, req, sends, bounds>>

To(w, pc) == worker' = [worker EXCEPT ![w].pc = pc]
Done(w) == worker' = [worker EXCEPT ![w].pc = "idle", ![w].job = None, ![w].outcome = "pending"]
For(w) == stream[worker[w].job]

\* What HandleRecipientJob does with the campaign it loaded: whether the contact
\* has opted out, and the account is there, is looked at each time.
AfterLoad(w) ==
    IF status \in {"paused", "cancelled"} THEN {"ack"}
    ELSE IF For(w) \in OptedOut THEN {"optout", "send"} ELSE {"send"}

LoadCampaign(w) ==
    /\ worker[w].pc = "load"
    /\ status # "deleted"
    /\ \E pc \in AfterLoad(w) : To(w, pc)
    /\ UNCHANGED <<db, queue, req, sends, bounds>>

LoadFails_Acknowledged(w) ==
    /\ worker[w].pc = "load"
    /\ \/ status = "deleted" /\ UNCHANGED dbErrors
       \/ dbErrors < MaxDbErrors /\ dbErrors' = dbErrors + 1
    /\ Done(w)
    /\ pending' = pending \ {worker[w].job}
    /\ UNCHANGED <<db, stream, read, req, sends, begun, crashes>>

\* The only error HandleRecipientJob returns: the job is not acknowledged.
LoadFails(w) ==
    /\ worker[w].pc = "load"
    /\ \/ status = "deleted" /\ UNCHANGED dbErrors
       \/ dbErrors < MaxDbErrors /\ dbErrors' = dbErrors + 1
    /\ Done(w)
    /\ UNCHANGED <<db, queue, req, sends, begun, crashes>>

\* An UPDATE of a recipient that is not soft-deleted.
Marked(r, s) == [recipient EXCEPT ![r] = IF @ = "deleted" THEN @ ELSE s]

\* Account missing, contact not created or opted out: failed, and the handler
\* returns before it checks for completion.
FailEarly(w) ==
    /\ worker[w].pc = "optout"
    /\ recipient' = Marked(For(w), "failed")
    /\ To(w, "ack")
    /\ UNCHANGED <<status, queue, req, sends, bounds>>

SendTemplateMessage(w) ==
    /\ worker[w].pc = "send"
    /\ \E outcome \in {"sent", "failed"} :
        /\ worker' = [worker EXCEPT ![w].pc = "mark", ![w].outcome = outcome]
        /\ sends' = IF outcome = "sent" THEN [sends EXCEPT ![worker[w].job] = @ + 1] ELSE sends
    /\ UNCHANGED <<db, queue, req, bounds>>

UpdateRecipientStatus_ErrShadowed(w) ==
    /\ worker[w].pc = "mark"
    /\ recipient' = Marked(For(w), "sent")
    /\ To(w, "count")
    /\ UNCHANGED <<status, queue, req, sends, bounds>>

UpdateRecipientStatus(w) ==
    /\ worker[w].pc = "mark"
    /\ recipient' = Marked(For(w), worker[w].outcome)
    /\ To(w, "count")
    /\ UNCHANGED <<status, queue, req, sends, bounds>>

NonePending_Ignored == TRUE
NonePending == In("pending") = {}

\* checkCampaignCompletion: count, load, decide, write.
CountPending(w) ==
    /\ worker[w].pc = "count"
    /\ To(w, IF NonePending THEN "reload" ELSE "ack")
    /\ UNCHANGED <<db, queue, req, sends, bounds>>

ReloadCampaign(w) ==
    /\ worker[w].pc = "reload"
    /\ To(w, IF status = "processing" THEN "complete" ELSE "ack")
    /\ UNCHANGED <<db, queue, req, sends, bounds>>

CompleteCampaign(w) ==
    /\ worker[w].pc = "complete"
    /\ status' = StatusWritten("completed")
    /\ To(w, "ack")
    /\ UNCHANGED <<recipient, queue, req, sends, bounds>>

Acknowledge(w) ==
    /\ worker[w].pc = "ack"
    /\ pending' = pending \ {worker[w].job}
    /\ Done(w)
    /\ UNCHANGED <<db, stream, read, req, sends, bounds>>

Crash(w) ==
    /\ worker[w].pc # "down"
    /\ crashes < MaxCrashes
    /\ crashes' = crashes + 1
    /\ worker' = [worker EXCEPT ![w] = Stopped]
    /\ UNCHANGED <<db, queue, req, sends, begun, dbErrors>>

-------------------------------------------------------------------------------

Handler(q) ==
    \/ LoadRecipients(q) \/ ResetFailed(q) \/ DeleteRecipients(q) \/ WriteStatus(q)
    \/ Enqueue(q) \/ EnqueueFails(q) \/ RevertStatus(q)

Work(w) ==
    \/ StartWorker(w) \/ Claim(w) \/ ReadGroup(w) \/ LoadCampaign(w) \/ LoadFails(w)
    \/ FailEarly(w) \/ SendTemplateMessage(w) \/ UpdateRecipientStatus(w)
    \/ CountPending(w) \/ ReloadCampaign(w) \/ CompleteCampaign(w) \/ Acknowledge(w)

Next ==
    \/ \E q \in Requests : Handler(q) \/ \E kind \in Kinds : Begin(q, kind)
    \/ \E w \in Workers : Work(w) \/ Crash(w)

\* A request that began goes on, and a worker that is alive keeps consuming; a
\* worker that crashed is started again.
Fairness ==
    /\ \A q \in Requests : WF_vars(Handler(q))
    /\ \A w \in Workers : WF_vars(Work(w))

Spec == Init /\ [][Next]_vars /\ Fairness

-------------------------------------------------------------------------------
(* Properties *)

Idle ==
    /\ \A q \in Requests : req[q].pc = "free"
    /\ \A w \in Workers : worker[w].pc \in {"down", "idle"}
    /\ read = Len(stream) /\ pending = {}

\* No recipient is forgotten: while the campaign runs, whoever is still pending
\* has a job that is queued or unacknowledged, or a request is about to queue
\* one (StartCampaign, Consume, the skip of a paused campaign).
PendingHasJob ==
    (status = "processing" /\ \A q \in Requests : req[q].pc \notin {"enqueue", "revert"}) =>
        \A r \in In("pending") :
            \E j \in DOMAIN stream : stream[j] = r /\ (j > read \/ j \in pending)

\* "completed: All messages have been processed" (campaigns.mdx), whichever
\* worker's count and write were separated by other steps (checkCampaignCompletion).
CompletedMeansProcessed == status = "completed" => In("pending") = {}

\* A job is sent twice only if its worker crashed on it (Consume acknowledges
\* what it handled, XCLAIM takes what nobody handles).
OneSendPerDelivery == \A j \in Jobs : sends[j] <= 1 + crashes

\* A recipient shown as sent was sent to, by the job that marked it or by an
\* earlier delivery of it (HandleRecipientJob, RetryFailed).
SentWasSent ==
    \A r \in In("sent") : \E j \in DOMAIN stream : stream[j] = r /\ sends[j] > 0

\* Nothing is sent more often than workers die, nor shown as sent without being sent.
SendsAreAccounted == TypeOK /\ OneSendPerDelivery /\ SentWasSent

\* Once nothing is running and every recipient has been processed, the campaign
\* is not left in processing ("checks if all recipients are processed and marks
\* campaign as completed", checkCampaignCompletion).
FinishedIsCompleted == ~(Idle /\ status = "processing" /\ In("pending") = {})

\* A started campaign does not stay in processing (Consume, checkCampaignCompletion).
ProcessingEnds == status = "processing" ~> status # "processing"

\* "Cancel a campaign (cannot be resumed)": nothing changes the status of a
\* cancelled campaign but its deletion.
CancelIsFinal == [][status = "cancelled" => status' \in {"cancelled", "deleted"}]_vars

\* "Don't ACK failed messages - they'll be reclaimed later": a job whose handler
\* failed is eventually taken by a worker again, or acknowledged.
ReclaimedLater == \A j \in Jobs : j \in Abandoned ~> j \notin Abandoned

===============================================================================
