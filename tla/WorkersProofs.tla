----------------------------- MODULE WorkersProofs -----------------------------
(***************************************************************************)
(* Proofs about Campaign and Confirmation, for any recipients, workers,    *)
(* requests, confirmations, threads and limits.  A job is sent more than   *)
(* once only by workers that died on it, nobody is shown as sent to who    *)
(* was not, and a campaign that is sent forgets nobody and ends in time.   *)
(* What is recorded as done was done, what was done was authorized, and an *)
(* outcome is final.                                                       *)
(***************************************************************************)
EXTENDS Workers, FiniteSetTheorems, SequenceTheorems, TLAPS

-------------------------------------------------------------------------------
(* Campaign: the inductive invariant *)

\* A worker that has a job, and one whose handling of it has yet to send.
Busy == {"load", "optout", "send", "mark", "count", "reload", "complete", "ack"}
Before == {"load", "optout", "send"}

\* A request past its state check is one of the five handlers.
GoodRequests == \A q \in Requests : req[q].pc # "free" => req[q].kind \in Kinds

\* A worker's job was delivered and is not acknowledged; one that is about to
\* mark its recipient as sent did send.
GoodWorker(w) ==
    /\ worker[w].pc \in Busy <=> worker[w].job # None
    /\ worker[w].job # None => worker[w].job \in pending
    /\ worker[w].pc = "mark" /\ worker[w].outcome = "sent" => sends[worker[w].job] > 0
GoodWorkers == \A w \in Workers : GoodWorker(w)

\* No two workers handle the same job.
Apart ==
    \A v, w \in Workers : worker[v].job = worker[w].job /\ worker[v].job # None => v = w

\* The job may be sent once more although no worker dies: it is queued, it was left
\* unacknowledged, or its worker has yet to send.
Due(j) ==
    \/ j > read
    \/ j \in pending /\ \A w \in Workers : worker[w].job # j
    \/ \E w \in Workers : worker[w].job = j /\ worker[w].pc \in Before
SendsBounded == \A j \in Jobs : sends[j] + (IF Due(j) THEN 1 ELSE 0) <= 1 + crashes

CampInv == TypeOK /\ GoodRequests /\ GoodWorkers /\ Apart /\ SendsBounded /\ SentWasSent

-------------------------------------------------------------------------------
(* Sequences of sets *)

\* A finite set can be listed: the list of EnqueueRecipients' pipeline.
LEMMA SetToSeqType ==
  ASSUME NEW S \in SUBSET Recipients
  PROVE  /\ SetToSeq(S) \in Seq(Recipients)
         /\ Len(SetToSeq(S)) = Cardinality(S)
         /\ Cardinality(S) \in Nat
  <1>1. IsFiniteSet(S)
    BY FS_Subset, CampaignAssumption
  <1>2. Cardinality(S) \in Nat /\ ExistsBijection(1..Cardinality(S), S)
    BY <1>1, FS_CardinalityType
  <1>3. PICK f \in [1..Cardinality(S) -> S] : IsInjective(f)
    BY <1>2 DEF ExistsBijection, Bijection, Injection, IsInjective
  <1>4. SetToSeq(S) \in [1..Cardinality(S) -> S]
    BY <1>3 DEF SetToSeq
  <1> QED BY <1>2, <1>4

-------------------------------------------------------------------------------
(* Handlers *)

\* What a step of a handler may do to the rest: nobody becomes sent, and the
\* stream only grows.
StreamGrows ==
    Len(stream') >= Len(stream) /\ \A i \in 1..Len(stream) : stream'[i] = stream[i]
NobodySent == \A r \in Recipients : recipient'[r] = "sent" => recipient[r] = "sent"

LEMMA QuietStep ==
  ASSUME CampInv, UNCHANGED <<worker, read, pending, sends, crashes>>,
         TypeOK', GoodRequests', StreamGrows, NobodySent
  PROVE  CampInv'
  <1>1. GoodWorkers' /\ Apart' /\ SendsBounded'
    BY DEF CampInv, GoodWorkers, GoodWorker, Apart, SendsBounded, Due
  <1>2. SentWasSent'
    <2> SUFFICES ASSUME NEW r \in Recipients, recipient'[r] = "sent"
                 PROVE  \E j \in DOMAIN stream' : stream'[j] = r /\ sends'[j] > 0
      BY DEF SentWasSent, In
    <2>1. PICK j \in DOMAIN stream : stream[j] = r /\ sends[j] > 0
      BY DEF NobodySent, CampInv, SentWasSent, In
    <2>2. stream \in Seq(Recipients) /\ stream' \in Seq(Recipients)
      BY DEF CampInv, TypeOK
    <2> QED BY <2>1, <2>2 DEF StreamGrows
  <1> QED BY <1>1, <1>2 DEF CampInv

\* The handlers that leave the stream alone.
LEMMA RequestKeeps ==
  ASSUME CampInv, NEW q \in Requests,
         \/ \E kind \in Kinds : Begin(q, kind)
         \/ LoadRecipients(q) \/ ResetFailed(q) \/ DeleteRecipients(q)
         \/ WriteStatus(q) \/ RevertStatus(q)
  PROVE  CampInv'
  <1>1. UNCHANGED <<worker, stream, read, pending, sends, crashes, dbErrors>>
    BY DEF Begin, LoadRecipients, ResetFailed, DeleteRecipients, WriteStatus, RevertStatus,
           db, queue, bounds
  <1>2. req[q] \in Request /\ (req[q].pc # "free" => req[q].kind \in Kinds) /\ TypeOK
    BY DEF CampInv, TypeOK, GoodRequests
  <1>3. PICK new \in Request :
          req' = [req EXCEPT ![q] = new] /\ (new.pc # "free" => new.kind \in Kinds)
    <2>1. CASE \E kind \in Kinds : Begin(q, kind)
      <3>1. PICK kind \in Kinds : Begin(q, kind)
        BY <2>1
      <3> DEFINE new == [kind |-> kind, todo |-> {},
                         pc |-> IF kind \in {"start", "retry"} THEN "load"
                                ELSE IF kind = "delete" THEN "reset" ELSE "write"]
      <3>2. new \in Request /\ new.kind \in Kinds
        BY DEF Request
      <3>3. req' = [req EXCEPT ![q] = new]
        BY <3>1 DEF Begin
      <3> QED BY <3>2, <3>3
    <2>2. CASE LoadRecipients(q)
      <3> DEFINE todo == In(IF req[q].kind = "start" THEN "pending" ELSE "failed")
                 new == IF todo = {} THEN Free
                        ELSE [req[q] EXCEPT !.todo = todo,
                                !.pc = IF req[q].kind = "start" THEN "write" ELSE "reset"]
      <3>1. todo \subseteq Recipients
        BY DEF In
      <3>2. new \in Request /\ (new.pc # "free" => new.kind \in Kinds)
        BY <1>2, <2>2, <3>1 DEF Request, Free, LoadRecipients
      <3>3. req' = [req EXCEPT ![q] = new]
        <4>1. CASE todo = {}
          BY <2>2, <4>1 DEF LoadRecipients
        <4>2. CASE todo # {}
          <5>1. req' = [req EXCEPT ![q] = [@ EXCEPT !.todo = todo,
                          !.pc = IF req[q].kind = "start" THEN "write" ELSE "reset"]]
            BY <2>2, <4>2 DEF LoadRecipients
          <5> HIDE DEF todo
          <5> QED BY <1>2, <4>2, <5>1 DEF TypeOK
        <4> QED BY <4>1, <4>2
      <3> HIDE DEF new
      <3> QED BY <3>2, <3>3
    <2>3. CASE ResetFailed(q) \/ DeleteRecipients(q)
      <3> DEFINE new == [req[q] EXCEPT !.pc = "write"]
      <3>1. new \in Request /\ (new.pc # "free" => new.kind \in Kinds)
        BY <1>2, <2>3 DEF Request, ResetFailed, DeleteRecipients
      <3>2. req' = [req EXCEPT ![q] = new]
        BY <1>2, <2>3 DEF ResetFailed, DeleteRecipients, TypeOK
      <3> QED BY <3>1, <3>2
    <2>4. CASE WriteStatus(q)
      <3> DEFINE new == IF req[q].kind \in {"start", "retry"}
                        THEN [req[q] EXCEPT !.pc = "enqueue"] ELSE Free
      <3>1. new \in Request /\ (new.pc # "free" => new.kind \in Kinds)
        BY <1>2, <2>4 DEF Request, Free, WriteStatus
      <3>2. req' = [req EXCEPT ![q] = new]
        BY <1>2, <2>4 DEF WriteStatus, TypeOK
      <3> QED BY <3>1, <3>2
    <2>5. CASE RevertStatus(q)
      <3>1. Free \in Request /\ Free.pc = "free"
        BY DEF Free, Request
      <3> QED BY <2>5, <3>1 DEF RevertStatus
    <2> QED BY <2>1, <2>2, <2>3, <2>4, <2>5
  <1>4. GoodRequests' /\ req' \in [Requests -> Request]
    BY <1>2, <1>3 DEF CampInv, TypeOK, GoodRequests
  <1>5. status' \in Status
    <2>1. CASE WriteStatus(q)
      BY <1>2, <2>1, CampaignAssumption
         DEF WriteStatus, StatusWritten, Becomes, Status, TypeOK
    <2> QED BY <1>2, <2>1 DEF Begin, LoadRecipients, ResetFailed, DeleteRecipients, RevertStatus,
              StatusWritten, Status, TypeOK, db
  <1>6. /\ recipient' \in [Recipients -> {"pending", "sent", "failed", "deleted"}]
        /\ NobodySent
    BY <1>2 DEF NobodySent, Begin, LoadRecipients, ResetFailed, DeleteRecipients, WriteStatus,
           RevertStatus, TypeOK, db
  <1>7. begun' \in 0..MaxRequests
    BY <1>2, CampaignAssumption DEF TypeOK, Begin, LoadRecipients, ResetFailed, DeleteRecipients,
           WriteStatus, RevertStatus, bounds
  <1>8. TypeOK' /\ StreamGrows
    BY <1>1, <1>2, <1>4, <1>5, <1>6, <1>7 DEF TypeOK, StreamGrows
  <1> QED BY <1>1, <1>4, <1>6, <1>8, QuietStep

\* The pipeline appends the recipients a request holds, or some of them.
LEMMA EnqueueKeeps ==
  ASSUME CampInv, NEW q \in Requests, Enqueue(q) \/ EnqueueFails(q)
  PROVE  CampInv'
  <1>1. UNCHANGED <<db, read, pending, worker, sends, bounds>>
    BY DEF Enqueue, EnqueueFails
  <1>2. req[q] \in Request /\ req[q].kind \in Kinds /\ TypeOK
    BY DEF CampInv, TypeOK, GoodRequests, Enqueue, EnqueueFails
  <1>3. PICK done \in SUBSET req[q].todo :
          /\ Len(stream) + Cardinality(done) <= MaxJobs
          /\ stream' = stream \o SetToSeq(done)
    BY <1>2 DEF Enqueue, EnqueueFails, Request
  <1>4. /\ SetToSeq(done) \in Seq(Recipients) /\ Len(SetToSeq(done)) = Cardinality(done)
        /\ Cardinality(done) \in Nat
    BY <1>2, SetToSeqType DEF Request
  <1>5. stream' \in Seq(Recipients) /\ Len(stream') = Len(stream) + Cardinality(done) /\ StreamGrows
    <2> DEFINE more == SetToSeq(done)
    <2>1. stream \in Seq(Recipients) /\ more \in Seq(Recipients) /\ stream' = stream \o more
          /\ Len(more) = Cardinality(done)
      BY <1>2, <1>3, <1>4 DEF TypeOK
    <2> HIDE DEF more
    <2>2. stream \o more \in Seq(Recipients) /\ Len(stream \o more) = Len(stream) + Len(more)
      BY <2>1, ConcatProperties
    <2>3. \A i \in 1..Len(stream) : stream'[i] = stream[i]
      BY <2>1
    <2> QED BY <1>4, <2>1, <2>2, <2>3 DEF StreamGrows
  <1>6. PICK new \in Request :
          req' = [req EXCEPT ![q] = new] /\ (new.pc # "free" => new.kind \in Kinds)
    <2> DEFINE new == [req[q] EXCEPT !.pc = "revert"]
    <2>1. new \in Request /\ new.kind \in Kinds /\ Free \in Request /\ Free.pc = "free"
      BY <1>2 DEF Request, Free
    <2>2. \/ req' = [req EXCEPT ![q] = Free]
          \/ req' = [req EXCEPT ![q] = new]
      BY <1>2 DEF Enqueue, EnqueueFails, TypeOK
    <2> QED BY <2>1, <2>2
  <1>7. GoodRequests' /\ req' \in [Requests -> Request]
    BY <1>2, <1>6 DEF CampInv, TypeOK, GoodRequests
  <1>8. TypeOK' /\ NobodySent
    BY <1>1, <1>2, <1>3, <1>4, <1>5, <1>7 DEF TypeOK, NobodySent, db, bounds
  <1> QED BY <1>1, <1>5, <1>7, <1>8, QuietStep DEF bounds

-------------------------------------------------------------------------------
(* Workers *)

WorkerIs(w, new) ==
    /\ worker' = [worker EXCEPT ![w] = new] /\ new \in Worker
    /\ worker'[w] = new /\ \A v \in Workers : v # w => worker'[v] = worker[v]

LEMMA WorkerBecomes ==
  ASSUME CampInv, NEW w \in Workers, NEW new \in Worker, worker' = [worker EXCEPT ![w] = new]
  PROVE  WorkerIs(w, new) /\ worker' \in [Workers -> Worker]
  BY DEF WorkerIs, CampInv, TypeOK

\* What every worker is, and where its job is.
LEMMA WorkerFacts ==
  ASSUME CampInv, NEW w \in Workers
  PROVE  /\ TypeOK /\ worker[w] \in Worker /\ GoodWorker(w)
         /\ worker[w].job # None =>
              /\ worker[w].job \in pending /\ worker[w].job \in Jobs
              /\ worker[w].job \in 1..read /\ worker[w].job \in DOMAIN stream
              /\ For(w) \in Recipients
         /\ worker[w].pc \in Busy =>
              worker[w].job # None /\ \A v \in Workers : worker[v].job = worker[w].job => v = w
  <1>1. TypeOK /\ worker[w] \in Worker /\ GoodWorker(w)
    BY DEF CampInv, TypeOK, GoodWorkers
  <1>2. read \in 0..Len(stream) /\ Len(stream) \in Nat /\ Len(stream) <= MaxJobs /\ MaxJobs \in Nat
    BY <1>1, CampaignAssumption DEF TypeOK
  <1>3. worker[w].job # None =>
          worker[w].job \in pending /\ worker[w].job \in Jobs /\ worker[w].job \in 1..read
    <2>1. pending \subseteq 1..read /\ 1..read \subseteq Jobs
      BY <1>1, <1>2 DEF TypeOK, Jobs
    <2> QED BY <1>1, <2>1 DEF GoodWorker
  <1>4. worker[w].job # None => worker[w].job \in DOMAIN stream /\ For(w) \in Recipients
    BY <1>1, <1>2, <1>3 DEF TypeOK, For
  <1>5. worker[w].pc \in Busy =>
          worker[w].job # None /\ \A v \in Workers : worker[v].job = worker[w].job => v = w
    BY <1>1 DEF GoodWorker, CampInv, Apart
  <1> QED BY <1>1, <1>3, <1>4, <1>5

\* A step of a worker that keeps its job, and does not come back before the sending.
LEMMA OnwardKeeps ==
  ASSUME CampInv, NEW w \in Workers, NEW new \in Worker,
         worker' = [worker EXCEPT ![w] = new],
         new.job = worker[w].job,
         new.pc \in Busy <=> worker[w].pc \in Busy,
         new.pc \in Before => worker[w].pc \in Before,
         new.pc # "mark",
         UNCHANGED <<queue, req, sends, crashes, begun, dbErrors>>,
         status' \in Status,
         recipient' \in [Recipients -> {"pending", "sent", "failed", "deleted"}],
         SentWasSent'
  PROVE  CampInv'
  <1>1. WorkerIs(w, new) /\ worker' \in [Workers -> Worker]
    BY WorkerBecomes
  <1>2. TypeOK' /\ GoodRequests'
    BY <1>1 DEF CampInv, TypeOK, GoodRequests, queue
  <1>3. \A v \in Workers : worker'[v].job = worker[v].job
    BY <1>1 DEF WorkerIs
  <1>4. GoodWorkers'
    <2> SUFFICES ASSUME NEW v \in Workers PROVE GoodWorker(v)'
      BY DEF GoodWorkers
    <2>1. GoodWorker(v)
      BY DEF CampInv, GoodWorkers
    <2> QED BY <1>1, <2>1 DEF GoodWorker, WorkerIs, queue
  <1>5. Apart'
    BY <1>3 DEF CampInv, Apart
  <1>6. SendsBounded'
    <2> SUFFICES ASSUME NEW j \in Jobs
                 PROVE  sends'[j] + (IF Due(j)' THEN 1 ELSE 0) <= 1 + crashes'
      BY DEF SendsBounded
    <2>1. Due(j)' => Due(j)
      BY <1>1, <1>3 DEF Due, WorkerIs, queue
    <2>2. /\ sends[j] + (IF Due(j) THEN 1 ELSE 0) <= 1 + crashes
          /\ sends[j] \in Nat /\ crashes \in Nat
      BY CampaignAssumption DEF CampInv, SendsBounded, TypeOK
    <2>3. (IF Due(j)' THEN 1 ELSE 0) <= (IF Due(j) THEN 1 ELSE 0)
      BY <2>1
    <2>4. (IF Due(j)' THEN 1 ELSE 0) \in Nat /\ (IF Due(j) THEN 1 ELSE 0) \in Nat
      OBVIOUS
    <2> QED BY <2>2, <2>3, <2>4
  <1> QED BY <1>2, <1>4, <1>5, <1>6 DEF CampInv

\* Consume starts a worker: it has no job yet.
LEMMA StartKeeps ==
  ASSUME CampInv, NEW w \in Workers, StartWorker(w)
  PROVE  CampInv'
  <1>1. PICK claims \in SUBSET Abandoned :
          worker' = [worker EXCEPT ![w] = [Stopped EXCEPT !.pc = "idle", !.claims = claims]]
    BY DEF StartWorker
  <1>2. TypeOK /\ worker[w].job = None /\ worker[w].pc = "down"
    BY WorkerFacts DEF StartWorker, GoodWorker, Busy
  <1>3. claims \in SUBSET Jobs
    <2>1. Abandoned \subseteq pending
      BY DEF Abandoned
    <2> QED BY <1>1, <1>2, <2>1, CampaignAssumption DEF TypeOK, Jobs
  <1> DEFINE new == [Stopped EXCEPT !.pc = "idle", !.claims = claims]
  <1>4. new \in Worker /\ new.pc = "idle" /\ new.job = None
    BY <1>3 DEF Worker, Stopped
  <1> HIDE DEF new
  <1>5. worker' = [worker EXCEPT ![w] = new]
    BY <1>1 DEF new
  <1>6. SentWasSent' /\ UNCHANGED <<status, recipient, queue, req, sends, crashes, begun, dbErrors>>
    BY DEF StartWorker, db, queue, bounds, CampInv, SentWasSent, In
  <1> QED BY <1>2, <1>4, <1>5, <1>6, OnwardKeeps DEF Busy, Before, TypeOK

\* The steps on the program counter: what the handler loads, and what it does
\* after the sending.
LEMMA HandlingKeeps ==
  ASSUME CampInv, NEW w \in Workers,
         \/ LoadCampaign(w) \/ FailEarly(w) \/ UpdateRecipientStatus(w)
         \/ CountPending(w) \/ ReloadCampaign(w) \/ CompleteCampaign(w)
  PROVE  CampInv'
  <1>1. /\ TypeOK /\ worker[w] \in Worker /\ GoodWorker(w) /\ worker[w].pc \in Busy
        /\ worker[w].job \in DOMAIN stream /\ For(w) \in Recipients
    BY WorkerFacts DEF Busy, LoadCampaign, FailEarly, UpdateRecipientStatus, CountPending,
           ReloadCampaign, CompleteCampaign
  <1>2. PICK pc \in Busy \ {"load", "mark"} :
          /\ worker' = [worker EXCEPT ![w].pc = pc]
          /\ pc \in Before => worker[w].pc \in Before
    BY DEF Busy, Before, LoadCampaign, AfterLoad, FailEarly, UpdateRecipientStatus, CountPending,
           ReloadCampaign, CompleteCampaign, To
  <1>3. UNCHANGED <<queue, req, sends, crashes, begun, dbErrors>>
    BY DEF LoadCampaign, FailEarly, UpdateRecipientStatus, CountPending, ReloadCampaign,
           CompleteCampaign, bounds
  <1> DEFINE new == [worker[w] EXCEPT !.pc = pc]
  <1>4. /\ new \in Worker /\ new.pc = pc /\ new.job = worker[w].job
        /\ worker' = [worker EXCEPT ![w] = new]
    BY <1>1, <1>2 DEF Worker, Busy, TypeOK
  <1> HIDE DEF new
  <1>5. status' \in Status
    BY <1>1 DEF LoadCampaign, FailEarly, UpdateRecipientStatus, CountPending, ReloadCampaign,
           CompleteCampaign, StatusWritten, Status, TypeOK, db
  <1>6. /\ recipient' \in [Recipients -> {"pending", "sent", "failed", "deleted"}]
        /\ \A r \in Recipients : recipient'[r] = "sent" =>
             \/ recipient[r] = "sent"
             \/ r = For(w) /\ worker[w].pc = "mark" /\ worker[w].outcome = "sent"
    <2>1. CASE UpdateRecipientStatus(w)
      BY <1>1, <2>1 DEF UpdateRecipientStatus, Marked, Worker, TypeOK
    <2>2. CASE FailEarly(w)
      BY <1>1, <2>2 DEF FailEarly, Marked, TypeOK
    <2>3. CASE UNCHANGED recipient
      BY <1>1, <2>3 DEF TypeOK
    <2> QED BY <2>1, <2>2, <2>3
         DEF LoadCampaign, CountPending, ReloadCampaign, CompleteCampaign, db
  <1>7. SentWasSent'
    <2> SUFFICES ASSUME NEW r \in Recipients, recipient'[r] = "sent"
                 PROVE  \E j \in DOMAIN stream : stream[j] = r /\ sends[j] > 0
      BY <1>3 DEF SentWasSent, In, queue
    <2> QED BY <1>1, <1>6 DEF CampInv, SentWasSent, In, For, GoodWorker
  <1> QED BY <1>1, <1>2, <1>3, <1>4, <1>5, <1>6, <1>7, OnwardKeeps

-------------------------------------------------------------------------------
(* Jobs taken, sent and let go *)

\* A job that the step is not about is not due because of it,
LEMMA OthersDue ==
  ASSUME NEW w \in Workers, NEW new, WorkerIs(w, new),
         NEW j \in Jobs, j # worker[w].job, j # new.job,
         j \in pending' => j \in pending, j > read' => j > read, Due(j)'
  PROVE  Due(j)
  BY DEF Due, WorkerIs

\* and its bound goes on holding.
LEMMA BoundKept ==
  ASSUME CampInv, NEW j \in Jobs,
         \/ sends'[j] = sends[j] /\ (Due(j)' => Due(j)) /\ crashes' >= crashes
         \/ sends'[j] = sends[j] /\ crashes' = crashes + 1
         \/ sends'[j] = sends[j] + 1 /\ Due(j) /\ ~Due(j)' /\ crashes' = crashes,
         crashes' \in Nat
  PROVE  sends'[j] + (IF Due(j)' THEN 1 ELSE 0) <= 1 + crashes'
  <1>1. /\ sends[j] + (IF Due(j) THEN 1 ELSE 0) <= 1 + crashes
        /\ sends[j] \in Nat /\ crashes \in Nat
    BY CampaignAssumption DEF CampInv, SendsBounded, TypeOK
  <1>2. CASE Due(j)
    BY <1>1, <1>2
  <1>3. CASE ~Due(j)
    BY <1>1, <1>3
  <1> QED BY <1>2, <1>3

\* A worker takes a job that nobody is handling.
LEMMA TakesJob ==
  ASSUME CampInv, NEW w \in Workers, NEW j \in Jobs, NEW new \in Worker,
         worker' = [worker EXCEPT ![w] = new],
         worker[w].pc = "idle", new.pc = "load", new.job = j,
         Due(j), \A v \in Workers : worker[v].job # j,
         pending \subseteq pending', pending' \subseteq pending \cup {j}, j \in pending',
         read' \in 0..Len(stream), read' >= read, pending' \subseteq 1..read',
         UNCHANGED <<db, stream, req, sends, bounds>>
  PROVE  CampInv'
  <1>1. WorkerIs(w, new) /\ worker' \in [Workers -> Worker]
    BY WorkerBecomes
  <1>2. worker[w].job = None /\ j # None
    BY WorkerFacts, CampaignAssumption DEF GoodWorker, Busy, Jobs
  <1>3. TypeOK' /\ GoodRequests' /\ SentWasSent'
    BY <1>1 DEF CampInv, TypeOK, GoodRequests, SentWasSent, In, db, bounds
  <1>4. GoodWorkers'
    <2> SUFFICES ASSUME NEW v \in Workers PROVE GoodWorker(v)'
      BY DEF GoodWorkers
    <2>1. GoodWorker(v)
      BY DEF CampInv, GoodWorkers
    <2>2. CASE v = w
      BY <1>1, <1>2, <2>2 DEF GoodWorker, WorkerIs, Busy
    <2>3. CASE v # w
      BY <1>1, <2>1, <2>3 DEF GoodWorker, WorkerIs
    <2> QED BY <2>2, <2>3
  <1>5. Apart'
    BY <1>1 DEF CampInv, Apart, WorkerIs
  <1>6. SendsBounded'
    <2>1. crashes' = crashes /\ crashes \in Nat
      BY CampaignAssumption DEF bounds, CampInv, TypeOK
    <2>2. ASSUME NEW i \in Jobs PROVE Due(i)' => Due(i)
      <3>1. CASE i = j
        BY <3>1
      <3>2. CASE i # j
        <4>1. i # worker[w].job /\ (i \in pending' => i \in pending)
          BY <1>2, <3>2, CampaignAssumption DEF Jobs
        <4>2. i > read' => i > read
          BY <1>3, CampaignAssumption DEF Jobs, CampInv, TypeOK
        <4> QED BY <1>1, <3>2, <4>1, <4>2, OthersDue
      <3> QED BY <3>1, <3>2
    <2> QED BY <2>1, <2>2, BoundKept DEF SendsBounded
  <1> QED BY <1>3, <1>4, <1>5, <1>6 DEF CampInv

\* A worker lets its job go: it acknowledged it, or it leaves it pending.
LEMMA LeavesJob ==
  ASSUME CampInv, NEW w \in Workers, NEW new \in Worker,
         worker' = [worker EXCEPT ![w] = new],
         new.pc \in {"down", "idle"}, new.job = None,
         pending' \subseteq pending,
         \A j \in pending : j # worker[w].job => j \in pending',
         worker[w].job # None =>
           \/ crashes' = crashes + 1
           \/ worker[w].pc \in Before
           \/ worker[w].job \notin pending',
         crashes' \in 0..MaxCrashes, crashes' >= crashes, dbErrors' \in 0..MaxDbErrors,
         UNCHANGED <<db, stream, read, req, sends, begun>>
  PROVE  CampInv'
  <1>1. WorkerIs(w, new) /\ worker' \in [Workers -> Worker]
    BY WorkerBecomes
  <1>2. TypeOK' /\ GoodRequests' /\ SentWasSent'
    BY <1>1 DEF CampInv, TypeOK, GoodRequests, SentWasSent, In, db
  <1>3. GoodWorkers'
    <2> SUFFICES ASSUME NEW v \in Workers PROVE GoodWorker(v)'
      BY DEF GoodWorkers
    <2>1. GoodWorker(v)
      BY DEF CampInv, GoodWorkers
    <2>2. CASE v = w
      BY <1>1, <2>2 DEF GoodWorker, WorkerIs, Busy
    <2>3. CASE v # w
      BY <1>1, <2>1, <2>3 DEF GoodWorker, WorkerIs, CampInv, Apart
    <2> QED BY <2>2, <2>3
  <1>4. Apart'
    BY <1>1 DEF CampInv, Apart, WorkerIs
  <1>5. SendsBounded'
    <2> SUFFICES ASSUME NEW j \in Jobs
                 PROVE  sends'[j] + (IF Due(j)' THEN 1 ELSE 0) <= 1 + crashes'
      BY DEF SendsBounded
    <2>1. crashes' \in Nat /\ j # None
      BY CampaignAssumption DEF Jobs
    <2>2. CASE j # worker[w].job
      <3>1. Due(j)' => Due(j)
        BY <1>1, <2>1, <2>2, OthersDue
      <3> QED BY <2>1, <3>1, BoundKept
    <2>3. CASE j = worker[w].job
      <3>1. CASE crashes' = crashes + 1
        BY <2>1, <3>1, BoundKept
      <3>2. CASE worker[w].pc \in Before
        BY <2>1, <2>3, <3>2, BoundKept DEF Due
      <3>3. CASE j \notin pending'
        <4>1. j \in 1..read /\ read' = read /\ \A v \in Workers : v # w => worker[v].job # j
          BY <2>1, <2>3, WorkerFacts DEF CampInv, Apart
        <4>2. \A v \in Workers : worker'[v].job # j
          BY <1>1, <2>1, <4>1 DEF WorkerIs
        <4>3. ~Due(j)'
          BY <3>3, <4>1, <4>2, CampaignAssumption DEF Due, CampInv, TypeOK
        <4> QED BY <2>1, <4>3, BoundKept
      <3> QED BY <2>1, <2>3, <3>1, <3>2, <3>3
    <2> QED BY <2>2, <2>3
  <1> QED BY <1>2, <1>3, <1>4, <1>5 DEF CampInv

LEMMA ClaimKeeps ==
  ASSUME CampInv, NEW w \in Workers, Claim(w)
  PROVE  CampInv'
  <1>1. /\ TypeOK /\ worker[w] \in Worker /\ worker[w].pc = "idle" /\ worker[w].job = None
        /\ UNCHANGED <<db, queue, req, sends, bounds>>
    BY WorkerFacts DEF Claim, GoodWorker, Busy
  <1>2. PICK j \in worker[w].claims :
          worker' = [worker EXCEPT ![w].claims = @ \ {j},
                                   ![w].pc = IF j \in Abandoned THEN "load" ELSE @,
                                   ![w].job = IF j \in Abandoned THEN j ELSE @]
    BY DEF Claim
  <1>3. j \in Jobs /\ j # None
    BY <1>1, CampaignAssumption DEF Worker, Jobs
  <1> DEFINE new == [worker[w] EXCEPT !.claims = @ \ {j},
                                      !.pc = IF j \in Abandoned THEN "load" ELSE @,
                                      !.job = IF j \in Abandoned THEN j ELSE @]
  <1>4. /\ new \in Worker
        /\ new.pc = (IF j \in Abandoned THEN "load" ELSE "idle")
        /\ new.job = (IF j \in Abandoned THEN j ELSE None)
    BY <1>1, <1>3 DEF Worker
  <1>5. worker' = [worker EXCEPT ![w] = new]
    BY <1>1, <1>2 DEF TypeOK
  <1> HIDE DEF new
  <1>6. CASE j \in Abandoned
    <2>1. j \in pending /\ \A v \in Workers : worker[v].job # j
      BY <1>3, <1>6 DEF Abandoned, Handled
    <2>2. Due(j)
      BY <2>1 DEF Due
    <2>3. read' \in 0..Len(stream) /\ read' >= read /\ pending' = pending /\ pending \subseteq 1..read'
      BY <1>1 DEF queue, TypeOK
    <2> QED BY <1>1, <1>3, <1>4, <1>5, <1>6, <2>1, <2>2, <2>3, TakesJob DEF queue
  <1>7. CASE j \notin Abandoned
    <2>1. SentWasSent' /\ status' \in Status
          /\ recipient' \in [Recipients -> {"pending", "sent", "failed", "deleted"}]
      BY <1>1 DEF CampInv, SentWasSent, In, TypeOK, db, queue
    <2> QED BY <1>1, <1>4, <1>5, <1>7, <2>1, OnwardKeeps DEF Busy, Before, bounds
  <1> QED BY <1>6, <1>7

LEMMA ReadKeeps ==
  ASSUME CampInv, NEW w \in Workers, ReadGroup(w)
  PROVE  CampInv'
  <1>1. /\ TypeOK /\ worker[w] \in Worker /\ worker[w].pc = "idle" /\ worker[w].job = None
        /\ UNCHANGED <<db, stream, req, sends, bounds>>
    BY WorkerFacts DEF ReadGroup, GoodWorker, Busy
  <1> DEFINE j == read + 1
             new == [worker[w] EXCEPT !.pc = "load", !.job = j]
  <1>2. /\ read \in Nat /\ Len(stream) \in Nat /\ MaxJobs \in Nat /\ read < Len(stream)
        /\ Len(stream) <= MaxJobs /\ pending \subseteq 1..read
        /\ read' = j /\ pending' = pending \cup {j}
    BY <1>1, CampaignAssumption DEF ReadGroup, TypeOK
  <1>3. j \in Jobs /\ j \notin pending /\ j > read
    BY <1>2 DEF Jobs
  <1>4. \A v \in Workers : worker[v].job # j
    BY <1>3, WorkerFacts, CampaignAssumption DEF Jobs
  <1>5. new \in Worker /\ new.pc = "load" /\ new.job = j
    BY <1>1, <1>3 DEF Worker
  <1>6. worker' = [worker EXCEPT ![w] = new]
    BY <1>1 DEF ReadGroup, TypeOK
  <1>7. read' \in 0..Len(stream) /\ read' >= read /\ pending' \subseteq 1..read'
    BY <1>2
  <1>8. Due(j) /\ pending \subseteq pending' /\ pending' \subseteq pending \cup {j} /\ j \in pending'
    BY <1>2, <1>3 DEF Due
  <1> HIDE DEF j, new
  <1> QED BY <1>1, <1>3, <1>4, <1>5, <1>6, <1>7, <1>8, TakesJob

LEMMA SendKeeps ==
  ASSUME CampInv, NEW w \in Workers, SendTemplateMessage(w)
  PROVE  CampInv'
  <1>0. PICK j \in Jobs : j = worker[w].job
    BY WorkerFacts DEF SendTemplateMessage, Busy
  <1>1. /\ TypeOK /\ worker[w] \in Worker /\ worker[w].pc = "send" /\ GoodWorker(w)
        /\ j # None /\ j \in 1..read /\ j \in pending
        /\ \A v \in Workers : worker[v].job = j => v = w
        /\ UNCHANGED <<db, queue, req, bounds>>
    BY <1>0, WorkerFacts DEF SendTemplateMessage, Busy
  <1>2. PICK outcome \in {"sent", "failed"} :
          /\ worker' = [worker EXCEPT ![w].pc = "mark", ![w].outcome = outcome]
          /\ sends' = IF outcome = "sent" THEN [sends EXCEPT ![j] = @ + 1] ELSE sends
    BY <1>0 DEF SendTemplateMessage
  <1> DEFINE new == [worker[w] EXCEPT !.pc = "mark", !.outcome = outcome]
  <1>3. /\ new \in Worker /\ new.pc = "mark" /\ new.job = j /\ new.outcome = outcome
        /\ worker' = [worker EXCEPT ![w] = new]
    BY <1>0, <1>1, <1>2 DEF Worker, TypeOK
  <1> HIDE DEF new
  <1>4. WorkerIs(w, new) /\ worker' \in [Workers -> Worker]
    BY <1>3, WorkerBecomes
  <1>5. /\ sends' \in [Jobs -> Nat]
        /\ \A i \in Jobs : sends'[i] >= sends[i] /\ sends[i] \in Nat
        /\ \A i \in Jobs : i # j => sends'[i] = sends[i]
        /\ outcome = "sent" => sends'[j] = sends[j] + 1
        /\ outcome = "failed" => sends'[j] = sends[j]
    BY <1>1, <1>2 DEF TypeOK
  <1>6. TypeOK' /\ GoodRequests'
    BY <1>1, <1>4, <1>5 DEF CampInv, TypeOK, GoodRequests, db, queue, bounds
  <1>7. GoodWorkers'
    <2> SUFFICES ASSUME NEW v \in Workers PROVE GoodWorker(v)'
      BY DEF GoodWorkers
    <2>1. GoodWorker(v)
      BY DEF CampInv, GoodWorkers
    <2>2. CASE v = w
      BY <1>0, <1>1, <1>3, <1>4, <1>5, <2>2 DEF GoodWorker, WorkerIs, Busy, queue
    <2>3. CASE v # w
      <3>1. worker[v].job # None => worker[v].job \in Jobs
        BY WorkerFacts
      <3> QED BY <1>0, <1>1, <1>4, <1>5, <2>1, <2>3, <3>1 DEF GoodWorker, WorkerIs, queue, Busy
    <2> QED BY <2>2, <2>3
  <1>8. \A v \in Workers : worker'[v].job = worker[v].job
    BY <1>0, <1>3, <1>4 DEF WorkerIs
  <1>9. Apart'
    BY <1>8 DEF CampInv, Apart
  <1>10. SendsBounded'
    <2>1. crashes' = crashes /\ crashes \in Nat
      BY <1>1, CampaignAssumption DEF bounds, TypeOK
    <2>2. ASSUME NEW i \in Jobs, i # j PROVE Due(i)' => Due(i)
      BY <1>0, <1>1, <1>3, <1>4, <2>2, OthersDue DEF queue
    <2>3. Due(j)
      BY <1>0, <1>1 DEF Due, Before
    <2>4. ~Due(j)'
      <3>1. read' = read /\ read \in Nat /\ \A v \in Workers : worker'[v].job = j => v = w
        BY <1>0, <1>1, <1>8, CampaignAssumption DEF queue, TypeOK
      <3>2. ~(j > read') /\ worker'[w].job = j /\ worker'[w].pc = "mark"
        BY <1>1, <1>3, <1>4, <3>1 DEF WorkerIs
      <3> QED BY <3>1, <3>2 DEF Due, Before
    <2>5. sends'[j] + (IF Due(j)' THEN 1 ELSE 0) <= 1 + crashes'
      BY <1>1, <1>5, <2>1, <2>3, <2>4, BoundKept
    <2>6. ASSUME NEW i \in Jobs, i # j
          PROVE  sends'[i] + (IF Due(i)' THEN 1 ELSE 0) <= 1 + crashes'
      BY <1>5, <2>1, <2>2, <2>6, BoundKept
    <2> QED BY <2>5, <2>6 DEF SendsBounded
  <1>11. SentWasSent'
    <2> SUFFICES ASSUME NEW r \in Recipients, recipient'[r] = "sent"
                 PROVE  \E i \in DOMAIN stream' : stream'[i] = r /\ sends'[i] > 0
      BY DEF SentWasSent, In
    <2>1. stream' = stream /\ recipient' = recipient
      BY <1>1 DEF db, queue
    <2>2. PICK i \in DOMAIN stream : stream[i] = r /\ sends[i] > 0
      BY <2>1 DEF CampInv, SentWasSent, In
    <2>3. i \in Jobs
      BY <1>1, CampaignAssumption DEF TypeOK, Jobs
    <2> QED BY <1>5, <2>1, <2>2, <2>3
  <1> QED BY <1>6, <1>7, <1>9, <1>10, <1>11 DEF CampInv

LEMMA EndingKeeps ==
  ASSUME CampInv, NEW w \in Workers, LoadFails(w) \/ Acknowledge(w) \/ Crash(w)
  PROVE  CampInv'
  <1>1. TypeOK /\ worker[w] \in Worker /\ CampInv
    BY WorkerFacts
  <1>2. PICK new \in Worker :
          /\ worker' = [worker EXCEPT ![w] = new]
          /\ new.pc \in {"down", "idle"} /\ new.job = None
    <2>1. CASE Crash(w)
      <3>1. Stopped \in Worker /\ Stopped.pc = "down" /\ Stopped.job = None
        BY DEF Stopped, Worker
      <3> QED BY <2>1, <3>1 DEF Crash
    <2>2. CASE LoadFails(w) \/ Acknowledge(w)
      <3> DEFINE new == [worker[w] EXCEPT !.pc = "idle", !.job = None, !.outcome = "pending"]
      <3>1. new \in Worker /\ new.pc = "idle" /\ new.job = None
        BY <1>1 DEF Worker
      <3>2. worker' = [worker EXCEPT ![w] = new]
        BY <1>1, <2>2 DEF LoadFails, Acknowledge, Done, TypeOK
      <3> HIDE DEF new
      <3> QED BY <3>1, <3>2
    <2> QED BY <2>1, <2>2
  <1>3. /\ pending' \subseteq pending
        /\ \A j \in pending : j # worker[w].job => j \in pending'
        /\ \/ Crash(w) \/ worker[w].pc \in Before \/ worker[w].job \notin pending'
        /\ UNCHANGED <<db, stream, read, req, sends, begun>>
    BY DEF LoadFails, Acknowledge, Crash, queue, bounds, Before
  <1>4. crashes \in 0..MaxCrashes /\ dbErrors \in 0..MaxDbErrors
        /\ MaxCrashes \in Nat /\ MaxDbErrors \in Nat
    BY <1>1, CampaignAssumption DEF TypeOK
  <1>5. /\ crashes' \in 0..MaxCrashes /\ crashes' >= crashes
        /\ dbErrors' \in 0..MaxDbErrors /\ (Crash(w) => crashes' = crashes + 1)
    <2>1. CASE Crash(w)
      BY <1>4, <2>1 DEF Crash
    <2>2. CASE LoadFails(w) /\ ~Crash(w)
      BY <1>4, <2>2 DEF LoadFails
    <2>3. CASE Acknowledge(w) /\ ~Crash(w)
      BY <1>4, <2>3 DEF Acknowledge, bounds
    <2> QED BY <2>1, <2>2, <2>3
  <1> QED BY <1>1, <1>2, <1>3, <1>5, LeavesJob

-------------------------------------------------------------------------------
(* The theorem *)

LEMMA CampInit == Init => CampInv
  <1> SUFFICES ASSUME Init PROVE CampInv
    OBVIOUS
  <1>1. Stopped \in Worker /\ Stopped.pc = "down" /\ Stopped.job = None
    BY DEF Stopped, Worker
  <1>2. Free \in Request /\ Free.pc = "free"
    BY DEF Free, Request
  <1>3. /\ stream = <<>> /\ stream \in Seq(Recipients) /\ Len(stream) = 0 /\ read = 0
        /\ {MaxRequests, MaxJobs, MaxCrashes, MaxDbErrors} \subseteq Nat
    BY CampaignAssumption DEF Init
  <1>4. TypeOK
    BY <1>1, <1>2, <1>3 DEF Init, TypeOK, Status
  <1>5. GoodRequests /\ GoodWorkers /\ Apart /\ SentWasSent
    BY <1>1, <1>2 DEF Init, GoodRequests, GoodWorkers, GoodWorker, Apart, SentWasSent, In, Busy
  <1>6. SendsBounded
    BY DEF Init, SendsBounded
  <1> QED BY <1>4, <1>5, <1>6 DEF CampInv

LEMMA CampStep == CampInv /\ [Next]_vars => CampInv'
  <1> SUFFICES ASSUME CampInv, [Next]_vars PROVE CampInv'
    OBVIOUS
  <1>1. ASSUME NEW q \in Requests, Handler(q) \/ \E kind \in Kinds : Begin(q, kind)
        PROVE  CampInv'
    BY <1>1, RequestKeeps, EnqueueKeeps DEF Handler
  <1>2. ASSUME NEW w \in Workers, Work(w) \/ Crash(w)
        PROVE  CampInv'
    BY <1>2, StartKeeps, ClaimKeeps, ReadKeeps, HandlingKeeps, SendKeeps, EndingKeeps DEF Work
  <1>3. CASE UNCHANGED vars
    <2>1. UNCHANGED <<worker, read, pending, sends, crashes, stream, recipient, status, req,
                      begun, dbErrors>>
      BY <1>3 DEF vars, db, queue, bounds
    <2>2. TypeOK' /\ GoodRequests' /\ StreamGrows /\ NobodySent
      BY <2>1 DEF CampInv, TypeOK, GoodRequests, StreamGrows, NobodySent
    <2> QED BY <2>1, <2>2, QuietStep
  <1> QED BY <1>1, <1>2, <1>3 DEF Next

\* However the workers crash and take over each other's jobs, and whatever the handlers
\* do meanwhile, a delivery is sent once more than workers died at most, and a recipient
\* shown as sent was sent to (HandleRecipientJob, Consume, RetryFailed).
THEOREM SendsAreAccountedHolds == Spec => []SendsAreAccounted
  <1>1. CampInv => SendsAreAccounted
    <2> SUFFICES ASSUME CampInv PROVE SendsAreAccounted
      OBVIOUS
    <2>1. ASSUME NEW j \in Jobs PROVE sends[j] <= 1 + crashes
      <3>1. /\ sends[j] + (IF Due(j) THEN 1 ELSE 0) <= 1 + crashes
            /\ sends[j] \in Nat /\ crashes \in Nat
        BY CampaignAssumption DEF CampInv, SendsBounded, TypeOK
      <3> QED BY <3>1
    <2> QED BY <2>1 DEF CampInv, SendsAreAccounted, OneSendPerDelivery
  <1> QED BY <1>1, CampInit, CampStep, PTL DEF Spec

-------------------------------------------------------------------------------
(* Acknowledged is done *)

LEMMA DoneStays ==
  ASSUME CampInv, [Next]_vars, NEW j \in Jobs, j <= read, j \notin pending
  PROVE  j \notin pending' /\ sends'[j] = sends[j]
  <1>1. ASSUME NEW w \in Workers PROVE worker[w].job # j
    BY <1>1, WorkerFacts, CampaignAssumption DEF Jobs
  <1>2. ASSUME NEW q \in Requests, Handler(q) \/ \E kind \in Kinds : Begin(q, kind)
        PROVE  UNCHANGED <<pending, sends>>
    BY <1>2 DEF Handler, Begin, LoadRecipients, ResetFailed, DeleteRecipients, WriteStatus,
           Enqueue, EnqueueFails, RevertStatus, queue
  <1>3. ASSUME NEW w \in Workers, SendTemplateMessage(w)
        PROVE  pending' = pending /\ sends'[j] = sends[j]
    BY <1>1, <1>3 DEF SendTemplateMessage, queue, CampInv, TypeOK
  <1>4. ASSUME NEW w \in Workers, ReadGroup(w)
        PROVE  j \notin pending' /\ sends' = sends
    BY <1>4, CampaignAssumption DEF ReadGroup, CampInv, TypeOK, Jobs
  <1>5. ASSUME NEW w \in Workers, Work(w) \/ Crash(w), ~SendTemplateMessage(w), ~ReadGroup(w)
        PROVE  pending' \subseteq pending /\ sends' = sends
    BY <1>5 DEF Work, StartWorker, Claim, LoadCampaign, LoadFails, FailEarly,
           UpdateRecipientStatus, CountPending, ReloadCampaign, CompleteCampaign, Acknowledge,
           Crash, queue
  <1>6. CASE UNCHANGED vars
    BY <1>6 DEF vars, queue
  <1> QED BY <1>2, <1>3, <1>4, <1>5, <1>6 DEF Next

\* A job that was acknowledged is never sent, claimed or delivered again, whatever
\* crashes and restarts: the stream's group does not come back to it (Consume, XACK).
AcknowledgedIsDone ==
    [][\A j \in Jobs : j <= read /\ j \notin pending =>
         j \notin pending' /\ sends'[j] = sends[j]]_vars
THEOREM AcknowledgedStaysDone == Spec => AcknowledgedIsDone
  <1>1. CampInv /\ [Next]_vars =>
          [\A j \in Jobs : j <= read /\ j \notin pending =>
             j \notin pending' /\ sends'[j] = sends[j]]_vars
    BY DoneStays
  <1> QED BY <1>1, CampInit, CampStep, PTL DEF Spec, AcknowledgedIsDone
-------------------------------------------------------------------------------
(* A campaign that is sent *)

\* A job that will still be looked at: it is queued, or it is unacknowledged and
\* no worker is about to acknowledge it.
Live(j) ==
    \/ j > read
    \/ j \in pending /\ \A w \in Workers : worker[w].job = j => worker[w].pc # "ack"

\* A request has jobs to queue, or is about to take the campaign out of processing.
Queuing == \E q \in Requests : req[q].pc \in {"enqueue", "revert"}

\* Whoever is pending has a live job, and there is one even if nobody is: its worker
\* will see that the campaign is complete.
AllKept ==
    /\ \E j \in DOMAIN stream : Live(j)
    /\ \A r \in In("pending") : \E j \in DOMAIN stream : stream[j] = r /\ Live(j)

\* A request that starts the campaign holds everybody who is pending.
GoodStart(q) ==
    /\ req[q].kind # "retry"
    /\ req[q].pc \in {"enqueue", "revert"} => req[q].kind = "start"
    /\ req[q].kind = "start" /\ req[q].pc \in {"write", "enqueue"} =>
         In("pending") \subseteq req[q].todo /\ req[q].todo # {}

\* What a worker knows of the recipients after it has marked its own.
GoodCheck(w) ==
    /\ worker[w].pc # "optout"
    /\ worker[w].pc = "mark" => worker[w].outcome # "pending"
    /\ worker[w].pc \in {"count", "reload", "complete"} => recipient[For(w)] # "pending"
    /\ worker[w].pc \in {"reload", "complete"} => In("pending") = {}

StatusKept ==
    /\ status = "completed" => In("pending") = {}
    /\ status = "processing" => Queuing \/ AllKept

SendInv ==
    /\ \A q \in Requests : GoodStart(q)
    /\ \A w \in Workers : GoodCheck(w)
    /\ StatusKept

\* The list of EnqueueRecipients' pipeline leaves nobody out.
LEMMA SetToSeqCovers ==
  ASSUME NEW S \in SUBSET Recipients, NEW r \in S
  PROVE  \E i \in 1..Cardinality(S) : SetToSeq(S)[i] = r
  <1>1. IsFiniteSet(S)
    BY FS_Subset, CampaignAssumption
  <1>2. Cardinality(S) \in Nat /\ ExistsBijection(1..Cardinality(S), S)
    BY <1>1, FS_CardinalityType
  <1>3. PICK f \in [1..Cardinality(S) -> S] : IsInjective(f)
    BY <1>2 DEF ExistsBijection, Bijection, Injection, IsInjective
  <1> DEFINE g == SetToSeq(S)
  <1>4. g \in [1..Cardinality(S) -> S] /\ IsInjective(g)
    BY <1>3 DEF SetToSeq
  <1> HIDE DEF g
  <1>5. g \in Injection(1..Cardinality(S), S)
    BY <1>4 DEF Injection, IsInjective
  <1>6. Cardinality(1..Cardinality(S)) = Cardinality(S)
    BY <1>2, FS_Interval
  <1>7. g \in Surjection(1..Cardinality(S), S)
    BY <1>1, <1>5, <1>6, FS_Injection
  <1> QED BY <1>7 DEF Surjection, g

\* Nobody becomes pending.
NobodyPends == \A r \in Recipients : recipient'[r] = "pending" => recipient[r] = "pending"

\* What a step of request q has to keep.
LEMMA RequestSends ==
  ASSUME CampInv, CampInv', SendInv, NEW q \in Requests,
         \A p \in Requests : p # q => req'[p] = req[p],
         GoodStart(q)', StreamGrows, NobodyPends,
         UNCHANGED <<worker, read, pending>>,
         status' = "completed" => status = "completed",
         status' = "processing" =>
           \/ Queuing' \/ AllKept'
           \/ status = "processing" /\ req[q].pc \notin {"enqueue", "revert"}
  PROVE  SendInv'
  <1>1. In("pending")' \subseteq In("pending")
    BY DEF NobodyPends, In
  <1>2. \A p \in Requests : GoodStart(p)'
    <2> SUFFICES ASSUME NEW p \in Requests, p # q PROVE GoodStart(p)'
      OBVIOUS
    <2>1. GoodStart(p) /\ req'[p] = req[p]
      BY DEF SendInv
    <2> QED BY <1>1, <2>1 DEF GoodStart
  <1>3. DOMAIN stream = 1..Len(stream) /\ DOMAIN stream' = 1..Len(stream')
        /\ Len(stream) \in Nat /\ Len(stream') \in Nat
    BY DEF CampInv, TypeOK
  <1>4. \A w \in Workers : GoodCheck(w)'
    <2> SUFFICES ASSUME NEW w \in Workers PROVE GoodCheck(w)'
      OBVIOUS
    <2>1. GoodCheck(w)
      BY DEF SendInv
    <2>2. worker[w].pc \in Busy =>
            For(w) \in Recipients /\ worker[w].job \in 1..Len(stream)
      BY <1>3, WorkerFacts
    <2>3. worker[w].pc \in Busy => For(w)' = For(w)
      BY <2>2 DEF For, StreamGrows
    <2> QED BY <1>1, <2>1, <2>2, <2>3 DEF GoodCheck, NobodyPends, Busy
  <1>5. \A j \in DOMAIN stream : j \in DOMAIN stream' /\ stream'[j] = stream[j]
    BY <1>3 DEF StreamGrows
  <1>6. AllKept => AllKept'
    BY <1>1, <1>5 DEF AllKept, Live
  <1>7. Queuing /\ req[q].pc \notin {"enqueue", "revert"} => Queuing'
    BY DEF Queuing
  <1>8. StatusKept'
    BY <1>1, <1>6, <1>7 DEF SendInv, StatusKept
  <1> QED BY <1>2, <1>4, <1>8 DEF SendInv

\* The handlers that leave the stream alone.
LEMMA HandlerSends ==
  ASSUME CampInv, CampInv', SendInv, NEW q \in Requests,
         \/ \E kind \in Kinds : Begin(q, kind)
         \/ LoadRecipients(q) \/ ResetFailed(q) \/ DeleteRecipients(q)
         \/ WriteStatus(q) \/ RevertStatus(q),
         req'[q].kind # "retry"
  PROVE  SendInv'
  <1>1. UNCHANGED <<worker, stream, read, pending>> /\ StreamGrows
    BY DEF Begin, LoadRecipients, ResetFailed, DeleteRecipients, WriteStatus, RevertStatus,
           db, queue, CampInv, TypeOK, StreamGrows
  <1>2. req[q] \in Request /\ TypeOK /\ GoodStart(q) /\ (req[q].pc # "free" => req[q].kind \in Kinds)
        /\ StatusKept
    BY DEF CampInv, TypeOK, SendInv, GoodRequests
  <1>3. \A p \in Requests : p # q => req'[p] = req[p]
    BY <1>2 DEF Begin, LoadRecipients, ResetFailed, DeleteRecipients, WriteStatus, RevertStatus,
           TypeOK
  <1>4. CASE \E kind \in Kinds : Begin(q, kind)
    <2>1. PICK kind \in Kinds : Begin(q, kind)
      BY <1>4
    <2>2. /\ UNCHANGED <<status, recipient>> /\ req[q].pc = "free"
          /\ req'[q].pc \in {"load", "reset", "write"}
          /\ req'[q].kind = "start" => req'[q].pc = "load"
      BY <1>2, <2>1 DEF Begin, db, TypeOK
    <2>3. GoodStart(q)' /\ NobodyPends
      BY <2>2 DEF GoodStart, NobodyPends
    <2> QED BY <1>1, <1>3, <2>2, <2>3, RequestSends
  <1>5. CASE LoadRecipients(q)
    <2>1. req[q].kind = "start" \/ req[q].kind # "start"
      OBVIOUS
    <2>2. /\ UNCHANGED <<status, recipient>> /\ req[q].pc = "load"
          /\ \/ req'[q] = Free
             \/ /\ In("pending") # {} /\ req[q].kind = "start"
                /\ req'[q] = [req[q] EXCEPT !.todo = In("pending"), !.pc = "write"]
             \/ /\ req[q].kind # "start"
                /\ \E todo : req'[q] = [req[q] EXCEPT !.todo = todo, !.pc = "reset"]
      BY <1>2, <1>5 DEF LoadRecipients, db, TypeOK
    <2>3. CASE req'[q] = Free
      <3>1. GoodStart(q)'
        BY <2>3, CampaignAssumption DEF GoodStart, Free
      <3> QED BY <1>1, <1>3, <2>2, <3>1, RequestSends DEF NobodyPends
    <2>4. CASE /\ In("pending") # {} /\ req[q].kind = "start"
               /\ req'[q] = [req[q] EXCEPT !.todo = In("pending"), !.pc = "write"]
      <3>1. In("pending")' = In("pending")
        BY <2>2 DEF In
      <3>2. GoodStart(q)'
        BY <1>2, <2>4, <3>1 DEF GoodStart, Request
      <3> QED BY <1>1, <1>3, <2>2, <3>2, RequestSends DEF NobodyPends
    <2>5. CASE /\ req[q].kind # "start"
               /\ \E todo : req'[q] = [req[q] EXCEPT !.todo = todo, !.pc = "reset"]
      <3>1. GoodStart(q)'
        BY <1>2, <2>5 DEF GoodStart, Request
      <3> QED BY <1>1, <1>3, <2>2, <3>1, RequestSends DEF NobodyPends
    <2> QED BY <2>2, <2>3, <2>4, <2>5
  <1>6. CASE ResetFailed(q)
    BY <1>2, <1>6 DEF GoodStart, ResetFailed
  <1>7. CASE DeleteRecipients(q)
    <2>1. /\ UNCHANGED status /\ req[q].pc = "reset" /\ NobodyPends
          /\ req'[q] = [req[q] EXCEPT !.pc = "write"] /\ req[q].kind = "delete"
      BY <1>2, <1>7 DEF DeleteRecipients, NobodyPends, TypeOK
    <2>2. GoodStart(q)'
      BY <1>2, <2>1 DEF GoodStart, Request
    <2> QED BY <1>1, <1>3, <2>1, <2>2, RequestSends
  <1>8. CASE WriteStatus(q)
    <2>1. /\ UNCHANGED recipient /\ NobodyPends /\ req[q].pc = "write"
          /\ status' = (IF status = "deleted" THEN status ELSE Becomes(req[q].kind))
          /\ req[q].kind = "start" => req'[q] = [req[q] EXCEPT !.pc = "enqueue"]
          /\ req[q].kind # "start" => req'[q] = Free
      BY <1>2, <1>8 DEF WriteStatus, StatusWritten, NobodyPends, TypeOK, GoodStart
    <2>2. GoodStart(q)'
      BY <1>2, <2>1 DEF GoodStart, Request, Free, In
    <2>3. req[q].kind \in {"start", "pause", "cancel", "delete"}
      BY <1>2, <2>1, CampaignAssumption DEF GoodStart
    <2>4. status' # "completed" \/ status = "completed"
      BY <2>1, <2>3 DEF Becomes
    <2>5. status' = "processing" => Queuing'
      BY <1>2, <2>1, <2>3 DEF Becomes, Queuing, Request
    <2> QED BY <1>1, <1>3, <2>1, <2>2, <2>4, <2>5, RequestSends
  <1>9. CASE RevertStatus(q)
    <2>1. /\ UNCHANGED recipient /\ NobodyPends /\ req'[q] = Free
          /\ status' \in {"draft", "deleted"}
      BY <1>2, <1>9 DEF RevertStatus, StatusWritten, NobodyPends, TypeOK
    <2>2. GoodStart(q)'
      BY <1>2, <2>1, CampaignAssumption DEF GoodStart, Free
    <2> QED BY <1>1, <1>3, <2>1, <2>2, RequestSends
  <1> QED BY <1>4, <1>5, <1>6, <1>7, <1>8, <1>9

\* The pipeline queues a job for everybody who is pending, or breaks.
LEMMA EnqueueSends ==
  ASSUME CampInv, CampInv', SendInv, NEW q \in Requests, Enqueue(q) \/ EnqueueFails(q)
  PROVE  SendInv'
  <1>1. /\ UNCHANGED <<db, read, pending, worker>> /\ req[q] \in Request /\ TypeOK
        /\ req[q].pc = "enqueue" /\ GoodStart(q) /\ req[q].kind = "start"
        /\ req[q].todo \in SUBSET Recipients
    BY DEF Enqueue, EnqueueFails, CampInv, TypeOK, SendInv, GoodStart, Request
  <1>2. PICK done \in SUBSET req[q].todo :
          /\ stream' = stream \o SetToSeq(done)
          /\ Enqueue(q) => done = req[q].todo
    BY DEF Enqueue, EnqueueFails
  <1> DEFINE more == SetToSeq(done)
  <1>3. /\ more \in Seq(Recipients) /\ Len(more) = Cardinality(done)
        /\ \A r \in done : \E i \in 1..Len(more) : more[i] = r
    BY <1>1, SetToSeqType, SetToSeqCovers
  <1>4. stream \in Seq(Recipients) /\ stream' = stream \o more /\ Len(stream) \in Nat
    BY <1>1, <1>2 DEF TypeOK
  <1> HIDE DEF more
  <1>5. /\ Len(stream') = Len(stream) + Len(more) /\ StreamGrows
        /\ \A i \in 1..Len(more) : stream'[Len(stream) + i] = more[i]
        /\ DOMAIN stream' = 1..Len(stream')
    <2>1. Len(more) \in Nat /\ stream' \in Seq(Recipients)
      BY <1>3, <1>4
    <2>2. Len(stream') = Len(stream) + Len(more)
      BY <1>3, <1>4
    <2>3. \A i \in 1..Len(stream) : stream'[i] = stream[i]
      BY <1>3, <1>4
    <2>4. \A i \in 1..Len(more) : stream'[Len(stream) + i] = more[i]
      BY <1>3, <1>4
    <2> QED BY <1>4, <2>1, <2>2, <2>3, <2>4 DEF StreamGrows
  <1>6. \A r \in done : \E j \in DOMAIN stream' : stream'[j] = r /\ j > read'
    <2> SUFFICES ASSUME NEW r \in done
                 PROVE  \E j \in DOMAIN stream' : stream'[j] = r /\ j > read'
      OBVIOUS
    <2>1. PICK i \in 1..Len(more) : more[i] = r
      BY <1>3
    <2>2. read' \in 0..Len(stream) /\ Len(more) \in Nat
      BY <1>1, <1>3 DEF TypeOK
    <2>3. Len(stream) + i \in DOMAIN stream' /\ Len(stream) + i > read'
      BY <1>4, <1>5, <2>2
    <2> QED BY <1>5, <2>1, <2>3
  <1>7. UNCHANGED <<status, recipient>> /\ NobodyPends
    BY <1>1 DEF db, NobodyPends
  <1>8. \A p \in Requests : p # q => req'[p] = req[p]
    BY <1>1 DEF Enqueue, EnqueueFails, TypeOK
  <1>9. CASE Enqueue(q)
    <2>0. req'[q] = Free
      BY <1>1, <1>9 DEF Enqueue, TypeOK
    <2>1. GoodStart(q)'
      BY <2>0, CampaignAssumption DEF GoodStart, Free
    <2>2. In("pending")' \subseteq done /\ done # {}
      BY <1>1, <1>2, <1>7, <1>9 DEF GoodStart, In
    <2>3. AllKept'
      BY <1>6, <2>2 DEF AllKept, Live
    <2> QED BY <1>1, <1>5, <1>7, <1>8, <2>1, <2>3, RequestSends
  <1>10. CASE EnqueueFails(q)
    <2>1. req'[q] = [req[q] EXCEPT !.pc = "revert"]
      BY <1>1, <1>10 DEF EnqueueFails, TypeOK
    <2>2. GoodStart(q)' /\ Queuing'
      BY <1>1, <2>1 DEF GoodStart, Queuing, Request
    <2> QED BY <1>1, <1>5, <1>7, <1>8, <2>2, RequestSends
  <1> QED BY <1>9, <1>10

\* A live job goes on being live.
LiveStays == \A j \in DOMAIN stream : Live(j) => Live(j)'

\* What a step of worker w has to keep.
LEMMA WorkerSends ==
  ASSUME CampInv, CampInv', SendInv, NEW w \in Workers,
         \A v \in Workers : v # w => worker'[v] = worker[v],
         GoodCheck(w)', NobodyPends, UNCHANGED <<stream, req>>,
         status' = "completed" => In("pending") = {} \/ status = "completed",
         status' = "processing" =>
           /\ status = "processing"
           /\ \/ LiveStays
              \/ /\ In("pending")' # {}
                 /\ \A j \in DOMAIN stream :
                      stream[j] \in In("pending")' /\ Live(j) => Live(j)'
  PROVE  SendInv'
  <1>1. In("pending")' \subseteq In("pending")
    BY DEF NobodyPends, In
  <1>2. \A q \in Requests : GoodStart(q)'
    BY <1>1 DEF SendInv, GoodStart
  <1>3. \A v \in Workers : GoodCheck(v)'
    <2> SUFFICES ASSUME NEW v \in Workers, v # w PROVE GoodCheck(v)'
      OBVIOUS
    <2>1. GoodCheck(v) /\ worker'[v] = worker[v]
      BY DEF SendInv
    <2>2. worker[v].pc \in Busy => For(v) \in Recipients /\ For(v)' = For(v)
      BY <2>1, WorkerFacts DEF For
    <2> QED BY <1>1, <2>1, <2>2 DEF GoodCheck, NobodyPends, Busy
  <1>4. Queuing => Queuing'
    BY DEF Queuing
  <1>5. status' = "processing" /\ AllKept => AllKept'
    BY <1>1 DEF AllKept, LiveStays
  <1>6. StatusKept'
    BY <1>1, <1>4, <1>5 DEF SendInv, StatusKept
  <1> QED BY <1>2, <1>3, <1>6 DEF SendInv

\* A job stays live when its worker is not about to acknowledge it.
LEMMA StaysLive ==
  ASSUME NEW w \in Workers, \A v \in Workers : v # w => worker'[v] = worker[v],
         UNCHANGED <<stream, read, pending>>, worker'[w].pc # "ack"
  PROVE  LiveStays
  BY DEF LiveStays, Live

LEMMA TakingSends ==
  ASSUME CampInv, CampInv', SendInv, NEW w \in Workers,
         StartWorker(w) \/ Claim(w) \/ LoadFails(w) \/ Crash(w) \/ SendTemplateMessage(w)
  PROVE  SendInv'
  <1>1. worker[w] \in Worker /\ TypeOK
    BY WorkerFacts
  <1>2. UNCHANGED <<db, queue, req>> /\ \A v \in Workers : v # w => worker'[v] = worker[v]
    BY <1>1 DEF StartWorker, Claim, LoadFails, Crash, SendTemplateMessage, Done, TypeOK
  <1>3. /\ worker'[w].pc \in {"down", "idle", "load", "mark"}
        /\ worker'[w].pc = "mark" => worker'[w].outcome # "pending"
    <2>1. CASE StartWorker(w)
      BY <1>1, <2>1 DEF StartWorker, Stopped, TypeOK
    <2>2. CASE Claim(w)
      <3>1. PICK j \in worker[w].claims :
              worker' = [worker EXCEPT ![w].claims = @ \ {j},
                                       ![w].pc = IF j \in Abandoned THEN "load" ELSE @,
                                       ![w].job = IF j \in Abandoned THEN j ELSE @]
        BY <2>2 DEF Claim
      <3>2. worker'[w].pc = (IF j \in Abandoned THEN "load" ELSE "idle")
        BY <1>1, <2>2, <3>1 DEF TypeOK, Worker, Claim
      <3> QED BY <3>2
    <2>3. CASE LoadFails(w)
      BY <1>1, <2>3 DEF LoadFails, Done, TypeOK, Worker
    <2>4. CASE Crash(w)
      BY <1>1, <2>4 DEF Crash, Stopped, TypeOK
    <2>5. CASE SendTemplateMessage(w)
      BY <1>1, <2>5 DEF SendTemplateMessage, TypeOK, Worker
    <2> QED BY <2>1, <2>2, <2>3, <2>4, <2>5
  <1>4. GoodCheck(w)'
    BY <1>3 DEF GoodCheck
  <1>5. NobodyPends /\ LiveStays /\ status' = status
    BY <1>2, <1>3, StaysLive DEF NobodyPends, db, queue
  <1> QED BY <1>2, <1>4, <1>5, WorkerSends DEF queue

LEMMA ReadSends ==
  ASSUME CampInv, CampInv', SendInv, NEW w \in Workers, ReadGroup(w)
  PROVE  SendInv'
  <1>1. /\ worker[w] \in Worker /\ TypeOK /\ UNCHANGED <<db, stream, req>>
        /\ read' = read + 1 /\ pending' = pending \cup {read + 1} /\ read \in Nat
        /\ \A v \in Workers : v # w => worker'[v] = worker[v]
    BY WorkerFacts DEF ReadGroup, TypeOK
  <1>2. worker'[w].pc = "load" /\ GoodCheck(w)'
    BY <1>1 DEF ReadGroup, TypeOK, Worker, GoodCheck
  <1>3. LiveStays
    <2> SUFFICES ASSUME NEW j \in DOMAIN stream, Live(j) PROVE Live(j)'
      BY DEF LiveStays
    <2>1. j \in Nat
      BY <1>1 DEF TypeOK
    <2>2. CASE j > read + 1
      BY <1>1, <2>2 DEF Live
    <2>3. CASE j = read + 1
      <3>1. \A v \in Workers : worker[v].job # j
        BY <1>1, <2>3, WorkerFacts, CampaignAssumption
      <3> QED BY <1>1, <1>2, <2>3, <3>1 DEF Live
    <2>4. CASE j <= read
      BY <1>1, <1>2, <2>1, <2>4 DEF Live
    <2> QED BY <1>1, <2>1, <2>2, <2>3, <2>4
  <1> QED BY <1>1, <1>2, <1>3, WorkerSends DEF NobodyPends, db

LEMMA CheckSends ==
  ASSUME CampInv, CampInv', SendInv, NEW w \in Workers,
         \/ LoadCampaign(w) \/ UpdateRecipientStatus(w) \/ CountPending(w)
         \/ ReloadCampaign(w) \/ CompleteCampaign(w),
         worker'[w].pc # "optout"
  PROVE  SendInv'
  <1>1. /\ worker[w] \in Worker /\ TypeOK /\ UNCHANGED <<queue, req>> /\ GoodCheck(w)
        /\ worker[w].job \in DOMAIN stream /\ For(w) \in Recipients
    BY WorkerFacts DEF LoadCampaign, UpdateRecipientStatus, CountPending, ReloadCampaign,
           CompleteCampaign, SendInv, Busy
  <1>2. PICK pc : worker' = [worker EXCEPT ![w].pc = pc]
    BY DEF LoadCampaign, UpdateRecipientStatus, CountPending, ReloadCampaign, CompleteCampaign, To
  <1>3. /\ worker'[w].pc = pc /\ worker'[w].job = worker[w].job
        /\ worker'[w].outcome = worker[w].outcome
        /\ \A v \in Workers : v # w => worker'[v] = worker[v]
    BY <1>1, <1>2 DEF TypeOK, Worker
  <1>4. For(w)' = For(w) /\ UNCHANGED <<stream, read, pending>>
    BY <1>1, <1>3 DEF For, queue
  <1>5. pc # "ack" => LiveStays
    BY <1>3, <1>4, StaysLive
  <1>6. CASE LoadCampaign(w)
    <2>1. UNCHANGED <<status, recipient>> /\ (pc = "send" \/ (pc = "ack" /\ status # "processing"))
      BY <1>1, <1>3, <1>6 DEF LoadCampaign, AfterLoad, To, db, TypeOK, Worker
    <2>2. GoodCheck(w)' /\ NobodyPends
      BY <1>3, <2>1 DEF GoodCheck, NobodyPends
    <2> QED BY <1>3, <1>4, <1>5, <1>1, <2>1, <2>2, WorkerSends
  <1>7. CASE UpdateRecipientStatus(w)
    <2>1. UNCHANGED status /\ pc = "count" /\ recipient' = Marked(For(w), worker[w].outcome)
          /\ worker[w].outcome # "pending"
      BY <1>1, <1>3, <1>7 DEF UpdateRecipientStatus, To, TypeOK, Worker, GoodCheck
    <2>2. NobodyPends /\ recipient'[For(w)] # "pending"
      BY <1>1, <2>1 DEF Marked, NobodyPends, TypeOK
    <2>3. GoodCheck(w)'
      BY <1>3, <1>4, <2>1, <2>2 DEF GoodCheck
    <2> QED BY <1>1, <1>3, <1>4, <1>5, <2>1, <2>2, <2>3, WorkerSends
  <1>8. CASE CountPending(w)
    <2>1. /\ UNCHANGED <<status, recipient>> /\ recipient[For(w)] # "pending"
          /\ \/ pc = "reload" /\ In("pending") = {}
             \/ pc = "ack" /\ In("pending") # {}
      BY <1>1, <1>3, <1>8 DEF CountPending, NonePending, To, db, TypeOK, Worker, GoodCheck
    <2>2. GoodCheck(w)' /\ NobodyPends /\ In("pending")' = In("pending")
      BY <1>3, <1>4, <2>1 DEF GoodCheck, NobodyPends, In
    <2>3. \A j \in DOMAIN stream : stream[j] \in In("pending")' /\ Live(j) => Live(j)'
      <3> SUFFICES ASSUME NEW j \in DOMAIN stream, stream[j] \in In("pending"), Live(j)
                   PROVE  Live(j)'
        BY <2>2
      <3>1. j # worker[w].job
        BY <2>1 DEF For, In
      <3> QED BY <1>3, <1>4, <3>1 DEF Live
    <2> QED BY <1>1, <1>3, <1>4, <1>5, <2>1, <2>2, <2>3, WorkerSends
  <1>9. CASE ReloadCampaign(w)
    <2>1. /\ UNCHANGED <<status, recipient>>
          /\ recipient[For(w)] # "pending" /\ In("pending") = {}
          /\ pc = "complete" \/ (pc = "ack" /\ status # "processing")
      BY <1>1, <1>3, <1>9 DEF ReloadCampaign, To, db, TypeOK, Worker, GoodCheck
    <2>2. GoodCheck(w)' /\ NobodyPends
      BY <1>3, <1>4, <2>1 DEF GoodCheck, NobodyPends, In
    <2> QED BY <1>1, <1>3, <1>4, <1>5, <2>1, <2>2, WorkerSends
  <1>10. CASE CompleteCampaign(w)
    <2>1. /\ UNCHANGED recipient /\ In("pending") = {} /\ pc = "ack"
          /\ status' \in {"completed", "deleted"}
      BY <1>1, <1>3, <1>10 DEF CompleteCampaign, StatusWritten, To, TypeOK, Worker, GoodCheck
    <2>2. GoodCheck(w)' /\ NobodyPends
      BY <1>3, <2>1 DEF GoodCheck, NobodyPends
    <2> QED BY <1>1, <1>3, <1>4, <2>1, <2>2, WorkerSends
  <1> QED BY <1>6, <1>7, <1>8, <1>9, <1>10

LEMMA AcknowledgeSends ==
  ASSUME CampInv, CampInv', SendInv, NEW w \in Workers, Acknowledge(w)
  PROVE  SendInv'
  <1>1. /\ worker[w] \in Worker /\ TypeOK /\ UNCHANGED <<db, stream, read, req>>
        /\ pending' = pending \ {worker[w].job} /\ worker[w].job \in 1..read
        /\ \A v \in Workers : v # w => worker'[v] = worker[v]
    BY WorkerFacts DEF Acknowledge, Done, TypeOK, Busy
  <1>2. worker'[w].pc = "idle" /\ GoodCheck(w)'
    BY <1>1 DEF Acknowledge, Done, TypeOK, Worker, GoodCheck
  <1>3. ~Live(worker[w].job)
    BY <1>1 DEF Live, Acknowledge, TypeOK
  <1>4. LiveStays
    BY <1>1, <1>2, <1>3 DEF LiveStays, Live
  <1> QED BY <1>1, <1>2, <1>4, WorkerSends DEF NobodyPends, db

LEMMA SendInit == Init => SendInv
  <1> SUFFICES ASSUME Init PROVE SendInv
    OBVIOUS
  <1>1. ASSUME NEW q \in Requests PROVE GoodStart(q)
    <2>1. req[q].kind = None /\ req[q].pc = "free"
      BY DEF Init, Free
    <2> QED BY <2>1, CampaignAssumption DEF GoodStart
  <1>2. ASSUME NEW w \in Workers PROVE GoodCheck(w)
    <2>1. worker[w].pc = "down"
      BY DEF Init, Stopped
    <2> QED BY <2>1 DEF GoodCheck
  <1>3. StatusKept
    BY DEF Init, StatusKept
  <1> QED BY <1>1, <1>2, <1>3 DEF SendInv

LEMMA SendStep ==
  ASSUME CampInv, CampInv', SendInv, SendingNext
  PROVE  SendInv'
  <1>1. ASSUME NEW q \in Requests, Handler(q) \/ \E kind \in Kinds : Begin(q, kind)
        PROVE  SendInv'
    BY <1>1, HandlerSends, EnqueueSends DEF Handler, SendingNext
  <1>2. ASSUME NEW w \in Workers, Work(w) \/ Crash(w)
        PROVE  SendInv'
    <2>1. ~FailEarly(w) /\ worker'[w].pc # "optout"
      BY DEF FailEarly, SendInv, GoodCheck, SendingNext
    <2> QED BY <1>2, <2>1, TakingSends, ReadSends, CheckSends, AcknowledgeSends DEF Work
  <1> QED BY <1>1, <1>2 DEF SendingNext, Next

WorkersInv == CampInv /\ (focus = "sending" => SendInv)

LEMMA WorkersInitial == WorkersInit => WorkersInv
  BY CampInit, SendInit DEF WorkersInit, WorkersInv

LEMMA WorkersStep == WorkersInv /\ [WorkersNext]_workersVars => WorkersInv'
  <1> SUFFICES ASSUME WorkersInv, [WorkersNext]_workersVars PROVE WorkersInv'
    OBVIOUS
  <1>1. focus' = focus /\ [Next]_vars
    BY DEF WorkersNext, workersVars, SendingNext
  <1>2. CampInv'
    BY <1>1, CampStep DEF WorkersInv
  <1>3. ASSUME focus = "sending" PROVE SendInv'
    <2>1. CASE SendingNext
      BY <1>2, <1>3, <2>1, SendStep DEF WorkersInv
    <2>2. CASE UNCHANGED vars
      <3>1. UNCHANGED <<status, recipient, stream, read, pending, worker, req>>
        BY <2>2 DEF vars, db, queue
      <3> QED BY <1>3, <3>1
           DEF WorkersInv, SendInv, GoodStart, GoodCheck, StatusKept, AllKept, Live, Queuing,
               In, For
    <2> QED BY <1>3, <2>1, <2>2 DEF WorkersNext, workersVars
  <1> QED BY <1>1, <1>2, <1>3 DEF WorkersInv

\* However starts, pauses, cancellations, deletions, crashes and redeliveries interleave,
\* a recipient that is still pending in a running campaign has a job that a worker will
\* look at (StartCampaign, EnqueueRecipients, Consume, HandleRecipientJob).
THEOREM NobodyIsForgotten == WorkersSpec => []PendingKeepsJob
  <1>1. WorkersInv => PendingKeepsJob
    <2> SUFFICES ASSUME SendInv PROVE PendingHasJob
      BY DEF WorkersInv, PendingKeepsJob
    <2> QED BY DEF SendInv, StatusKept, AllKept, Live, Queuing, PendingHasJob
  <1> QED BY <1>1, WorkersInitial, WorkersStep, PTL DEF WorkersSpec

\* A campaign is completed only when it has processed everybody, and whoever saw it
\* processed, or crashed before seeing it, leaves it to a later look: it is not at rest
\* in processing (checkCampaignCompletion, EnqueueRecipients, Consume).
THEOREM CampaignEndsInTime == WorkersSpec => []CompletionIsExact
  <1>1. WorkersInv => CompletionIsExact
    <2> SUFFICES ASSUME CampInv, SendInv PROVE CompletedMeansProcessed /\ FinishedIsCompleted
      BY DEF WorkersInv, CompletionIsExact
    <2>1. CompletedMeansProcessed
      BY DEF SendInv, StatusKept, CompletedMeansProcessed
    <2>2. ASSUME Idle, status = "processing" PROVE FALSE
      <3>1. PICK j \in DOMAIN stream : Live(j)
        BY <2>2 DEF SendInv, StatusKept, AllKept, Queuing, Idle
      <3>2. j \in 1..Len(stream) /\ read = Len(stream) /\ Len(stream) \in Nat
        BY <2>2 DEF CampInv, TypeOK, Idle
      <3> QED BY <2>2, <3>1, <3>2 DEF Live, Idle
    <2> QED BY <2>1, <2>2 DEF FinishedIsCompleted
  <1> QED BY <1>1, WorkersInitial, WorkersStep, PTL DEF WorkersSpec

-------------------------------------------------------------------------------
(* Confirmation: the inductive invariant *)

\* The customer's tap was accepted, and no later state takes that back.
Authorized(c) ==
    /\ c \in Confs
    /\ conf[c].status \in Outcomes \cup {"confirmed"} /\ conf[c].confirmed # Nil

\* The steps of a thread that carries out, or reconciles, an authorized confirmation.
Executing == {"request", "look", "insert", "finish", "get", "find", "conclude"}

\* A thread acts only on what was authorized; one that is about to report a
\* transfer has one to report, and one about to insert it will be found by it.
GoodThread(t) ==
    /\ thread[t].pc \in {"authorize", "check", "close", "confirm"} => thread[t].conf \in Confs
    /\ thread[t].pc = "close" =>
         thread[t].end \in {"expired", "declined", "denied", "not_executed"}
    /\ thread[t].pc \in Executing => Authorized(thread[t].conf)
    /\ thread[t].pc = "insert" => thread[t].conf \in thread[t].since
    /\ thread[t].pc \in {"finish", "conclude"} => thread[t].end \in Outcomes
    /\ thread[t].pc \in {"finish", "conclude"} /\ thread[t].end = "executed" =>
         FindAITransfer(thread[t].conf)
    /\ \A c \in thread[t].todo : Authorized(c)
GoodThreads == \A t \in Threads : GoodThread(t)

ConfirmedHasTime == \A c \in Confs : conf[c].status = "confirmed" => conf[c].confirmed # Nil

\* A transfer is created once, and by an authorized confirmation if by one at all.
GoodTransfers ==
    \A x \in Transfers :
        /\ transfer[x].status = "unused" => transfer[x].by = Nil
        /\ transfer[x].by # Nil => Authorized(transfer[x].by)

\* The types but for the bound on the attempts, which has an argument of its own.
RowType ==
    [status : Closed \cup {"unused", "pending", "confirmed"},
     proposed : Ages \cup {Nil}, confirmed : Ages \cup {Nil}, finished : Ages \cup {Nil},
     claimed : Ages \cup {Nil}, attempts : Nat]
Types ==
    /\ conf \in [Confs -> RowType]
    /\ transfer \in [Transfers -> AgentTransfer]
    /\ thread \in [Threads -> Thread]
    /\ enabled \in BOOLEAN /\ open \in BOOLEAN
    /\ told \in [Confs -> Nat]
    /\ outages \in 0..MaxOutages

ActsInv == Types /\ GoodThreads /\ ConfirmedHasTime /\ GoodTransfers /\ ExecutedIsTrue

-------------------------------------------------------------------------------
(* Ages *)

LEMMA OldIsNat == Old \in Nat /\ Old > MinAge
  <1> DEFINE S == {TTL, MinAge, Window, Cooldown}
             Highest(n) == n \in S /\ \A m \in S : m <= n
  <1>1. \E n : Highest(n)
    BY ConfirmationAssumption
  <1>2. Highest(CHOOSE n \in S : \A m \in S : m <= n)
    BY <1>1
  <1>3. (CHOOSE n \in S : \A m \in S : m <= n) \in Nat
    BY <1>2, ConfirmationAssumption
  <1> QED BY <1>2, <1>3, ConfirmationAssumption DEF Old

LEMMA OlderAge ==
  ASSUME NEW age \in Ages \cup {Nil}
  PROVE  Older(age) \in Ages \cup {Nil} /\ (Older(age) = Nil <=> age = Nil)
  <1>1. CASE age = Nil \/ age = Old
    BY <1>1 DEF Older
  <1>2. CASE age # Nil /\ age # Old
    <2> HIDE DEF Old
    <2>1. age \in 0..Old /\ Older(age) = age + 1
      BY <1>2 DEF Older, Ages
    <2>2. age + 1 \in 0..Old
      BY <1>2, <2>1, OldIsNat
    <2> QED BY <2>1, <2>2, <1>2, ConfirmationAssumption DEF Ages
  <1> QED BY <1>1, <1>2

-------------------------------------------------------------------------------
(* How a step moves a confirmation and a thread *)

Kept(c) == conf'[c].status = conf[c].status /\ (conf'[c].confirmed = Nil <=> conf[c].confirmed = Nil)
Proposed(c) == conf[c].status = "unused" /\ conf'[c].status = "pending"
LeavesPending(c) ==
    /\ conf[c].status = "pending"
    /\ \/ conf'[c].status \in {"superseded", "expired", "declined", "denied", "not_executed"}
       \/ conf'[c].status = "confirmed" /\ conf'[c].confirmed # Nil
LeavesConfirmed(c) ==
    /\ conf[c].status = "confirmed" /\ conf'[c].status \in Outcomes
    /\ conf'[c].confirmed = conf[c].confirmed
    /\ conf'[c].status = "executed" => FindAITransfer(c)
RowMoves ==
    \A c \in Confs : Kept(c) \/ Proposed(c) \/ LeavesPending(c) \/ LeavesConfirmed(c)

\* A transfer that was created stays, with what it says of its creation.
TransfersStay ==
    \A x \in Transfers :
        transfer[x].status # "unused" =>
            /\ transfer'[x].status # "unused"
            /\ transfer'[x].by = transfer[x].by /\ transfer'[x].after = transfer[x].after

\* What holds of the next state, of a confirmation named in this one.
AuthorizedNext(c) ==
    /\ c \in Confs
    /\ conf'[c].status \in Outcomes \cup {"confirmed"} /\ conf'[c].confirmed # Nil
FoundNext(c) == \E x \in Transfers : transfer'[x].by # Nil /\ c \in transfer'[x].after

LEMMA AuthorizedStays ==
  ASSUME RowMoves, NEW c, Authorized(c)
  PROVE  AuthorizedNext(c)
  BY DEF RowMoves, Authorized, AuthorizedNext, Kept, Proposed, LeavesPending, LeavesConfirmed, Outcomes

LEMMA TransferIsFound ==
  ASSUME GoodTransfers, TransfersStay, NEW c, FindAITransfer(c)
  PROVE  FoundNext(c)
  BY DEF FindAITransfer, FoundNext, GoodTransfers, TransfersStay

\* A thread that did not move, or went back to rest with no new rows, is still good.
LEMMA ThreadStays ==
  ASSUME GoodTransfers, RowMoves, TransfersStay, NEW t \in Threads, GoodThread(t),
         \/ thread'[t] = thread[t]
         \/ thread'[t].pc = "idle" /\ thread'[t].todo \subseteq thread[t].todo
  PROVE  GoodThread(t)'
  <1>1. \A c \in thread[t].todo : AuthorizedNext(c)
    BY AuthorizedStays DEF GoodThread
  <1>2. \A c \in thread'[t].todo : AuthorizedNext(c)
    BY <1>1
  <1>3. CASE thread'[t].pc = "idle"
    BY <1>2, <1>3 DEF GoodThread, Executing, Authorized, AuthorizedNext
  <1>4. CASE thread'[t] = thread[t]
    <2>1. thread[t].pc \in Executing => AuthorizedNext(thread[t].conf)
      BY AuthorizedStays DEF GoodThread
    <2>2. (thread[t].pc \in {"finish", "conclude"} /\ thread[t].end = "executed")
             => FoundNext(thread[t].conf)
      BY TransferIsFound DEF GoodThread
    <2>3. thread[t].pc \in Executing => AuthorizedNext(thread[t].conf)
      BY <2>1
    <2> QED BY <1>2, <1>4, <2>2, <2>3 DEF GoodThread, Authorized, AuthorizedNext, FindAITransfer, FoundNext
  <1> QED BY <1>3, <1>4

\* What the thread of a step must satisfy for the invariant to go on holding.
LEMMA InvariantGoesOn ==
  ASSUME ActsInv, Types', RowMoves, TransfersStay,
         \A t \in Threads : thread'[t] = thread[t] \/ GoodThread(t)'
            \/ (thread'[t].pc = "idle" /\ thread'[t].todo \subseteq thread[t].todo),
         \A x \in Transfers : transfer'[x].by # transfer[x].by => AuthorizedNext(transfer'[x].by),
         \A x \in Transfers : transfer'[x].status = "unused" => transfer'[x] = transfer[x]
  PROVE  ActsInv'
  <1>1. GoodThreads'
    BY ThreadStays DEF ActsInv, GoodThreads
  <1>2. ConfirmedHasTime'
    BY DEF ActsInv, ConfirmedHasTime, RowMoves, Kept, Proposed, LeavesPending, LeavesConfirmed, Outcomes
  <1>3. GoodTransfers'
    <2> SUFFICES ASSUME NEW x \in Transfers
                 PROVE  /\ transfer'[x].status = "unused" => transfer'[x].by = Nil
                        /\ transfer'[x].by # Nil => AuthorizedNext(transfer'[x].by)
      BY DEF GoodTransfers, Authorized, AuthorizedNext
    <2>1. transfer'[x].by # Nil => AuthorizedNext(transfer'[x].by)
      BY AuthorizedStays DEF ActsInv, GoodTransfers
    <2> QED BY <2>1 DEF ActsInv, GoodTransfers
  <1>4. ExecutedIsTrue'
    <2> SUFFICES ASSUME NEW c \in Confs, conf'[c].status = "executed"
                 PROVE  FoundNext(c)
      BY DEF ExecutedIsTrue, FindAITransfer, FoundNext
    <2>1. FindAITransfer(c)
      BY DEF ActsInv, ExecutedIsTrue, RowMoves, Kept, Proposed, LeavesPending, LeavesConfirmed
    <2> QED BY <2>1, TransferIsFound DEF ActsInv
  <1> QED BY <1>1, <1>2, <1>3, <1>4 DEF ActsInv

-------------------------------------------------------------------------------
(* The parts steps are built from *)

PCs == {"idle", "authorize", "check", "close", "confirm", "request", "look", "insert",
        "finish", "get", "find", "conclude"}

\* One thread moves to a new state.
ThreadBecomes(t, new) ==
    /\ thread' \in [Threads -> Thread] /\ thread'[t] = new
    /\ \A u \in Threads : u # t => thread'[u] = thread[u]

LEMMA GoMoves ==
  ASSUME Types, NEW t \in Threads, NEW pc \in PCs, Go(t, pc)
  PROVE  ThreadBecomes(t, [thread[t] EXCEPT !.pc = pc])
  <1>1. thread[t] \in Thread /\ [thread[t] EXCEPT !.pc = pc] \in Thread
    BY DEF Types, Thread, PCs
  <1> QED BY <1>1 DEF Types, Go, ThreadBecomes

LEMMA GoEndMoves ==
  ASSUME Types, NEW t \in Threads, NEW pc \in PCs, NEW end \in Closed, GoEnd(t, pc, end)
  PROVE  ThreadBecomes(t, [thread[t] EXCEPT !.pc = pc, !.end = end, !.since = {}])
  <1>1. thread[t] \in Thread /\ [thread[t] EXCEPT !.pc = pc, !.end = end, !.since = {}] \in Thread
    BY DEF Types, Thread, PCs
  <1>2. thread' = [thread EXCEPT ![t] = [thread[t] EXCEPT !.pc = pc, !.end = end, !.since = {}]]
    BY DEF Types, GoEnd
  <1> QED BY <1>1, <1>2 DEF Types, ThreadBecomes

LEMMA RestMoves ==
  ASSUME Types, NEW t \in Threads, Rest(t)
  PROVE  ThreadBecomes(t, [thread[t] EXCEPT !.pc = "idle", !.conf = Nil, !.end = Nil])
  <1>1. thread[t] \in Thread
        /\ [thread[t] EXCEPT !.pc = "idle", !.conf = Nil, !.end = Nil] \in Thread
    BY DEF Types, Thread
  <1>2. thread' = [thread EXCEPT ![t] = [thread[t] EXCEPT !.pc = "idle", !.conf = Nil, !.end = Nil]]
    BY DEF Types, Rest
  <1> QED BY <1>1, <1>2 DEF Types, ThreadBecomes

LEMMA ClosingRow ==
  ASSUME Types, NEW c \in Confs, NEW end \in Closed
  PROVE  /\ Closing(c, end) \in RowType
         /\ Closing(c, end).status = end /\ Closing(c, end).confirmed = conf[c].confirmed
  <1>1. conf[c] \in RowType /\ 0 \in Ages
    BY OldIsNat DEF Types, Ages
  <1> QED BY <1>1 DEF Closing, RowType

LEMMA TransitionMoves ==
  ASSUME Types, NEW c \in Confs, NEW from \in {"pending", "confirmed"}, NEW row \in RowType,
         Transition(c, from, row),
         from = "pending" =>
            \/ row.status \in {"superseded", "expired", "declined", "denied", "not_executed"}
            \/ row.status = "confirmed" /\ row.confirmed # Nil,
         from = "confirmed" =>
            /\ row.status \in Outcomes /\ row.confirmed = conf[c].confirmed
            /\ row.status = "executed" => FindAITransfer(c)
  PROVE  RowMoves /\ conf' \in [Confs -> RowType]
  <1>1. CASE Wins(c, from)
    <2>1. conf' = [conf EXCEPT ![c] = row] /\ conf[c].status = from
      BY <1>1 DEF Transition, Wins
    <2>2. conf'[c] = row /\ \A d \in Confs : d # c => conf'[d] = conf[d]
      BY <2>1 DEF Types
    <2> QED BY <2>1, <2>2 DEF Types, RowMoves, Kept, LeavesPending, LeavesConfirmed
  <1>2. CASE ~Wins(c, from)
    BY <1>2 DEF Transition, Types, RowMoves, Kept
  <1> QED BY <1>1, <1>2

LEMMA NothingMoves ==
  ASSUME conf' = conf
  PROVE  RowMoves
  BY DEF RowMoves, Kept

\* A step of one thread that leaves the transfers alone.
LEMMA StepKeeps ==
  ASSUME ActsInv, NEW t \in Threads, NEW new, ThreadBecomes(t, new),
         RowMoves, conf' \in [Confs -> RowType],
         UNCHANGED <<transfer, enabled, open, outages>>, told' \in [Confs -> Nat],
         GoodThread(t)' \/ (new.pc = "idle" /\ new.todo \subseteq thread[t].todo)
  PROVE  ActsInv'
  <1>1. Types'
    BY DEF ActsInv, Types, ThreadBecomes
  <1>2. TransfersStay
    BY DEF TransfersStay
  <1> QED BY <1>1, <1>2, InvariantGoesOn DEF ThreadBecomes

\* What is left to show of a thread that goes on with the rows it had listed.
LEMMA GoodAgain ==
  ASSUME ActsInv, RowMoves, NEW t \in Threads, NEW new, ThreadBecomes(t, new),
         new.todo \subseteq thread[t].todo,
         new.pc \in {"authorize", "check", "close", "confirm"} => new.conf \in Confs,
         new.pc = "close" => new.end \in {"expired", "declined", "denied", "not_executed"},
         new.pc \in Executing => AuthorizedNext(new.conf),
         new.pc = "insert" => new.conf \in new.since,
         new.pc \in {"finish", "conclude"} => new.end \in Outcomes,
         (new.pc \in {"finish", "conclude"} /\ new.end = "executed") => FoundNext(new.conf)
  PROVE  GoodThread(t)'
  <1>1. \A c \in new.todo : AuthorizedNext(c)
    BY AuthorizedStays DEF ActsInv, GoodThreads, GoodThread
  <1>2. thread'[t] = new
    BY DEF ThreadBecomes
  <1> QED BY <1>1, <1>2 DEF GoodThread, Authorized, AuthorizedNext, FindAITransfer, FoundNext

-------------------------------------------------------------------------------
(* HandleTap *)

LEMMA TapKeeps ==
  ASSUME ActsInv, NEW t \in Threads, NEW c \in Confs, NEW decline \in BOOLEAN, Tap(t, c, decline)
  PROVE  ActsInv'
  <1> DEFINE pc == IF conf[c].proposed >= TTL \/ decline THEN "close" ELSE "authorize"
             end == IF conf[c].proposed >= TTL THEN "expired" ELSE IF decline THEN "declined" ELSE Nil
             new == [NoThread EXCEPT !.conf = c, !.pc = pc, !.end = end]
  <1>1. /\ pc \in {"close", "authorize"} /\ end \in {"expired", "declined", Nil}
        /\ pc = "close" => end \in {"expired", "declined"}
    OBVIOUS
  <1>2. thread' = [thread EXCEPT ![t] = new]
    BY DEF Tap
  <1>3. UNCHANGED <<conf, transfer, enabled, open, told, outages>>
    BY DEF Tap
  <1> HIDE DEF pc, end
  <1>4. new \in Thread /\ new.pc = pc /\ new.end = end /\ new.conf = c /\ new.todo = {}
    BY <1>1 DEF NoThread, Thread, Closed, Outcomes
  <1> HIDE DEF new
  <1>5. ThreadBecomes(t, new)
    BY <1>2, <1>4 DEF ThreadBecomes, ActsInv, Types
  <1>6. RowMoves
    BY <1>3, NothingMoves
  <1>7. GoodThread(t)'
    BY <1>1, <1>4, <1>5, <1>6, GoodAgain DEF Executing
  <1> QED BY <1>3, <1>5, <1>6, <1>7, StepKeeps DEF ActsInv, Types

LEMMA CheckKeeps ==
  ASSUME ActsInv, NEW t \in Threads, Reauthorize(t) \/ CheckTransfer(t)
  PROVE  ActsInv'
  <1>1. UNCHANGED <<conf, transfer, enabled, open, told, outages>>
    BY DEF Reauthorize, CheckTransfer
  <1>2. RowMoves
    BY <1>1, NothingMoves
  <1>3. thread[t] \in Thread /\ thread[t].conf \in Confs
    BY DEF ActsInv, Types, GoodThreads, GoodThread, At, Reauthorize, CheckTransfer
  <1>4. ASSUME NEW pc \in {"check", "confirm"}, Go(t, pc)
        PROVE  ActsInv'
    <2> DEFINE new == [thread[t] EXCEPT !.pc = pc]
    <2>1. ThreadBecomes(t, new)
      BY <1>4, GoMoves DEF ActsInv, PCs
    <2>2. new.pc = pc /\ new.conf = thread[t].conf /\ new.todo = thread[t].todo
      BY <1>3 DEF Thread
    <2> HIDE DEF new
    <2>3. GoodThread(t)'
      BY <1>2, <1>3, <2>1, <2>2, GoodAgain DEF Executing
    <2> QED BY <1>1, <1>2, <2>1, <2>3, StepKeeps DEF ActsInv, Types
  <1>5. ASSUME NEW end \in {"denied", "not_executed"}, GoEnd(t, "close", end)
        PROVE  ActsInv'
    <2> DEFINE new == [thread[t] EXCEPT !.pc = "close", !.end = end, !.since = {}]
    <2>1. ThreadBecomes(t, new)
      BY <1>5, GoEndMoves DEF ActsInv, PCs, Closed, Outcomes
    <2>2. new.pc = "close" /\ new.end = end /\ new.conf = thread[t].conf /\ new.todo = thread[t].todo
      BY <1>3 DEF Thread
    <2> HIDE DEF new
    <2>3. GoodThread(t)'
      BY <1>2, <1>3, <2>1, <2>2, GoodAgain DEF Executing
    <2> QED BY <1>1, <1>2, <2>1, <2>3, StepKeeps DEF ActsInv, Types
  <1> QED BY <1>4, <1>5 DEF Reauthorize, CheckTransfer

LEMMA ClosePendingKeeps ==
  ASSUME ActsInv, NEW t \in Threads, ClosePending(t)
  PROVE  ActsInv'
  <1> DEFINE c == thread[t].conf
             end == thread[t].end
             new == [thread[t] EXCEPT !.pc = "idle", !.conf = Nil, !.end = Nil]
  <1>1. c \in Confs /\ end \in {"expired", "declined", "denied", "not_executed"}
    BY DEF ActsInv, GoodThreads, GoodThread, At, ClosePending
  <1>2. /\ Transition(c, "pending", Closing(c, end)) /\ Rest(t)
        /\ UNCHANGED <<transfer, enabled, open, outages>>
        /\ Tell(c) \/ UNCHANGED told
    BY DEF ClosePending
  <1>3. told' \in [Confs -> Nat]
    BY <1>1, <1>2 DEF Tell, ActsInv, Types
  <1>4. ThreadBecomes(t, new)
    BY <1>2, RestMoves DEF ActsInv
  <1>5. new.pc = "idle" /\ new.todo \subseteq thread[t].todo
    BY DEF ActsInv, Types, Thread
  <1> HIDE DEF c, end, new
  <1>6. RowMoves /\ conf' \in [Confs -> RowType]
    BY <1>1, <1>2, ClosingRow, TransitionMoves DEF ActsInv, Closed, Outcomes
  <1> QED BY <1>2, <1>3, <1>4, <1>5, <1>6, StepKeeps

LEMMA ConfirmKeeps ==
  ASSUME ActsInv, NEW t \in Threads, Confirm(t)
  PROVE  ActsInv'
  <1> DEFINE c == thread[t].conf
             row == [conf[c] EXCEPT !.status = "confirmed", !.confirmed = 0]
  <1>1. c \in Confs /\ thread[t] \in Thread
    BY DEF ActsInv, GoodThreads, GoodThread, At, Confirm, Types
  <1>2. UNCHANGED <<transfer, enabled, open, told, outages>> /\ Transition(c, "pending", row)
    BY DEF Confirm
  <1>3. row \in RowType /\ row.status = "confirmed" /\ row.confirmed = 0
    <2>1. conf[c] \in RowType /\ 0 \in Ages
      BY <1>1, OldIsNat DEF ActsInv, Types, Ages
    <2> QED BY <2>1 DEF RowType
  <1>4. 0 # Nil
    BY ConfirmationAssumption
  <1>5. RowMoves /\ conf' \in [Confs -> RowType]
    <2> HIDE DEF row
    <2> QED BY <1>1, <1>2, <1>3, <1>4, TransitionMoves DEF ActsInv
  <1>6. CASE Wins(c, "pending")
    <2> DEFINE new == [thread[t] EXCEPT !.pc = "request"]
    <2>1. Go(t, "request") /\ conf' = [conf EXCEPT ![c] = row]
      BY <1>2, <1>6 DEF Confirm, Transition
    <2>2. ThreadBecomes(t, new)
      BY <2>1, GoMoves DEF ActsInv, PCs
    <2>3. new.pc = "request" /\ new.conf = c /\ new.todo = thread[t].todo
      BY <1>1 DEF Thread
    <2>4. conf'[c] = row
      BY <1>1, <2>1 DEF ActsInv, Types
    <2>5. AuthorizedNext(c)
      BY <1>1, <1>3, <1>4, <2>4, <2>3 DEF Authorized, AuthorizedNext
    <2> HIDE DEF new, c, row
    <2>6. GoodThread(t)'
      BY <1>5, <2>2, <2>3, <2>5, GoodAgain DEF Executing
    <2> QED BY <1>2, <1>5, <2>2, <2>6, StepKeeps DEF ActsInv, Types
  <1>7. CASE ~Wins(c, "pending")
    <2> DEFINE new == [thread[t] EXCEPT !.pc = "idle", !.conf = Nil, !.end = Nil]
    <2>1. ThreadBecomes(t, new)
      BY <1>7, RestMoves DEF Confirm, ActsInv
    <2>2. new.pc = "idle" /\ new.todo = thread[t].todo
      BY <1>1 DEF Thread
    <2> HIDE DEF new
    <2> QED BY <1>2, <1>5, <2>1, <2>2, StepKeeps DEF ActsInv, Types
  <1> QED BY <1>6, <1>7

-------------------------------------------------------------------------------
(* executeConfirmed *)

\* A thread that carries out a confirmation, and only reads.
LEMMA ExecutingKeeps ==
  ASSUME ActsInv, NEW t \in Threads, thread[t].pc \in Executing,
         UNCHANGED <<conf, transfer, enabled, open, told, outages>>
  PROVE  /\ \A pc \in {"look", "find", "request"} : Go(t, pc) => ActsInv'
         /\ Rest(t) => ActsInv'
         /\ \A pc \in {"finish", "conclude"}, end \in Outcomes :
              (GoEnd(t, pc, end) /\ (end = "executed" => FindAITransfer(thread[t].conf))) => ActsInv'
  <1>1. RowMoves
    BY NothingMoves
  <1>2. thread[t] \in Thread /\ AuthorizedNext(thread[t].conf)
    BY <1>1, AuthorizedStays DEF ActsInv, Types, GoodThreads, GoodThread
  <1>3. ASSUME NEW pc \in {"look", "find", "request"}, Go(t, pc)
        PROVE  ActsInv'
    <2> DEFINE new == [thread[t] EXCEPT !.pc = pc]
    <2>1. ThreadBecomes(t, new)
      BY <1>3, GoMoves DEF ActsInv, PCs
    <2>2. new.pc = pc /\ new.conf = thread[t].conf /\ new.todo = thread[t].todo
      BY <1>2 DEF Thread
    <2> HIDE DEF new
    <2>3. GoodThread(t)'
      BY <1>1, <1>2, <2>1, <2>2, GoodAgain
    <2> QED BY <1>1, <2>1, <2>3, StepKeeps DEF ActsInv, Types
  <1>4. ASSUME Rest(t)
        PROVE  ActsInv'
    <2> DEFINE new == [thread[t] EXCEPT !.pc = "idle", !.conf = Nil, !.end = Nil]
    <2>1. ThreadBecomes(t, new)
      BY <1>4, RestMoves DEF ActsInv
    <2>2. new.pc = "idle" /\ new.todo = thread[t].todo
      BY <1>2 DEF Thread
    <2> HIDE DEF new
    <2> QED BY <1>1, <2>1, <2>2, StepKeeps DEF ActsInv, Types
  <1>5. ASSUME NEW pc \in {"finish", "conclude"}, NEW end \in Outcomes, GoEnd(t, pc, end),
               end = "executed" => FindAITransfer(thread[t].conf)
        PROVE  ActsInv'
    <2> DEFINE new == [thread[t] EXCEPT !.pc = pc, !.end = end, !.since = {}]
    <2>1. ThreadBecomes(t, new)
      BY <1>5, GoEndMoves DEF ActsInv, PCs, Closed
    <2>2. /\ new.pc = pc /\ new.end = end
          /\ new.conf = thread[t].conf /\ new.todo = thread[t].todo
      BY <1>2 DEF Thread
    <2> HIDE DEF new
    <2>3. end = "executed" => FoundNext(thread[t].conf)
      BY <1>5 DEF FindAITransfer, FoundNext
    <2>4. GoodThread(t)'
      BY <1>1, <1>2, <2>1, <2>2, <2>3, GoodAgain
    <2> QED BY <1>1, <2>1, <2>4, StepKeeps DEF ActsInv, Types
  <1> QED BY <1>3, <1>4, <1>5

LEMMA ReadingKeeps ==
  ASSUME ActsInv, NEW t \in Threads,
         \/ Requested(t) \/ FinishFails(t) \/ GetConfirmed(t) \/ FindTransfer(t)
  PROVE  ActsInv'
  <1>1. thread[t].pc \in Executing /\ UNCHANGED <<conf, transfer, enabled, open, told, outages>>
    BY DEF At, Executing, Requested, FinishFails, GetConfirmed, FindTransfer
  <1>2. \/ Rest(t)
        \/ \E pc \in {"look", "find", "request"} : Go(t, pc)
        \/ \E pc \in {"finish", "conclude"}, end \in Outcomes :
             GoEnd(t, pc, end) /\ (end = "executed" => FindAITransfer(thread[t].conf))
    BY DEF Requested, FinishFails, GetConfirmed, FindTransfer, Outcomes
  <1> QED BY <1>1, <1>2, ExecutingKeeps

LEMMA LookKeeps ==
  ASSUME ActsInv, NEW t \in Threads, LookBeforeTransfer(t)
  PROVE  ActsInv'
  <1> DEFINE since == {c \in Confs : conf[c].confirmed # Nil}
             new == [thread[t] EXCEPT !.pc = "insert", !.since = since]
  <1>1. /\ thread[t].pc \in Executing /\ thread[t] \in Thread
        /\ UNCHANGED <<conf, transfer, enabled, open, told, outages>>
    BY DEF At, Executing, LookBeforeTransfer, ActsInv, Types
  <1>2. CASE GoEnd(t, "finish", "not_executed") \/ GoEnd(t, "finish", "failed")
    BY <1>1, <1>2, ExecutingKeeps DEF Outcomes
  <1>3. CASE thread' = [thread EXCEPT ![t].pc = "insert", ![t].since = since]
    <2>1. thread' = [thread EXCEPT ![t] = new]
      BY <1>3 DEF ActsInv, Types
    <2>2. new \in Thread /\ new.pc = "insert" /\ new.since = since
          /\ new.conf = thread[t].conf /\ new.todo = thread[t].todo
      BY <1>1 DEF Thread
    <2>3. Authorized(new.conf) /\ new.conf \in since
      BY <1>1, <2>2 DEF ActsInv, GoodThreads, GoodThread, Authorized, AuthorizedNext
    <2> HIDE DEF new, since
    <2>4. ThreadBecomes(t, new)
      BY <2>1, <2>2 DEF ThreadBecomes, ActsInv, Types
    <2>5. RowMoves
      BY <1>1, NothingMoves
    <2>6. AuthorizedNext(new.conf)
      BY <2>3, <1>1 DEF Authorized, AuthorizedNext
    <2>7. GoodThread(t)'
      BY <2>2, <2>3, <2>4, <2>5, <2>6, GoodAgain
    <2> QED BY <1>1, <2>4, <2>5, <2>7, StepKeeps DEF ActsInv, Types
  <1> QED BY <1>2, <1>3 DEF LookBeforeTransfer

LEMMA InsertKeeps ==
  ASSUME ActsInv, NEW t \in Threads, InsertTransfer(t)
  PROVE  ActsInv'
  <1> DEFINE c == thread[t].conf
             new == [thread[t] EXCEPT !.pc = "finish", !.end = "executed", !.since = {}]
  <1>1. /\ thread[t].pc = "insert" /\ thread[t] \in Thread
        /\ UNCHANGED <<conf, enabled, open, told, outages>>
    BY DEF At, InsertTransfer, ActsInv, Types
  <1>2. CASE transfer' = transfer /\ \E end \in {"not_executed", "failed"} : GoEnd(t, "finish", end)
    BY <1>1, <1>2, ExecutingKeeps DEF Executing, Outcomes
  <1>3. ASSUME NEW x \in Transfers, transfer[x].status = "unused", GoEnd(t, "finish", "executed"),
               transfer' = [transfer EXCEPT ![x] =
                              [status |-> "active", by |-> c, after |-> thread[t].since]]
        PROVE  ActsInv'
    <2>1. ThreadBecomes(t, new)
      BY <1>3, GoEndMoves DEF ActsInv, PCs, Closed, Outcomes
    <2>2. new.pc = "finish" /\ new.end = "executed" /\ new.conf = c /\ new.todo = thread[t].todo
      BY <1>1 DEF Thread
    <2>3. Authorized(c) /\ c \in thread[t].since /\ c # Nil /\ thread[t].since \in SUBSET Confs
      BY <1>1, ConfirmationAssumption
         DEF ActsInv, GoodThreads, GoodThread, Executing, Authorized, AuthorizedNext, Thread
    <2>4. /\ transfer'[x] = [status |-> "active", by |-> c, after |-> thread[t].since]
          /\ \A y \in Transfers : y # x => transfer'[y] = transfer[y]
      BY <1>3 DEF ActsInv, Types
    <2> HIDE DEF new
    <2>5. transfer' \in [Transfers -> AgentTransfer]
      BY <1>3, <2>3 DEF ActsInv, Types, AgentTransfer, Authorized, AuthorizedNext
    <2>6. RowMoves /\ TransfersStay
      BY <1>1, <1>3, <2>4, NothingMoves DEF TransfersStay
    <2>7. AuthorizedNext(c)
      BY <1>1, <2>3 DEF Authorized, AuthorizedNext
    <2>8. FoundNext(c)
      BY <2>3, <2>4 DEF FindAITransfer, FoundNext
    <2>9. GoodThread(t)'
      <3>1. AuthorizedNext(new.conf) /\ FoundNext(new.conf)
        BY <2>2, <2>7, <2>8 DEF Authorized, AuthorizedNext, FindAITransfer, FoundNext
      <3> QED BY <2>1, <2>2, <2>6, <3>1, GoodAgain DEF Outcomes
    <2>10. Types'
      BY <1>1, <2>1, <2>5 DEF ActsInv, Types, ThreadBecomes
    <2> QED BY <2>1, <2>4, <2>6, <2>7, <2>9, <2>10, InvariantGoesOn DEF ThreadBecomes, Authorized, AuthorizedNext
  <1> QED BY <1>2, <1>3 DEF InsertTransfer

\* Finish and the reconciler's own.
LEMMA FinishKeeps ==
  ASSUME ActsInv, NEW t \in Threads, Finish(t) \/ Conclude(t)
  PROVE  ActsInv'
  <1> DEFINE c == thread[t].conf
             end == thread[t].end
             new == [thread[t] EXCEPT !.pc = "idle", !.conf = Nil, !.end = Nil]
  <1>1. /\ Authorized(c) /\ end \in Outcomes /\ (end = "executed" => FindAITransfer(c))
        /\ thread[t] \in Thread
    BY DEF Finish, Conclude, At, ActsInv, Types, GoodThreads, GoodThread, Executing
  <1>2. /\ Transition(c, "confirmed", Closing(c, end)) /\ Rest(t)
        /\ UNCHANGED <<transfer, enabled, open, outages>>
        /\ Tell(c) \/ UNCHANGED told
    BY DEF Finish, Conclude
  <1>3. told' \in [Confs -> Nat]
    BY <1>1, <1>2 DEF Tell, ActsInv, Types, Authorized, AuthorizedNext
  <1>4. ThreadBecomes(t, new)
    BY <1>2, RestMoves DEF ActsInv
  <1>5. new.pc = "idle" /\ new.todo \subseteq thread[t].todo
    BY <1>1 DEF Thread
  <1> HIDE DEF c, end, new
  <1>6. RowMoves /\ conf' \in [Confs -> RowType]
    BY <1>1, <1>2, ClosingRow, TransitionMoves DEF ActsInv, Closed, Authorized, AuthorizedNext
  <1> QED BY <1>2, <1>3, <1>4, <1>5, <1>6, StepKeeps

-------------------------------------------------------------------------------
(* Reconcile *)

\* A thread whose list of rows changes, or that does not move at all.
LEMMA ListKeeps ==
  ASSUME ActsInv, NEW t \in Threads, NEW new \in Thread,
         thread' = [thread EXCEPT ![t] = new], new.pc = thread[t].pc, new.conf = thread[t].conf,
         new.end = thread[t].end, new.since = thread[t].since,
         \A c \in new.todo : Authorized(c),
         UNCHANGED <<transfer, enabled, open, told, outages>>,
         RowMoves, conf' \in [Confs -> RowType]
  PROVE  ActsInv'
  <1>1. ThreadBecomes(t, new)
    BY DEF ThreadBecomes, ActsInv, Types
  <1>2. GoodThread(t)'
    <2>1. TransfersStay /\ thread'[t] = new /\ GoodThread(t)
      BY <1>1 DEF TransfersStay, ThreadBecomes, ActsInv, GoodThreads
    <2>2. \A c \in new.todo : AuthorizedNext(c)
      BY AuthorizedStays
    <2>3. new.pc \in Executing => AuthorizedNext(new.conf)
      BY <2>1, AuthorizedStays DEF GoodThread
    <2>4. (new.pc \in {"finish", "conclude"} /\ new.end = "executed") => FoundNext(new.conf)
      BY <2>1, TransferIsFound DEF GoodThread, ActsInv
    <2> QED BY <2>1, <2>2, <2>3, <2>4 DEF GoodThread, Authorized, AuthorizedNext, FindAITransfer, FoundNext
  <1> QED BY <1>1, <1>2, StepKeeps DEF ActsInv, Types

LEMMA SweepKeeps ==
  ASSUME ActsInv, NEW t \in Threads, BeginSweep(t) \/ ListStuck(t)
  PROVE  ActsInv'
  <1>1. thread[t] \in Thread /\ UNCHANGED <<conf, transfer, enabled, open, told, outages>>
    BY DEF BeginSweep, ListStuck, ActsInv, Types
  <1>2. PICK kind \in {"exhausted", "stuck"}, rows \in {Exhausted, Stuck} :
          thread' = [thread EXCEPT ![t].sweep = kind, ![t].todo = rows]
    BY DEF BeginSweep, ListStuck
  <1>3. \A c \in rows : Authorized(c)
    BY DEF Exhausted, Stuck, ActsInv, ConfirmedHasTime, Authorized, AuthorizedNext
  <1> DEFINE new == [thread[t] EXCEPT !.sweep = kind, !.todo = rows]
  <1>4. rows \in SUBSET Confs
    BY <1>3 DEF Authorized, AuthorizedNext
  <1>5. thread' = [thread EXCEPT ![t] = new]
    BY <1>2 DEF ActsInv, Types
  <1>6. /\ new \in Thread /\ new.pc = thread[t].pc /\ new.conf = thread[t].conf
        /\ new.end = thread[t].end /\ new.since = thread[t].since /\ new.todo = rows
    BY <1>1, <1>4 DEF Thread
  <1> HIDE DEF new
  <1> QED BY <1>1, <1>3, <1>5, <1>6, ListKeeps, NothingMoves DEF ActsInv, Types

LEMMA FailExhaustedKeeps ==
  ASSUME ActsInv, NEW t \in Threads, NEW c \in Confs, FailExhausted(t, c)
  PROVE  ActsInv'
  <1> DEFINE new == [thread[t] EXCEPT !.todo = @ \ {c}]
  <1>1. /\ thread[t] \in Thread /\ \A d \in thread[t].todo : Authorized(d)
        /\ thread' = [thread EXCEPT ![t] = new]
    BY DEF FailExhausted, ActsInv, Types, GoodThreads, GoodThread
  <1>2. /\ UNCHANGED <<transfer, enabled, open, told, outages>>
        /\ Transition(c, "confirmed", Closing(c, "failed"))
    BY DEF FailExhausted
  <1>3. /\ new \in Thread /\ new.pc = thread[t].pc /\ new.conf = thread[t].conf
        /\ new.end = thread[t].end /\ new.since = thread[t].since
        /\ new.todo \subseteq thread[t].todo
    BY <1>1 DEF Thread
  <1>4. RowMoves /\ conf' \in [Confs -> RowType]
    BY <1>2, ClosingRow, TransitionMoves DEF ActsInv, Closed, Outcomes
  <1> HIDE DEF new
  <1> QED BY <1>1, <1>2, <1>3, <1>4, ListKeeps

LEMMA EndSweepKeeps ==
  ASSUME ActsInv, NEW t \in Threads, EndSweep(t)
  PROVE  ActsInv'
  <1>1. NoThread \in Thread /\ NoThread.pc = "idle" /\ NoThread.todo = {}
    BY DEF NoThread, Thread
  <1>2. thread' = [thread EXCEPT ![t] = NoThread]
        /\ UNCHANGED <<conf, transfer, enabled, open, told, outages>>
    BY DEF EndSweep
  <1>3. ThreadBecomes(t, NoThread)
    BY <1>1, <1>2 DEF ThreadBecomes, ActsInv, Types
  <1> QED BY <1>1, <1>2, <1>3, NothingMoves, StepKeeps DEF ActsInv, Types

LEMMA ConfClaimKeeps ==
  ASSUME ActsInv, NEW t \in Threads, NEW c \in Confs, ClaimReconcile(t, c)
  PROVE  ActsInv'
  <1>1. /\ thread[t] \in Thread /\ \A d \in thread[t].todo : Authorized(d)
        /\ c \in thread[t].todo /\ UNCHANGED <<transfer, enabled, open, told, outages>>
    BY DEF ClaimReconcile, ActsInv, Types, GoodThreads, GoodThread
  <1>2. CASE Claimable(c)
    <2> DEFINE row == [conf[c] EXCEPT !.claimed = 0, !.attempts = @ + 1]
               new == [thread[t] EXCEPT !.todo = @ \ {c}, !.pc = "get", !.conf = c]
    <2>1. conf' = [conf EXCEPT ![c].claimed = 0, ![c].attempts = @ + 1]
          /\ thread' = [thread EXCEPT ![t].todo = @ \ {c}, ![t].pc = "get", ![t].conf = c]
      BY <1>2 DEF ClaimReconcile
    <2>2. conf' = [conf EXCEPT ![c] = row] /\ thread' = [thread EXCEPT ![t] = new]
      BY <2>1 DEF ActsInv, Types
    <2>3. /\ row \in RowType /\ row.status = conf[c].status /\ row.confirmed = conf[c].confirmed
      <3>1. conf[c] \in RowType /\ 0 \in Ages
        BY OldIsNat DEF ActsInv, Types, Ages
      <3>2. conf[c].attempts + 1 \in Nat
        BY <3>1 DEF RowType
      <3>3. row = [conf[c] EXCEPT !.claimed = 0, !.attempts = conf[c].attempts + 1]
        OBVIOUS
      <3> HIDE DEF row
      <3> QED BY <3>1, <3>2, <3>3 DEF RowType
    <2>4. new \in Thread /\ new.pc = "get" /\ new.conf = c /\ new.todo \subseteq thread[t].todo
      BY <1>1 DEF Thread
    <2> HIDE DEF row, new
    <2>5. conf' \in [Confs -> RowType] /\ RowMoves
      BY <2>2, <2>3 DEF ActsInv, Types, RowMoves, Kept
    <2>6. ThreadBecomes(t, new)
      BY <2>2, <2>4 DEF ThreadBecomes, ActsInv, Types
    <2>7. AuthorizedNext(new.conf)
      <3>1. AuthorizedNext(c)
        BY <1>1, <2>5, AuthorizedStays
      <3> QED BY <3>1, <2>4 DEF Authorized, AuthorizedNext
    <2>8. GoodThread(t)'
      BY <2>4, <2>5, <2>6, <2>7, GoodAgain
    <2> QED BY <1>1, <2>5, <2>6, <2>8, StepKeeps DEF ActsInv, Types
  <1>3. CASE ~Claimable(c)
    <2> DEFINE new == [thread[t] EXCEPT !.todo = @ \ {c}]
    <2>1. thread' = [thread EXCEPT ![t] = new] /\ conf' = conf
      BY <1>3 DEF ClaimReconcile
    <2>2. /\ new \in Thread /\ new.pc = thread[t].pc /\ new.conf = thread[t].conf
          /\ new.end = thread[t].end /\ new.since = thread[t].since
          /\ new.todo \subseteq thread[t].todo
      BY <1>1 DEF Thread
    <2> HIDE DEF new
    <2> QED BY <1>1, <2>1, <2>2, ListKeeps, NothingMoves DEF ActsInv, Types
  <1> QED BY <1>2, <1>3

-------------------------------------------------------------------------------
(* The rest of the system *)

LEMMA ProposeKeeps ==
  ASSUME ActsInv, NEW c \in Confs, Propose(c)
  PROVE  ActsInv'
  <1>1. UNCHANGED <<transfer, thread, enabled, open, told, outages>> /\ conf[c].status = "unused"
    BY DEF Propose
  <1>2. conf'[c] = [Unused EXCEPT !.status = "pending", !.proposed = 0]
    BY DEF Propose
  <1>3. \A d \in Confs : d # c =>
          \/ conf'[d] = conf[d]
          \/ conf[d].status = "pending" /\ conf'[d] = [conf[d] EXCEPT !.status = "superseded", !.finished = 0]
    BY DEF Propose
  <1>9. 0 \in Ages
    BY OldIsNat DEF Ages
  <1>4. conf'[c] \in RowType /\ conf'[c].status = "pending"
    <2>1. conf'[c] = [status |-> "pending", proposed |-> 0, confirmed |-> Nil, finished |-> Nil,
                      claimed |-> Nil, attempts |-> 0]
      BY <1>2 DEF Unused
    <2> QED BY <2>1, <1>9 DEF RowType
  <1>5. \A d \in Confs : conf[d] \in RowType
    BY DEF ActsInv, Types
  <1>6. \A d \in Confs : d # c =>
          conf'[d] \in RowType
            /\ (conf'[d] = conf[d] \/ (conf[d].status = "pending" /\ conf'[d].status = "superseded"))
    <2> TAKE d \in Confs
    <2> HAVE d # c
    <2>1. CASE conf'[d] = conf[d]
      BY <1>5, <2>1
    <2>2. CASE conf[d].status = "pending"
               /\ conf'[d] = [conf[d] EXCEPT !.status = "superseded", !.finished = 0]
      BY <1>5, <1>9, <2>2 DEF RowType, Closed
    <2> QED BY <1>3, <2>1, <2>2
  <1>7. conf' \in [Confs -> RowType]
    BY <1>4, <1>6 DEF Propose
  <1>8. RowMoves
    BY <1>1, <1>4, <1>6 DEF RowMoves, Kept, Proposed, LeavesPending
  <1> QED BY <1>1, <1>7, <1>8, InvariantGoesOn DEF ActsInv, Types, TransfersStay

LEMMA ElsewhereKeeps ==
  ASSUME ActsInv, OpenElsewhere \/ (\E x \in Transfers : CloseTransfer(x)) \/ Switch
  PROVE  ActsInv'
  <1>1. UNCHANGED <<conf, thread, told, outages>> /\ enabled' \in BOOLEAN /\ open' \in BOOLEAN
    BY DEF OpenElsewhere, CloseTransfer, Switch, ActsInv, Types
  <1>2. CASE transfer' = transfer
    BY <1>1, <1>2, InvariantGoesOn, NothingMoves DEF ActsInv, Types, TransfersStay
  <1>3. ASSUME NEW x \in Transfers, NEW to \in {"active", "closed"},
               transfer' = [transfer EXCEPT ![x].status = to],
               to = "closed" => transfer[x].status = "active"
        PROVE  ActsInv'
    <2>1. /\ \A y \in Transfers : y # x => transfer'[y] = transfer[y]
          /\ transfer'[x].status = to /\ transfer'[x].by = transfer[x].by
          /\ transfer'[x].after = transfer[x].after
          /\ transfer' \in [Transfers -> AgentTransfer]
      BY <1>3 DEF ActsInv, Types, AgentTransfer
    <2>2. TransfersStay
      BY <2>1 DEF TransfersStay
    <2>3. \A y \in Transfers : transfer'[y].by = transfer[y].by
      BY <2>1
    <2>4. \A y \in Transfers : transfer'[y].status = "unused" => transfer'[y] = transfer[y]
      BY <2>1
    <2> QED BY <1>1, <2>1, <2>2, <2>3, <2>4, InvariantGoesOn, NothingMoves DEF ActsInv, Types
  <1> QED BY <1>2, <1>3 DEF OpenElsewhere, CloseTransfer, Switch

LEMMA TickKeeps ==
  ASSUME ActsInv, Tick
  PROVE  ActsInv'
  <1>1. UNCHANGED <<transfer, thread, enabled, open, told, outages>>
    BY DEF Tick
  <1>2. ASSUME NEW c \in Confs
        PROVE  /\ conf'[c] \in RowType /\ conf'[c].status = conf[c].status
               /\ conf'[c].confirmed = Nil <=> conf[c].confirmed = Nil
    <2>1. conf[c] \in RowType
      BY DEF ActsInv, Types
    <2>2. conf'[c] = [conf[c] EXCEPT !.proposed = Older(@), !.confirmed = Older(@),
                                     !.finished = Older(@), !.claimed = Older(@)]
      BY DEF Tick
    <2>3. /\ conf[c].proposed \in Ages \cup {Nil} /\ conf[c].confirmed \in Ages \cup {Nil}
          /\ conf[c].finished \in Ages \cup {Nil} /\ conf[c].claimed \in Ages \cup {Nil}
      BY <2>1 DEF RowType
    <2>4. /\ Older(conf[c].proposed) \in Ages \cup {Nil} /\ Older(conf[c].finished) \in Ages \cup {Nil}
          /\ Older(conf[c].claimed) \in Ages \cup {Nil} /\ Older(conf[c].confirmed) \in Ages \cup {Nil}
          /\ Older(conf[c].confirmed) = Nil <=> conf[c].confirmed = Nil
      BY <2>3, OlderAge
    <2> QED BY <2>1, <2>2, <2>4 DEF RowType
  <1>3. conf' \in [Confs -> RowType] /\ RowMoves
    BY <1>2 DEF Tick, RowMoves, Kept
  <1> QED BY <1>1, <1>3, InvariantGoesOn DEF ActsInv, Types, TransfersStay

LEMMA OutageKeeps ==
  ASSUME ActsInv, Outage
  PROVE  ActsInv'
  <1>1. NoThread \in Thread /\ NoThread.pc = "idle" /\ NoThread.todo = {}
    BY DEF NoThread, Thread
  <1>2. /\ UNCHANGED <<conf, transfer, enabled, open, told>> /\ outages' \in 0..MaxOutages
        /\ thread' = [t \in Threads |-> NoThread]
    BY ConfirmationAssumption DEF Outage, ActsInv, Types
  <1>3. Types' /\ RowMoves /\ TransfersStay
    BY <1>1, <1>2, NothingMoves DEF ActsInv, Types, TransfersStay
  <1> QED BY <1>1, <1>2, <1>3, InvariantGoesOn

LEMMA ActsStep ==
  ASSUME ActsInv, [ConfNext]_confVars
  PROVE  ActsInv'
  <1>1. CASE ConfNext
    <2>1. ASSUME NEW t \in Threads, Run(t)
          PROVE  ActsInv'
      BY <2>1, CheckKeeps, ClosePendingKeeps, ConfirmKeeps, ReadingKeeps, LookKeeps, InsertKeeps,
         FinishKeeps, SweepKeeps, EndSweepKeeps, FailExhaustedKeeps, ConfClaimKeeps DEF Run
    <2> QED BY <1>1, <2>1, TapKeeps, SweepKeeps, ProposeKeeps, ElsewhereKeeps, TickKeeps, OutageKeeps
            DEF ConfNext
  <1>2. CASE UNCHANGED confVars
    BY <1>2, InvariantGoesOn, NothingMoves DEF confVars, ActsInv, Types, TransfersStay
  <1> QED BY <1>1, <1>2

LEMMA ActsInit ==
  ASSUME ConfInit
  PROVE  ActsInv
  <1>1. Types
    BY ConfirmationAssumption DEF ConfInit, Types, RowType, Unused, AgentTransfer, NoTransfer, Thread, NoThread
  <1>2. GoodThreads
    BY DEF ConfInit, GoodThreads, GoodThread, NoThread, Executing
  <1>3. ConfirmedHasTime /\ GoodTransfers /\ ExecutedIsTrue
    BY DEF ConfInit, ConfirmedHasTime, GoodTransfers, ExecutedIsTrue, Unused, NoTransfer
  <1> QED BY <1>1, <1>2, <1>3 DEF ActsInv

-------------------------------------------------------------------------------
(* The attempts of the reconciler *)

\* The sweeps that have yet to claim a row they listed.
Listing(c) == {t \in Threads : thread[t].sweep = "stuck" /\ c \in thread[t].todo}

\* Every sweep that still lists a row may count one attempt more: together they
\* stay within the limit and one for each thread.
AttemptsOverlap ==
    \A c \in Confs :
        conf[c].attempts + Cardinality(Listing(c)) <= MaxAttempts + Cardinality(Threads)

\* Where no sweep outlives the exclusion of a claim, a row that can be claimed is
\* listed only if it has an attempt left.
AttemptsExclude ==
    Timely => \A c \in Confs :
        /\ conf[c].attempts <= MaxAttempts
        /\ Listing(c) # {} /\ Unclaimed(c) => conf[c].attempts < MaxAttempts

AttemptsInv == AttemptsOverlap /\ AttemptsExclude

LEMMA ListingFinite ==
  ASSUME NEW S \in SUBSET Threads
  PROVE  IsFiniteSet(S) /\ Cardinality(S) \in Nat /\ Cardinality(S) <= Cardinality(Threads)
         /\ Cardinality(Threads) \in Nat
  BY FS_Subset, FS_CardinalityType, ConfirmationAssumption

\* A step that lists no row for a claim, and claims none.
QuietLists ==
    \A t \in Threads : thread'[t].sweep = "stuck" =>
        thread[t].sweep = "stuck" /\ thread'[t].todo \subseteq thread[t].todo
QuietRows ==
    \A c \in Confs :
        \/ conf'[c].attempts = conf[c].attempts /\ conf'[c].claimed = conf[c].claimed
        \/ conf'[c].attempts = 0 /\ conf[c].status = "unused"

LEMMA QuietSteps ==
  ASSUME ActsInv, AttemptsInv, QuietLists, QuietRows
  PROVE  AttemptsInv'
  <1> SUFFICES ASSUME NEW c \in Confs
               PROVE  /\ conf'[c].attempts + Cardinality(Listing(c)') <= MaxAttempts + Cardinality(Threads)
                      /\ Timely => conf'[c].attempts <= MaxAttempts
                      /\ (Timely /\ Listing(c)' # {} /\ Unclaimed(c)') => conf'[c].attempts < MaxAttempts
    BY DEF AttemptsInv, AttemptsOverlap, AttemptsExclude, Listing, Unclaimed
  <1>1. Listing(c)' \subseteq Listing(c) /\ Listing(c) \in SUBSET Threads
    BY DEF QuietLists, Listing
  <1>2. /\ Cardinality(Listing(c)) \in Nat /\ Cardinality(Listing(c)') \in Nat
        /\ Cardinality(Listing(c)') <= Cardinality(Listing(c))
        /\ Cardinality(Threads) \in Nat
    BY <1>1, ListingFinite, FS_Subset, FS_CardinalityType
  <1>3. conf[c].attempts \in Nat /\ MaxAttempts \in Nat
    BY ConfirmationAssumption DEF ActsInv, Types, RowType
  <1>4. /\ conf[c].attempts + Cardinality(Listing(c)) <= MaxAttempts + Cardinality(Threads)
        /\ Timely => conf[c].attempts <= MaxAttempts
        /\ (Timely /\ Listing(c) # {} /\ Unclaimed(c)) => conf[c].attempts < MaxAttempts
    BY DEF AttemptsInv, AttemptsOverlap, AttemptsExclude
  <1>5. CASE conf'[c].attempts = conf[c].attempts /\ conf'[c].claimed = conf[c].claimed
    <2>1. Unclaimed(c)' <=> Unclaimed(c)
      BY <1>5 DEF Unclaimed
    <2> QED BY <1>1, <1>2, <1>3, <1>4, <1>5, <2>1
  <1>6. CASE conf'[c].attempts = 0 /\ conf[c].status = "unused"
    <2>1. Listing(c) = {}
      BY <1>6 DEF ActsInv, GoodThreads, GoodThread, Listing, Authorized, AuthorizedNext, Outcomes
    <2>2. Listing(c)' = {} /\ Cardinality(Listing(c)') <= Cardinality(Threads)
      BY <1>1, <2>1, ListingFinite
    <2> QED BY <1>2, <1>3, <1>6, <2>2
  <1> QED BY <1>5, <1>6 DEF QuietRows

\* Only an unclaimed row takes part in a claim, and the claim excludes the others.
LEMMA ClaimCounts ==
  ASSUME ActsInv, AttemptsInv, NEW t \in Threads, NEW c \in Confs, ClaimReconcile(t, c)
  PROVE  AttemptsInv'
  <1>1. thread[t] \in Thread /\ thread[t].sweep = "stuck" /\ c \in thread[t].todo
    BY DEF ClaimReconcile, ActsInv, Types
  <1>2. CASE ~Claimable(c)
    <2>1. conf' = conf /\ thread' = [thread EXCEPT ![t].todo = @ \ {c}]
      BY <1>2 DEF ClaimReconcile
    <2>2. QuietRows /\ QuietLists
      BY <1>1, <2>1 DEF QuietRows, QuietLists, ActsInv, Types, Thread
    <2> QED BY <2>2, QuietSteps
  <1>3. CASE Claimable(c)
    <2>1. /\ conf' = [conf EXCEPT ![c].claimed = 0, ![c].attempts = @ + 1]
          /\ thread' = [thread EXCEPT ![t].todo = @ \ {c}, ![t].pc = "get", ![t].conf = c]
      BY <1>3 DEF ClaimReconcile
    <2>2. /\ thread'[t].sweep = "stuck" /\ thread'[t].todo = thread[t].todo \ {c}
          /\ \A u \in Threads : u # t => thread'[u] = thread[u]
      BY <1>1, <2>1 DEF ActsInv, Types, Thread
    <2>3. /\ conf'[c].attempts = conf[c].attempts + 1 /\ conf'[c].claimed = 0
          /\ \A d \in Confs : d # c => conf'[d] = conf[d]
      BY <2>1 DEF ActsInv, Types, RowType
    <2>4. Listing(c)' = Listing(c) \ {t} /\ t \in Listing(c)
      BY <1>1, <2>2 DEF Listing
    <2>5. Cardinality(Listing(c)') = Cardinality(Listing(c)) - 1
      BY <2>4, ListingFinite, FS_RemoveElement DEF Listing
    <2>6. /\ conf[c].attempts \in Nat /\ MaxAttempts \in Nat /\ Cardinality(Threads) \in Nat
          /\ Cardinality(Listing(c)) \in Nat
      BY ConfirmationAssumption, ListingFinite DEF ActsInv, Types, RowType, Listing
    <2>7. AttemptsOverlap'
      <3>1. ASSUME NEW d \in Confs
            PROVE  conf'[d].attempts + Cardinality(Listing(d)') <= MaxAttempts + Cardinality(Threads)
        <4>1. CASE d = c
          BY <4>1, <2>3, <2>5, <2>6 DEF AttemptsInv, AttemptsOverlap
        <4>2. CASE d # c
          <5>1. Listing(d)' = Listing(d)
            BY <1>1, <2>2, <4>2 DEF Listing
          <5> QED BY <2>3, <4>2, <5>1 DEF AttemptsInv, AttemptsOverlap
        <4> QED BY <4>1, <4>2
      <3> QED BY <3>1 DEF AttemptsOverlap, Listing
    <2>8. AttemptsExclude'
      <3>1. ASSUME NEW d \in Confs, Timely
            PROVE  /\ conf'[d].attempts <= MaxAttempts
                   /\ (Listing(d)' # {} /\ Unclaimed(d)') => conf'[d].attempts < MaxAttempts
        <4>1. CASE d = c
          <5>1. conf[c].attempts < MaxAttempts
            BY <1>3, <2>4, <3>1 DEF AttemptsInv, AttemptsExclude, Claimable
          <5>2. ~Unclaimed(c)'
            BY <2>3, ConfirmationAssumption DEF Unclaimed, Aged
          <5> QED BY <2>3, <2>6, <4>1, <5>1, <5>2
        <4>2. CASE d # c
          <5>1. Listing(d)' = Listing(d) /\ (Unclaimed(d)' <=> Unclaimed(d))
            BY <1>1, <2>2, <2>3, <4>2 DEF Listing, Unclaimed
          <5> QED BY <2>3, <3>1, <4>2, <5>1 DEF AttemptsInv, AttemptsExclude
        <4> QED BY <4>1, <4>2
      <3> QED BY <3>1 DEF AttemptsExclude, Listing, Unclaimed
    <2> QED BY <2>7, <2>8 DEF AttemptsInv
  <1> QED BY <1>2, <1>3

LEMMA ListCounts ==
  ASSUME ActsInv, AttemptsInv, NEW t \in Threads, ListStuck(t)
  PROVE  AttemptsInv'
  <1>1. conf' = conf /\ thread' = [thread EXCEPT ![t].sweep = "stuck", ![t].todo = Stuck]
    BY DEF ListStuck
  <1>2. /\ thread'[t].todo = Stuck
        /\ \A u \in Threads : u # t => thread'[u] = thread[u]
    BY <1>1 DEF ActsInv, Types, Thread
  <1>3. \A c \in Confs : c \notin Stuck => Listing(c)' \subseteq Listing(c)
    BY <1>2 DEF Listing
  <1>4. \A c \in Confs : /\ conf[c].attempts \in Nat /\ MaxAttempts \in Nat
                         /\ Cardinality(Threads) \in Nat
                         /\ Cardinality(Listing(c)) \in Nat /\ Cardinality(Listing(c)') \in Nat
                         /\ Cardinality(Listing(c)') <= Cardinality(Threads)
                         /\ c \notin Stuck => Cardinality(Listing(c)') <= Cardinality(Listing(c))
    <2> TAKE c \in Confs
    <2>1. Listing(c) \in SUBSET Threads /\ Listing(c)' \in SUBSET Threads
      BY DEF Listing
    <2>2. c \notin Stuck => Cardinality(Listing(c)') <= Cardinality(Listing(c))
      BY <1>3, <2>1, ListingFinite, FS_Subset
    <2> QED BY <2>1, <2>2, ListingFinite, ConfirmationAssumption DEF ActsInv, Types, RowType
  <1>5. \A c \in Stuck : c \in Confs /\ conf[c].attempts < MaxAttempts
    BY DEF Stuck
  <1>6. AttemptsOverlap'
    <2>1. \A c \in Confs :
            conf[c].attempts + Cardinality(Listing(c)') <= MaxAttempts + Cardinality(Threads)
      BY <1>4, <1>5 DEF AttemptsInv, AttemptsOverlap
    <2> QED BY <1>1, <2>1 DEF AttemptsOverlap, Listing
  <1>7. AttemptsExclude'
    <2>1. ASSUME NEW c \in Confs, Timely
          PROVE  /\ conf[c].attempts <= MaxAttempts
                 /\ (Listing(c)' # {} /\ Unclaimed(c)) => conf[c].attempts < MaxAttempts
      BY <1>3, <1>4, <1>5, <2>1 DEF AttemptsInv, AttemptsExclude
    <2> QED BY <1>1, <2>1 DEF AttemptsExclude, Listing, Unclaimed
  <1> QED BY <1>6, <1>7 DEF AttemptsInv

\* Time lets claims expire, but no timely sweep lists anything meanwhile.
LEMMA TickCounts ==
  ASSUME ActsInv, AttemptsInv, Tick
  PROVE  AttemptsInv'
  <1>1. thread' = thread /\ \A c \in Confs : conf'[c].attempts = conf[c].attempts
    BY DEF Tick, ActsInv, Types, RowType
  <1>2. \A c \in Confs : Listing(c)' = Listing(c)
    BY <1>1 DEF Listing
  <1>3. AttemptsOverlap'
    BY <1>1, <1>2 DEF AttemptsInv, AttemptsOverlap, Listing
  <1>4. Timely => \A c \in Confs : Listing(c)' = {}
    <2>1. Timely => \A t \in Threads : thread'[t].sweep = Nil
      <3>1. NoThread.sweep = Nil
        BY DEF NoThread
      <3> QED BY <1>1, <3>1 DEF Tick
    <2> QED BY <2>1, ConfirmationAssumption DEF Listing
  <1>5. AttemptsExclude'
    BY <1>1, <1>4 DEF AttemptsInv, AttemptsExclude, Listing, Unclaimed
  <1> QED BY <1>3, <1>5 DEF AttemptsInv

\* What a thread keeps when it moves on.
Local(t) ==
    /\ thread'[t].sweep = thread[t].sweep /\ thread'[t].todo = thread[t].todo
    /\ \A u \in Threads : u # t => thread'[u] = thread[u]

LEMMA LocalMoves ==
  ASSUME Types, NEW t \in Threads
  PROVE  /\ \A pc \in PCs : Go(t, pc) =>
              Local(t) /\ thread'[t].pc = pc /\ thread'[t].conf = thread[t].conf
         /\ \A pc \in PCs, end \in Closed : GoEnd(t, pc, end) =>
              Local(t) /\ thread'[t].pc = pc /\ thread'[t].conf = thread[t].conf
         /\ Rest(t) => Local(t) /\ thread'[t].pc = "idle"
  <1>1. thread[t] \in Thread
    BY DEF Types
  <1>2. ASSUME NEW pc \in PCs, Go(t, pc)
        PROVE  Local(t) /\ thread'[t].pc = pc /\ thread'[t].conf = thread[t].conf
    <2> DEFINE new == [thread[t] EXCEPT !.pc = pc]
    <2>1. ThreadBecomes(t, new)
      BY <1>2, GoMoves
    <2>2. new.sweep = thread[t].sweep /\ new.todo = thread[t].todo
          /\ new.pc = pc /\ new.conf = thread[t].conf
      BY <1>1 DEF Thread
    <2> HIDE DEF new
    <2> QED BY <2>1, <2>2 DEF ThreadBecomes, Local
  <1>3. ASSUME NEW pc \in PCs, NEW end \in Closed, GoEnd(t, pc, end)
        PROVE  Local(t) /\ thread'[t].pc = pc /\ thread'[t].conf = thread[t].conf
    <2> DEFINE new == [thread[t] EXCEPT !.pc = pc, !.end = end, !.since = {}]
    <2>1. ThreadBecomes(t, new)
      BY <1>3, GoEndMoves
    <2>2. new.sweep = thread[t].sweep /\ new.todo = thread[t].todo
          /\ new.pc = pc /\ new.conf = thread[t].conf
      BY <1>1 DEF Thread
    <2> HIDE DEF new
    <2> QED BY <2>1, <2>2 DEF ThreadBecomes, Local
  <1>4. ASSUME Rest(t)
        PROVE  Local(t) /\ thread'[t].pc = "idle"
    <2> DEFINE new == [thread[t] EXCEPT !.pc = "idle", !.conf = Nil, !.end = Nil]
    <2>1. ThreadBecomes(t, new)
      BY <1>4, RestMoves
    <2>2. new.sweep = thread[t].sweep /\ new.todo = thread[t].todo /\ new.pc = "idle"
      BY <1>1 DEF Thread
    <2> HIDE DEF new
    <2> QED BY <2>1, <2>2 DEF ThreadBecomes, Local
  <1> QED BY <1>2, <1>3, <1>4

LEMMA AttemptsStep ==
  ASSUME ActsInv, AttemptsInv, [ConfNext]_confVars
  PROVE  AttemptsInv'
  <1>1. ASSUME conf' = conf, thread' = thread
        PROVE  AttemptsInv'
    BY <1>1, QuietSteps DEF QuietLists, QuietRows
  <1>2. ASSUME NEW t \in Threads, QuietRows,
               \/ \E pc \in PCs : Go(t, pc)
               \/ \E pc \in PCs, end \in Closed : GoEnd(t, pc, end)
               \/ Rest(t)
        PROVE  AttemptsInv'
    <2>1. Local(t)
      BY <1>2, LocalMoves DEF ActsInv
    <2>2. QuietLists
      BY <2>1 DEF QuietLists, Local
    <2> QED BY <1>2, <2>2, QuietSteps
  <1>3. ASSUME NEW c, NEW from, NEW row, Transition(c, from, row),
               c \in Confs => row.attempts = conf[c].attempts /\ row.claimed = conf[c].claimed
        PROVE  QuietRows
    BY <1>3 DEF Transition, QuietRows, ActsInv, Types
  <1>4. ASSUME NEW c, NEW end, c \in Confs
        PROVE  Closing(c, end).attempts = conf[c].attempts /\ Closing(c, end).claimed = conf[c].claimed
    BY <1>4 DEF Closing, ActsInv, Types, RowType
  <1>5. ASSUME NEW t \in Threads, Run(t)
        PROVE  AttemptsInv'
    <2>1. CASE Reauthorize(t) \/ CheckTransfer(t) \/ Requested(t) \/ FinishFails(t)
               \/ GetConfirmed(t) \/ FindTransfer(t)
      BY <1>2, <2>1 DEF Reauthorize, CheckTransfer, Requested, FinishFails, GetConfirmed,
                        FindTransfer, QuietRows, PCs, Closed, Outcomes
    <2>2. CASE ClosePending(t) \/ Finish(t) \/ Conclude(t)
      BY <1>2, <1>3, <1>4, <2>2 DEF ClosePending, Finish, Conclude
    <2>3. CASE Confirm(t)
      <3>1. QuietRows
        <4> DEFINE c == thread[t].conf
                   row == [conf[c] EXCEPT !.status = "confirmed", !.confirmed = 0]
        <4>1. c \in Confs => row.attempts = conf[c].attempts /\ row.claimed = conf[c].claimed
          BY DEF ActsInv, Types, RowType
        <4>2. Transition(c, "pending", row)
          BY <2>3 DEF Confirm
        <4> HIDE DEF c, row
        <4> QED BY <1>3, <4>1, <4>2
      <3> QED BY <1>2, <2>3, <3>1 DEF Confirm, PCs
    <2>4. CASE LookBeforeTransfer(t)
      <3>1. CASE \E end \in {"not_executed", "failed"} : GoEnd(t, "finish", end)
        BY <1>2, <2>4, <3>1 DEF LookBeforeTransfer, QuietRows, PCs, Closed, Outcomes
      <3>2. CASE thread' = [thread EXCEPT ![t].pc = "insert",
                              ![t].since = {c \in Confs : conf[c].confirmed # Nil}]
        <4>1. QuietLists /\ QuietRows
          BY <2>4, <3>2 DEF LookBeforeTransfer, QuietLists, QuietRows, ActsInv, Types, Thread
        <4> QED BY <4>1, QuietSteps
      <3> QED BY <2>4, <3>1, <3>2 DEF LookBeforeTransfer
    <2>5. CASE InsertTransfer(t)
      BY <1>2, <2>5 DEF InsertTransfer, QuietRows, PCs, Closed, Outcomes
    <2>6. CASE ListStuck(t)
      BY <2>6, ListCounts
    <2>7. CASE EndSweep(t)
      <3>1. QuietLists /\ QuietRows
        BY <2>7 DEF EndSweep, QuietLists, QuietRows, ActsInv, Types, Thread, NoThread
      <3> QED BY <3>1, QuietSteps
    <2>8. ASSUME NEW c \in Confs, FailExhausted(t, c)
          PROVE  AttemptsInv'
      <3>1. QuietLists
        BY <2>8 DEF FailExhausted, QuietLists, ActsInv, Types, Thread
      <3>2. QuietRows
        BY <1>3, <1>4, <2>8 DEF FailExhausted
      <3> QED BY <3>1, <3>2, QuietSteps
    <2> QED BY <1>5, <2>1, <2>2, <2>3, <2>4, <2>5, <2>6, <2>7, <2>8, ClaimCounts DEF Run
  <1>6. ASSUME NEW t \in Threads, NEW c \in Confs, NEW decline \in BOOLEAN, Tap(t, c, decline)
        PROVE  AttemptsInv'
    <2>1. /\ thread'[t].sweep = Nil /\ conf' = conf
          /\ \A u \in Threads : u # t => thread'[u] = thread[u]
      BY <1>6 DEF Tap, NoThread, ActsInv, Types
    <2>2. QuietLists /\ QuietRows
      BY <2>1, ConfirmationAssumption DEF QuietLists, QuietRows
    <2> QED BY <2>2, QuietSteps
  <1>7. ASSUME NEW t \in Threads, BeginSweep(t)
        PROVE  AttemptsInv'
    <2>1. QuietLists /\ QuietRows
      BY <1>7 DEF BeginSweep, QuietLists, QuietRows, ActsInv, Types, Thread
    <2> QED BY <2>1, QuietSteps
  <1>8. ASSUME NEW c \in Confs, Propose(c)
        PROVE  AttemptsInv'
    <2>1. \A d \in Confs : d # c => conf'[d].attempts = conf[d].attempts /\ conf'[d].claimed = conf[d].claimed
      BY <1>8 DEF Propose, ActsInv, Types, RowType
    <2>2. conf'[c].attempts = 0 /\ conf[c].status = "unused" /\ thread' = thread
      BY <1>8 DEF Propose, Unused
    <2>3. QuietLists /\ QuietRows
      BY <2>1, <2>2 DEF QuietLists, QuietRows
    <2> QED BY <2>3, QuietSteps
  <1>9. CASE Outage
    <2>1. QuietLists /\ QuietRows
      BY <1>9, ConfirmationAssumption DEF Outage, QuietLists, QuietRows, NoThread
    <2> QED BY <2>1, QuietSteps
  <1>10. CASE OpenElsewhere \/ (\E x \in Transfers : CloseTransfer(x)) \/ Switch \/ UNCHANGED confVars
    BY <1>1, <1>10 DEF OpenElsewhere, CloseTransfer, Switch, confVars
  <1> QED BY <1>5, <1>6, <1>7, <1>8, <1>9, <1>10, TickCounts DEF ConfNext

LEMMA AttemptsInit ==
  ASSUME ConfInit
  PROVE  AttemptsInv
  <1>1. \A c \in Confs : Listing(c) = {} /\ conf[c].attempts = 0
    BY ConfirmationAssumption DEF ConfInit, Unused, NoThread, Listing
  <1>2. Cardinality({}) = 0 /\ Cardinality(Threads) \in Nat
    BY FS_EmptySet, FS_CardinalityType, ConfirmationAssumption
  <1> QED BY <1>1, <1>2, ConfirmationAssumption DEF AttemptsInv, AttemptsOverlap, AttemptsExclude

\* The bound the type invariant states: the limit of the reconciler, and one attempt more for
\* each sweep that outlives the exclusion of another's claim.
LEMMA AttemptsBounded ==
  ASSUME ActsInv, AttemptsInv
  PROVE  ConfTypeOK
  <1>1. \A c \in Confs : conf[c].attempts \in 0..AttemptLimit
    <2> TAKE c \in Confs
    <2>1. Listing(c) \in SUBSET Threads /\ conf[c].attempts \in Nat
      BY DEF Listing, ActsInv, Types, RowType
    <2>2. Cardinality(Listing(c)) \in Nat /\ Cardinality(Threads) \in Nat
      BY <2>1, ListingFinite
    <2>3. CASE Timely
      BY <2>1, <2>3, ConfirmationAssumption DEF AttemptsInv, AttemptsExclude, AttemptLimit
    <2>4. CASE ~Timely
      BY <2>1, <2>2, <2>4, ConfirmationAssumption DEF AttemptsInv, AttemptsOverlap, AttemptLimit
    <2> QED BY <2>3, <2>4
  <1>2. conf \in [Confs -> AIToolConfirmation]
    <2> HIDE DEF AttemptLimit
    <2>1. \A c \in Confs : conf[c] \in AIToolConfirmation
      BY <1>1 DEF ActsInv, Types, RowType, AIToolConfirmation
    <2> QED BY <2>1 DEF ActsInv, Types
  <1> QED BY <1>2 DEF ActsInv, Types, ConfTypeOK

-------------------------------------------------------------------------------
(* Outcomes *)

\* A compare-and-set from an open state leaves every closed row alone.
LEMMA TransitionKeepsClosed ==
  ASSUME Types, NEW c, NEW from \in {"pending", "confirmed"}, NEW row, Transition(c, from, row),
         NEW d \in Confs, conf[d].status \in Closed
  PROVE  conf'[d].status = conf[d].status
  <1>1. conf[d].status # from
    BY DEF Closed, Outcomes
  <1>2. CASE conf' = conf
    BY <1>2
  <1>3. CASE conf' = [conf EXCEPT ![c] = row] /\ conf[c].status = from
    BY <1>1, <1>3 DEF Types
  <1> QED BY <1>2, <1>3 DEF Transition, Wins

LEMMA ClosedStays ==
  ASSUME Types, ConfNext, NEW d \in Confs, conf[d].status \in Closed
  PROVE  conf'[d].status = conf[d].status
  <1>1. ASSUME NEW t \in Threads, ClosePending(t) \/ Confirm(t) \/ Finish(t) \/ Conclude(t)
        PROVE  conf'[d].status = conf[d].status
    BY <1>1, TransitionKeepsClosed DEF ClosePending, Confirm, Finish, Conclude
  <1>2. ASSUME NEW t \in Threads, NEW c \in Confs, FailExhausted(t, c)
        PROVE  conf'[d].status = conf[d].status
    BY <1>2, TransitionKeepsClosed DEF FailExhausted
  <1>3. ASSUME NEW t \in Threads, NEW c \in Confs, ClaimReconcile(t, c)
        PROVE  conf'[d].status = conf[d].status
    BY <1>3 DEF ClaimReconcile, Types, RowType
  <1>4. ASSUME NEW c \in Confs, Propose(c)
        PROVE  conf'[d].status = conf[d].status
    BY <1>4 DEF Propose, Closed, Outcomes
  <1>5. CASE Tick
    BY <1>5 DEF Tick, Types, RowType
  <1>6. CASE \/ \E t \in Threads :
                  \/ \E c \in Confs, decline \in BOOLEAN : Tap(t, c, decline)
                  \/ BeginSweep(t) \/ Reauthorize(t) \/ CheckTransfer(t) \/ Requested(t)
                  \/ LookBeforeTransfer(t) \/ InsertTransfer(t) \/ FinishFails(t) \/ ListStuck(t)
                  \/ EndSweep(t) \/ GetConfirmed(t) \/ FindTransfer(t)
             \/ OpenElsewhere \/ (\E x \in Transfers : CloseTransfer(x)) \/ Switch \/ Outage
    BY <1>6 DEF Tap, BeginSweep, Reauthorize, CheckTransfer, Requested, LookBeforeTransfer,
                InsertTransfer, FinishFails, ListStuck, EndSweep, GetConfirmed, FindTransfer,
                OpenElsewhere, CloseTransfer, Switch, Outage
  <1> QED BY <1>1, <1>2, <1>3, <1>4, <1>5, <1>6 DEF ConfNext, Run

-------------------------------------------------------------------------------
(* Theorems *)

LEMMA ConfInvariant == ConfSpec => [](ActsInv /\ AttemptsInv)
  <1>1. ConfInit => ActsInv /\ AttemptsInv
    BY ActsInit, AttemptsInit
  <1>2. ActsInv /\ AttemptsInv /\ [ConfNext]_confVars => (ActsInv /\ AttemptsInv)'
    BY ActsStep, AttemptsStep
  <1> QED BY <1>1, <1>2, PTL DEF ConfSpec

\* Whatever taps, refusals, newer proposals, sweeps, closed transfers and restarts race:
\* the types and the bound on attempts hold, a transfer of the chatbot was authorized by the
\* customer, and a confirmation recorded as executed has its transfer (HandleTap,
\* executeConfirmed, reconcileOne).
THEOREM ConfirmedActsHolds == ConfSpec => []ConfirmedActs
  <1>1. ActsInv /\ AttemptsInv => ConfirmedActs
    <2> SUFFICES ASSUME ActsInv, AttemptsInv
                 PROVE  ConfirmedActs
      OBVIOUS
    <2>1. ConfTypeOK
      BY AttemptsBounded
    <2>2. OnlyConfirmedActs
      BY DEF ActsInv, GoodTransfers, Authorized, OnlyConfirmedActs
    <2> QED BY <2>1, <2>2 DEF ActsInv, ConfirmedActs
  <1> QED BY <1>1, ConfInvariant, PTL

\* No step takes back the outcome of a confirmation that was closed (transition: "the one way
\* a state changes").
THEOREM OutcomesAreFinal == ConfSpec => OutcomeIsFinal
  <1>1. ActsInv /\ [ConfNext]_confVars =>
          [\A c \in Confs : conf[c].status \in Closed => conf'[c].status = conf[c].status]_confVars
    BY ClosedStays DEF ActsInv
  <1> QED BY <1>1, ConfInvariant, PTL DEF ConfSpec, OutcomeIsFinal

-------------------------------------------------------------------------------
(* One transfer and one message, where a thread ends before the next tick *)

\* The steps of a thread that may still insert a transfer.
Acting == {"request", "look", "insert"}
Executes(t, c) == thread[t].pc \in Executing /\ thread[t].conf = c

\* A confirmation is carried out by one thread at a time: by the tap that confirmed it now, or
\* by the sweep that claimed it now.
Alone == \A t, u \in Threads, c \in Confs : Executes(t, c) /\ Executes(u, c) => t = u
Fresh ==
    \A t \in Threads, c \in Confs :
        Executes(t, c) => conf[c].confirmed = 0 \/ conf[c].claimed = 0
\* What a sweep is to claim was confirmed before,
ListedIsAged == \A c \in Confs : Listing(c) # {} => Aged(conf[c].confirmed)
\* a thread that may still insert a transfer has found none, and a transfer can be found.
NothingYet ==
    \A t \in Threads, x \in Transfers :
        thread[t].pc \in Acting => transfer[x].by # thread[t].conf
ByIsAfter == \A x \in Transfers : transfer[x].by # Nil => transfer[x].by \in transfer[x].after
\* Whoever spoke of a confirmation was the last to carry it out.
Silence ==
    \A c \in Confs :
        /\ told[c] <= 1
        /\ told[c] > 0 => conf[c].status \in Closed /\ \A t \in Threads : ~Executes(t, c)

OnceInv == Alone /\ Fresh /\ ListedIsAged /\ NothingYet /\ ByIsAfter /\ OneTransferEach /\ Silence

\* A step that starts nothing new.
CalmThreads ==
    \A t \in Threads :
        /\ thread'[t].pc \in Executing =>
             thread[t].pc \in Executing /\ thread'[t].conf = thread[t].conf
        /\ thread'[t].pc \in Acting => thread[t].pc \in Acting
CalmRows ==
    \A c \in Confs :
        Authorized(c) => conf'[c].confirmed = conf[c].confirmed /\ conf'[c].claimed = conf[c].claimed
CalmTransfers ==
    \A x \in Transfers : transfer'[x].by = transfer[x].by /\ transfer'[x].after = transfer[x].after

LEMMA ExecutesIsAuthorized ==
  ASSUME ActsInv, NEW t \in Threads, NEW c, Executes(t, c)
  PROVE  Authorized(c)
  BY DEF ActsInv, GoodThreads, GoodThread, Executes

LEMMA ListedIsAuthorized ==
  ASSUME ActsInv, NEW c, Listing(c) # {}
  PROVE  Authorized(c)
  BY DEF ActsInv, GoodThreads, GoodThread, Listing

LEMMA CalmSteps ==
  ASSUME ActsInv, OnceInv, QuietLists, CalmThreads, CalmRows, CalmTransfers
  PROVE  (Alone /\ Fresh /\ ListedIsAged /\ NothingYet /\ ByIsAfter /\ OneTransferEach)'
  <1>1. \A t \in Threads, c \in Confs : Executes(t, c)' => Executes(t, c)
    BY DEF CalmThreads, Executes
  <1>2. Alone'
    BY <1>1 DEF OnceInv, Alone
  <1>3. Fresh'
    <2> SUFFICES ASSUME NEW t \in Threads, NEW c \in Confs, Executes(t, c)'
                 PROVE  conf'[c].confirmed = 0 \/ conf'[c].claimed = 0
      BY DEF Fresh
    <2>1. Executes(t, c) /\ Authorized(c)
      BY <1>1, ExecutesIsAuthorized
    <2> QED BY <2>1 DEF CalmRows, OnceInv, Fresh
  <1>4. ListedIsAged'
    <2> SUFFICES ASSUME NEW c \in Confs, Listing(c)' # {}
                 PROVE  Aged(conf'[c].confirmed)
      BY DEF ListedIsAged, Aged
    <2>1. Listing(c) # {}
      BY DEF Listing, QuietLists
    <2>2. Authorized(c)
      BY <2>1, ListedIsAuthorized
    <2> QED BY <2>1, <2>2 DEF CalmRows, OnceInv, ListedIsAged
  <1>5. NothingYet'
    BY DEF NothingYet, OnceInv, CalmThreads, CalmTransfers, Acting, Executing
  <1>6. ByIsAfter' /\ OneTransferEach'
    BY DEF OnceInv, ByIsAfter, OneTransferEach, CalmTransfers
  <1> QED BY <1>2, <1>3, <1>4, <1>5, <1>6

LEMMA SilentSteps ==
  ASSUME OnceInv, told' = told, CalmThreads,
         \A c \in Confs : conf[c].status \in Closed => conf'[c].status = conf[c].status
  PROVE  Silence'
  BY DEF OnceInv, Silence, CalmThreads, Executes

LEMMA CalmOnce ==
  ASSUME ActsInv, OnceInv, ConfNext, QuietLists, CalmThreads, CalmRows, CalmTransfers, told' = told
  PROVE  OnceInv'
  <1>1. \A c \in Confs : conf[c].status \in Closed => conf'[c].status = conf[c].status
    BY ClosedStays DEF ActsInv
  <1> QED BY <1>1, CalmSteps, SilentSteps DEF OnceInv

\* A thread speaks of a confirmation that nobody else carries out, and is done with it.
LEMMA SpeakingOnce ==
  ASSUME ActsInv, OnceInv, ConfNext, QuietLists, CalmThreads, CalmRows, CalmTransfers,
         NEW c \in Confs, Tell(c), told[c] = 0, conf'[c].status \in Closed,
         \A t \in Threads : ~Executes(t, c)'
  PROVE  OnceInv'
  <1>1. \A d \in Confs : conf[d].status \in Closed => conf'[d].status = conf[d].status
    BY ClosedStays DEF ActsInv
  <1>2. told'[c] = 1 /\ \A d \in Confs : d # c => told'[d] = told[d]
    BY DEF Tell, ActsInv, Types
  <1>3. \A t \in Threads, d \in Confs : Executes(t, d)' => Executes(t, d)
    BY DEF CalmThreads, Executes
  <1>4. Silence'
    <2> SUFFICES ASSUME NEW d \in Confs
                 PROVE  /\ told'[d] <= 1
                        /\ told'[d] > 0 => conf'[d].status \in Closed
                                             /\ \A t \in Threads : ~Executes(t, d)'
      BY DEF Silence
    <2>1. CASE d = c
      BY <1>2, <2>1
    <2>2. CASE d # c
      BY <1>1, <1>2, <1>3, <2>2 DEF OnceInv, Silence
    <2> QED BY <2>1, <2>2
  <1> QED BY <1>4, CalmSteps DEF OnceInv

\* A thread that moves on locally, and starts nothing.
LEMMA LocalIsCalm ==
  ASSUME NEW t \in Threads, Local(t),
         \/ thread'[t].pc \notin Executing
         \/ /\ thread[t].pc \in Executing /\ thread'[t].conf = thread[t].conf
            /\ thread'[t].pc \in Acting => thread[t].pc \in Acting
  PROVE  QuietLists /\ CalmThreads
  BY DEF Local, QuietLists, CalmThreads, Acting, Executing

LEMMA UnchangedIsCalm ==
  /\ conf' = conf => CalmRows
  /\ transfer' = transfer => CalmTransfers
  /\ thread' = thread => QuietLists /\ CalmThreads
  BY DEF CalmRows, CalmTransfers, QuietLists, CalmThreads

LEMMA TapOnce ==
  ASSUME ActsInv, OnceInv, ConfNext, NEW t \in Threads,
         \/ \E c \in Confs, decline \in BOOLEAN : Tap(t, c, decline)
         \/ BeginSweep(t) \/ EndSweep(t)
  PROVE  OnceInv'
  <1>1. UNCHANGED <<conf, transfer, told>>
    BY DEF Tap, BeginSweep, EndSweep
  <1>2. /\ thread'[t].pc \notin Executing /\ thread'[t].sweep # "stuck"
        /\ \A u \in Threads : u # t => thread'[u] = thread[u]
    <2>1. CASE BeginSweep(t)
      BY <2>1 DEF BeginSweep, At, Executing, ActsInv, Types, Thread
    <2>2. CASE EndSweep(t)
      BY <2>2, ConfirmationAssumption DEF EndSweep, NoThread, Executing, ActsInv, Types
    <2>3. ASSUME NEW c \in Confs, NEW decline \in BOOLEAN, Tap(t, c, decline)
          PROVE  /\ thread'[t].pc \notin Executing /\ thread'[t].sweep # "stuck"
                 /\ \A u \in Threads : u # t => thread'[u] = thread[u]
      BY <2>3, ConfirmationAssumption DEF Tap, NoThread, Executing, ActsInv, Types
    <2> QED BY <2>1, <2>2, <2>3
  <1>3. QuietLists /\ CalmThreads
    BY <1>2 DEF QuietLists, CalmThreads, Executing, Acting
  <1> QED BY <1>1, <1>3, UnchangedIsCalm, CalmOnce

LEMMA ReadingOnce ==
  ASSUME ActsInv, OnceInv, ConfNext, NEW t \in Threads,
         \/ Reauthorize(t) \/ CheckTransfer(t) \/ Requested(t) \/ FinishFails(t) \/ GetConfirmed(t)
  PROVE  OnceInv'
  <1>1. UNCHANGED <<conf, transfer, told>>
    BY DEF Reauthorize, CheckTransfer, Requested, FinishFails, GetConfirmed
  <1>2. CASE Rest(t)
    BY <1>1, <1>2, LocalMoves, LocalIsCalm, UnchangedIsCalm, CalmOnce DEF ActsInv, Executing
  <1>3. CASE \/ Go(t, "check") \/ Go(t, "confirm")
             \/ \E end \in {"denied", "not_executed"} : GoEnd(t, "close", end)
    <2>1. Local(t) /\ thread'[t].pc \notin Executing
      BY <1>3, LocalMoves DEF ActsInv, PCs, Closed, Outcomes, Executing
    <2> QED BY <1>1, <2>1, LocalIsCalm, UnchangedIsCalm, CalmOnce
  <1>4. CASE /\ thread[t].pc \in Executing
             /\ \/ thread[t].pc = "request" /\ Go(t, "look")
                \/ Go(t, "find")
                \/ \E end \in {"failed", "denied"} : GoEnd(t, "conclude", end)
    <2>1. /\ Local(t) /\ thread'[t].conf = thread[t].conf
          /\ thread'[t].pc \in Acting => thread[t].pc \in Acting
      BY <1>4, LocalMoves DEF ActsInv, PCs, Closed, Outcomes, Executing, Acting
    <2> QED BY <1>1, <1>4, <2>1, LocalIsCalm, UnchangedIsCalm, CalmOnce
  <1> QED BY <1>2, <1>3, <1>4
          DEF Reauthorize, CheckTransfer, Requested, FinishFails, GetConfirmed, At, Executing

LEMMA LookOnce ==
  ASSUME ActsInv, OnceInv, ConfNext, NEW t \in Threads, LookBeforeTransfer(t)
  PROVE  OnceInv'
  <1>1. UNCHANGED <<conf, transfer, told>> /\ thread[t].pc = "look"
    BY DEF LookBeforeTransfer, At
  <1>2. Local(t) /\ thread'[t].conf = thread[t].conf
    <2>1. CASE \E end \in {"not_executed", "failed"} : GoEnd(t, "finish", end)
      BY <2>1, LocalMoves DEF ActsInv, PCs, Closed, Outcomes
    <2>2. CASE thread' = [thread EXCEPT ![t].pc = "insert",
                            ![t].since = {c \in Confs : conf[c].confirmed # Nil}]
      BY <2>2 DEF ActsInv, Types, Thread, Local
    <2> QED BY <2>1, <2>2 DEF LookBeforeTransfer
  <1> QED BY <1>1, <1>2, LocalIsCalm, UnchangedIsCalm, CalmOnce DEF Executing, Acting

\* Nothing of the thread's own confirmation was found, and a transfer of it would have been.
LEMMA FindOnce ==
  ASSUME ActsInv, OnceInv, ConfNext, NEW t \in Threads, FindTransfer(t)
  PROVE  OnceInv'
  <1>1. UNCHANGED <<conf, transfer, told>> /\ thread[t].pc = "find"
    BY DEF FindTransfer, At
  <1>2. CASE FindAITransfer(thread[t].conf)
    <2>1. Local(t) /\ thread'[t].conf = thread[t].conf /\ thread'[t].pc = "conclude"
      BY <1>2, LocalMoves DEF FindTransfer, ActsInv, PCs, Closed, Outcomes
    <2> QED BY <1>1, <2>1, LocalIsCalm, UnchangedIsCalm, CalmOnce DEF Executing, Acting
  <1>3. CASE ~FindAITransfer(thread[t].conf)
    <2>1. Local(t) /\ thread'[t].conf = thread[t].conf /\ thread'[t].pc = "request"
      BY <1>3, LocalMoves DEF FindTransfer, ActsInv, PCs
    <2>2. \A u \in Threads, c \in Confs : Executes(u, c)' => Executes(u, c)
      BY <1>1, <2>1 DEF Local, Executes, Executing
    <2>3. Alone' /\ Fresh'
      BY <1>1, <2>2 DEF OnceInv, Alone, Fresh
    <2>4. Silence'
      BY <1>1, <2>2 DEF OnceInv, Silence
    <2>5. ListedIsAged'
      BY <1>1, <2>1 DEF OnceInv, ListedIsAged, Listing, Local, Aged
    <2>6. \A x \in Transfers : transfer[x].by # thread[t].conf
      <3>1. thread[t].conf # Nil
        BY <1>1, ConfirmationAssumption DEF ActsInv, GoodThreads, GoodThread, Executing, Authorized
      <3> QED BY <1>3, <3>1 DEF OnceInv, ByIsAfter, FindAITransfer
    <2>7. NothingYet'
      BY <1>1, <2>1, <2>6 DEF OnceInv, NothingYet, Local
    <2>8. ByIsAfter' /\ OneTransferEach'
      BY <1>1 DEF OnceInv, ByIsAfter, OneTransferEach
    <2> QED BY <2>3, <2>4, <2>5, <2>7, <2>8 DEF OnceInv
  <1> QED BY <1>2, <1>3

LEMMA InsertOnce ==
  ASSUME ActsInv, OnceInv, ConfNext, NEW t \in Threads, InsertTransfer(t)
  PROVE  OnceInv'
  <1> DEFINE c == thread[t].conf
  <1>1. UNCHANGED <<conf, told>> /\ thread[t].pc = "insert"
    BY DEF InsertTransfer, At
  <1>2. Local(t) /\ thread'[t].conf = c /\ thread'[t].pc = "finish"
    BY LocalMoves DEF InsertTransfer, ActsInv, PCs, Closed, Outcomes
  <1>3. QuietLists /\ CalmThreads /\ CalmRows
    BY <1>1, <1>2, LocalIsCalm, UnchangedIsCalm DEF Executing, Acting
  <1>4. CASE transfer' = transfer
    BY <1>1, <1>3, <1>4, UnchangedIsCalm, CalmOnce
  <1>5. ASSUME NEW x \in Transfers, transfer[x].status = "unused",
               transfer' = [transfer EXCEPT ![x] =
                              [status |-> "active", by |-> c, after |-> thread[t].since]]
        PROVE  OnceInv'
    <2>1. \A u \in Threads, d \in Confs : Executes(u, d)' => Executes(u, d)
      BY <1>3 DEF CalmThreads, Executes
    <2>2. Alone' /\ Fresh'
      BY <1>1, <2>1 DEF OnceInv, Alone, Fresh
    <2>3. Silence'
      BY <1>1, <2>1 DEF OnceInv, Silence
    <2>4. ListedIsAged'
      BY <1>1, <1>2 DEF OnceInv, ListedIsAged, Listing, Local, Aged
    <2>5. /\ transfer'[x].by = c /\ transfer'[x].after = thread[t].since
          /\ \A y \in Transfers : y # x => transfer'[y] = transfer[y]
      BY <1>5 DEF ActsInv, Types
    <2>6. ByIsAfter'
      BY <1>1, <2>5 DEF OnceInv, ByIsAfter, ActsInv, GoodThreads, GoodThread
    <2>7. \A y \in Transfers : transfer[y].by # c
      BY <1>1 DEF OnceInv, NothingYet, Acting
    <2>8. OneTransferEach'
      BY <2>5, <2>7 DEF OnceInv, OneTransferEach
    <2>9. NothingYet'
      <3> SUFFICES ASSUME NEW u \in Threads, NEW y \in Transfers, thread'[u].pc \in Acting
                   PROVE  transfer'[y].by # thread'[u].conf
        BY DEF NothingYet
      <3>1. u # t /\ thread'[u] = thread[u]
        BY <1>2 DEF Acting, Local
      <3>2. thread[u].conf # c
        <4>1. Executes(t, c) /\ Executes(u, thread[u].conf) /\ c \in Confs
          BY <1>1, <3>1 DEF Executes, Executing, Acting, ActsInv, GoodThreads, GoodThread, Authorized
        <4> QED BY <3>1, <4>1 DEF OnceInv, Alone
      <3> QED BY <2>5, <3>1, <3>2 DEF OnceInv, NothingYet
    <2> QED BY <2>2, <2>3, <2>4, <2>6, <2>8, <2>9 DEF OnceInv
  <1> QED BY <1>4, <1>5 DEF InsertTransfer

\* A compare-and-set that is calm: it closes a row and keeps what dates it.
LEMMA ClosingIsCalm ==
  ASSUME Types, NEW c \in Confs, NEW from, NEW end, Transition(c, from, Closing(c, end))
  PROVE  CalmRows /\ (Wins(c, from) => conf'[c].status = end) /\ (~Wins(c, from) => conf' = conf)
  <1>1. CASE Wins(c, from)
    <2>1. conf' = [conf EXCEPT ![c] = [conf[c] EXCEPT !.status = end, !.finished = 0]]
      BY <1>1 DEF Transition, Closing
    <2>2. conf[c] \in RowType
      BY DEF Types
    <2>3. /\ conf'[c].status = end /\ conf'[c].confirmed = conf[c].confirmed
          /\ conf'[c].claimed = conf[c].claimed
          /\ \A d \in Confs : d # c => conf'[d] = conf[d]
      BY <2>1, <2>2 DEF Types, RowType
    <2> QED BY <1>1, <2>3 DEF CalmRows, Authorized
  <1>2. CASE ~Wins(c, from)
    BY <1>2 DEF Transition, CalmRows
  <1> QED BY <1>1, <1>2

LEMMA ClosePendingOnce ==
  ASSUME ActsInv, OnceInv, ConfNext, NEW t \in Threads, ClosePending(t)
  PROVE  OnceInv'
  <1> DEFINE c == thread[t].conf
             end == thread[t].end
  <1>1. c \in Confs /\ end \in Closed
    BY DEF ClosePending, At, ActsInv, GoodThreads, GoodThread, Closed, Outcomes
  <1>2. Local(t) /\ thread'[t].pc = "idle" /\ transfer' = transfer
    BY LocalMoves DEF ClosePending, ActsInv
  <1>3. QuietLists /\ CalmThreads /\ CalmTransfers
    BY <1>2, LocalIsCalm, UnchangedIsCalm DEF Executing
  <1>4. Transition(c, "pending", Closing(c, end))
    BY DEF ClosePending
  <1>5. CalmRows /\ (Wins(c, "pending") => conf'[c].status = end)
    BY <1>1, <1>4, ClosingIsCalm DEF ActsInv
  <1>6. CASE Wins(c, "pending")
    <2>1. Tell(c) /\ conf[c].status = "pending"
      BY <1>6 DEF ClosePending, Wins
    <2>2. told[c] = 0
      BY <1>1, <2>1 DEF OnceInv, Silence, ActsInv, Types, Closed, Outcomes
    <2>3. \A u \in Threads : thread'[u].pc \in Executing => thread'[u].conf # c
      <3>1. \A u \in Threads : ~Executes(u, c)
        BY <2>1, ExecutesIsAuthorized DEF Authorized, Outcomes
      <3> QED BY <1>3, <3>1 DEF CalmThreads, Executes
    <2> QED BY <1>1, <1>3, <1>5, <1>6, <2>1, <2>2, <2>3, SpeakingOnce DEF Executes
  <1>7. CASE ~Wins(c, "pending")
    <2>1. told' = told
      BY <1>7 DEF ClosePending
    <2> QED BY <1>3, <1>5, <2>1, CalmOnce
  <1> QED BY <1>6, <1>7

LEMMA FinishOnce ==
  ASSUME ActsInv, OnceInv, ConfNext, NEW t \in Threads, Finish(t) \/ Conclude(t)
  PROVE  OnceInv'
  <1> DEFINE c == thread[t].conf
             end == thread[t].end
  <1>1. /\ thread[t].pc \in Executing /\ Executes(t, c) /\ Authorized(c) /\ c \in Confs
        /\ end \in Outcomes
    BY DEF Finish, Conclude, At, Executing, Executes, Authorized, ActsInv, GoodThreads, GoodThread
  <1>2. Local(t) /\ thread'[t].pc = "idle" /\ transfer' = transfer
    BY LocalMoves DEF Finish, Conclude, ActsInv
  <1>3. QuietLists /\ CalmThreads /\ CalmTransfers
    BY <1>2, LocalIsCalm, UnchangedIsCalm DEF Executing
  <1>4. Transition(c, "confirmed", Closing(c, end))
    BY DEF Finish, Conclude
  <1>5. /\ CalmRows /\ (Wins(c, "confirmed") => conf'[c].status = end)
        /\ ~Wins(c, "confirmed") => conf' = conf
    BY <1>1, <1>4, ClosingIsCalm DEF ActsInv
  <1>6. conf'[c].status \in Closed
    BY <1>1, <1>5 DEF Wins, Authorized, Closed
  <1>7. told[c] = 0
    BY <1>1 DEF OnceInv, Silence, ActsInv, Types
  <1>8. \A u \in Threads : thread'[u].pc \in Executing => thread'[u].conf # c
    <2> SUFFICES ASSUME NEW u \in Threads, thread'[u].pc \in Executing, thread'[u].conf = c
                 PROVE  FALSE
      OBVIOUS
    <2>1. u # t /\ Executes(u, c)
      BY <1>2 DEF Local, Executes, Executing
    <2> QED BY <1>1, <2>1 DEF OnceInv, Alone
  <1>9. CASE Tell(c)
    BY <1>1, <1>3, <1>5, <1>6, <1>7, <1>8, <1>9, SpeakingOnce DEF Executes
  <1>10. CASE told' = told
    BY <1>3, <1>5, <1>10, CalmOnce
  <1> QED BY <1>9, <1>10 DEF Finish, Conclude

LEMMA ConfirmOnce ==
  ASSUME ActsInv, OnceInv, ConfNext, NEW t \in Threads, Confirm(t)
  PROVE  OnceInv'
  <1> DEFINE c == thread[t].conf
  <1>1. c \in Confs /\ UNCHANGED <<transfer, told>>
    BY DEF Confirm, At, ActsInv, GoodThreads, GoodThread
  <1>2. CASE ~Wins(c, "pending")
    <2>1. conf' = conf /\ Rest(t)
      BY <1>2 DEF Confirm, Transition
    <2> QED BY <1>1, <2>1, LocalMoves, LocalIsCalm, UnchangedIsCalm, CalmOnce DEF ActsInv, Executing
  <1>3. CASE Wins(c, "pending")
    <2>1. /\ Go(t, "request") /\ conf[c].status = "pending"
          /\ conf' = [conf EXCEPT ![c] = [conf[c] EXCEPT !.status = "confirmed", !.confirmed = 0]]
      BY <1>3 DEF Confirm, Transition, Wins
    <2>2. Local(t) /\ thread'[t].pc = "request" /\ thread'[t].conf = c
      BY <2>1, LocalMoves DEF ActsInv, PCs
    <2>3. conf'[c].confirmed = 0 /\ \A d \in Confs : d # c => conf'[d] = conf[d]
      BY <1>1, <2>1 DEF ActsInv, Types, RowType
    <2>4. ~Authorized(c) /\ told[c] = 0 /\ Listing(c) = {}
      BY <1>1, <2>1, ListedIsAuthorized
         DEF Authorized, Outcomes, Closed, OnceInv, Silence, ActsInv, Types
    <2>5. \A u \in Threads : thread[u].pc \in Executing => thread[u].conf # c
      BY <2>4, ExecutesIsAuthorized DEF Executes
    <2>6. Alone' /\ Fresh'
      BY <2>2, <2>3, <2>5 DEF OnceInv, Alone, Fresh, Local, Executes
    <2>7. \A d \in Confs : Listing(d)' = Listing(d)
      BY <2>2 DEF Local, Listing
    <2>8. ListedIsAged'
      BY <1>1, <2>3, <2>4, <2>7 DEF OnceInv, ListedIsAged, Aged
    <2>9. NothingYet'
      <3>1. \A x \in Transfers : transfer[x].by # c
        BY <1>1, <2>4, ConfirmationAssumption DEF ActsInv, GoodTransfers
      <3> QED BY <1>1, <2>2, <3>1 DEF OnceInv, NothingYet, Local
    <2>10. ByIsAfter' /\ OneTransferEach'
      BY <1>1 DEF OnceInv, ByIsAfter, OneTransferEach
    <2>11. Silence'
      <3> SUFFICES ASSUME NEW d \in Confs
                   PROVE  /\ told[d] <= 1
                          /\ told[d] > 0 => conf'[d].status \in Closed
                                              /\ \A u \in Threads : ~Executes(u, d)'
        BY <1>1 DEF Silence
      <3>1. CASE d = c
        BY <2>4, <3>1
      <3>2. CASE d # c
        BY <2>2, <2>3, <3>2 DEF OnceInv, Silence, Local, Executes
      <3> QED BY <3>1, <3>2
    <2> QED BY <2>6, <2>8, <2>9, <2>10, <2>11 DEF OnceInv
  <1> QED BY <1>2, <1>3

LEMMA ListOnce ==
  ASSUME ActsInv, OnceInv, ConfNext, NEW t \in Threads, ListStuck(t)
  PROVE  OnceInv'
  <1>1. /\ UNCHANGED <<conf, transfer, told>>
        /\ thread' = [thread EXCEPT ![t].sweep = "stuck", ![t].todo = Stuck]
    BY DEF ListStuck
  <1>2. /\ thread'[t].todo = Stuck /\ thread'[t].pc = thread[t].pc /\ thread'[t].conf = thread[t].conf
        /\ \A u \in Threads : u # t => thread'[u] = thread[u]
    BY <1>1 DEF ActsInv, Types, Thread
  <1>3. \A u \in Threads : thread'[u].pc = thread[u].pc /\ thread'[u].conf = thread[u].conf
    BY <1>2
  <1>4. Alone' /\ Fresh' /\ NothingYet' /\ Silence' /\ ByIsAfter' /\ OneTransferEach'
    <2>1. Alone' /\ Fresh'
      BY <1>1, <1>3 DEF OnceInv, Alone, Fresh, Executes
    <2>2. NothingYet'
      BY <1>1, <1>3 DEF OnceInv, NothingYet
    <2>3. Silence'
      BY <1>1, <1>3 DEF OnceInv, Silence, Executes
    <2> QED BY <1>1, <2>1, <2>2, <2>3 DEF OnceInv, ByIsAfter, OneTransferEach
  <1>5. ListedIsAged'
    <2> SUFFICES ASSUME NEW c \in Confs, Listing(c)' # {}
                 PROVE  Aged(conf[c].confirmed)
      BY <1>1 DEF ListedIsAged, Aged
    <2>1. Listing(c) # {} \/ c \in Stuck
      BY <1>2 DEF Listing
    <2> QED BY <2>1 DEF OnceInv, ListedIsAged, Stuck
  <1> QED BY <1>4, <1>5 DEF OnceInv

\* A claim needs a confirmation of before and no claim of now: nobody else carries it out.
LEMMA ClaimOnce ==
  ASSUME ActsInv, OnceInv, ConfNext, NEW t \in Threads, NEW c \in Confs, ClaimReconcile(t, c)
  PROVE  OnceInv'
  <1>1. /\ UNCHANGED <<transfer, told>> /\ Listing(c) # {}
        /\ thread[t] \in Thread
    BY DEF ClaimReconcile, Listing, ActsInv, Types
  <1>2. CASE ~Claimable(c)
    <2>1. conf' = conf /\ thread' = [thread EXCEPT ![t].todo = @ \ {c}]
      BY <1>2 DEF ClaimReconcile
    <2>2. QuietLists /\ CalmThreads
      BY <1>1, <2>1 DEF QuietLists, CalmThreads, ActsInv, Types, Thread
    <2> QED BY <1>1, <2>1, <2>2, UnchangedIsCalm, CalmOnce
  <1>3. CASE Claimable(c)
    <2>1. /\ conf' = [conf EXCEPT ![c].claimed = 0, ![c].attempts = @ + 1]
          /\ thread' = [thread EXCEPT ![t].todo = @ \ {c}, ![t].pc = "get", ![t].conf = c]
      BY <1>3 DEF ClaimReconcile
    <2>2. /\ thread'[t].pc = "get" /\ thread'[t].conf = c /\ thread'[t].sweep = thread[t].sweep
          /\ thread'[t].todo = thread[t].todo \ {c}
          /\ \A u \in Threads : u # t => thread'[u] = thread[u]
      BY <1>1, <2>1 DEF ActsInv, Types, Thread
    <2>3. /\ conf'[c].claimed = 0 /\ conf'[c].status = conf[c].status
          /\ conf'[c].confirmed = conf[c].confirmed
          /\ \A d \in Confs : d # c => conf'[d] = conf[d]
      BY <2>1 DEF ActsInv, Types, RowType
    <2>4. Aged(conf[c].confirmed) /\ Unclaimed(c) /\ conf[c].status = "confirmed"
      BY <1>1, <1>3 DEF OnceInv, ListedIsAged, Claimable, Listing
    <2>5. conf[c].confirmed # 0 /\ conf[c].claimed # 0
      BY <2>4, ConfirmationAssumption DEF Aged, Unclaimed
    <2>6. \A u \in Threads : ~Executes(u, c)
      BY <2>5 DEF OnceInv, Fresh
    <2>7. Alone' /\ Fresh'
      BY <2>2, <2>3, <2>6 DEF OnceInv, Alone, Fresh, Executes
    <2>8. ListedIsAged'
      <3>1. \A d \in Confs : Listing(d)' # {} => Listing(d) # {}
        BY <2>2 DEF Listing
      <3> QED BY <2>3, <3>1 DEF OnceInv, ListedIsAged, Aged
    <2>9. NothingYet' /\ ByIsAfter' /\ OneTransferEach'
      <3>1. NothingYet'
        BY <1>1, <2>2 DEF OnceInv, NothingYet, Acting
      <3> QED BY <1>1, <3>1 DEF OnceInv, ByIsAfter, OneTransferEach
    <2>10. Silence'
      <3> SUFFICES ASSUME NEW d \in Confs
                   PROVE  /\ told[d] <= 1
                          /\ told[d] > 0 => conf'[d].status \in Closed
                                              /\ \A u \in Threads : ~Executes(u, d)'
        BY <1>1 DEF Silence
      <3>1. CASE d = c
        BY <2>4, <3>1 DEF OnceInv, Silence, Closed, Outcomes
      <3>2. CASE d # c
        BY <2>2, <2>3, <3>2 DEF OnceInv, Silence, Executes
      <3> QED BY <3>1, <3>2
    <2> QED BY <2>7, <2>8, <2>9, <2>10 DEF OnceInv
  <1> QED BY <1>2, <1>3

LEMMA FailExhaustedOnce ==
  ASSUME ActsInv, OnceInv, ConfNext, NEW t \in Threads, NEW c \in Confs, FailExhausted(t, c)
  PROVE  OnceInv'
  <1>1. /\ UNCHANGED <<transfer, told>> /\ thread' = [thread EXCEPT ![t].todo = @ \ {c}]
        /\ Transition(c, "confirmed", Closing(c, "failed"))
    BY DEF FailExhausted
  <1>2. QuietLists /\ CalmThreads
    BY <1>1 DEF QuietLists, CalmThreads, ActsInv, Types, Thread
  <1> QED BY <1>1, <1>2, ClosingIsCalm, UnchangedIsCalm, CalmOnce DEF ActsInv

LEMMA ProposeOnce ==
  ASSUME ActsInv, OnceInv, ConfNext, NEW c \in Confs, Propose(c)
  PROVE  OnceInv'
  <1>1. UNCHANGED <<transfer, thread, told>>
    BY DEF Propose
  <1>2. CalmRows
    BY DEF Propose, CalmRows, Authorized, Outcomes
  <1> QED BY <1>1, <1>2, UnchangedIsCalm, CalmOnce

\* Where threads are timely, a tick finds none at work.
LEMMA TickOnce ==
  ASSUME Timely, ActsInv, OnceInv, ConfNext, Tick
  PROVE  OnceInv'
  <1>1. UNCHANGED <<transfer, thread, told>> /\ \A t \in Threads : thread[t] = NoThread
    BY DEF Tick
  <1>2. \A t \in Threads : thread'[t].pc = "idle" /\ thread'[t].sweep # "stuck"
    BY <1>1, ConfirmationAssumption DEF NoThread
  <1>3. Alone' /\ Fresh' /\ NothingYet'
    BY <1>2 DEF Alone, Fresh, NothingYet, Executes, Executing, Acting
  <1>4. ListedIsAged'
    BY <1>2 DEF ListedIsAged, Listing
  <1>5. Silence'
    <2>1. CalmThreads
      BY <1>1, UnchangedIsCalm
    <2> QED BY <1>1, <2>1, ClosedStays, SilentSteps DEF ActsInv
  <1> QED BY <1>1, <1>3, <1>4, <1>5 DEF OnceInv, ByIsAfter, OneTransferEach

LEMMA OnceStep ==
  ASSUME Timely, ActsInv, OnceInv, [ConfNext]_confVars
  PROVE  OnceInv'
  <1>1. CASE ConfNext /\ (OpenElsewhere \/ (\E x \in Transfers : CloseTransfer(x)) \/ Switch)
    <2>1. UNCHANGED <<conf, thread, told>>
      BY <1>1 DEF OpenElsewhere, CloseTransfer, Switch
    <2>2. CalmTransfers
      BY <1>1 DEF OpenElsewhere, CloseTransfer, Switch, CalmTransfers, ActsInv, Types, AgentTransfer
    <2> QED BY <1>1, <2>1, <2>2, UnchangedIsCalm, CalmOnce
  <1>2. CASE ConfNext /\ Outage
    <2>1. UNCHANGED <<conf, transfer, told>> /\ thread' = [t \in Threads |-> NoThread]
      BY <1>2 DEF Outage
    <2>2. QuietLists /\ CalmThreads
      BY <2>1, ConfirmationAssumption DEF QuietLists, CalmThreads, NoThread, Executing, Acting
    <2> QED BY <1>2, <2>1, <2>2, UnchangedIsCalm, CalmOnce
  <1>3. ASSUME ConfNext, NEW t \in Threads, Run(t)
        PROVE  OnceInv'
    BY <1>3, ReadingOnce, LookOnce, FindOnce, InsertOnce, ClosePendingOnce, FinishOnce, ConfirmOnce,
       ListOnce, TapOnce, ClaimOnce, FailExhaustedOnce DEF Run
  <1>4. CASE UNCHANGED confVars
    <2>1. QuietLists /\ CalmThreads /\ CalmRows /\ CalmTransfers /\ told' = told /\ conf' = conf
      BY <1>4, UnchangedIsCalm DEF confVars
    <2> QED BY <2>1, CalmSteps, SilentSteps DEF OnceInv
  <1> QED BY <1>1, <1>2, <1>3, <1>4, TapOnce, ProposeOnce, TickOnce DEF ConfNext

LEMMA OnceInit ==
  ASSUME ConfInit
  PROVE  OnceInv
  BY ConfirmationAssumption
     DEF ConfInit, OnceInv, Alone, Fresh, ListedIsAged, Listing, NothingYet, ByIsAfter, OneTransferEach,
         Silence, Executes, Executing, Acting, Unused, NoThread, NoTransfer

LEMMA OnceInvariant ==
  ASSUME Timely
  PROVE  ConfSpec => [](ActsInv /\ OnceInv)
  <1>1. ConfInit => ActsInv /\ OnceInv
    BY ActsInit, OnceInit
  <1>2. ActsInv /\ OnceInv /\ [ConfNext]_confVars => (ActsInv /\ OnceInv)'
    BY ActsStep, OnceStep
  <1> QED BY <1>1, <1>2, PTL DEF ConfSpec

\* "Never two transfers": where a thread ends before the next tick, a confirmation creates at most
\* one transfer, whatever taps, sweeps and restarts come between (HandleTap, Reconcile).
THEOREM OneTransferEachHolds ==
  ASSUME Timely
  PROVE  ConfSpec => []OneTransferEach
  <1>1. OnceInv => OneTransferEach
    BY DEF OnceInv
  <1> QED BY <1>1, OnceInvariant, PTL

\* "The reconciliation sends no duplicate message": under the same condition the customer hears
\* of the outcome of a confirmation at most once (Finish, reconcileOne).
THEOREM ToldOnceHolds ==
  ASSUME Timely
  PROVE  ConfSpec => []ToldOnce
  <1>1. OnceInv => ToldOnce
    BY DEF OnceInv, Silence, ToldOnce
  <1> QED BY <1>1, OnceInvariant, PTL

===============================================================================
