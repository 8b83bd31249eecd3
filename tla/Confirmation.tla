------------------------------ MODULE Confirmation ------------------------------
(***************************************************************************)
(* The confirmations of one contact for one write tool of the chatbot's    *)
(* AI: the model proposes a transfer to the human queue, the customer taps *)
(* a button, and exactly the tap that wins the compare-and-set carries it  *)
(* out.  A reconciler closes what a crash left confirmed.                  *)
(*                                                                         *)
(* Time is kept as ages that grow with Tick.  The digest of the action,    *)
(* the token and the session are taken to match; the audit rows of the     *)
(* calls appear only as a step that can fail.                              *)
(***************************************************************************)
EXTENDS Naturals, FiniteSets

CONSTANTS
    Confs,          \* the confirmations that can be proposed
    Threads,        \* webhook goroutines and sweeps of the reconciler
    Transfers,      \* the transfers that can be created
    Nil,
    TTL,            \* validity of a proposal and of an authorization
    MinAge,         \* ReconcileMinAge
    MaxAttempts,    \* ReconcileMaxAttempts
    Limit, Window,  \* proposals allowed in a window
    Cooldown,       \* pause after a refusal
    Timely,         \* whether a thread always ends before the next tick
    MaxOutages      \* bound: restarts of the server

ASSUME ConfirmationAssumption ==
    /\ {TTL, MinAge, MaxAttempts, Limit, Window, Cooldown, MaxOutages} \subseteq Nat
    /\ Nil \notin Nat \cup Confs \cup Transfers \cup {"exhausted", "stuck"}
    /\ IsFiniteSet(Threads)
    /\ Timely \in BOOLEAN

VARIABLES
    conf,           \* ai_tool_confirmations
    transfer,       \* the contact's agent_transfers
    thread,
    enabled,        \* what the re-authorization reads: switches, opt-in, provider
    open,           \* business hours
    told,           \* auxiliary: messages to the customer about the outcome, by confirmation
    outages

confVars == <<conf, transfer, thread, enabled, open, told, outages>>

\* Older than every limit.
Old == 1 + (CHOOSE n \in {TTL, MinAge, Window, Cooldown} :
              \A m \in {TTL, MinAge, Window, Cooldown} : m <= n)
Ages == 0..Old
Older(age) == IF age = Nil \/ age = Old THEN age ELSE age + 1

Outcomes == {"executed", "not_executed", "failed", "denied"}
Closed == Outcomes \cup {"declined", "expired", "superseded"}

Unused == [status |-> "unused", proposed |-> Nil, confirmed |-> Nil, finished |-> Nil,
           claimed |-> Nil, attempts |-> 0]
\* A claim excludes the other sweeps for MinAge: only a sweep that outlives one,
\* and had listed the row before, counts an attempt more.
AttemptLimit == MaxAttempts + (IF Timely THEN 0 ELSE Cardinality(Threads))
AIToolConfirmation ==
    [status : Closed \cup {"unused", "pending", "confirmed"},
     proposed : Ages \cup {Nil}, confirmed : Ages \cup {Nil}, finished : Ages \cup {Nil},
     claimed : Ages \cup {Nil}, attempts : 0..AttemptLimit]

\* after: the confirmations confirmed at or before its transferred_at, which is
\* what FindAITransfer compares; by: whose execution created it.
NoTransfer == [status |-> "unused", by |-> Nil, after |-> {}]
AgentTransfer == [status : {"unused", "active", "closed"}, by : Confs \cup {Nil},
                  after : SUBSET Confs]

\* end: the state a thread is about to write; since: what `after` will be of the
\* transfer it is about to insert; todo: the rows a sweep listed.
NoThread == [pc |-> "idle", conf |-> Nil, end |-> Nil, since |-> {}, sweep |-> Nil, todo |-> {}]
Thread == [pc : {"idle", "authorize", "check", "close", "confirm", "request", "look", "insert",
                 "finish", "get", "find", "conclude"},
           conf : Confs \cup {Nil}, end : Closed \cup {Nil}, since : SUBSET Confs,
           sweep : {Nil, "exhausted", "stuck"}, todo : SUBSET Confs]

ConfTypeOK ==
    /\ conf \in [Confs -> AIToolConfirmation]
    /\ transfer \in [Transfers -> AgentTransfer]
    /\ thread \in [Threads -> Thread]
    /\ enabled \in BOOLEAN /\ open \in BOOLEAN
    /\ told \in [Confs -> Nat]
    /\ outages \in 0..MaxOutages

ConfInit ==
    /\ conf = [c \in Confs |-> Unused]
    /\ transfer = [x \in Transfers |-> NoTransfer]
    /\ thread = [t \in Threads |-> NoThread]
    /\ enabled = TRUE /\ open = TRUE
    /\ told = [c \in Confs |-> 0]
    /\ outages = 0

HasActive == \E x \in Transfers : transfer[x].status = "active"

At(t, pc) == thread[t].pc = pc
Go(t, pc) == thread' = [thread EXCEPT ![t].pc = pc]
GoEnd(t, pc, end) ==
    thread' = [thread EXCEPT ![t].pc = pc, ![t].end = end, ![t].since = {}]
\* A thread is done with its row: a sweep goes on with the next one.
Rest(t) == thread' = [thread EXCEPT ![t].pc = "idle", ![t].conf = Nil, ![t].end = Nil]
Tell(c) == told' = [told EXCEPT ![c] = @ + 1]

-------------------------------------------------------------------------------
(* ConfirmationStore *)

\* Propose: under the contact's lock.  The tool looked for an active transfer
\* before, and that answer may be old.
Propose(c) ==
    /\ conf[c].status = "unused"
    /\ Cooldown > 0 =>
         ~\E d \in Confs : conf[d].status = "declined" /\ conf[d].finished <= Cooldown
    /\ Cardinality({d \in Confs : conf[d].proposed # Nil /\ conf[d].proposed <= Window}) < Limit
    /\ conf' = [d \in Confs |->
                  IF d = c THEN [Unused EXCEPT !.status = "pending", !.proposed = 0]
                  ELSE IF conf[d].status = "pending"
                  THEN [conf[d] EXCEPT !.status = "superseded", !.finished = 0]
                  ELSE conf[d]]
    /\ UNCHANGED <<transfer, thread, enabled, open, told, outages>>

Wins_Unconditional(c, from) == TRUE
\* transition: UPDATE ... WHERE status IN from.
Wins(c, from) == conf[c].status = from

Transition(c, from, row) ==
    conf' = IF Wins(c, from) THEN [conf EXCEPT ![c] = row] ELSE conf

Closing(c, end) == [conf[c] EXCEPT !.status = end, !.finished = 0]

-------------------------------------------------------------------------------
(* HandleTap *)

\* Lookup: only a tap on a pending confirmation goes further.
Tap(t, c, decline) ==
    /\ At(t, "idle") /\ thread[t].sweep = Nil
    /\ conf[c].status = "pending"
    /\ thread' = [thread EXCEPT ![t] =
         [NoThread EXCEPT !.conf = c,
            !.pc = IF conf[c].proposed >= TTL \/ decline THEN "close" ELSE "authorize",
            !.end = IF conf[c].proposed >= TTL THEN "expired"
                    ELSE IF decline THEN "declined" ELSE Nil]]
    /\ UNCHANGED <<conf, transfer, enabled, open, told, outages>>

Reauthorize(t) ==
    /\ At(t, "authorize")
    /\ IF enabled THEN Go(t, "check") ELSE GoEnd(t, "close", "denied")
    /\ UNCHANGED <<conf, transfer, enabled, open, told, outages>>

CheckTransfer(t) ==
    /\ At(t, "check")
    /\ IF HasActive \/ ~open THEN GoEnd(t, "close", "not_executed") ELSE Go(t, "confirm")
    /\ UNCHANGED <<conf, transfer, enabled, open, told, outages>>

\* Decline, Expire, Deny, CloseNotExecuted: from pending, answered by the winner.
ClosePending(t) ==
    LET c == thread[t].conf IN
    /\ At(t, "close")
    /\ Transition(c, "pending", Closing(c, thread[t].end))
    /\ IF Wins(c, "pending") THEN Tell(c) ELSE UNCHANGED told
    /\ Rest(t)
    /\ UNCHANGED <<transfer, enabled, open, outages>>

\* The compare-and-set that consumes the customer's authorization.
Confirm(t) ==
    LET c == thread[t].conf IN
    /\ At(t, "confirm")
    /\ Transition(c, "pending", [conf[c] EXCEPT !.status = "confirmed", !.confirmed = 0])
    /\ IF Wins(c, "pending") THEN Go(t, "request") ELSE Rest(t)
    /\ UNCHANGED <<transfer, enabled, open, told, outages>>

-------------------------------------------------------------------------------
(* executeConfirmed *)

\* Reads the row and records the audit row; without it nothing is run.
Requested(t) ==
    /\ At(t, "request")
    /\ Go(t, "look") \/ Rest(t)
    /\ UNCHANGED <<conf, transfer, enabled, open, told, outages>>

\* transferToQueue up to the insert, transferred_at included, or an error on the way.
LookBeforeTransfer(t) ==
    /\ At(t, "look")
    /\ \/ (HasActive \/ ~open) /\ GoEnd(t, "finish", "not_executed")
       \/ /\ ~HasActive /\ open
          /\ thread' = [thread EXCEPT ![t].pc = "insert",
                                      ![t].since = {c \in Confs : conf[c].confirmed # Nil}]
       \/ GoEnd(t, "finish", "failed")
    /\ UNCHANGED <<conf, transfer, enabled, open, told, outages>>

InsertTransfer_AnyIsCreated(t) ==
    /\ At(t, "insert")
    /\ \/ HasActive /\ GoEnd(t, "finish", "executed") /\ UNCHANGED transfer
       \/ /\ ~HasActive
          /\ \E x \in Transfers :
              /\ transfer[x].status = "unused"
              /\ transfer' = [transfer EXCEPT ![x] =
                   [status |-> "active", by |-> thread[t].conf, after |-> thread[t].since]]
          /\ GoEnd(t, "finish", "executed")
       \/ GoEnd(t, "finish", "failed") /\ UNCHANGED transfer
    /\ UNCHANGED <<conf, enabled, open, told, outages>>
\* The insert, under the unique index of active transfers, or an error of it.
InsertTransfer(t) ==
    /\ At(t, "insert")
    /\ \/ HasActive /\ GoEnd(t, "finish", "not_executed") /\ UNCHANGED transfer
       \/ /\ ~HasActive
          /\ \E x \in Transfers :
              /\ transfer[x].status = "unused"
              /\ transfer' = [transfer EXCEPT ![x] =
                   [status |-> "active", by |-> thread[t].conf, after |-> thread[t].since]]
          /\ GoEnd(t, "finish", "executed")
       \/ GoEnd(t, "finish", "failed") /\ UNCHANGED transfer
    /\ UNCHANGED <<conf, enabled, open, told, outages>>

\* Finish; the message goes out whether or not this call made the change.
Finish(t) ==
    LET c == thread[t].conf IN
    /\ At(t, "finish")
    /\ Transition(c, "confirmed", Closing(c, thread[t].end))
    /\ Tell(c)
    /\ Rest(t)
    /\ UNCHANGED <<transfer, enabled, open, outages>>

FinishFails(t) ==
    /\ At(t, "finish")
    /\ Rest(t)
    /\ UNCHANGED <<conf, transfer, enabled, open, told, outages>>

-------------------------------------------------------------------------------
(* Reconcile *)

Aged(age) == age > MinAge
Unclaimed(c) == conf[c].claimed = Nil \/ Aged(conf[c].claimed)

Exhausted_Never == {}
Exhausted == {c \in Confs : conf[c].status = "confirmed" /\ conf[c].attempts >= MaxAttempts
                            /\ Unclaimed(c)}
Stuck == {c \in Confs : conf[c].status = "confirmed" /\ Aged(conf[c].confirmed)
                        /\ conf[c].attempts < MaxAttempts /\ Unclaimed(c)}

BeginSweep(t) ==
    /\ At(t, "idle") /\ thread[t].sweep = Nil
    /\ thread' = [thread EXCEPT ![t].sweep = "exhausted", ![t].todo = Exhausted]
    /\ UNCHANGED <<conf, transfer, enabled, open, told, outages>>

FailExhausted(t, c) ==
    /\ thread[t].sweep = "exhausted" /\ c \in thread[t].todo
    /\ Transition(c, "confirmed", Closing(c, "failed"))
    /\ thread' = [thread EXCEPT ![t].todo = @ \ {c}]
    /\ UNCHANGED <<transfer, enabled, open, told, outages>>

ListStuck(t) ==
    /\ thread[t].sweep = "exhausted" /\ thread[t].todo = {}
    /\ thread' = [thread EXCEPT ![t].sweep = "stuck", ![t].todo = Stuck]
    /\ UNCHANGED <<conf, transfer, enabled, open, told, outages>>

EndSweep(t) ==
    /\ At(t, "idle") /\ thread[t].sweep = "stuck" /\ thread[t].todo = {}
    /\ thread' = [thread EXCEPT ![t] = NoThread]
    /\ UNCHANGED <<conf, transfer, enabled, open, told, outages>>

Claimable_Always(c) == conf[c].status = "confirmed"
Claimable(c) == conf[c].status = "confirmed" /\ Unclaimed(c)

ClaimReconcile(t, c) ==
    /\ At(t, "idle") /\ thread[t].sweep = "stuck" /\ c \in thread[t].todo
    /\ IF Claimable(c)
       THEN /\ conf' = [conf EXCEPT ![c].claimed = 0, ![c].attempts = @ + 1]
            /\ thread' = [thread EXCEPT ![t].todo = @ \ {c}, ![t].pc = "get", ![t].conf = c]
       ELSE /\ thread' = [thread EXCEPT ![t].todo = @ \ {c}]
            /\ UNCHANGED conf
    /\ UNCHANGED <<transfer, enabled, open, told, outages>>

\* reconcileOne: still confirmed, not older than the validity, authorized again.
GetConfirmed(t) ==
    LET c == thread[t].conf IN
    /\ At(t, "get")
    /\ IF conf[c].status # "confirmed" THEN Rest(t)
       ELSE IF conf[c].confirmed > TTL THEN GoEnd(t, "conclude", "failed")
       ELSE IF ~enabled THEN GoEnd(t, "conclude", "denied")
       ELSE Go(t, "find")
    /\ UNCHANGED <<conf, transfer, enabled, open, told, outages>>

FindAITransfer_Blind(c) == FALSE
FindAITransfer(c) == \E x \in Transfers : transfer[x].by # Nil /\ c \in transfer[x].after

FindTransfer(t) ==
    /\ At(t, "find")
    /\ IF FindAITransfer(thread[t].conf) THEN GoEnd(t, "conclude", "executed")
       ELSE Go(t, "request")
    /\ UNCHANGED <<conf, transfer, enabled, open, told, outages>>

\* The reconciler's own Finish; it speaks only if it won, and not of a stale one.
Conclude(t) ==
    LET c == thread[t].conf IN
    /\ At(t, "conclude")
    /\ Transition(c, "confirmed", Closing(c, thread[t].end))
    /\ IF Wins(c, "confirmed") /\ thread[t].end # "failed" THEN Tell(c) ELSE UNCHANGED told
    /\ Rest(t)
    /\ UNCHANGED <<transfer, enabled, open, outages>>

-------------------------------------------------------------------------------
(* The rest of the system *)

\* An agent opens a conversation with the contact, or somebody closes it.
OpenElsewhere ==
    /\ ~HasActive
    /\ \E x \in Transfers :
        /\ transfer[x].status = "unused"
        /\ transfer' = [transfer EXCEPT ![x].status = "active"]
    /\ UNCHANGED <<conf, thread, enabled, open, told, outages>>

CloseTransfer(x) ==
    /\ transfer[x].status = "active"
    /\ transfer' = [transfer EXCEPT ![x].status = "closed"]
    /\ UNCHANGED <<conf, thread, enabled, open, told, outages>>

Switch ==
    /\ \/ enabled' = ~enabled /\ UNCHANGED open
       \/ open' = ~open /\ UNCHANGED enabled
    /\ UNCHANGED <<conf, transfer, thread, told, outages>>

Tick ==
    /\ Timely => \A t \in Threads : thread[t] = NoThread
    /\ conf' = [c \in Confs |->
                  [conf[c] EXCEPT !.proposed = Older(@), !.confirmed = Older(@),
                                  !.finished = Older(@), !.claimed = Older(@)]]
    /\ conf' # conf
    /\ UNCHANGED <<transfer, thread, enabled, open, told, outages>>

Outage ==
    /\ outages < MaxOutages
    /\ outages' = outages + 1
    /\ thread' = [t \in Threads |-> NoThread]
    /\ UNCHANGED <<conf, transfer, enabled, open, told>>

Run(t) ==
    \/ Reauthorize(t) \/ CheckTransfer(t) \/ ClosePending(t) \/ Confirm(t)
    \/ Requested(t) \/ LookBeforeTransfer(t) \/ InsertTransfer(t) \/ Finish(t) \/ FinishFails(t)
    \/ ListStuck(t) \/ EndSweep(t) \/ GetConfirmed(t) \/ FindTransfer(t) \/ Conclude(t)
    \/ \E c \in Confs : FailExhausted(t, c) \/ ClaimReconcile(t, c)

ConfNext ==
    \/ \E c \in Confs : Propose(c)
    \/ \E t \in Threads :
        \/ \E c \in Confs, decline \in BOOLEAN : Tap(t, c, decline)
        \/ BeginSweep(t) \/ Run(t)
    \/ OpenElsewhere \/ \E x \in Transfers : CloseTransfer(x)
    \/ Switch \/ Tick \/ Outage

\* Time passes, what runs goes on, and the reconciler's ticker keeps firing.
ConfFairness ==
    /\ WF_confVars(Tick)
    /\ \A t \in Threads : WF_confVars(Run(t)) /\ SF_confVars(BeginSweep(t))

ConfSpec == ConfInit /\ [][ConfNext]_confVars /\ ConfFairness

-------------------------------------------------------------------------------
(* Properties *)

\* Whatever taps, refusals, newer proposals and sweeps race, a confirmation
\* that was closed keeps its outcome (transition, "the one way a state changes").
OutcomeIsFinal ==
    [][\A c \in Confs : conf[c].status \in Closed => conf'[c].status = conf[c].status]_confVars

\* The action is carried out only for a confirmation the customer authorized: one
\* refused, expired, superseded or still pending created nothing (HandleTap).
OnlyConfirmedActs ==
    \A x \in Transfers : transfer[x].by # Nil =>
        conf[transfer[x].by].status \in Outcomes \cup {"confirmed"}
            /\ conf[transfer[x].by].confirmed # Nil

\* The customer is told, and the record says, that a transfer was created only if
\* one was, after the authorization (executeConfirmed, reconcileOne).
ExecutedIsTrue == \A c \in Confs : conf[c].status = "executed" => FindAITransfer(c)

\* The two directions of the audit: what was done was confirmed, and what is recorded as
\* done was done.
ConfirmedActs == ConfTypeOK /\ OnlyConfirmedActs /\ ExecutedIsTrue

\* "Never two transfers" for one confirmation (reconciler and crash).
OneTransferEach ==
    \A x, y \in Transfers :
        (transfer[x].by # Nil /\ transfer[x].by = transfer[y].by) => x = y

\* "The reconciliation sends no duplicate message."
ToldOnce == \A c \in Confs : told[c] <= 1

\* "failed: authorized, but it could not be carried out" (AIConfirmationFailed).
FailedDidNothing ==
    \A c \in Confs : conf[c].status = "failed" => \A x \in Transfers : transfer[x].by # c

\* "A request left confirmed has to be closed": whatever crashed, it is.
ConfirmedEnds == \A c \in Confs : conf[c].status = "confirmed" ~> conf[c].status # "confirmed"

===============================================================================
