------------------------------ MODULE Attendance ------------------------------
(***************************************************************************)
(* The life of an attendance (a row of agent_transfers): who opens it, who *)
(* owns it, how it changes hands, how it is closed, and what each of those *)
(* does to the contact it is about.                                        *)
(*                                                                         *)
(* Every HTTP handler, worker tick or webhook that touches an attendance   *)
(* is a request: a goroutine that reads rows in some steps and writes them *)
(* in later ones.  One step of a request is one SQL statement or one       *)
(* transaction, so other requests run between what a request reads and     *)
(* what it writes.  Up to Cardinality(Requests) run at the same time.      *)
(*                                                                         *)
(* Left out of the state: websocket broadcasts, outgoing webhooks, the     *)
(* audit log, the chatbot session and its tracking columns, the SLA        *)
(* deadlines, the team of a row and the open sales opportunity.  None of   *)
(* them is read by the code modelled here.                                 *)
(***************************************************************************)
EXTENDS Naturals, FiniteSets

CONSTANTS
    Contacts,           \* rows of contacts
    Agents,             \* rows of users who can own an attendance
    Supervisors,        \* the agents holding transfers:write
    Requests,           \* concurrently running goroutines
    NULL,               \* SQL NULL
    Operations,         \* the handlers clients and tickers invoke
    AssignToSameAgent,  \* chatbot_settings.assign_to_same_agent
    AwayTolerance,      \* values chatbot_settings.away_reassign_enabled may have
    MaxTransfers,       \* bound: attendances ever opened
    MaxRequests         \* bound: requests ever served

ASSUME AttendanceAssumption ==
    /\ NULL \notin Agents
    /\ NULL \notin Contacts
    /\ Supervisors \subseteq Agents
    /\ AssignToSameAgent \in BOOLEAN
    /\ AwayTolerance \subseteq BOOLEAN
    /\ MaxTransfers \in Nat
    /\ MaxRequests \in Nat

VARIABLES
    transfer,   \* agent_transfers
    contact,    \* contacts: relationship manager and service status
    available,  \* the agents with is_available = true
    connected,  \* the agents with a live websocket
    req,        \* what each goroutine has read and where it stands
    served,     \* requests begun so far
    history,    \* agent_transfer_assignments
    sent        \* messages that reached the customer: who, under which attendance

vars == <<transfer, contact, available, connected, req, served, history, sent>>

-------------------------------------------------------------------------------
(* Rows *)

TransferIds == 1..MaxTransfers
Owner == Agents \cup {NULL}
Closed == {"resumed", "expired"}
ContactStatus == {"new", "in_progress", "resolved"}

\* pickedUp abstracts picked_up_at: 0 is NULL, and every write of time.Now()
\* stores a later instant than the one before.  version and owners are
\* auxiliary: how often the owner was written, and everyone who ever was it.
Transfer == [contact : Contacts \cup {NULL},
             status : {"none", "active"} \cup Closed,
             agent : Owner,
             pickedUp : Nat,
             version : Nat,
             owners : SUBSET Agents]

Contact == [assigned : Owner, status : ContactStatus]

\* version orders the changes of one attendance; a "closed" row has version 0.
Assignment == [t : TransferIds, version : Nat, from : Owner, to : Owner,
               reason : {"changed", "closed"}]

Message == [t : TransferIds, agent : Agents]

NoTransfer == [contact |-> NULL, status |-> "none", agent |-> NULL,
               pickedUp |-> 0, version |-> 0, owners |-> {}]

\* A loaded models.Contact; NewContact is also the zero value a request holds
\* before it loads one.
NewContact == [assigned |-> NULL, status |-> "new"]

(* Requests *)

PC == {"idle", "check", "insert", "gate", "claim", "send", "pick", "move",
       "reload", "list", "loop", "load", "find", "release", "close",
       "record", "manager", "inbound"}

Ops == {"create", "send", "pick", "assign", "unassign", "away", "offline",
        "reassign", "close", "resolve", "inbound", "none"}

\* user is the agent acting or acted on; seen the contact as it was loaded;
\* from and unpicked the transfer as it was loaded; to the next owner; status
\* the one a close writes; todo the rest of a batch.
Request == [pc : PC, op : Ops, user : Owner, c : Contacts \cup {NULL},
            seen : Contact, t : TransferIds \cup {0}, from : Owner, to : Owner,
            unpicked : BOOLEAN, status : Closed, pass : 1..2, version : Nat,
            todo : SUBSET TransferIds, batch : [Contacts -> Contact]]

Idle == [pc |-> "idle", op |-> "none", user |-> NULL, c |-> NULL,
         seen |-> NewContact, t |-> 0, from |-> NULL, to |-> NULL,
         unpicked |-> FALSE, status |-> "resumed", pass |-> 1, version |-> 0,
         todo |-> {}, batch |-> [c \in Contacts |-> NewContact]]

New(op, pc) == [Idle EXCEPT !.op = op, !.pc = pc]

Start(r, q) ==
    /\ q.op \in Operations
    /\ req[r].pc = "idle"
    /\ served < MaxRequests
    /\ served' = served + 1
    /\ req' = [req EXCEPT ![r] = q]

Goto(r, q) == req' = [req EXCEPT ![r] = q] /\ UNCHANGED served

Init ==
    /\ transfer = [t \in TransferIds |-> NoTransfer]
    /\ contact = [c \in Contacts |-> NewContact]
    /\ available = Agents
    /\ connected = Agents
    /\ req = [r \in Requests |-> Idle]
    /\ served = 0
    /\ history = {}
    /\ sent = {}

-------------------------------------------------------------------------------
(* Queries and statements shared by the handlers *)

IsActive(t) == transfer[t].status = "active"

ActiveFor(c) == {t \in TransferIds : IsActive(t) /\ transfer[t].contact = c}

Unassigned == {t \in TransferIds : IsActive(t) /\ transfer[t].agent = NULL}

Eligible == available \cap connected

\* The id the next INSERT gets.
NextId == {t \in TransferIds : /\ transfer[t].status = "none"
                               /\ \A u \in 1..(t-1) : transfer[u].status # "none"}

\* UpdateSLAOnPickup: the instant is written only over NULL.
PickedUp(pickedUp, seenNull) == IF seenNull THEN pickedUp + 1 ELSE pickedUp

\* The row after a write of agent_id (and, when pickup, of picked_up_at).
Owned(row, to, pickup) ==
    [row EXCEPT !.agent = to,
                !.pickedUp = PickedUp(@, pickup),
                !.version = @ + 1,
                !.owners = @ \cup ({to} \ {NULL})]

IndexAllows_NoIndex(c) == TRUE
\* The partial unique index on (organization, contact) WHERE status = 'active'.
IndexAllows(c) == ActiveFor(c) = {}

\* WHERE id = ? AND status = 'active' AND agent_id IS NULL
ClaimMatches(t) == IsActive(t) /\ transfer[t].agent = NULL

MoveMatches_LastWriteWins(t, from) == IsActive(t)
MoveMatches_ClosedToo(t, from) == transfer[t].agent = from
\* WHERE id = ? AND status = 'active' AND agent_id IS NOT DISTINCT FROM from
MoveMatches(t, from) == IsActive(t) /\ transfer[t].agent = from

Released_TransferStatus(row, seen) ==
    [assigned |-> IF seen.assigned # NULL THEN NULL ELSE row.assigned,
     status |-> IF seen.status # "resolved" THEN "resumed" ELSE row.status]

\* releaseContactTx: each column is cleared only if the loaded contact had it
\* set, and the status is written only if the loaded one was not resolved.
Released(row, seen) ==
    [assigned |-> IF seen.assigned # NULL THEN NULL ELSE row.assigned,
     status |-> IF seen.status # "resolved" THEN "resolved" ELSE row.status]

\* Whether the step after the ownership record writes the relationship manager.
Pins(q) == q.to # NULL /\ AssignToSameAgent /\ q.seen.assigned = NULL

Unpins(q) == q.to = NULL /\ q.from # NULL /\ q.seen.assigned = q.from

AfterManager(q) ==
    CASE q.op = "send" -> [q EXCEPT !.pc = "send"]
      [] q.op \in {"away", "offline"} ->
            [Idle EXCEPT !.pc = "loop", !.op = q.op, !.user = q.user,
                         !.todo = q.todo, !.batch = q.batch]
      [] OTHER -> Idle

AfterRecord(q) ==
    IF \/ q.op \in {"create", "send"} /\ Pins(q)
       \/ q.op = "assign" /\ (Pins(q) \/ Unpins(q))
       \/ q.op = "unassign" /\ q.from # NULL
       \/ q.op \in {"away", "offline"} /\ Unpins(q)
    THEN [q EXCEPT !.pc = "manager"]
    ELSE AfterManager(q)

-------------------------------------------------------------------------------
(* Opening: CreateAgentTransfer, createTransferFromKeyword,                *)
(* createTransferToTeam and transferToQueue                                *)

BeginCreate(r, c) ==
    /\ Start(r, [New("create", "check") EXCEPT !.c = c, !.seen = contact[c]])
    /\ UNCHANGED <<transfer, contact, available, connected, history, sent>>

\* The chosen agent is the one asked for, the team strategy's choice or the
\* contact's manager, each eligible at this moment; NULL is the queue.
CheckCreate(r, to) ==
    /\ req[r].pc = "check"
    /\ to \in Eligible \cup {NULL}
    /\ ActiveFor(req[r].c) = {}
    /\ Goto(r, [req[r] EXCEPT !.pc = "insert", !.to = to])
    /\ UNCHANGED <<transfer, contact, available, connected, history, sent>>

\* Already active, ineligible agent, unknown team, outside business hours.
RefuseCreate(r) ==
    /\ req[r].pc = "check"
    /\ Goto(r, Idle)
    /\ UNCHANGED <<transfer, contact, available, connected, history, sent>>

\* createTransferRow of CreateAgentTransfer and of saveAndFinalizeTransfer.
CreateTransferRow(r) ==
    /\ req[r].pc = "insert"
    /\ IndexAllows(req[r].c)
    /\ \E t \in NextId :
         /\ transfer' = [transfer EXCEPT ![t] =
                Owned([NoTransfer EXCEPT !.contact = req[r].c, !.status = "active"],
                      req[r].to, req[r].to # NULL)]
         /\ Goto(r, [req[r] EXCEPT !.pc = "record", !.t = t, !.version = 1])
    /\ UNCHANGED <<contact, available, connected, history, sent>>

\* ErrTransferAlreadyActive: 409 for the creators; ensureAgentOwnsConversation
\* re-reads once and then gives up.
TransferAlreadyActive(r) ==
    /\ req[r].pc = "insert"
    /\ ~IndexAllows(req[r].c)
    /\ Goto(r, IF req[r].op = "send" /\ req[r].pass = 1
               THEN [req[r] EXCEPT !.pc = "gate", !.to = NULL, !.pass = 2]
               ELSE Idle)
    /\ UNCHANGED <<transfer, contact, available, connected, history, sent>>

-------------------------------------------------------------------------------
(* An agent's message: SendOutgoingMessage behind ensureAgentOwnsConversation *)

BeginSend(r, a, c) ==
    /\ Start(r, [New("send", "gate") EXCEPT !.user = a, !.c = c,
                                     !.seen = contact[c]])
    /\ UNCHANGED <<transfer, contact, available, connected, history, sent>>

\* No attendance: openAgentInitiatedTransfer, in the sender's name.
GateOpens(r) ==
    /\ req[r].pc = "gate"
    /\ ActiveFor(req[r].c) = {}
    /\ Goto(r, [req[r] EXCEPT !.pc = "insert", !.to = req[r].user])
    /\ UNCHANGED <<transfer, contact, available, connected, history, sent>>

GateClaims(r) ==
    /\ req[r].pc = "gate"
    /\ \E t \in ActiveFor(req[r].c) :
         /\ transfer[t].agent = NULL
         /\ Goto(r, [req[r] EXCEPT !.pc = "claim", !.t = t, !.to = req[r].user,
                                   !.unpicked = (transfer[t].pickedUp = 0)])
    /\ UNCHANGED <<transfer, contact, available, connected, history, sent>>

\* The last two cases of the switch, with canOverrideConversationOwner; a reply
\* to an occurrence (AllowOtherOwner) is not a send of this module.
MayActOn(a, owner) == owner = a \/ a \in Supervisors

GatePasses(r) ==
    /\ req[r].pc = "gate"
    /\ \E t \in ActiveFor(req[r].c) :
         /\ transfer[t].agent # NULL
         /\ MayActOn(req[r].user, transfer[t].agent)
         /\ Goto(r, [req[r] EXCEPT !.pc = "send", !.t = t])
    /\ UNCHANGED <<transfer, contact, available, connected, history, sent>>

\* ErrConversationOwned
GateRefuses(r) ==
    /\ req[r].pc = "gate"
    /\ \E t \in ActiveFor(req[r].c) :
         /\ transfer[t].agent # NULL
         /\ ~MayActOn(req[r].user, transfer[t].agent)
    /\ Goto(r, Idle)
    /\ UNCHANGED <<transfer, contact, available, connected, history, sent>>

ClaimTransfer(r) ==
    LET q == req[r] IN
    /\ q.pc = "claim"
    /\ ClaimMatches(q.t)
    /\ transfer' = [transfer EXCEPT ![q.t] = Owned(@, q.to, q.unpicked)]
    /\ Goto(r, [q EXCEPT !.pc = "record", !.version = transfer[q.t].version + 1])
    /\ UNCHANGED <<contact, available, connected, history, sent>>

\* What a sender does whose claim matched no row.
LostClaim_SendsAnyway(q) == [q EXCEPT !.pc = "send"]
LostClaim(q) ==
    IF q.pass = 1
    THEN [q EXCEPT !.pc = "gate", !.t = 0, !.to = NULL, !.unpicked = FALSE, !.pass = 2]
    ELSE Idle

LoseClaim(r) ==
    /\ req[r].pc = "claim"
    /\ ~ClaimMatches(req[r].t)
    /\ Goto(r, LostClaim(req[r]))
    /\ UNCHANGED <<transfer, contact, available, connected, history, sent>>

\* The message is created and sent; the reply takes the contact out of 'new'.
SendMessage(r) ==
    LET q == req[r] IN
    /\ q.pc = "send"
    /\ sent' = sent \cup {[t |-> q.t, agent |-> q.user]}
    /\ contact' = IF contact[q.c].status = "new" /\ q.seen.status # "in_progress"
                  THEN [contact EXCEPT ![q.c].status = "in_progress"]
                  ELSE contact
    /\ Goto(r, Idle)
    /\ UNCHANGED <<transfer, available, connected, history>>

-------------------------------------------------------------------------------
(* Changing hands: PickNextTransfer, AssignAgentTransfer, UnassignTransfer *)

BeginPick(r, a) ==
    /\ a \in Eligible
    /\ Start(r, [New("pick", "pick") EXCEPT !.user = a])
    /\ UNCHANGED <<transfer, contact, available, connected, history, sent>>

\* One transaction over the oldest row that no other transaction holds
\* (FOR UPDATE SKIP LOCKED): any unassigned row may be that one.  The manager
\* is read and written under the same transaction.
PickNextTransfer(r) ==
    LET a == req[r].user IN
    /\ req[r].pc = "pick"
    /\ \E t \in Unassigned :
         LET c == transfer[t].contact IN
         /\ transfer' = [transfer EXCEPT ![t] = Owned(@, a, @.pickedUp = 0)]
         /\ contact' = IF AssignToSameAgent /\ contact[c].assigned = NULL
                       THEN [contact EXCEPT ![c].assigned = a]
                       ELSE contact
         /\ Goto(r, [Idle EXCEPT !.pc = "record", !.op = "pick", !.t = t, !.to = a,
                                 !.version = transfer[t].version + 1])
    /\ UNCHANGED <<available, connected, history, sent>>

NothingToPick(r) ==
    /\ req[r].pc = "pick"
    /\ Goto(r, Idle)
    /\ UNCHANGED <<transfer, contact, available, connected, history, sent>>

\* Who AssignAgentTransfer may choose: anyone hands the attendance back to the
\* queue (agent_id ""), a supervisor gives it to an eligible agent, and the
\* others only take it for themselves, and not from somebody else.
Assignable(u, owner, to) ==
    \/ to = NULL
    \/ u \in Supervisors /\ to \in Eligible
    \/ u \notin Supervisors /\ to = u /\ owner \in {NULL, u}

BeginAssign(r, u, t, to) ==
    LET row == transfer[t] IN
    /\ IsActive(t)
    /\ Assignable(u, row.agent, to)
    /\ Start(r, [New("assign", "move") EXCEPT !.t = t, !.c = row.contact,
                 !.seen = contact[row.contact], !.from = row.agent, !.to = to,
                 !.unpicked = (to # NULL /\ row.pickedUp = 0)])
    /\ UNCHANGED <<transfer, contact, available, connected, history, sent>>

BeginUnassign(r, t) ==
    /\ IsActive(t)
    /\ Start(r, [New("unassign", "move") EXCEPT !.t = t,
                 !.c = transfer[t].contact, !.from = transfer[t].agent])
    /\ UNCHANGED <<transfer, contact, available, connected, history, sent>>

\* moveTransfer, for every handler that moves a single attendance.
MoveTransfer(r) ==
    LET q == req[r] IN
    /\ q.pc = "move"
    /\ MoveMatches(q.t, q.from)
    /\ transfer' = [transfer EXCEPT ![q.t] = Owned(@, q.to, q.unpicked)]
    /\ Goto(r, [q EXCEPT !.pc = "record", !.version = transfer[q.t].version + 1])
    /\ UNCHANGED <<contact, available, connected, history, sent>>

\* Zero rows affected: 409, or "changed by someone else in the meantime".
MoveConflict(r) ==
    /\ req[r].pc = "move"
    /\ ~MoveMatches(req[r].t, req[r].from)
    /\ Goto(r, Idle)
    /\ UNCHANGED <<transfer, contact, available, connected, history, sent>>

\* auditDistribution and, at the end of a close, recordOwnership: the row is
\* written after the change it records has committed.
RecordOwnership(r) ==
    LET q == req[r] IN
    /\ q.pc = "record"
    /\ history' = history \cup
         {[t |-> q.t, version |-> q.version, from |-> q.from, to |-> q.to,
           reason |-> IF q.op \in {"close", "resolve"} THEN "closed" ELSE "changed"]}
    /\ Goto(r, AfterRecord(q))
    /\ UNCHANGED <<transfer, contact, available, connected, sent>>

\* The write of assigned_user_id that follows an assignment or a return to the
\* queue.  Only UnassignTransfer re-checks the column in the statement itself.
ManagerAfter(q, row) ==
    IF q.op = "unassign"
    THEN IF row.assigned = q.from THEN NULL ELSE row.assigned
    ELSE q.to

UpdateManager(r) ==
    LET q == req[r] IN
    /\ q.pc = "manager"
    /\ contact' = [contact EXCEPT ![q.c].assigned = ManagerAfter(q, contact[q.c])]
    /\ Goto(r, AfterManager(q))
    /\ UNCHANGED <<transfer, available, connected, history, sent>>

-------------------------------------------------------------------------------
(* Agents who leave: UpdateAvailability, PresenceReaper.Sweep and SweepAway *)

\* The toggle; without tolerance the same request returns the attendances.
GoAway(r, a) ==
    /\ FALSE \in AwayTolerance
    /\ available' = available \ {a}
    /\ Start(r, [New("away", "list") EXCEPT !.user = a])
    /\ UNCHANGED <<transfer, contact, connected, history, sent>>

GoAwayTolerated(a) ==
    /\ TRUE \in AwayTolerance
    /\ "away" \in Operations
    /\ available' = available \ {a}
    /\ UNCHANGED <<transfer, contact, connected, req, served, history, sent>>

ComeBack(a) ==
    /\ "away" \in Operations
    /\ available' = available \cup {a}
    /\ UNCHANGED <<transfer, contact, connected, req, served, history, sent>>

Connect(a) ==
    /\ "offline" \in Operations
    /\ connected' = connected \cup {a}
    /\ UNCHANGED <<transfer, contact, available, req, served, history, sent>>

Disconnect(a) ==
    /\ "offline" \in Operations
    /\ connected' = connected \ {a}
    /\ UNCHANGED <<transfer, contact, available, req, served, history, sent>>

\* Past the grace period, and still disconnected at the re-check.
SweepOffline(r, a) ==
    /\ a \notin connected
    /\ Start(r, [New("offline", "list") EXCEPT !.user = a])
    /\ UNCHANGED <<transfer, contact, available, connected, history, sent>>

\* returnAgentTransfers: one query for the batch, then one statement per row.
ListTransfers(r) ==
    LET q == req[r] IN
    /\ q.pc = "list"
    /\ Goto(r, [q EXCEPT !.pc = "loop", !.batch = contact,
            !.todo = {t \in TransferIds : IsActive(t) /\ transfer[t].agent = q.user}])
    /\ UNCHANGED <<transfer, contact, available, connected, history, sent>>

ReturnTransfer(r, t) ==
    LET q == req[r]
        c == transfer[t].contact IN
    /\ q.pc = "loop"
    /\ t \in q.todo
    /\ MoveMatches(t, q.user)
    /\ transfer' = [transfer EXCEPT ![t] = Owned(@, NULL, FALSE)]
    /\ Goto(r, [q EXCEPT !.pc = "record", !.t = t, !.c = c, !.seen = q.batch[c],
                         !.from = q.user, !.version = transfer[t].version + 1,
                         !.todo = @ \ {t}])
    /\ UNCHANGED <<contact, available, connected, history, sent>>

SkipTransfer(r, t) ==
    /\ req[r].pc = "loop"
    /\ t \in req[r].todo
    /\ ~MoveMatches(t, req[r].user)
    /\ Goto(r, [req[r] EXCEPT !.todo = @ \ {t}])
    /\ UNCHANGED <<transfer, contact, available, connected, history, sent>>

EndReturn(r) ==
    /\ req[r].pc = "loop"
    /\ req[r].todo = {}
    /\ Goto(r, Idle)
    /\ UNCHANGED <<transfer, contact, available, connected, history, sent>>

\* sweepAwayOrganization selects an attendance of an agent away past the
\* tolerance in which the customer is waiting (both are inputs here).
BeginReassign(r, t) ==
    LET a == transfer[t].agent IN
    /\ TRUE \in AwayTolerance
    /\ IsActive(t)
    /\ a # NULL
    /\ a \notin available
    /\ Start(r, [New("reassign", "reload") EXCEPT !.t = t, !.user = a])
    /\ UNCHANGED <<transfer, contact, available, connected, history, sent>>

ReassignAwayTransfer_FromAnyone(r, to) ==
    LET q == req[r] IN
    /\ q.pc = "reload"
    /\ transfer[q.t].agent # NULL
    /\ to \in (Eligible \ {q.user}) \cup {NULL}
    /\ Goto(r, [q EXCEPT !.pc = "move", !.from = transfer[q.t].agent, !.to = to])
    /\ UNCHANGED <<transfer, contact, available, connected, history, sent>>

\* The row is loaded after the selection; its owner must still be that agent.
ReassignAwayTransfer(r, to) ==
    LET q == req[r] IN
    /\ q.pc = "reload"
    /\ transfer[q.t].agent = q.user
    /\ to \in (Eligible \ {q.user}) \cup {NULL}
    /\ Goto(r, [q EXCEPT !.pc = "move", !.from = q.user, !.to = to])
    /\ UNCHANGED <<transfer, contact, available, connected, history, sent>>

ReassignSkips(r) ==
    /\ req[r].pc = "reload"
    /\ transfer[req[r].t].agent # req[r].user
    /\ Goto(r, Idle)
    /\ UNCHANGED <<transfer, contact, available, connected, history, sent>>

-------------------------------------------------------------------------------
(* Closing: ResumeFromTransfer, autoCloseExpiredTransfers and              *)
(* closeInactiveAttendances load the transfer and then the contact; the    *)
(* resolve button (closeActiveAttendanceForContact) the other way round    *)

BeginClose(r, t, status) ==
    /\ IsActive(t)
    /\ Start(r, [New("close", "load") EXCEPT !.t = t,
                 !.c = transfer[t].contact, !.from = transfer[t].agent,
                 !.status = status])
    /\ UNCHANGED <<transfer, contact, available, connected, history, sent>>

LoadContact(r) ==
    /\ req[r].pc = "load"
    /\ Goto(r, [req[r] EXCEPT !.pc = "close", !.seen = contact[req[r].c]])
    /\ UNCHANGED <<transfer, contact, available, connected, history, sent>>

BeginResolve(r, c) ==
    /\ Start(r, [New("resolve", "find") EXCEPT !.c = c,
                                        !.seen = contact[c]])
    /\ UNCHANGED <<transfer, contact, available, connected, history, sent>>

FindActive(r) ==
    LET q == req[r] IN
    /\ q.pc = "find"
    /\ \/ /\ ActiveFor(q.c) = {}
          /\ Goto(r, [q EXCEPT !.pc = "release"])
       \/ \E t \in ActiveFor(q.c) :
            Goto(r, [q EXCEPT !.pc = "close", !.t = t, !.from = transfer[t].agent])
    /\ UNCHANGED <<transfer, contact, available, connected, history, sent>>

ReleaseContact(r) ==
    LET q == req[r] IN
    /\ q.pc = "release"
    /\ contact' = [contact EXCEPT ![q.c] = Released(@, q.seen)]
    /\ Goto(r, Idle)
    /\ UNCHANGED <<transfer, available, connected, history, sent>>

\* UPDATE agent_transfers ... WHERE id = ?
CloseRow(row, status) == [row EXCEPT !.status = status]

\* closeAttendance: both writes in one transaction, by id alone.
CloseAttendance(r) ==
    LET q == req[r] IN
    /\ q.pc = "close"
    /\ transfer' = [transfer EXCEPT ![q.t] = CloseRow(@, q.status)]
    /\ contact' = [contact EXCEPT ![q.c] = Released(@, q.seen)]
    /\ Goto(r, [q EXCEPT !.pc = "record"])
    /\ UNCHANGED <<available, connected, history, sent>>

-------------------------------------------------------------------------------
(* The customer, and the other writers of a contact                        *)

BeginInbound(r, c) ==
    /\ Start(r, [New("inbound", "inbound") EXCEPT !.c = c,
                                        !.seen = contact[c]])
    /\ UNCHANGED <<transfer, contact, available, connected, history, sent>>

\* An inbound message reopens a resolved conversation.
ReopenOnInbound(r) ==
    LET q == req[r] IN
    /\ req[r].pc = "inbound"
    /\ contact' = IF q.seen.status # "in_progress" /\ contact[q.c].status = "resolved"
                  THEN [contact EXCEPT ![q.c].status = "in_progress"]
                  ELSE contact
    /\ Goto(r, Idle)
    /\ UNCHANGED <<transfer, available, connected, history, sent>>

\* PUT /contacts/{id}/assign: a relationship manager set by hand.
AssignContact(c, a) ==
    /\ "assign_contact" \in Operations
    /\ served < MaxRequests
    /\ served' = served + 1
    /\ contact' = [contact EXCEPT ![c].assigned = a]
    /\ UNCHANGED <<transfer, available, connected, req, history, sent>>

\* The process dies, or a statement fails: the rest of the request never runs.
Abort(r) ==
    /\ req[r].pc # "idle"
    /\ Goto(r, Idle)
    /\ UNCHANGED <<transfer, contact, available, connected, history, sent>>

-------------------------------------------------------------------------------

Handlers(r) ==
    \/ \E c \in Contacts : BeginCreate(r, c) \/ BeginResolve(r, c) \/ BeginInbound(r, c)
    \/ \E a \in Agents : \/ \E c \in Contacts : BeginSend(r, a, c)
                         \/ BeginPick(r, a)
                         \/ GoAway(r, a)
                         \/ SweepOffline(r, a)
    \/ \E t \in TransferIds : \/ \E u \in Agents, to \in Owner : BeginAssign(r, u, t, to)
                              \/ BeginUnassign(r, t)
                              \/ BeginReassign(r, t)
                              \/ \E status \in Closed : BeginClose(r, t, status)

Step(r) ==
    \/ \E to \in Owner : CheckCreate(r, to) \/ ReassignAwayTransfer(r, to)
    \/ \E t \in TransferIds : ReturnTransfer(r, t) \/ SkipTransfer(r, t)
    \/ RefuseCreate(r) \/ CreateTransferRow(r) \/ TransferAlreadyActive(r)
    \/ GateOpens(r) \/ GateClaims(r) \/ GatePasses(r) \/ GateRefuses(r)
    \/ ClaimTransfer(r) \/ LoseClaim(r) \/ SendMessage(r)
    \/ PickNextTransfer(r) \/ NothingToPick(r)
    \/ MoveTransfer(r) \/ MoveConflict(r)
    \/ RecordOwnership(r) \/ UpdateManager(r)
    \/ ListTransfers(r) \/ EndReturn(r) \/ ReassignSkips(r)
    \/ LoadContact(r) \/ FindActive(r) \/ ReleaseContact(r) \/ CloseAttendance(r)
    \/ ReopenOnInbound(r)

Environment ==
    \/ \E a \in Agents : GoAwayTolerated(a) \/ ComeBack(a) \/ Connect(a) \/ Disconnect(a)
    \/ \E c \in Contacts, a \in Owner : AssignContact(c, a)

Next ==
    \/ \E r \in Requests : Handlers(r) \/ Step(r) \/ Abort(r)
    \/ Environment

Spec == Init /\ [][Next]_vars

-------------------------------------------------------------------------------
(* Properties *)

TypeOK ==
    /\ transfer \in [TransferIds -> Transfer]
    /\ contact \in [Contacts -> Contact]
    /\ available \subseteq Agents
    /\ connected \subseteq Agents
    /\ req \in [Requests -> Request]
    /\ served \in Nat
    /\ history \subseteq Assignment
    /\ sent \subseteq Message

\* A contact never has two active attendances, although every opener checks
\* for one long before it inserts (CreateAgentTransfer, saveAndFinalizeTransfer).
OneActivePerContact ==
    \A t, u \in TransferIds :
        (IsActive(t) /\ IsActive(u) /\ transfer[t].contact = transfer[u].contact) => t = u

\* A loser of a race never sends: an agent without the supervisor's override
\* only sends under an attendance that was theirs (ensureAgentOwnsConversation).
SenderOwned ==
    \A m \in sent : m.agent \in Supervisors \cup transfer[m.t].owners

\* The change a request has committed and not yet recorded.
Unrecorded ==
    {[t |-> req[r].t, version |-> req[r].version, from |-> req[r].from,
      to |-> req[r].to, reason |-> "changed"] :
        r \in {s \in Requests : req[s].pc = "record"
                                /\ req[s].op \notin {"close", "resolve"}}}

Changes == {h \in history : h.reason = "changed"} \cup Unrecorded

\* The ownership history tells the truth: put in the order of the changes they
\* record, the rows of an attendance start at the queue, each one begins at the
\* owner the one before left, and the last ends at the current owner; so every
\* compare-and-set replaced the very owner its caller had read.
HistoryChains ==
    \A e \in Changes :
        /\ 1 <= e.version /\ e.version <= transfer[e.t].version
        /\ e.version = 1 => e.from = NULL
        /\ e.version = transfer[e.t].version => e.to = transfer[e.t].agent
        /\ \A f \in Changes : e.t = f.t =>
            /\ e.version = f.version => e = f
            /\ e.version + 1 = f.version => e.to = f.from

\* A closed attendance stays closed and keeps the owner it was closed with,
\* whatever a late claim, move, pick or return still holds in memory.
ClosedIsFinal ==
    [][\A t \in TransferIds : transfer[t].status \in Closed =>
            /\ transfer'[t].status \in Closed
            /\ transfer'[t].agent = transfer[t].agent]_vars

\* The lock behind the rows: who holds each conversation.
Held == [c \in Contacts |-> {transfer[t].agent : t \in ActiveFor(c)}]

Lock == INSTANCE ConversationLock WITH held <- Held

\* Seen from outside, attendances behave as one lock per conversation: two
\* requests that both saw a free or unowned conversation never both get it.
ImplementsLock == Lock!Spec

\* An away sweep takes an attendance only from the agent it found away, never
\* from a colleague who received it after the selection (reassignAwayTransfer).
ReassignsOnlyTheAwayAgent ==
    [][\A r \in Requests :
        (req[r].op = "reassign" /\ req[r].pc = "move" /\ req'[r].pc = "record") =>
            transfer[req[r].t].agent = req[r].user]_vars

\* Returning an attendance to the queue never wipes a relationship manager
\* other than the agent being removed (UnassignTransfer, returnAgentTransfers).
QueueReturnKeepsManager ==
    [][\A r \in Requests :
        (req[r].pc = "manager" /\ req[r].to = NULL /\ req'[r].pc # "manager") =>
            \A c \in Contacts : \/ contact'[c].assigned = contact[c].assigned
                                \/ contact[c].assigned = req[r].from]_vars

\* picked_up_at is the first pickup and is never rewritten (UpdateSLAOnPickup).
FirstPickupKept ==
    [][\A t \in TransferIds : transfer[t].pickedUp # 0 =>
            transfer'[t].pickedUp = transfer[t].pickedUp]_vars

\* Closing an attendance frees the contact: with nothing running and the last
\* attendance closed, no agent is left pinned (closeAttendance).
ClosedFreesContact ==
    (\A r \in Requests : req[r].pc = "idle") =>
        \A t \in TransferIds :
            (transfer[t].status \in Closed /\ ActiveFor(transfer[t].contact) = {})
                => contact[transfer[t].contact].assigned = NULL

===============================================================================
