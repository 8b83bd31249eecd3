--------------------------- MODULE AttendanceProofs ---------------------------
(***************************************************************************)
(* Proofs about Attendance, for every set of contacts, agents and requests *)
(* and every choice of the organization's settings, and about PresenceLog: *)
(* the intervals of an agent are a time line, however late the recorders   *)
(* write, for every set of agents, tabs and concurrent recorders.          *)
(***************************************************************************)
EXTENDS Attendance, PresenceLog, TLAPS

-------------------------------------------------------------------------------
(* The inductive invariant *)

\* Which handlers pass through a program point.
OpsAt(pc) ==
    CASE pc = "idle" -> {"none"}
      [] pc = "check" -> {"create"}
      [] pc = "insert" -> {"create", "send"}
      [] pc \in {"gate", "claim", "send"} -> {"send"}
      [] pc = "pick" -> {"pick"}
      [] pc = "move" -> {"assign", "unassign", "reassign"}
      [] pc = "reload" -> {"reassign"}
      [] pc \in {"list", "loop"} -> {"away", "offline"}
      [] pc = "load" -> {"close"}
      [] pc \in {"find", "release"} -> {"resolve"}
      [] pc = "close" -> {"close", "resolve"}
      [] pc = "inbound" -> {"inbound"}
      [] pc = "manager" -> {"create", "send", "assign", "unassign", "away", "offline"}
      [] OTHER -> Ops \ {"none", "inbound"}

\* What a request holds at each point, beyond the types of its fields.
Shape(q) ==
    /\ q.op \in OpsAt(q.pc)
    /\ q.op \in {"create", "send", "assign", "unassign", "close", "resolve", "inbound"}
          => q.c \in Contacts
    /\ (q.op \in {"away", "offline"} /\ q.pc \in {"record", "manager"}) => q.c \in Contacts
    /\ (q.op \in {"send", "away", "offline", "reassign"} \/ q.pc = "pick")
          => q.user \in Agents
    /\ (\/ q.op \in {"assign", "unassign", "reassign"}
        \/ q.pc \in {"claim", "send", "load", "close", "record", "manager"}) => q.t # 0
    /\ q.op \in {"create", "send", "pick"} => q.from = NULL
    /\ q.op \in {"away", "offline"} => q.to = NULL
    /\ (q.op = "send" /\ q.pc \in {"insert", "claim"}) => q.to = q.user

GoodRequest == {q \in Request : Shape(q)}

\* An open or closed row is about a contact and its owner is on record.
GoodRow(row) ==
    /\ row.status = "none" => row.version = 0 /\ row.owners = {}
    /\ row.status # "none" => row.contact \in Contacts /\ row.version >= 1
    /\ row.agent # NULL => row.agent \in row.owners

Exists(t) == transfer[t].status # "none"

Rows == \A t \in TransferIds : GoodRow(transfer[t])

\* Nobody refers to a row that was not inserted.
References ==
    /\ \A r \in Requests : req[r].t # 0 => Exists(req[r].t)
    /\ \A m \in sent : Exists(m.t)

Base ==
    /\ TypeOK
    /\ req \in [Requests -> GoodRequest]
    /\ Rows
    /\ References

-------------------------------------------------------------------------------
(* Requests *)

LEMMA IdleGood == Idle \in GoodRequest
  BY AttendanceAssumption
  DEF Idle, GoodRequest, Request, Shape, OpsAt, PC, Ops, Owner, Closed, Contact, NewContact,
      ContactStatus

LEMMA StartGood ==
  ASSUME Base, NEW r \in Requests, NEW q \in GoodRequest, Start(r, q)
  PROVE  req' \in [Requests -> GoodRequest] /\ served' \in Nat
  BY DEF Base, TypeOK, Start

LEMMA GotoGood ==
  ASSUME Base, NEW r \in Requests, NEW q \in GoodRequest, Goto(r, q)
  PROVE  req' \in [Requests -> GoodRequest] /\ served' \in Nat
  BY DEF Base, TypeOK, Goto

LEMMA AfterManagerGood ==
  ASSUME NEW q \in GoodRequest, q.pc \in {"record", "manager"}
  PROVE  AfterManager(q) \in GoodRequest
  <1> USE DEF AfterManager, GoodRequest
  <1>1. CASE q.op = "send"
    BY <1>1 DEF Request, Shape, OpsAt, PC
  <1>2. CASE q.op \in {"away", "offline"}
    <2> DEFINE p == [Idle EXCEPT !.pc = "loop", !.op = q.op, !.user = q.user,
                                 !.todo = q.todo, !.batch = q.batch]
    <2>1. AfterManager(q) = p
      BY <1>2
    <2>2. p \in Request
      BY IdleGood DEF Request, PC
    <2>3. Shape(p)
      BY <1>2, IdleGood DEF Shape, OpsAt, Idle, Request
    <2> QED BY <2>1, <2>2, <2>3
  <1>3. CASE q.op \notin {"send", "away", "offline"}
    BY <1>3, IdleGood
  <1> QED BY <1>1, <1>2, <1>3

LEMMA AfterRecordGood ==
  ASSUME NEW q \in GoodRequest, q.pc = "record"
  PROVE  AfterRecord(q) \in GoodRequest
  <1>1. AfterManager(q) \in GoodRequest
    BY AfterManagerGood
  <1>2. q.op \in {"create", "send", "assign", "unassign", "away", "offline"}
            => [q EXCEPT !.pc = "manager"] \in GoodRequest
    BY DEF GoodRequest, Request, Shape, OpsAt, PC
  <1> QED BY <1>1, <1>2 DEF AfterRecord

LEMMA ActiveRow ==
  ASSUME Base, NEW t \in TransferIds, IsActive(t)
  PROVE  /\ t # 0
         /\ transfer[t].agent \in Owner
         /\ transfer[t].contact \in Contacts
         /\ contact[transfer[t].contact] \in Contact
  BY DEF IsActive, Base, TypeOK, Transfer, Rows, GoodRow, TransferIds

LEMMA HandlersGood ==
  ASSUME Base, NEW r \in Requests, Handlers(r)
  PROVE  req' \in [Requests -> GoodRequest] /\ served' \in Nat
  <1> USE IdleGood
  <1>1. ASSUME NEW c \in Contacts, BeginCreate(r, c)
        PROVE  req' \in [Requests -> GoodRequest] /\ served' \in Nat
    <2> DEFINE q == [New("create", "check") EXCEPT !.c = c, !.seen = contact[c]]
    <2>1. q \in Request
      BY DEF New, GoodRequest, Request, PC, Ops, TypeOK, Base
    <2>2. Shape(q)
      BY DEF New, Idle, Shape, OpsAt
    <2> QED BY <1>1, <2>1, <2>2, StartGood DEF BeginCreate, GoodRequest
  <1>2. ASSUME NEW c \in Contacts, BeginResolve(r, c)
        PROVE  req' \in [Requests -> GoodRequest] /\ served' \in Nat
    <2> DEFINE q == [New("resolve", "find") EXCEPT !.c = c, !.seen = contact[c]]
    <2>1. q \in Request
      BY DEF New, GoodRequest, Request, PC, Ops, TypeOK, Base
    <2>2. Shape(q)
      BY DEF New, Idle, Shape, OpsAt
    <2> QED BY <1>2, <2>1, <2>2, StartGood DEF BeginResolve, GoodRequest
  <1>3. ASSUME NEW c \in Contacts, BeginInbound(r, c)
        PROVE  req' \in [Requests -> GoodRequest] /\ served' \in Nat
    <2> DEFINE q == [New("inbound", "inbound") EXCEPT !.c = c, !.seen = contact[c]]
    <2>1. q \in Request
      BY DEF New, GoodRequest, Request, PC, Ops, TypeOK, Base
    <2>2. Shape(q)
      BY DEF New, Idle, Shape, OpsAt
    <2> QED BY <1>3, <2>1, <2>2, StartGood DEF BeginInbound, GoodRequest
  <1>4. ASSUME NEW a \in Agents, NEW c \in Contacts, BeginSend(r, a, c)
        PROVE  req' \in [Requests -> GoodRequest] /\ served' \in Nat
    <2> DEFINE q == [New("send", "gate") EXCEPT !.user = a, !.c = c, !.seen = contact[c]]
    <2>1. q \in Request
      BY DEF New, GoodRequest, Request, PC, Ops, TypeOK, Base, Owner
    <2>2. Shape(q)
      BY DEF New, Idle, Shape, OpsAt
    <2> QED BY <1>4, <2>1, <2>2, StartGood DEF BeginSend, GoodRequest
  <1>5. ASSUME NEW a \in Agents, BeginPick(r, a)
        PROVE  req' \in [Requests -> GoodRequest] /\ served' \in Nat
    <2> DEFINE q == [New("pick", "pick") EXCEPT !.user = a]
    <2>1. q \in Request
      BY DEF New, GoodRequest, Request, PC, Ops, TypeOK, Base, Owner
    <2>2. Shape(q)
      BY DEF New, Idle, Shape, OpsAt
    <2> QED BY <1>5, <2>1, <2>2, StartGood DEF BeginPick, GoodRequest
  <1>6. ASSUME NEW a \in Agents, GoAway(r, a)
        PROVE  req' \in [Requests -> GoodRequest] /\ served' \in Nat
    <2> DEFINE q == [New("away", "list") EXCEPT !.user = a]
    <2>1. q \in Request
      BY DEF New, GoodRequest, Request, PC, Ops, TypeOK, Base, Owner
    <2>2. Shape(q)
      BY DEF New, Idle, Shape, OpsAt
    <2> QED BY <1>6, <2>1, <2>2, StartGood DEF GoAway, GoodRequest
  <1>7. ASSUME NEW a \in Agents, SweepOffline(r, a)
        PROVE  req' \in [Requests -> GoodRequest] /\ served' \in Nat
    <2> DEFINE q == [New("offline", "list") EXCEPT !.user = a]
    <2>1. q \in Request
      BY DEF New, GoodRequest, Request, PC, Ops, TypeOK, Base, Owner
    <2>2. Shape(q)
      BY DEF New, Idle, Shape, OpsAt
    <2> QED BY <1>7, <2>1, <2>2, StartGood DEF SweepOffline, GoodRequest
  <1>8. ASSUME NEW t \in TransferIds, NEW u \in Agents, NEW to \in Owner, BeginAssign(r, u, t, to)
        PROVE  req' \in [Requests -> GoodRequest] /\ served' \in Nat
    <2> DEFINE q == [New("assign", "move") EXCEPT !.t = t, !.c = transfer[t].contact,
                 !.seen = contact[transfer[t].contact], !.from = transfer[t].agent, !.to = to,
                 !.unpicked = (to # NULL /\ transfer[t].pickedUp = 0)]
    <2>1. /\ t # 0
          /\ transfer[t].agent \in Owner
          /\ transfer[t].contact \in Contacts
          /\ contact[transfer[t].contact] \in Contact
      BY <1>8, ActiveRow DEF BeginAssign
    <2>2. q \in Request
      BY <2>1 DEF New, Idle, GoodRequest, Request, PC, Ops
    <2>3. Shape(q)
      BY <2>1 DEF New, Idle, Shape, OpsAt
    <2> QED BY <1>8, <2>2, <2>3, StartGood DEF BeginAssign, GoodRequest
  <1>9. ASSUME NEW t \in TransferIds, BeginUnassign(r, t)
        PROVE  req' \in [Requests -> GoodRequest] /\ served' \in Nat
    <2> DEFINE q == [New("unassign", "move") EXCEPT !.t = t, !.c = transfer[t].contact,
                 !.from = transfer[t].agent]
    <2>1. /\ t # 0
          /\ transfer[t].agent \in Owner
          /\ transfer[t].contact \in Contacts
          /\ contact[transfer[t].contact] \in Contact
      BY <1>9, ActiveRow DEF BeginUnassign
    <2>2. q \in Request
      BY <2>1 DEF New, Idle, GoodRequest, Request, PC, Ops
    <2>3. Shape(q)
      BY <2>1 DEF New, Idle, Shape, OpsAt
    <2> QED BY <1>9, <2>2, <2>3, StartGood DEF BeginUnassign, GoodRequest
  <1>10. ASSUME NEW t \in TransferIds, BeginReassign(r, t)
        PROVE  req' \in [Requests -> GoodRequest] /\ served' \in Nat
    <2> DEFINE q == [New("reassign", "reload") EXCEPT !.t = t, !.user = transfer[t].agent]
    <2>1. /\ t # 0
          /\ transfer[t].agent \in Owner
          /\ transfer[t].contact \in Contacts
          /\ contact[transfer[t].contact] \in Contact
      BY <1>10, ActiveRow DEF BeginReassign
    <2>2. transfer[t].agent \in Agents
      BY <1>10, <2>1 DEF BeginReassign, Owner
    <2>3. q \in GoodRequest
      BY <2>1, <2>2 DEF New, Idle, GoodRequest, Request, Shape, OpsAt, PC, Ops, Owner
    <2> QED BY <1>10, <2>3, StartGood DEF BeginReassign
  <1>11. ASSUME NEW t \in TransferIds, NEW status \in Closed, BeginClose(r, t, status)
        PROVE  req' \in [Requests -> GoodRequest] /\ served' \in Nat
    <2> DEFINE q == [New("close", "load") EXCEPT !.t = t, !.c = transfer[t].contact,
                 !.from = transfer[t].agent, !.status = status]
    <2>1. /\ t # 0
          /\ transfer[t].agent \in Owner
          /\ transfer[t].contact \in Contacts
          /\ contact[transfer[t].contact] \in Contact
      BY <1>11, ActiveRow DEF BeginClose
    <2>2. q \in Request
      BY <2>1 DEF New, Idle, GoodRequest, Request, PC, Ops
    <2>3. Shape(q)
      BY <2>1 DEF New, Idle, Shape, OpsAt
    <2> QED BY <1>11, <2>2, <2>3, StartGood DEF BeginClose, GoodRequest
  <1> QED BY <1>1, <1>2, <1>3, <1>4, <1>5, <1>6, <1>7, <1>8, <1>9, <1>10, <1>11 DEF Handlers

LEMMA StepGood ==
  ASSUME Base, NEW r \in Requests, Step(r) \/ Abort(r)
  PROVE  req' \in [Requests -> GoodRequest] /\ served' \in Nat
  <1> DEFINE q == req[r]
             Goal == req' \in [Requests -> GoodRequest] /\ served' \in Nat
  <1>q. q \in GoodRequest /\ q \in Request /\ Shape(q)
    BY DEF Base, GoodRequest
  <1>goto. ASSUME NEW p \in Request, Shape(p), Goto(r, p)
           PROVE  Goal
    BY <1>goto, GotoGood DEF GoodRequest
  <1>active. ASSUME NEW t \in TransferIds, IsActive(t)
             PROVE  /\ t # 0
                    /\ transfer[t].agent \in Owner
                    /\ transfer[t].contact \in Contacts
                    /\ transfer[t].version + 1 \in Nat
    BY <1>active, ActiveRow DEF Base, TypeOK, Transfer
  <1>0. ASSUME \/ RefuseCreate(r) \/ GateRefuses(r) \/ SendMessage(r) \/ NothingToPick(r)
               \/ MoveConflict(r) \/ EndReturn(r) \/ ReassignSkips(r)
               \/ ReleaseContact(r) \/ ReopenOnInbound(r) \/ Abort(r)
        PROVE  Goal
    BY <1>0, IdleGood, GotoGood
    DEF RefuseCreate, GateRefuses, SendMessage, NothingToPick, MoveConflict, EndReturn,
        ReassignSkips, ReleaseContact, ReopenOnInbound, Abort
  <1>1. ASSUME NEW to \in Owner, CheckCreate(r, to)
        PROVE  Goal
    <2> DEFINE p == [q EXCEPT !.pc = "insert", !.to = to]
    <2>1. p \in Request /\ Shape(p)
      BY <1>1, <1>q DEF CheckCreate, Request, PC, Shape, OpsAt
    <2> QED BY <1>1, <2>1, <1>goto DEF CheckCreate
  <1>2. ASSUME NEW to \in Owner, ReassignAwayTransfer(r, to)
        PROVE  Goal
    <2> DEFINE p == [q EXCEPT !.pc = "move", !.from = q.user, !.to = to]
    <2>1. p \in Request /\ Shape(p)
      BY <1>2, <1>q DEF ReassignAwayTransfer, Request, PC, Shape, OpsAt
    <2> QED BY <1>2, <2>1, <1>goto DEF ReassignAwayTransfer
  <1>3. ASSUME NEW t \in TransferIds, ReturnTransfer(r, t)
        PROVE  Goal
    <2> DEFINE p == [q EXCEPT !.pc = "record", !.t = t, !.c = transfer[t].contact,
                        !.seen = q.batch[transfer[t].contact], !.from = q.user,
                        !.version = transfer[t].version + 1, !.todo = @ \ {t}]
    <2>1. /\ t # 0
          /\ transfer[t].contact \in Contacts
          /\ transfer[t].version + 1 \in Nat
          /\ q.op \in {"away", "offline"}
      BY <1>3, <1>q, <1>active DEF ReturnTransfer, MoveMatches, Shape, OpsAt
    <2>2. q.batch[transfer[t].contact] \in Contact
      BY <1>q, <2>1 DEF Request
    <2>3. p \in Request
      BY <1>q, <2>1, <2>2 DEF Request, PC
    <2>4. Shape(p)
      BY <1>q, <2>1 DEF Request, Shape, OpsAt, Ops
    <2> QED BY <1>3, <2>3, <2>4, <1>goto DEF ReturnTransfer
  <1>4. ASSUME NEW t \in TransferIds, SkipTransfer(r, t)
        PROVE  Goal
    <2> DEFINE p == [q EXCEPT !.todo = @ \ {t}]
    <2>1. p \in Request /\ Shape(p)
      BY <1>4, <1>q DEF SkipTransfer, Request, Shape
    <2> QED BY <1>4, <2>1, <1>goto DEF SkipTransfer
  <1>5. ASSUME CreateTransferRow(r)
        PROVE  Goal
    <2>1. PICK t \in NextId : Goto(r, [q EXCEPT !.pc = "record", !.t = t, !.version = 1])
      BY <1>5 DEF CreateTransferRow
    <2> DEFINE p == [q EXCEPT !.pc = "record", !.t = t, !.version = 1]
    <2>2. t \in TransferIds /\ t # 0
      BY DEF NextId, TransferIds
    <2>3. p \in Request /\ Shape(p)
      BY <1>5, <1>q, <2>2 DEF CreateTransferRow, Request, PC, Shape, OpsAt, Ops
    <2> QED BY <2>1, <2>3, <1>goto
  <1>6. ASSUME TransferAlreadyActive(r)
        PROVE  Goal
    <2> DEFINE p == [q EXCEPT !.pc = "gate", !.to = NULL, !.pass = 2]
    <2>1. NULL \in Owner /\ 2 \in 1..2
      BY DEF Owner
    <2>2. p \in Request
      BY <1>q, <2>1 DEF Request, PC
    <2>3. q.op = "send" => Shape(p)
      BY <1>6, <1>q DEF TransferAlreadyActive, Request, Shape, OpsAt
    <2> QED BY <1>6, <2>2, <2>3, <1>goto, IdleGood DEF TransferAlreadyActive, GoodRequest
  <1>7. ASSUME GateOpens(r)
        PROVE  Goal
    <2> DEFINE p == [q EXCEPT !.pc = "insert", !.to = q.user]
    <2>1. p \in Request /\ Shape(p)
      BY <1>7, <1>q DEF GateOpens, Request, PC, Shape, OpsAt
    <2> QED BY <1>7, <2>1, <1>goto DEF GateOpens
  <1>8. ASSUME GateClaims(r)
        PROVE  Goal
    <2>1. PICK t \in ActiveFor(q.c) :
            Goto(r, [q EXCEPT !.pc = "claim", !.t = t, !.to = q.user,
                              !.unpicked = (transfer[t].pickedUp = 0)])
      BY <1>8 DEF GateClaims
    <2> DEFINE p == [q EXCEPT !.pc = "claim", !.t = t, !.to = q.user,
                              !.unpicked = (transfer[t].pickedUp = 0)]
    <2>2. t \in TransferIds /\ t # 0
      BY <1>active DEF ActiveFor
    <2>3. p \in Request
      BY <1>q, <2>2 DEF Request, PC
    <2>4. Shape(p)
      BY <1>8, <1>q, <2>2 DEF GateClaims, Request, Shape, OpsAt
    <2> QED BY <2>1, <2>3, <2>4, <1>goto
  <1>9. ASSUME GatePasses(r)
        PROVE  Goal
    <2>1. PICK t \in ActiveFor(q.c) : Goto(r, [q EXCEPT !.pc = "send", !.t = t])
      BY <1>9 DEF GatePasses
    <2> DEFINE p == [q EXCEPT !.pc = "send", !.t = t]
    <2>2. t \in TransferIds /\ t # 0
      BY <1>active DEF ActiveFor
    <2>3. p \in Request /\ Shape(p)
      BY <1>9, <1>q, <2>2 DEF GatePasses, Request, PC, Shape, OpsAt
    <2> QED BY <2>1, <2>3, <1>goto
  <1>10. ASSUME ClaimTransfer(r)
         PROVE  Goal
    <2> DEFINE p == [q EXCEPT !.pc = "record", !.version = transfer[q.t].version + 1]
    <2>1. q.t \in TransferIds /\ IsActive(q.t)
      BY <1>10, <1>q DEF ClaimTransfer, ClaimMatches, Request, Shape
    <2>2. p \in Request /\ Shape(p)
      BY <1>10, <1>q, <2>1, <1>active DEF ClaimTransfer, Request, PC, Shape, OpsAt, Ops
    <2> QED BY <1>10, <2>2, <1>goto DEF ClaimTransfer
  <1>11. ASSUME LoseClaim(r)
         PROVE  Goal
    <2> DEFINE p == [q EXCEPT !.pc = "gate", !.t = 0, !.to = NULL, !.unpicked = FALSE, !.pass = 2]
    <2>1. NULL \in Owner /\ 2 \in 1..2
      BY DEF Owner
    <2>2. p \in Request
      BY <1>q, <2>1 DEF Request, PC
    <2>3. Shape(p)
      BY <1>11, <1>q DEF LoseClaim, Request, Shape, OpsAt
    <2> QED BY <1>11, <2>2, <2>3, <1>goto, IdleGood DEF LoseClaim, LostClaim, GoodRequest
  <1>12. ASSUME PickNextTransfer(r)
         PROVE  Goal
    <2> DEFINE P(t) == [Idle EXCEPT !.pc = "record", !.op = "pick", !.t = t, !.to = q.user,
                                    !.version = transfer[t].version + 1]
    <2>1. PICK t \in Unassigned : Goto(r, P(t))
      BY <1>12 DEF PickNextTransfer
    <2>2. t \in TransferIds /\ IsActive(t)
      BY DEF Unassigned
    <2>3. q.user \in Agents /\ q.user \in Owner
      BY <1>12, <1>q DEF PickNextTransfer, Shape, OpsAt, Owner
    <2>4. P(t) \in Request
      BY <2>2, <2>3, <1>active, IdleGood DEF GoodRequest, Request, PC, Ops
    <2>5. Idle.from = NULL /\ t # 0
      BY <2>2, <1>active DEF Idle
    <2>6. Shape(P(t))
      BY <2>3, <2>5, IdleGood DEF GoodRequest, Request, Shape, OpsAt, Ops
    <2> QED BY <2>1, <2>4, <2>6, <1>goto
  <1>13. ASSUME MoveTransfer(r)
         PROVE  Goal
    <2> DEFINE p == [q EXCEPT !.pc = "record", !.version = transfer[q.t].version + 1]
    <2>1. q.t \in TransferIds /\ IsActive(q.t)
      BY <1>13, <1>q DEF MoveTransfer, MoveMatches, Request, Shape, OpsAt
    <2>2. p \in Request /\ Shape(p)
      BY <1>13, <1>q, <2>1, <1>active DEF MoveTransfer, Request, PC, Shape, OpsAt, Ops
    <2> QED BY <1>13, <2>2, <1>goto DEF MoveTransfer
  <1>14. ASSUME RecordOwnership(r)
         PROVE  Goal
    BY <1>14, <1>q, AfterRecordGood, GotoGood DEF RecordOwnership
  <1>15. ASSUME UpdateManager(r)
         PROVE  Goal
    BY <1>15, <1>q, AfterManagerGood, GotoGood DEF UpdateManager
  <1>16. ASSUME ListTransfers(r)
         PROVE  Goal
    <2> DEFINE p == [q EXCEPT !.pc = "loop", !.batch = contact,
                       !.todo = {t \in TransferIds : IsActive(t) /\ transfer[t].agent = q.user}]
    <2>1. p \in Request
      BY <1>q DEF Request, PC, Base, TypeOK
    <2>2. Shape(p)
      BY <1>16, <1>q DEF ListTransfers, Request, Shape, OpsAt
    <2> QED BY <1>16, <2>1, <2>2, <1>goto DEF ListTransfers
  <1>17. ASSUME LoadContact(r)
         PROVE  Goal
    <2> DEFINE p == [q EXCEPT !.pc = "close", !.seen = contact[q.c]]
    <2>1. contact[q.c] \in Contact
      BY <1>17, <1>q DEF LoadContact, Shape, OpsAt, Base, TypeOK
    <2>2. p \in Request /\ Shape(p)
      BY <1>17, <1>q, <2>1 DEF LoadContact, Request, PC, Shape, OpsAt
    <2> QED BY <1>17, <2>2, <1>goto DEF LoadContact
  <1>18. ASSUME FindActive(r)
         PROVE  Goal
    <2>1. CASE Goto(r, [q EXCEPT !.pc = "release"])
      <3> DEFINE p == [q EXCEPT !.pc = "release"]
      <3>1. p \in Request /\ Shape(p)
        BY <1>18, <1>q DEF FindActive, Request, PC, Shape, OpsAt
      <3> QED BY <2>1, <3>1, <1>goto
    <2>2. ASSUME NEW t \in ActiveFor(q.c),
                 Goto(r, [q EXCEPT !.pc = "close", !.t = t, !.from = transfer[t].agent])
          PROVE  Goal
      <3> DEFINE p == [q EXCEPT !.pc = "close", !.t = t, !.from = transfer[t].agent]
      <3>1. t \in TransferIds /\ t # 0 /\ transfer[t].agent \in Owner
        BY <1>active DEF ActiveFor
      <3>2. p \in Request /\ Shape(p)
        BY <1>18, <1>q, <3>1 DEF FindActive, Request, PC, Shape, OpsAt
      <3> QED BY <2>2, <3>2, <1>goto
    <2> QED BY <1>18, <2>1, <2>2 DEF FindActive
  <1>19. ASSUME CloseAttendance(r)
         PROVE  Goal
    <2> DEFINE p == [q EXCEPT !.pc = "record"]
    <2>1. p \in Request /\ Shape(p)
      BY <1>19, <1>q DEF CloseAttendance, Request, PC, Shape, OpsAt, Ops
    <2> QED BY <1>19, <2>1, <1>goto DEF CloseAttendance
  <1> QED
    BY <1>0, <1>1, <1>2, <1>3, <1>4, <1>5, <1>6, <1>7, <1>8, <1>9, <1>10, <1>11, <1>12,
       <1>13, <1>14, <1>15, <1>16, <1>17, <1>18, <1>19
    DEF Step

LEMMA RequestsGood ==
  ASSUME Base, [Next]_vars
  PROVE  req' \in [Requests -> GoodRequest] /\ served' \in Nat
  <1>1. ASSUME NEW r \in Requests, Handlers(r) \/ Step(r) \/ Abort(r)
        PROVE  req' \in [Requests -> GoodRequest] /\ served' \in Nat
    BY <1>1, HandlersGood, StepGood
  <1>2. CASE Environment \/ UNCHANGED vars
    <2>1. served' = served \/ served' = served + 1
      BY <1>2 DEF Environment, GoAwayTolerated, ComeBack, Connect, Disconnect, AssignContact, vars
    <2>2. UNCHANGED req
      BY <1>2 DEF Environment, GoAwayTolerated, ComeBack, Connect, Disconnect, AssignContact, vars
    <2> QED BY <2>1, <2>2 DEF Base, TypeOK
  <1> QED BY <1>1, <1>2 DEF Next

-------------------------------------------------------------------------------
(* Rows *)

\* The three ways a step writes agent_transfers.
Inserts(t, c, to) ==
    /\ IndexAllows(c)
    /\ transfer' = [transfer EXCEPT ![t] =
           Owned([NoTransfer EXCEPT !.contact = c, !.status = "active"], to, to # NULL)]

Gives(t, to, pickup) ==
    /\ IsActive(t)
    /\ transfer' = [transfer EXCEPT ![t] = Owned(@, to, pickup)]

Closes(t, status) ==
    /\ Exists(t)
    /\ transfer' = [transfer EXCEPT ![t] = CloseRow(@, status)]

RowStep ==
    \/ UNCHANGED transfer
    \/ \E t \in NextId, c \in Contacts, to \in Owner : Inserts(t, c, to)
    \/ \E t \in TransferIds, to \in Owner, pickup \in BOOLEAN : Gives(t, to, pickup)
    \/ \E t \in TransferIds, status \in Closed : Closes(t, status)

LEMMA RowSteps ==
  ASSUME Base, [Next]_vars
  PROVE  RowStep
  <1> USE DEF RowStep
  <1>q. ASSUME NEW r \in Requests
        PROVE  /\ req[r] \in Request
               /\ Shape(req[r])
               /\ req[r].t # 0 => req[r].t \in TransferIds /\ Exists(req[r].t)
    BY <1>q DEF Base, GoodRequest, Request, References
  <1>0. ASSUME NEW r \in Requests, Handlers(r)
        PROVE  UNCHANGED transfer
    BY <1>0 DEF Handlers, BeginCreate, BeginResolve, BeginInbound, BeginSend, BeginPick, GoAway,
                SweepOffline, BeginAssign, BeginUnassign, BeginReassign, BeginClose
  <1>1. ASSUME NEW r \in Requests, CreateTransferRow(r)
        PROVE  RowStep
    <2>1. req[r].c \in Contacts /\ req[r].to \in Owner
      BY <1>1, <1>q DEF CreateTransferRow, Shape, OpsAt, Request
    <2> QED BY <1>1, <2>1 DEF CreateTransferRow, Inserts
  <1>2. ASSUME NEW r \in Requests, ClaimTransfer(r)
        PROVE  RowStep
    <2>1. req[r].t \in TransferIds /\ req[r].to \in Owner /\ req[r].unpicked \in BOOLEAN
      BY <1>2, <1>q DEF ClaimTransfer, Shape, Request
    <2> QED BY <1>2, <2>1 DEF ClaimTransfer, ClaimMatches, Gives
  <1>3. ASSUME NEW r \in Requests, MoveTransfer(r)
        PROVE  RowStep
    <2>1. req[r].t \in TransferIds /\ req[r].to \in Owner /\ req[r].unpicked \in BOOLEAN
      BY <1>3, <1>q DEF MoveTransfer, Shape, OpsAt, Request
    <2> QED BY <1>3, <2>1 DEF MoveTransfer, MoveMatches, Gives
  <1>4. ASSUME NEW r \in Requests, PickNextTransfer(r)
        PROVE  RowStep
    <2>1. req[r].user \in Owner
      BY <1>q DEF Request
    <2>2. PICK t \in Unassigned :
            transfer' = [transfer EXCEPT ![t] = Owned(@, req[r].user, @.pickedUp = 0)]
      BY <1>4 DEF PickNextTransfer
    <2>3. t \in TransferIds /\ Gives(t, req[r].user, transfer[t].pickedUp = 0)
      BY <2>2 DEF Gives, Unassigned
    <2> QED BY <2>1, <2>3
  <1>5. ASSUME NEW r \in Requests, NEW t \in TransferIds, ReturnTransfer(r, t)
        PROVE  RowStep
    <2>1. Gives(t, NULL, FALSE)
      BY <1>5 DEF ReturnTransfer, MoveMatches, Gives
    <2> QED BY <2>1 DEF Owner
  <1>6. ASSUME NEW r \in Requests, CloseAttendance(r)
        PROVE  RowStep
    <2>1. req[r].t \in TransferIds /\ Exists(req[r].t) /\ req[r].status \in Closed
      BY <1>6, <1>q DEF CloseAttendance, Shape, Request
    <2> QED BY <1>6, <2>1 DEF CloseAttendance, Closes
  <1>7. ASSUME NEW r \in Requests, Step(r)
        PROVE  RowStep
    BY <1>1, <1>2, <1>3, <1>4, <1>5, <1>6, <1>7
    DEF Step, CheckCreate, ReassignAwayTransfer, SkipTransfer, RefuseCreate,
        TransferAlreadyActive, GateOpens, GateClaims, GatePasses, GateRefuses, LoseClaim,
        SendMessage, NothingToPick, MoveConflict, RecordOwnership, UpdateManager, ListTransfers,
        EndReturn, ReassignSkips, LoadContact, FindActive, ReleaseContact, ReopenOnInbound
  <1>8. CASE Environment \/ UNCHANGED vars \/ \E r \in Requests : Abort(r)
    BY <1>8 DEF Environment, GoAwayTolerated, ComeBack, Connect, Disconnect, AssignContact, vars,
                Abort
  <1> QED BY <1>0, <1>7, <1>8 DEF Next

LEMMA OwnedRow ==
  ASSUME NEW row \in Transfer, NEW to \in Owner, NEW pickup \in BOOLEAN
  PROVE  /\ Owned(row, to, pickup) \in Transfer
         /\ Owned(row, to, pickup).contact = row.contact
         /\ Owned(row, to, pickup).status = row.status
         /\ Owned(row, to, pickup).agent = to
         /\ Owned(row, to, pickup).version = row.version + 1
         /\ Owned(row, to, pickup).owners = row.owners \cup ({to} \ {NULL})
  <1>1. PickedUp(row.pickedUp, pickup) \in Nat
    BY DEF PickedUp, Transfer
  <1>2. row.owners \cup ({to} \ {NULL}) \in SUBSET Agents /\ row.version + 1 \in Nat
    BY DEF Transfer, Owner
  <1> QED BY <1>1, <1>2 DEF Owned, Transfer

LEMMA NewRow ==
  ASSUME NEW c \in Contacts
  PROVE  /\ NoTransfer \in Transfer
         /\ [NoTransfer EXCEPT !.contact = c, !.status = "active"] \in Transfer
  BY DEF NoTransfer, Transfer, Closed, Owner

\* A written row is well formed again, and rows are never forgotten.
LEMMA RowsGood ==
  ASSUME Base, RowStep
  PROVE  /\ transfer' \in [TransferIds -> Transfer]
         /\ Rows'
         /\ \A t \in TransferIds : Exists(t) => Exists(t)'
         /\ \A t \in TransferIds : transfer[t].owners \subseteq transfer'[t].owners
  <1> DEFINE Goal == /\ transfer' \in [TransferIds -> Transfer]
                     /\ Rows'
                     /\ \A t \in TransferIds : Exists(t) => Exists(t)'
                     /\ \A t \in TransferIds : transfer[t].owners \subseteq transfer'[t].owners
  <1>b. transfer \in [TransferIds -> Transfer] /\ Rows
    BY DEF Base, TypeOK
  <1>1. CASE UNCHANGED transfer
    BY <1>1, <1>b DEF Rows, Exists
  <1>w. ASSUME NEW t \in TransferIds, NEW row \in Transfer, GoodRow(row),
               transfer' = [transfer EXCEPT ![t] = row],
               Exists(t) => row.status # "none",
               transfer[t].owners \subseteq row.owners
        PROVE  Goal
    BY <1>w, <1>b DEF Rows, Exists
  <1>2. ASSUME NEW t \in NextId, NEW c \in Contacts, NEW to \in Owner, Inserts(t, c, to)
        PROVE  Goal
    <2> DEFINE new == [NoTransfer EXCEPT !.contact = c, !.status = "active"]
               row == Owned(new, to, to # NULL)
    <2>1. new \in Transfer /\ new.contact = c /\ new.status = "active" /\ new.version = 0
      BY NewRow DEF NoTransfer
    <2>2. row \in Transfer /\ GoodRow(row) /\ row.status # "none"
      <3>1. (to # NULL) \in BOOLEAN
        OBVIOUS
      <3> HIDE DEF new
      <3>2. /\ row \in Transfer
            /\ row.contact = c
            /\ row.status = "active"
            /\ row.agent = to
            /\ row.version = 0 + 1
            /\ row.owners = new.owners \cup ({to} \ {NULL})
        BY <2>1, <3>1, OwnedRow
      <3> QED BY <3>2 DEF GoodRow
    <2>3. t \in TransferIds /\ transfer[t].status = "none"
      BY DEF NextId
    <2>4. transfer[t].owners \subseteq row.owners
      BY <2>3, <1>b DEF Rows, GoodRow
    <2> QED BY <1>2, <2>2, <2>3, <2>4, <1>w DEF Inserts, Exists
  <1>3. ASSUME NEW t \in TransferIds, NEW to \in Owner, NEW pickup \in BOOLEAN,
               Gives(t, to, pickup)
        PROVE  Goal
    <2> DEFINE row == Owned(transfer[t], to, pickup)
    <2>1. transfer[t] \in Transfer /\ GoodRow(transfer[t]) /\ transfer[t].status = "active"
      BY <1>3, <1>b DEF Rows, Gives, IsActive
    <2>2. row \in Transfer /\ GoodRow(row) /\ row.status # "none"
          /\ transfer[t].owners \subseteq row.owners
      BY <2>1, OwnedRow DEF GoodRow, Transfer
    <2> QED BY <1>3, <2>2, <1>w DEF Gives
  <1>4. ASSUME NEW t \in TransferIds, NEW status \in Closed, Closes(t, status)
        PROVE  Goal
    <2> DEFINE row == CloseRow(transfer[t], status)
    <2>1. transfer[t] \in Transfer /\ GoodRow(transfer[t]) /\ transfer[t].status # "none"
      BY <1>4, <1>b DEF Rows, Closes, Exists
    <2>2. row \in Transfer /\ GoodRow(row) /\ row.status # "none"
          /\ transfer[t].owners \subseteq row.owners
      BY <2>1 DEF CloseRow, GoodRow, Transfer, Closed
    <2> QED BY <1>4, <2>2, <1>w DEF Closes
  <1> QED BY <1>1, <1>2, <1>3, <1>4 DEF RowStep

-------------------------------------------------------------------------------
(* The other tables *)

LEMMA ContactsGood ==
  ASSUME Base, [Next]_vars
  PROVE  contact' \in [Contacts -> Contact]
  <1>b. contact \in [Contacts -> Contact]
    BY DEF Base, TypeOK
  <1>q. ASSUME NEW r \in Requests
        PROVE  req[r] \in Request /\ Shape(req[r])
    BY DEF Base, GoodRequest
  <1>rel. ASSUME NEW row \in Contact, NEW seen \in Contact
          PROVE  Released(row, seen) \in Contact
    BY DEF Released, Contact, ContactStatus, Owner
  <1>w. ASSUME NEW c \in Contacts, NEW row \in Contact, contact' = [contact EXCEPT ![c] = row]
        PROVE  contact' \in [Contacts -> Contact]
    BY <1>w, <1>b
  <1>0. ASSUME NEW r \in Requests, Handlers(r)
        PROVE  UNCHANGED contact
    BY <1>0 DEF Handlers, BeginCreate, BeginResolve, BeginInbound, BeginSend, BeginPick, GoAway,
                SweepOffline, BeginAssign, BeginUnassign, BeginReassign, BeginClose
  <1>1. ASSUME NEW r \in Requests, SendMessage(r) \/ ReopenOnInbound(r)
        PROVE  contact' \in [Contacts -> Contact]
    <2> DEFINE row == [contact[req[r].c] EXCEPT !.status = "in_progress"]
    <2>1. req[r].c \in Contacts
      BY <1>1, <1>q DEF SendMessage, ReopenOnInbound, Shape, OpsAt
    <2>2. row \in Contact
      BY <2>1, <1>b DEF Contact, ContactStatus
    <2>3. contact' = contact \/ contact' = [contact EXCEPT ![req[r].c] = row]
      BY <1>1 DEF SendMessage, ReopenOnInbound
    <2> QED BY <2>1, <2>2, <2>3, <1>b, <1>w
  <1>2. ASSUME NEW r \in Requests, PickNextTransfer(r)
        PROVE  contact' \in [Contacts -> Contact]
    <2>1. PICK t \in Unassigned :
            contact' = IF AssignToSameAgent /\ contact[transfer[t].contact].assigned = NULL
                       THEN [contact EXCEPT ![transfer[t].contact].assigned = req[r].user]
                       ELSE contact
      BY <1>2 DEF PickNextTransfer
    <2>2. transfer[t].contact \in Contacts
      BY ActiveRow DEF Unassigned
    <2>3. req[r].user \in Owner
      BY <1>q DEF Request
    <2> QED BY <2>1, <2>2, <2>3, <1>b DEF Contact
  <1>3. ASSUME NEW r \in Requests, UpdateManager(r)
        PROVE  contact' \in [Contacts -> Contact]
    <2>1. req[r].c \in Contacts
      BY <1>3, <1>q DEF UpdateManager, Shape, OpsAt
    <2>2. ManagerAfter(req[r], contact[req[r].c]) \in Owner
      BY <2>1, <1>q, <1>b DEF ManagerAfter, Request, Contact, Owner
    <2> QED BY <1>3, <2>1, <2>2, <1>b DEF UpdateManager, Contact
  <1>4. ASSUME NEW r \in Requests, ReleaseContact(r) \/ CloseAttendance(r)
        PROVE  contact' \in [Contacts -> Contact]
    <2>1. req[r].c \in Contacts /\ req[r].seen \in Contact
      BY <1>4, <1>q DEF ReleaseContact, CloseAttendance, Shape, OpsAt, Request
    <2>2. Released(contact[req[r].c], req[r].seen) \in Contact
      BY <2>1, <1>b, <1>rel
    <2> QED BY <1>4, <2>1, <2>2, <1>w DEF ReleaseContact, CloseAttendance
  <1>5. ASSUME NEW r \in Requests, Step(r)
        PROVE  contact' \in [Contacts -> Contact]
    BY <1>1, <1>2, <1>3, <1>4, <1>5, <1>b
    DEF Step, CheckCreate, ReassignAwayTransfer, ReturnTransfer, SkipTransfer, RefuseCreate,
        CreateTransferRow, TransferAlreadyActive, GateOpens, GateClaims, GatePasses, GateRefuses,
        ClaimTransfer, LoseClaim, NothingToPick, MoveTransfer, MoveConflict, RecordOwnership,
        ListTransfers, EndReturn, ReassignSkips, LoadContact, FindActive
  <1>6. CASE Environment
    BY <1>6, <1>b DEF Environment, GoAwayTolerated, ComeBack, Connect, Disconnect, AssignContact,
                      Contact
  <1>7. CASE UNCHANGED vars \/ \E r \in Requests : Abort(r)
    BY <1>7, <1>b DEF vars, Abort
  <1> QED BY <1>0, <1>5, <1>6, <1>7, <1>b DEF Next

\* Only RecordOwnership writes the history and only SendMessage sends.
LEMMA LogsGood ==
  ASSUME Base, [Next]_vars
  PROVE  /\ history' \subseteq Assignment
         /\ sent' \subseteq Message
         /\ \A m \in sent' : Exists(m.t)
         /\ available' \subseteq Agents
         /\ connected' \subseteq Agents
  <1> DEFINE Goal == /\ history' \subseteq Assignment
                     /\ sent' \subseteq Message
                     /\ \A m \in sent' : Exists(m.t)
                     /\ available' \subseteq Agents
                     /\ connected' \subseteq Agents
  <1>b. /\ history \subseteq Assignment
        /\ sent \subseteq Message
        /\ \A m \in sent : Exists(m.t)
        /\ available \subseteq Agents
        /\ connected \subseteq Agents
    BY DEF Base, TypeOK, References
  <1>q. ASSUME NEW r \in Requests
        PROVE  /\ req[r] \in Request
               /\ Shape(req[r])
               /\ req[r].t # 0 => req[r].t \in TransferIds /\ Exists(req[r].t)
    BY <1>q DEF Base, GoodRequest, Request, References
  <1>0. ASSUME NEW r \in Requests, Handlers(r)
        PROVE  Goal
    BY <1>0, <1>b
    DEF Handlers, BeginCreate, BeginResolve, BeginInbound, BeginSend, BeginPick, GoAway,
        SweepOffline, BeginAssign, BeginUnassign, BeginReassign, BeginClose
  <1>1. ASSUME NEW r \in Requests, SendMessage(r)
        PROVE  Goal
    <2>1. req[r].t \in TransferIds /\ Exists(req[r].t) /\ req[r].user \in Agents
      BY <1>1, <1>q DEF SendMessage, Shape, OpsAt
    <2>2. [t |-> req[r].t, agent |-> req[r].user] \in Message
      BY <2>1 DEF Message
    <2> QED BY <1>1, <1>b, <2>1, <2>2 DEF SendMessage
  <1>2. ASSUME NEW r \in Requests, RecordOwnership(r)
        PROVE  Goal
    <2> DEFINE h == [t |-> req[r].t, version |-> req[r].version, from |-> req[r].from,
                     to |-> req[r].to,
                     reason |-> IF req[r].op \in {"close", "resolve"} THEN "closed" ELSE "changed"]
    <2>1. h \in Assignment
      BY <1>2, <1>q DEF RecordOwnership, Shape, Request, Assignment
    <2>2. history' = history \cup {h}
      BY <1>2 DEF RecordOwnership
    <2> QED BY <1>2, <1>b, <2>1, <2>2 DEF RecordOwnership
  <1>3. ASSUME NEW r \in Requests, Step(r)
        PROVE  Goal
    BY <1>1, <1>2, <1>3, <1>b
    DEF Step, CheckCreate, ReassignAwayTransfer, ReturnTransfer, SkipTransfer, RefuseCreate,
        CreateTransferRow, TransferAlreadyActive, GateOpens, GateClaims, GatePasses, GateRefuses,
        ClaimTransfer, LoseClaim, PickNextTransfer, NothingToPick, MoveTransfer, MoveConflict,
        UpdateManager, ListTransfers, EndReturn, ReassignSkips, LoadContact, FindActive,
        ReleaseContact, CloseAttendance, ReopenOnInbound
  <1>4. CASE Environment \/ UNCHANGED vars \/ \E r \in Requests : Abort(r)
    BY <1>4, <1>b
    DEF Environment, GoAwayTolerated, ComeBack, Connect, Disconnect, AssignContact, vars, Abort
  <1> QED BY <1>0, <1>3, <1>4 DEF Next

-------------------------------------------------------------------------------
(* The requests keep referring to rows that exist *)

LEMMA TargetsGood ==
  ASSUME Base, [Next]_vars, NEW s \in Requests, req'[s].t # 0
  PROVE  transfer'[req'[s].t].status # "none"
  <1> USE DEF Exists
  <1>q. ASSUME NEW r \in Requests
        PROVE  /\ req[r] \in Request
               /\ req[r].t # 0 => req[r].t \in TransferIds /\ Exists(req[r].t)
    BY <1>q DEF Base, GoodRequest, Request, References
  <1>r. req \in [Requests -> Request]
    BY DEF Base, TypeOK
  <1>m. \A t \in TransferIds : Exists(t) => Exists(t)'
    BY RowSteps, RowsGood
  <1>i. Idle.t = 0
    BY DEF Idle
  <1>a. ASSUME NEW t \in TransferIds, IsActive(t)
        PROVE  Exists(t)
    BY <1>a DEF IsActive, Exists
  <1>0. ASSUME NEW r \in Requests, Handlers(r)
        PROVE  transfer'[req'[s].t].status # "none"
    <2>f. ASSUME NEW p, Start(r, p), p.t = 0 \/ (p.t \in TransferIds /\ IsActive(p.t))
          PROVE  transfer'[req'[s].t].status # "none"
      BY <2>f, <1>a, <1>q, <1>m, <1>r DEF Start
    <2>1. ASSUME NEW c \in Contacts, BeginCreate(r, c) \/ BeginResolve(r, c) \/ BeginInbound(r, c)
          PROVE  transfer'[req'[s].t].status # "none"
      BY <2>1, <2>f DEF BeginCreate, BeginResolve, BeginInbound, New, Idle
    <2>2. ASSUME NEW a \in Agents,
                 \/ \E c \in Contacts : BeginSend(r, a, c)
                 \/ BeginPick(r, a) \/ GoAway(r, a) \/ SweepOffline(r, a)
          PROVE  transfer'[req'[s].t].status # "none"
      BY <2>2, <2>f DEF BeginSend, BeginPick, GoAway, SweepOffline, New, Idle
    <2>3. ASSUME NEW t \in TransferIds,
                 \/ \E u \in Agents, to \in Owner : BeginAssign(r, u, t, to)
                 \/ BeginUnassign(r, t) \/ BeginReassign(r, t)
                 \/ \E status \in Closed : BeginClose(r, t, status)
          PROVE  transfer'[req'[s].t].status # "none"
      BY <2>3, <2>f DEF BeginAssign, BeginUnassign, BeginReassign, BeginClose, New, Idle
    <2> QED BY <1>0, <2>1, <2>2, <2>3 DEF Handlers
  <1>1. ASSUME NEW r \in Requests, NEW t \in TransferIds, ReturnTransfer(r, t)
        PROVE  transfer'[req'[s].t].status # "none"
    <2>1. req'[r].t = t /\ IsActive(t) /\ (s # r => req'[s] = req[s])
      BY <1>1, <1>r DEF ReturnTransfer, MoveMatches, Goto, Request
    <2> QED BY <2>1, <1>a, <1>q, <1>m
  <1>2. ASSUME NEW r \in Requests, CreateTransferRow(r)
        PROVE  transfer'[req'[s].t].status # "none"
    <2> DEFINE new == [NoTransfer EXCEPT !.contact = req[r].c, !.status = "active"]
    <2>1. PICK t \in NextId :
            /\ transfer' = [transfer EXCEPT ![t] = Owned(new, req[r].to, req[r].to # NULL)]
            /\ Goto(r, [req[r] EXCEPT !.pc = "record", !.t = t, !.version = 1])
      BY <1>2 DEF CreateTransferRow
    <2>2. t \in TransferIds /\ Exists(t)'
      BY <2>1 DEF NextId, Exists, Owned, NoTransfer, Base, TypeOK
    <2>3. req'[r].t = t /\ (s # r => req'[s] = req[s])
      BY <2>1, <1>r DEF Goto, Request
    <2> QED BY <2>2, <2>3, <1>q, <1>m
  <1>3. ASSUME NEW r \in Requests, GateClaims(r) \/ GatePasses(r)
        PROVE  transfer'[req'[s].t].status # "none"
    <2>1. PICK t \in ActiveFor(req[r].c) :
            \/ Goto(r, [req[r] EXCEPT !.pc = "claim", !.t = t, !.to = req[r].user,
                                      !.unpicked = (transfer[t].pickedUp = 0)])
            \/ Goto(r, [req[r] EXCEPT !.pc = "send", !.t = t])
      BY <1>3 DEF GateClaims, GatePasses
    <2>2. req'[r].t = t /\ (s # r => req'[s] = req[s])
      BY <2>1, <1>q, <1>r DEF Goto, Request
    <2>3. t \in TransferIds /\ Exists(t)
      BY <1>a DEF ActiveFor
    <2> QED BY <2>2, <2>3, <1>q, <1>m
  <1>4. ASSUME NEW r \in Requests, FindActive(r)
        PROVE  transfer'[req'[s].t].status # "none"
    <2>1. (s # r => req'[s] = req[s])
          /\ (req'[r].t = req[r].t \/ req'[r].t \in ActiveFor(req[r].c))
      BY <1>4, <1>r DEF FindActive, Goto, Request
    <2>2. \A t \in ActiveFor(req[r].c) : t \in TransferIds /\ Exists(t)
      BY <1>a DEF ActiveFor
    <2> QED BY <2>1, <2>2, <1>q, <1>m
  <1>5. ASSUME NEW r \in Requests, PickNextTransfer(r)
        PROVE  transfer'[req'[s].t].status # "none"
    <2>1. PICK t \in Unassigned : req'[r].t = t /\ (s # r => req'[s] = req[s])
      BY <1>5, <1>r DEF PickNextTransfer, Goto, Idle
    <2>2. t \in TransferIds /\ Exists(t)
      BY <1>a DEF Unassigned
    <2> QED BY <2>1, <2>2, <1>q, <1>m
  <1>6. ASSUME NEW r \in Requests, RecordOwnership(r) \/ UpdateManager(r)
        PROVE  transfer'[req'[s].t].status # "none"
    <2>1. AfterManager(req[r]).t \in {0, req[r].t} /\ AfterRecord(req[r]).t \in {0, req[r].t}
      BY <1>q, <1>i, IdleGood DEF AfterManager, AfterRecord, Request, GoodRequest
    <2>2. req'[r].t \in {0, req[r].t} /\ (s # r => req'[s] = req[s])
      BY <1>6, <2>1, <1>r DEF RecordOwnership, UpdateManager, Goto
    <2> QED BY <2>2, <1>q, <1>m
  <1>7. ASSUME NEW r \in Requests,
               \/ \E to \in Owner : CheckCreate(r, to) \/ ReassignAwayTransfer(r, to)
               \/ \E t \in TransferIds : SkipTransfer(r, t)
               \/ RefuseCreate(r) \/ TransferAlreadyActive(r) \/ GateOpens(r) \/ GateRefuses(r)
               \/ ClaimTransfer(r) \/ LoseClaim(r) \/ SendMessage(r) \/ NothingToPick(r)
               \/ MoveTransfer(r) \/ MoveConflict(r) \/ ListTransfers(r) \/ EndReturn(r)
               \/ ReassignSkips(r) \/ LoadContact(r) \/ ReleaseContact(r) \/ CloseAttendance(r)
               \/ ReopenOnInbound(r) \/ Abort(r)
        PROVE  transfer'[req'[s].t].status # "none"
    <2>g. ASSUME NEW p, Goto(r, p), p.t \in {0, req[r].t}
          PROVE  transfer'[req'[s].t].status # "none"
      BY <2>g, <1>q, <1>m, <1>r DEF Goto
    <2>1. CASE \/ RefuseCreate(r) \/ GateRefuses(r) \/ SendMessage(r) \/ NothingToPick(r)
               \/ MoveConflict(r) \/ EndReturn(r) \/ ReassignSkips(r) \/ ReleaseContact(r)
               \/ ReopenOnInbound(r) \/ Abort(r)
      BY <2>1, <2>g, <1>i
      DEF RefuseCreate, GateRefuses, SendMessage, NothingToPick, MoveConflict, EndReturn,
          ReassignSkips, ReleaseContact, ReopenOnInbound, Abort
    <2>2. CASE TransferAlreadyActive(r) \/ LoseClaim(r) \/ GateOpens(r) \/ LoadContact(r)
      BY <2>2, <2>g, <1>i, <1>q
      DEF TransferAlreadyActive, LoseClaim, LostClaim, GateOpens, LoadContact, Request
    <2>3. CASE ClaimTransfer(r) \/ MoveTransfer(r) \/ ListTransfers(r) \/ CloseAttendance(r)
      BY <2>3, <2>g, <1>q
      DEF ClaimTransfer, MoveTransfer, ListTransfers, CloseAttendance, Request
    <2>4. CASE \/ \E to \in Owner : CheckCreate(r, to) \/ ReassignAwayTransfer(r, to)
               \/ \E t \in TransferIds : SkipTransfer(r, t)
      BY <2>4, <2>g, <1>q DEF CheckCreate, ReassignAwayTransfer, SkipTransfer, Request
    <2> QED BY <1>7, <2>1, <2>2, <2>3, <2>4
  <1>8. CASE Environment \/ UNCHANGED vars
    BY <1>8, <1>q, <1>m
    DEF Environment, GoAwayTolerated, ComeBack, Connect, Disconnect, AssignContact, vars
  <1> QED BY <1>0, <1>1, <1>2, <1>3, <1>4, <1>5, <1>6, <1>7, <1>8 DEF Next, Step

-------------------------------------------------------------------------------
(* Type correctness *)

LEMMA InitBase ==
  ASSUME Init
  PROVE  Base
  <1>1. NoTransfer \in Transfer /\ GoodRow(NoTransfer)
    BY DEF NoTransfer, Transfer, GoodRow, Owner
  <1>2. NewContact \in Contact
    BY DEF NewContact, Contact, ContactStatus, Owner
  <1>3. Idle \in Request /\ Idle.t = 0
    BY IdleGood DEF GoodRequest, Idle
  <1> QED BY <1>1, <1>2, <1>3, IdleGood DEF Init, Base, TypeOK, Rows, References

LEMMA NextBase ==
  ASSUME Base, [Next]_vars
  PROVE  Base'
  <1>1. req' \in [Requests -> GoodRequest] /\ served' \in Nat
    BY RequestsGood
  <1>2. transfer' \in [TransferIds -> Transfer] /\ Rows'
        /\ \A t \in TransferIds : Exists(t) => Exists(t)'
    BY RowSteps, RowsGood
  <1>3. contact' \in [Contacts -> Contact]
    BY ContactsGood
  <1>4. /\ history' \subseteq Assignment
        /\ sent' \subseteq Message
        /\ \A m \in sent' : Exists(m.t)
        /\ available' \subseteq Agents
        /\ connected' \subseteq Agents
    BY LogsGood
  <1>5. TypeOK'
    BY <1>1, <1>2, <1>3, <1>4 DEF TypeOK, GoodRequest
  <1>6. References'
    BY <1>2, <1>4, TargetsGood DEF References, Message, Exists
  <1> QED BY <1>1, <1>2, <1>5, <1>6 DEF Base

LEMMA BaseHolds == Spec => []Base
  BY InitBase, NextBase, PTL DEF Spec

\* Type correctness: whatever the interleaving, every row, every value a
\* handler carries from one statement to the next and every log entry keeps
\* its type (Base adds what the handlers rely on and TypeOK does not say).
THEOREM TypeCorrect == Spec => []TypeOK
  BY BaseHolds, PTL DEF Base

-------------------------------------------------------------------------------
(* One attendance per conversation, and closed means closed *)

\* What each kind of write does to the status, the contact and the owner.
LEMMA RowEffects ==
  ASSUME Base, RowStep, NEW t \in TransferIds
  PROVE  \/ transfer'[t] = transfer[t]
         \/ /\ transfer[t].status = "none"
            /\ transfer'[t].status = "active"
            /\ ActiveFor(transfer'[t].contact) = {}
            /\ \A u \in TransferIds \ {t} : transfer'[u] = transfer[u]
         \/ /\ transfer[t].status = "active"
            /\ transfer'[t].status = "active"
            /\ transfer'[t].contact = transfer[t].contact
            /\ \A u \in TransferIds \ {t} : transfer'[u] = transfer[u]
         \/ /\ transfer[t].status # "none"
            /\ transfer'[t].status \in Closed
            /\ transfer'[t].contact = transfer[t].contact
            /\ transfer'[t].agent = transfer[t].agent
            /\ \A u \in TransferIds \ {t} : transfer'[u] = transfer[u]
  <1>b. transfer \in [TransferIds -> Transfer]
    BY DEF Base, TypeOK
  <1>1. ASSUME NEW u \in NextId, NEW c \in Contacts, NEW to \in Owner, Inserts(u, c, to), u = t
        PROVE  /\ transfer[t].status = "none"
               /\ transfer'[t].status = "active"
               /\ ActiveFor(transfer'[t].contact) = {}
               /\ \A v \in TransferIds \ {t} : transfer'[v] = transfer[v]
    <2> DEFINE new == [NoTransfer EXCEPT !.contact = c, !.status = "active"]
    <2>1. new \in Transfer /\ new.contact = c /\ new.status = "active"
      BY NewRow DEF NoTransfer
    <2>2. (to # NULL) \in BOOLEAN
      OBVIOUS
    <2>3. transfer' = [transfer EXCEPT ![t] = Owned(new, to, to # NULL)]
      BY <1>1 DEF Inserts
    <2> HIDE DEF new
    <2>4. Owned(new, to, to # NULL).contact = c /\ Owned(new, to, to # NULL).status = "active"
      BY <2>1, <2>2, OwnedRow
    <2>5. transfer'[t] = Owned(new, to, to # NULL)
      BY <2>3, <1>b
    <2> QED BY <1>1, <2>3, <2>4, <2>5, <1>b DEF Inserts, IndexAllows, NextId
  <1>2. ASSUME NEW to \in Owner, NEW pickup \in BOOLEAN, Gives(t, to, pickup)
        PROVE  /\ transfer[t].status = "active"
               /\ transfer'[t].status = "active"
               /\ transfer'[t].contact = transfer[t].contact
               /\ \A u \in TransferIds \ {t} : transfer'[u] = transfer[u]
    BY <1>2, <1>b, OwnedRow DEF Gives, IsActive
  <1>3. ASSUME NEW status \in Closed, Closes(t, status)
        PROVE  /\ transfer[t].status # "none"
               /\ transfer'[t].status \in Closed
               /\ transfer'[t].contact = transfer[t].contact
               /\ transfer'[t].agent = transfer[t].agent
               /\ \A u \in TransferIds \ {t} : transfer'[u] = transfer[u]
    BY <1>3, <1>b DEF Closes, Exists, CloseRow, Transfer
  <1>4. ASSUME NEW u \in TransferIds, u # t,
               \/ \E c \in Contacts, to \in Owner : Inserts(u, c, to)
               \/ \E to \in Owner, pickup \in BOOLEAN : Gives(u, to, pickup)
               \/ \E status \in Closed : Closes(u, status)
        PROVE  transfer'[t] = transfer[t]
    BY <1>4, <1>b DEF Inserts, Gives, Closes
  <1>5. NextId \subseteq TransferIds
    BY DEF NextId
  <1>6. ASSUME NEW u \in NextId, NEW c \in Contacts, NEW to \in Owner, Inserts(u, c, to), u # t
        PROVE  transfer'[t] = transfer[t]
    BY <1>4, <1>5, <1>6
  <1>7. ASSUME NEW u \in TransferIds, NEW to \in Owner, NEW pickup \in BOOLEAN,
               Gives(u, to, pickup), u # t
        PROVE  transfer'[t] = transfer[t]
    BY <1>4, <1>7
  <1>8. ASSUME NEW u \in TransferIds, NEW status \in Closed, Closes(u, status), u # t
        PROVE  transfer'[t] = transfer[t]
    BY <1>4, <1>8
  <1> QED BY <1>1, <1>2, <1>3, <1>6, <1>7, <1>8 DEF RowStep

LEMMA NextOneActive ==
  ASSUME Base, OneActivePerContact, [Next]_vars
  PROVE  OneActivePerContact'
  <1>1. SUFFICES ASSUME NEW t \in TransferIds, NEW u \in TransferIds, t # u,
                        IsActive(t)', IsActive(u)',
                        transfer'[t].contact = transfer'[u].contact
                 PROVE  FALSE
    BY DEF OneActivePerContact, IsActive
  <1>2. RowStep
    BY RowSteps
  <1>3. CASE transfer'[t] = transfer[t] /\ transfer'[u] = transfer[u]
    BY <1>1, <1>3 DEF OneActivePerContact, IsActive
  <1>4. ASSUME NEW x \in TransferIds, NEW y \in TransferIds, x # y,
               transfer'[x] # transfer[x],
               transfer'[x].status = "active", transfer'[y].status = "active",
               transfer'[x].contact = transfer'[y].contact
        PROVE  FALSE
    <2>1. /\ transfer'[y] = transfer[y]
          /\ \/ ActiveFor(transfer'[x].contact) = {}
             \/ transfer[x].status = "active" /\ transfer[x].contact = transfer'[x].contact
      BY <1>2, <1>4, RowEffects DEF Closed
    <2> QED BY <1>4, <2>1 DEF OneActivePerContact, IsActive, ActiveFor
  <1> QED BY <1>1, <1>3, <1>4 DEF IsActive

\* A contact never has two active attendances, however its openers, senders,
\* keyword and team transfers interleave: the partial unique index is enough.
THEOREM AtMostOneActive == Spec => []OneActivePerContact
  <1>1. Init => OneActivePerContact
    BY DEF Init, OneActivePerContact, IsActive, NoTransfer
  <1>2. Base /\ OneActivePerContact /\ [Next]_vars => OneActivePerContact'
    BY NextOneActive
  <1> QED BY <1>1, <1>2, BaseHolds, PTL DEF Spec

\* A closed attendance never reopens and never changes owner, whatever a late
\* claim, move, pick, return or second close still holds in memory.
THEOREM ClosedStaysClosed == Spec => ClosedIsFinal
  <1>1. Base /\ [Next]_vars =>
          [\A t \in TransferIds : transfer[t].status \in Closed =>
              /\ transfer'[t].status \in Closed
              /\ transfer'[t].agent = transfer[t].agent]_vars
    BY RowSteps, RowEffects DEF Closed
  <1> QED BY <1>1, BaseHolds, PTL DEF Spec, ClosedIsFinal

-------------------------------------------------------------------------------
(* A message only goes out under an attendance its sender owned *)

\* A sender past the gate is a supervisor or has owned the attendance.
Entitled(q) == q.user \in Supervisors \cup transfer[q.t].owners

PastGate(q) == q.op = "send" /\ q.pc \in {"record", "manager", "send"}

SendersEntitled == \A r \in Requests : PastGate(req[r]) => Entitled(req[r])

LEMMA NextEntitled ==
  ASSUME Base, SendersEntitled, [Next]_vars
  PROVE  SendersEntitled'
  <1>q. ASSUME NEW r \in Requests
        PROVE  /\ req[r] \in Request
               /\ Shape(req[r])
               /\ req[r].t # 0 => req[r].t \in TransferIds /\ Exists(req[r].t)
    BY <1>q DEF Base, GoodRequest, Request, References
  <1>r. req \in [Requests -> Request] /\ transfer \in [TransferIds -> Transfer] /\ Rows
    BY DEF Base, TypeOK
  <1>m. \A t \in TransferIds : transfer[t].owners \subseteq transfer'[t].owners
    BY RowSteps, RowsGood
  <1>k. ASSUME NEW s \in Requests, PastGate(req[s])
        PROVE  req[s].t \in TransferIds /\ req[s].user \in Supervisors \cup transfer'[req[s].t].owners
    <2>1. req[s].t \in TransferIds
      BY <1>k, <1>q DEF PastGate, Shape
    <2> QED BY <1>k, <2>1, <1>m DEF SendersEntitled, Entitled
  <1>g. ASSUME NEW r \in Requests, NEW p, Start(r, p) \/ Goto(r, p),
               PastGate(p) => p.user \in Supervisors \cup transfer'[p.t].owners
        PROVE  SendersEntitled'
    <2>1. SUFFICES ASSUME NEW s \in Requests, PastGate(req'[s])
                   PROVE  req'[s].user \in Supervisors \cup transfer'[req'[s].t].owners
      BY DEF SendersEntitled, PastGate, Entitled
    <2>2. CASE s = r
      BY <1>g, <2>1, <2>2, <1>r DEF Start, Goto
    <2>3. CASE s # r
      <3>1. req'[s] = req[s]
        BY <1>g, <2>3, <1>r DEF Start, Goto
      <3> QED BY <2>1, <3>1, <1>k
    <2> QED BY <2>2, <2>3
  <1>i. ~PastGate(Idle)
    BY DEF PastGate, Idle
  <1>0. ASSUME NEW r \in Requests, Handlers(r)
        PROVE  SendersEntitled'
    <2>1. ASSUME NEW c \in Contacts, BeginCreate(r, c) \/ BeginResolve(r, c) \/ BeginInbound(r, c)
          PROVE  SendersEntitled'
      BY <2>1, <1>g DEF BeginCreate, BeginResolve, BeginInbound, New, Idle, PastGate
    <2>2. ASSUME NEW a \in Agents,
                 \/ \E c \in Contacts : BeginSend(r, a, c)
                 \/ BeginPick(r, a) \/ GoAway(r, a) \/ SweepOffline(r, a)
          PROVE  SendersEntitled'
      BY <2>2, <1>g DEF BeginSend, BeginPick, GoAway, SweepOffline, New, Idle, PastGate
    <2>3. ASSUME NEW t \in TransferIds,
                 \/ \E u \in Agents, to \in Owner : BeginAssign(r, u, t, to)
                 \/ BeginUnassign(r, t) \/ BeginReassign(r, t)
                 \/ \E status \in Closed : BeginClose(r, t, status)
          PROVE  SendersEntitled'
      BY <2>3, <1>g
      DEF BeginAssign, BeginUnassign, BeginReassign, BeginClose, New, Idle, PastGate
    <2> QED BY <1>0, <2>1, <2>2, <2>3 DEF Handlers
  <1>1. ASSUME NEW r \in Requests, CreateTransferRow(r)
        PROVE  SendersEntitled'
    <2> DEFINE new == [NoTransfer EXCEPT !.contact = req[r].c, !.status = "active"]
    <2>1. PICK t \in NextId :
            /\ transfer' = [transfer EXCEPT ![t] = Owned(new, req[r].to, req[r].to # NULL)]
            /\ Goto(r, [req[r] EXCEPT !.pc = "record", !.t = t, !.version = 1])
      BY <1>1 DEF CreateTransferRow
    <2> DEFINE p == [req[r] EXCEPT !.pc = "record", !.t = t, !.version = 1]
    <2>2. p.op = req[r].op /\ p.user = req[r].user /\ p.t = t
      BY <1>q DEF Request
    <2>3. p.op = "send" => req[r].to = p.user /\ p.user \in Agents
      BY <1>1, <1>q, <2>2 DEF CreateTransferRow, Shape
    <2>4. req[r].c \in Contacts /\ req[r].to \in Owner /\ (req[r].to # NULL) \in BOOLEAN
      BY <1>1, <1>q DEF CreateTransferRow, Shape, OpsAt, Request
    <2>5. new \in Transfer
      BY <2>4, NewRow
    <2>6. transfer'[t] = Owned(new, req[r].to, req[r].to # NULL)
      BY <2>1, <1>r DEF NextId
    <2> HIDE DEF new
    <2>7. Owned(new, req[r].to, req[r].to # NULL).owners = new.owners \cup ({req[r].to} \ {NULL})
      BY <2>4, <2>5, OwnedRow
    <2>8. p.op = "send" => p.user \in transfer'[p.t].owners
      BY <2>2, <2>3, <2>6, <2>7, AttendanceAssumption
    <2> HIDE DEF p
    <2>9. Goto(r, p)
      BY <2>1 DEF p
    <2> QED BY <2>8, <2>9, <1>g DEF PastGate
  <1>2. ASSUME NEW r \in Requests, ClaimTransfer(r)
        PROVE  SendersEntitled'
    <2> DEFINE p == [req[r] EXCEPT !.pc = "record", !.version = transfer[req[r].t].version + 1]
               t == req[r].t
    <2>1. p.op = req[r].op /\ p.user = req[r].user /\ p.t = req[r].t
      BY <1>q DEF Request
    <2>2. req[r].to = req[r].user /\ req[r].user \in Agents /\ t \in TransferIds
      BY <1>2, <1>q DEF ClaimTransfer, Shape, OpsAt
    <2>3. transfer[t] \in Transfer /\ req[r].to \in Owner /\ req[r].unpicked \in BOOLEAN
      BY <2>2, <1>r, <1>q DEF Request
    <2>4. transfer'[t] = Owned(transfer[t], req[r].to, req[r].unpicked)
      BY <1>2, <2>2, <1>r DEF ClaimTransfer
    <2>5. transfer'[t].owners = transfer[t].owners \cup ({req[r].to} \ {NULL})
      BY <2>3, <2>4, OwnedRow
    <2>6. p.user \in transfer'[p.t].owners
      BY <2>1, <2>2, <2>5, AttendanceAssumption
    <2>7. Goto(r, p)
      BY <1>2 DEF ClaimTransfer
    <2> HIDE DEF p
    <2> QED BY <2>6, <2>7, <1>g
  <1>3. ASSUME NEW r \in Requests, GatePasses(r)
        PROVE  SendersEntitled'
    <2>1. PICK t \in ActiveFor(req[r].c) :
            /\ transfer[t].agent # NULL
            /\ MayActOn(req[r].user, transfer[t].agent)
            /\ Goto(r, [req[r] EXCEPT !.pc = "send", !.t = t])
      BY <1>3 DEF GatePasses
    <2> DEFINE p == [req[r] EXCEPT !.pc = "send", !.t = t]
    <2>2. p.user = req[r].user /\ p.t = t
      BY <1>q DEF Request
    <2>3. t \in TransferIds /\ transfer[t].agent \in transfer[t].owners
      BY <2>1, <1>r DEF ActiveFor, Rows, GoodRow
    <2>4. p.user \in Supervisors \cup transfer'[p.t].owners
      BY <2>1, <2>2, <2>3, <1>m DEF MayActOn
    <2>5. Goto(r, p)
      BY <2>1
    <2> HIDE DEF p
    <2> QED BY <2>4, <2>5, <1>g
  <1>4. ASSUME NEW r \in Requests, RecordOwnership(r) \/ UpdateManager(r)
        PROVE  SendersEntitled'
    <2>1. PICK p \in {AfterRecord(req[r]), AfterManager(req[r])} : Goto(r, p)
      BY <1>4 DEF RecordOwnership, UpdateManager
    <2>2. req[r].pc \in {"record", "manager"}
      BY <1>4 DEF RecordOwnership, UpdateManager
    <2>3. PastGate(AfterManager(req[r]))
            => /\ req[r].op = "send"
               /\ AfterManager(req[r]).user = req[r].user
               /\ AfterManager(req[r]).t = req[r].t
      BY <1>q, <1>i, IdleGood DEF AfterManager, PastGate, Request, GoodRequest
    <2>4. LET x == [req[r] EXCEPT !.pc = "manager"]
          IN  x.op = req[r].op /\ x.user = req[r].user /\ x.t = req[r].t
      BY <1>q DEF Request
    <2>5. PastGate(p) => req[r].op = "send" /\ p.user = req[r].user /\ p.t = req[r].t
      BY <2>3, <2>4 DEF AfterRecord, PastGate
    <2>6. PastGate(p) => p.user \in Supervisors \cup transfer'[p.t].owners
      BY <2>2, <2>5, <1>k DEF PastGate
    <2> QED BY <2>1, <2>6, <1>g
  <1>5. ASSUME NEW r \in Requests,
               \/ RefuseCreate(r) \/ GateRefuses(r) \/ SendMessage(r) \/ NothingToPick(r)
               \/ MoveConflict(r) \/ EndReturn(r) \/ ReassignSkips(r) \/ ReleaseContact(r)
               \/ ReopenOnInbound(r) \/ Abort(r)
        PROVE  SendersEntitled'
    BY <1>5, <1>g, <1>i
    DEF RefuseCreate, GateRefuses, SendMessage, NothingToPick, MoveConflict, EndReturn,
        ReassignSkips, ReleaseContact, ReopenOnInbound, Abort
  <1>6. ASSUME NEW r \in Requests, TransferAlreadyActive(r) \/ LoseClaim(r)
        PROVE  SendersEntitled'
    BY <1>6, <1>g, <1>i, <1>q DEF TransferAlreadyActive, LoseClaim, LostClaim, PastGate, Request
  <1>7. ASSUME NEW r \in Requests,
               \/ GateOpens(r) \/ GateClaims(r) \/ LoadContact(r) \/ ListTransfers(r)
               \/ FindActive(r)
               \/ \E to \in Owner : CheckCreate(r, to) \/ ReassignAwayTransfer(r, to)
        PROVE  SendersEntitled'
    <2>1. CASE GateOpens(r) \/ LoadContact(r) \/ ListTransfers(r)
      BY <2>1, <1>g, <1>q DEF GateOpens, LoadContact, ListTransfers, PastGate, Request
    <2>2. CASE GateClaims(r)
      BY <2>2, <1>g, <1>q DEF GateClaims, PastGate, Request
    <2>3. CASE FindActive(r)
      BY <2>3, <1>g, <1>q DEF FindActive, PastGate, Request
    <2>4. CASE \E to \in Owner : CheckCreate(r, to) \/ ReassignAwayTransfer(r, to)
      BY <2>4, <1>g, <1>q DEF CheckCreate, ReassignAwayTransfer, PastGate, Request
    <2> QED BY <1>7, <2>1, <2>2, <2>3, <2>4
  <1>8. ASSUME NEW r \in Requests,
               \/ MoveTransfer(r) \/ CloseAttendance(r)
               \/ \E t \in TransferIds : ReturnTransfer(r, t) \/ SkipTransfer(r, t)
        PROVE  SendersEntitled'
    <2>1. req[r].op # "send"
      BY <1>8, <1>q DEF MoveTransfer, CloseAttendance, ReturnTransfer, SkipTransfer, Shape, OpsAt
    <2>2. CASE MoveTransfer(r)
      BY <2>1, <2>2, <1>g, <1>q DEF MoveTransfer, PastGate, Request
    <2>3. CASE CloseAttendance(r)
      BY <2>1, <2>3, <1>g, <1>q DEF CloseAttendance, PastGate, Request
    <2>4. ASSUME NEW t \in TransferIds, ReturnTransfer(r, t) \/ SkipTransfer(r, t)
          PROVE  SendersEntitled'
      BY <2>1, <2>4, <1>g, <1>q DEF ReturnTransfer, SkipTransfer, PastGate, Request
    <2> QED BY <1>8, <2>2, <2>3, <2>4
  <1>9. ASSUME NEW r \in Requests, PickNextTransfer(r)
        PROVE  SendersEntitled'
    <2> DEFINE P(t) == [Idle EXCEPT !.pc = "record", !.op = "pick", !.t = t, !.to = req[r].user,
                                    !.version = transfer[t].version + 1]
    <2>1. PICK t \in Unassigned : Goto(r, P(t))
      BY <1>9 DEF PickNextTransfer
    <2>2. P(t).op = "pick"
      BY DEF Idle
    <2> HIDE DEF P
    <2> QED BY <2>1, <2>2, <1>g DEF PastGate
  <1>10. CASE Environment \/ UNCHANGED vars
    BY <1>10
    DEF Environment, GoAwayTolerated, ComeBack, Connect, Disconnect, AssignContact, vars,
        SendersEntitled, PastGate, Entitled
  <1> QED
    BY <1>0, <1>1, <1>2, <1>3, <1>4, <1>5, <1>6, <1>7, <1>8, <1>9, <1>10 DEF Next, Step

LEMMA SentStep ==
  ASSUME [Next]_vars
  PROVE  UNCHANGED sent \/ \E r \in Requests : SendMessage(r)
  <1>1. ASSUME NEW r \in Requests, Handlers(r)
        PROVE  UNCHANGED sent
    BY <1>1
    DEF Handlers, BeginCreate, BeginResolve, BeginInbound, BeginSend, BeginPick, GoAway,
        SweepOffline, BeginAssign, BeginUnassign, BeginReassign, BeginClose
  <1>2. ASSUME NEW r \in Requests, Step(r)
        PROVE  UNCHANGED sent \/ SendMessage(r)
    BY <1>2
    DEF Step, CheckCreate, ReassignAwayTransfer, ReturnTransfer, SkipTransfer, RefuseCreate,
        CreateTransferRow, TransferAlreadyActive, GateOpens, GateClaims, GatePasses, GateRefuses,
        ClaimTransfer, LoseClaim, PickNextTransfer, NothingToPick, MoveTransfer, MoveConflict,
        RecordOwnership, UpdateManager, ListTransfers, EndReturn, ReassignSkips, LoadContact,
        FindActive, ReleaseContact, CloseAttendance, ReopenOnInbound
  <1>3. CASE Environment \/ UNCHANGED vars \/ \E r \in Requests : Abort(r)
    BY <1>3
    DEF Environment, GoAwayTolerated, ComeBack, Connect, Disconnect, AssignContact, vars, Abort
  <1> QED BY <1>1, <1>2, <1>3 DEF Next

LEMMA NextSenderOwned ==
  ASSUME Base, SendersEntitled, SenderOwned, [Next]_vars
  PROVE  SenderOwned'
  <1>1. SUFFICES ASSUME NEW m \in sent'
                 PROVE  m.agent \in Supervisors \cup transfer'[m.t].owners
    BY DEF SenderOwned
  <1>m. \A t \in TransferIds : transfer[t].owners \subseteq transfer'[t].owners
    BY RowSteps, RowsGood
  <1>2. CASE m \in sent
    BY <1>2, <1>m DEF SenderOwned, Base, TypeOK, Message
  <1>3. CASE m \notin sent
    <2>1. PICK r \in Requests : SendMessage(r)
      BY <1>3, SentStep
    <2>2. m = [t |-> req[r].t, agent |-> req[r].user]
      BY <1>3, <2>1 DEF SendMessage
    <2>3. /\ PastGate(req[r])
          /\ req[r].t \in TransferIds
      BY <2>1 DEF SendMessage, PastGate, Base, GoodRequest, Request, Shape, OpsAt
    <2> QED BY <2>2, <2>3, <1>m DEF SendersEntitled, Entitled
  <1> QED BY <1>2, <1>3

\* ensureAgentOwnsConversation keeps its promise for any number of agents and
\* concurrent sends: a message only goes out under an attendance its sender
\* owned at some moment, or from a supervisor.
THEOREM OnlyOwnersSend == Spec => []SenderOwned
  <1>1. Init => SendersEntitled /\ SenderOwned
    BY DEF Init, SendersEntitled, SenderOwned, PastGate, Idle
  <1>2. Base /\ (SendersEntitled /\ SenderOwned) /\ [Next]_vars => (SendersEntitled /\ SenderOwned)'
    BY NextEntitled, NextSenderOwned
  <1> QED BY <1>1, <1>2, BaseHolds, PTL DEF Spec

-------------------------------------------------------------------------------
(* The ownership history *)

Recording(q) == q.pc = "record" /\ q.op \notin {"close", "resolve"}

ChangeOf(q) == [t |-> q.t, version |-> q.version, from |-> q.from, to |-> q.to,
                reason |-> "changed"]

\* No owner is written and no change appears.
QuietStep ==
    /\ Changes' \subseteq Changes
    /\ \A t \in TransferIds : /\ transfer'[t].version = transfer[t].version
                              /\ transfer'[t].agent = transfer[t].agent

\* One owner is written, and the change that appears says from whom to whom.
ChangeStep(t, e) ==
    /\ Changes' \subseteq Changes \cup {e}
    /\ e.t = t
    /\ e.version = transfer[t].version + 1
    /\ e.from = transfer[t].agent
    /\ e.to = transfer'[t].agent
    /\ transfer'[t].version = transfer[t].version + 1
    /\ \A u \in TransferIds \ {t} : transfer'[u] = transfer[u]

LEMMA ChangesAre ==
  Changes = {h \in history : h.reason = "changed"}
              \cup {ChangeOf(req[r]) : r \in {s \in Requests : Recording(req[s])}}
  BY DEF Changes, Unrecorded, ChangeOf, Recording

LEMMA RequestChanges ==
  ASSUME Base, NEW r \in Requests, NEW p, Start(r, p) \/ Goto(r, p), UNCHANGED history,
         NEW E, Recording(p) => ChangeOf(p) \in E
  PROVE  Changes' \subseteq Changes \cup E
  <1>1. SUFFICES ASSUME NEW x \in Changes', x \notin Changes
                 PROVE  x \in E
    OBVIOUS
  <1>2. PICK s \in Requests : Recording(req'[s]) /\ x = ChangeOf(req'[s])
    BY <1>1 DEF Changes, Unrecorded, Recording, ChangeOf
  <1>3. req'[s] = IF s = r THEN p ELSE req[s]
    BY DEF Base, Start, Goto
  <1>4. s = r
    BY <1>1, <1>2, <1>3, ChangesAre
  <1> QED BY <1>2, <1>3, <1>4

LEMMA ChangeSteps ==
  ASSUME Base, [Next]_vars
  PROVE  QuietStep \/ \E t \in TransferIds : \E e : ChangeStep(t, e)
  <1> DEFINE Goal == QuietStep \/ \E t \in TransferIds : \E e : ChangeStep(t, e)
  <1>q. ASSUME NEW r \in Requests
        PROVE  /\ req[r] \in Request
               /\ Shape(req[r])
               /\ req[r].t # 0 => req[r].t \in TransferIds
    BY <1>q DEF Base, GoodRequest, Request
  <1>r. req \in [Requests -> Request] /\ transfer \in [TransferIds -> Transfer] /\ Rows
    BY DEF Base, TypeOK
  <1>i. ~Recording(Idle)
    BY DEF Recording, Idle
  <1>s. ASSUME NEW r \in Requests, NEW p, Start(r, p) \/ Goto(r, p), UNCHANGED history,
               UNCHANGED transfer, ~Recording(p)
        PROVE  Goal
    <2>1. Changes' \subseteq Changes \cup {}
      BY <1>s, RequestChanges
    <2> QED BY <1>s, <2>1 DEF QuietStep
  <1>g. ASSUME NEW r \in Requests, NEW p \in Request, Goto(r, p), UNCHANGED history,
               NEW t \in TransferIds, NEW row \in Transfer, transfer' = [transfer EXCEPT ![t] = row],
               p.t = t, p.version = transfer[t].version + 1, row.version = transfer[t].version + 1,
               p.from = transfer[t].agent, p.to = row.agent
        PROVE  Goal
    <2>1. Changes' \subseteq Changes \cup {ChangeOf(p)}
      BY <1>g, RequestChanges
    <2>2. ChangeStep(t, ChangeOf(p))
      BY <1>g, <1>r, <2>1 DEF ChangeStep, ChangeOf
    <2> QED BY <2>2
  <1>0. ASSUME NEW r \in Requests, Handlers(r)
        PROVE  Goal
    <2>1. ASSUME NEW c \in Contacts, BeginCreate(r, c) \/ BeginResolve(r, c) \/ BeginInbound(r, c)
          PROVE  Goal
      BY <2>1, <1>s DEF BeginCreate, BeginResolve, BeginInbound, New, Idle, Recording
    <2>2. ASSUME NEW a \in Agents,
                 \/ \E c \in Contacts : BeginSend(r, a, c)
                 \/ BeginPick(r, a) \/ GoAway(r, a) \/ SweepOffline(r, a)
          PROVE  Goal
      BY <2>2, <1>s DEF BeginSend, BeginPick, GoAway, SweepOffline, New, Idle, Recording
    <2>3. ASSUME NEW t \in TransferIds,
                 \/ \E u \in Agents, to \in Owner : BeginAssign(r, u, t, to)
                 \/ BeginUnassign(r, t) \/ BeginReassign(r, t)
                 \/ \E status \in Closed : BeginClose(r, t, status)
          PROVE  Goal
      BY <2>3, <1>s
      DEF BeginAssign, BeginUnassign, BeginReassign, BeginClose, New, Idle, Recording
    <2> QED BY <1>0, <2>1, <2>2, <2>3 DEF Handlers
  <1>1. ASSUME NEW r \in Requests, CreateTransferRow(r)
        PROVE  Goal
    <2> DEFINE new == [NoTransfer EXCEPT !.contact = req[r].c, !.status = "active"]
               row == Owned(new, req[r].to, req[r].to # NULL)
    <2>1. PICK t \in NextId :
            /\ transfer' = [transfer EXCEPT ![t] = row]
            /\ Goto(r, [req[r] EXCEPT !.pc = "record", !.t = t, !.version = 1])
      BY <1>1 DEF CreateTransferRow
    <2> DEFINE p == [req[r] EXCEPT !.pc = "record", !.t = t, !.version = 1]
    <2>2. t \in TransferIds /\ transfer[t].version = 0 /\ transfer[t].agent = NULL
      BY <1>r DEF NextId, Rows, GoodRow
    <2>3. req[r].c \in Contacts /\ req[r].to \in Owner /\ (req[r].to # NULL) \in BOOLEAN
          /\ req[r].from = NULL
      BY <1>1, <1>q DEF CreateTransferRow, Shape, OpsAt, Request
    <2>4. new \in Transfer /\ new.version = 0
      BY <2>3, NewRow DEF NoTransfer
    <2> HIDE DEF new
    <2>5. row \in Transfer /\ row.version = 0 + 1 /\ row.agent = req[r].to
      BY <2>3, <2>4, OwnedRow
    <2>0. req[r] \in Request
      BY <1>q
    <2>6. p \in Request
      BY <2>0, <2>2 DEF Request, PC
    <2>8. p.t = t /\ p.version = 1 /\ p.from = req[r].from /\ p.to = req[r].to
      BY <1>q DEF Request
    <2>7. Goto(r, p) /\ UNCHANGED history
      BY <1>1, <2>1 DEF CreateTransferRow
    <2>9. transfer' = [transfer EXCEPT ![t] = row]
      BY <2>1
    <2> HIDE DEF row, p
    <2>10. row.version = transfer[t].version + 1 /\ p.version = transfer[t].version + 1
      BY <2>2, <2>5, <2>8
    <2> QED BY <1>g, <2>2, <2>3, <2>5, <2>6, <2>7, <2>8, <2>9, <2>10
  <1>2. ASSUME NEW r \in Requests, ClaimTransfer(r) \/ MoveTransfer(r)
        PROVE  Goal
    <2> DEFINE t == req[r].t
               row == Owned(transfer[t], req[r].to, req[r].unpicked)
               p == [req[r] EXCEPT !.pc = "record", !.version = transfer[req[r].t].version + 1]
    <2>1. t \in TransferIds /\ transfer[t].agent = req[r].from
      BY <1>2, <1>q
      DEF ClaimTransfer, ClaimMatches, MoveTransfer, MoveMatches, Shape, OpsAt
    <2>2. transfer[t] \in Transfer /\ req[r].to \in Owner /\ req[r].unpicked \in BOOLEAN
      BY <1>r, <1>q, <2>1 DEF Request
    <2>3. row \in Transfer /\ row.version = transfer[t].version + 1 /\ row.agent = req[r].to
      BY <2>2, OwnedRow
    <2>4. transfer[t].version + 1 \in Nat
      BY <2>2 DEF Transfer
    <2>5. p \in Request /\ p.t = t /\ p.version = transfer[t].version + 1
          /\ p.from = req[r].from /\ p.to = req[r].to
      BY <1>q, <2>4 DEF Request, PC
    <2>6. Goto(r, p) /\ UNCHANGED history /\ transfer' = [transfer EXCEPT ![t] = row]
      BY <1>2, <1>r, <2>1 DEF ClaimTransfer, MoveTransfer
    <2> HIDE DEF row, p, t
    <2> QED BY <1>g, <2>1, <2>3, <2>5, <2>6
  <1>3. ASSUME NEW r \in Requests, NEW t \in TransferIds, ReturnTransfer(r, t)
        PROVE  Goal
    <2> DEFINE row == Owned(transfer[t], NULL, FALSE)
               p == [req[r] EXCEPT !.pc = "record", !.t = t, !.c = transfer[t].contact,
                            !.seen = req[r].batch[transfer[t].contact], !.from = req[r].user,
                            !.version = transfer[t].version + 1, !.todo = @ \ {t}]
    <2>1. transfer[t] \in Transfer /\ NULL \in Owner
      BY <1>r DEF Owner
    <2>2. transfer[t].agent = req[r].user /\ req[r].to = NULL /\ transfer[t].contact \in Contacts
      BY <1>3, <1>q, ActiveRow DEF ReturnTransfer, MoveMatches, Shape, OpsAt
    <2>3. row \in Transfer /\ row.version = transfer[t].version + 1 /\ row.agent = NULL
      BY <2>1, OwnedRow
    <2>4. transfer[t].version + 1 \in Nat /\ req[r].batch[transfer[t].contact] \in Contact
      BY <2>1, <2>2, <1>q DEF Transfer, Request
    <2>0. req[r] \in Request
      BY <1>q
    <2>5. p \in Request
      BY <2>0, <2>2, <2>4 DEF Request, PC
    <2>6. p.t = t /\ p.version = transfer[t].version + 1 /\ p.from = req[r].user /\ p.to = req[r].to
      BY <1>q DEF Request
    <2>7. Goto(r, p) /\ UNCHANGED history /\ transfer' = [transfer EXCEPT ![t] = row]
      BY <1>3, <1>r DEF ReturnTransfer
    <2> HIDE DEF row, p
    <2> QED BY <1>g, <2>2, <2>3, <2>5, <2>6, <2>7
  <1>4. ASSUME NEW r \in Requests, PickNextTransfer(r)
        PROVE  Goal
    <2> DEFINE P(t) == [Idle EXCEPT !.pc = "record", !.op = "pick", !.t = t, !.to = req[r].user,
                                    !.version = transfer[t].version + 1]
               R(t) == Owned(transfer[t], req[r].user, transfer[t].pickedUp = 0)
    <2>1. PICK t \in Unassigned : Goto(r, P(t)) /\ transfer' = [transfer EXCEPT ![t] = R(t)]
      BY <1>4, <1>r DEF PickNextTransfer
    <2>2. t \in TransferIds /\ transfer[t].agent = NULL
      BY DEF Unassigned
    <2>3. transfer[t] \in Transfer /\ req[r].user \in Owner
          /\ (transfer[t].pickedUp = 0) \in BOOLEAN
      BY <1>r, <1>q, <2>2 DEF Request
    <2>4. R(t) \in Transfer /\ R(t).version = transfer[t].version + 1 /\ R(t).agent = req[r].user
      BY <2>3, OwnedRow
    <2>5. transfer[t].version + 1 \in Nat
      BY <2>3 DEF Transfer
    <2>6. P(t) \in Request
      BY <2>2, <2>3, <2>5, IdleGood DEF GoodRequest, Request, PC, Ops
    <2>7. P(t).t = t /\ P(t).version = transfer[t].version + 1 /\ P(t).from = NULL
          /\ P(t).to = req[r].user
      BY DEF Idle
    <2>8. UNCHANGED history
      BY <1>4 DEF PickNextTransfer
    <2> HIDE DEF P, R
    <2> QED BY <1>g, <2>1, <2>2, <2>4, <2>6, <2>7, <2>8
  <1>5. ASSUME NEW r \in Requests, CloseAttendance(r)
        PROVE  Goal
    <2> DEFINE p == [req[r] EXCEPT !.pc = "record"]
    <2>1. p.op \in {"close", "resolve"} /\ req[r].t \in TransferIds
      BY <1>5, <1>q DEF CloseAttendance, Shape, OpsAt, Request
    <2>2. Goto(r, p) /\ UNCHANGED history
          /\ transfer' = [transfer EXCEPT ![req[r].t] = CloseRow(@, req[r].status)]
      BY <1>5 DEF CloseAttendance
    <2> HIDE DEF p
    <2>3. Changes' \subseteq Changes \cup {}
      BY <2>1, <2>2, RequestChanges DEF Recording
    <2>4. \A t \in TransferIds : /\ transfer'[t].version = transfer[t].version
                                 /\ transfer'[t].agent = transfer[t].agent
      BY <2>1, <2>2, <1>r DEF CloseRow, Transfer
    <2> QED BY <2>3, <2>4 DEF QuietStep
  <1>6. ASSUME NEW r \in Requests, RecordOwnership(r)
        PROVE  Goal
    <2> DEFINE h == [t |-> req[r].t, version |-> req[r].version, from |-> req[r].from,
                     to |-> req[r].to,
                     reason |-> IF req[r].op \in {"close", "resolve"} THEN "closed" ELSE "changed"]
    <2>1. history' = history \cup {h} /\ Goto(r, AfterRecord(req[r])) /\ UNCHANGED transfer
          /\ req[r].pc = "record"
      BY <1>6 DEF RecordOwnership
    <2>2. AfterRecord(req[r]).pc # "record"
      BY <1>q, IdleGood, <1>i
      DEF AfterRecord, AfterManager, GoodRequest, Request, Idle
    <2>3. h.reason = "changed" => h = ChangeOf(req[r]) /\ Recording(req[r])
      BY <2>1 DEF ChangeOf, Recording
    <2> HIDE DEF h
    <2>4. SUFFICES ASSUME NEW x \in Changes'
                   PROVE  x \in Changes
      BY <2>1, <2>4 DEF QuietStep
    <2>5. CASE x \in history' /\ x.reason = "changed"
      BY <2>1, <2>3, <2>5, ChangesAre
    <2>6. ASSUME NEW s \in Requests, Recording(req'[s]), x = ChangeOf(req'[s])
          PROVE  x \in Changes
      <3>1. s # r /\ req'[s] = req[s]
        BY <2>1, <2>2, <2>6, <1>r DEF Goto, Recording
      <3> QED BY <2>6, <3>1, ChangesAre
    <2> QED BY <2>4, <2>5, <2>6 DEF Changes, Unrecorded, Recording, ChangeOf
  <1>7. ASSUME NEW r \in Requests, UpdateManager(r)
        PROVE  Goal
    <2>1. ~Recording(AfterManager(req[r]))
      BY <1>q, <1>i, IdleGood DEF AfterManager, Recording, GoodRequest, Request
    <2> QED BY <1>7, <2>1, <1>s DEF UpdateManager
  <1>8. ASSUME NEW r \in Requests,
               \/ RefuseCreate(r) \/ GateRefuses(r) \/ SendMessage(r) \/ NothingToPick(r)
               \/ MoveConflict(r) \/ EndReturn(r) \/ ReassignSkips(r) \/ ReleaseContact(r)
               \/ ReopenOnInbound(r) \/ Abort(r)
        PROVE  Goal
    BY <1>8, <1>s, <1>i
    DEF RefuseCreate, GateRefuses, SendMessage, NothingToPick, MoveConflict, EndReturn,
        ReassignSkips, ReleaseContact, ReopenOnInbound, Abort
  <1>9. ASSUME NEW r \in Requests, TransferAlreadyActive(r) \/ LoseClaim(r)
        PROVE  Goal
    BY <1>9, <1>s, <1>i, <1>q DEF TransferAlreadyActive, LoseClaim, LostClaim, Recording, Request
  <1>10. ASSUME NEW r \in Requests,
                \/ GateOpens(r) \/ GateClaims(r) \/ GatePasses(r) \/ LoadContact(r)
                \/ ListTransfers(r) \/ FindActive(r)
                \/ \E to \in Owner : CheckCreate(r, to) \/ ReassignAwayTransfer(r, to)
                \/ \E t \in TransferIds : SkipTransfer(r, t)
         PROVE  Goal
    <2>1. CASE GateOpens(r) \/ LoadContact(r) \/ ListTransfers(r)
      BY <2>1, <1>s, <1>q DEF GateOpens, LoadContact, ListTransfers, Recording, Request
    <2>2. CASE GateClaims(r)
      BY <2>2, <1>s, <1>q DEF GateClaims, Recording, Request
    <2>3. CASE GatePasses(r)
      BY <2>3, <1>s, <1>q DEF GatePasses, Recording, Request
    <2>4. CASE FindActive(r)
      BY <2>4, <1>s, <1>q DEF FindActive, Recording, Request
    <2>5. CASE \E to \in Owner : CheckCreate(r, to) \/ ReassignAwayTransfer(r, to)
      BY <2>5, <1>s, <1>q DEF CheckCreate, ReassignAwayTransfer, Recording, Request
    <2>6. CASE \E t \in TransferIds : SkipTransfer(r, t)
      BY <2>6, <1>s, <1>q DEF SkipTransfer, Recording, Request
    <2> QED BY <1>10, <2>1, <2>2, <2>3, <2>4, <2>5, <2>6
  <1>11. CASE Environment \/ UNCHANGED vars
    BY <1>11
    DEF Environment, GoAwayTolerated, ComeBack, Connect, Disconnect, AssignContact, vars,
        QuietStep, Changes, Unrecorded
  <1> QED
    BY <1>0, <1>1, <1>2, <1>3, <1>4, <1>5, <1>6, <1>7, <1>8, <1>9, <1>10, <1>11 DEF Next, Step

LEMMA NextHistoryChains ==
  ASSUME Base, HistoryChains, [Next]_vars
  PROVE  HistoryChains'
  <1>b. transfer \in [TransferIds -> Transfer] /\ Rows
    BY DEF Base, TypeOK
  <1>c. \A x \in Changes : x.t \in TransferIds /\ x.version \in Nat
    BY DEF Changes, Unrecorded, Base, TypeOK, Assignment, GoodRequest, Request, Shape
  <1>1. CASE QuietStep
    BY <1>1, <1>c DEF QuietStep, HistoryChains
  <1>2. ASSUME NEW t \in TransferIds, NEW e, ChangeStep(t, e)
        PROVE  HistoryChains'
    <2>1. transfer[t].version \in Nat /\ (transfer[t].version = 0 => transfer[t].agent = NULL)
      BY <1>b DEF Transfer, Rows, GoodRow
    <2>2. \A x \in Changes' : x \in Changes \/ x = e
      BY <1>2 DEF ChangeStep
    <2>3. \A x \in Changes' :
            /\ 1 <= x.version /\ x.version <= transfer'[x.t].version
            /\ x.version = 1 => x.from = NULL
            /\ x.version = transfer'[x.t].version => x.to = transfer'[x.t].agent
      <3>1. ASSUME NEW x \in Changes
            PROVE  /\ 1 <= x.version /\ x.version <= transfer'[x.t].version
                   /\ x.version = 1 => x.from = NULL
                   /\ x.version = transfer'[x.t].version => x.to = transfer'[x.t].agent
        BY <1>2, <1>c, <2>1 DEF ChangeStep, HistoryChains
      <3>2. /\ 1 <= e.version /\ e.version <= transfer'[e.t].version
            /\ e.version = 1 => e.from = NULL
            /\ e.version = transfer'[e.t].version => e.to = transfer'[e.t].agent
        BY <1>2, <2>1 DEF ChangeStep
      <3> QED BY <2>2, <3>1, <3>2
    <2>4. \A x, y \in Changes' : x.t = y.t =>
            /\ x.version = y.version => x = y
            /\ x.version + 1 = y.version => x.to = y.from
      <3>1. ASSUME NEW x \in Changes, x.t = e.t
            PROVE  /\ x.version # e.version
                   /\ x.version + 1 = e.version => x.to = e.from
                   /\ e.version + 1 # x.version
        BY <1>2, <1>c, <2>1, <3>1 DEF ChangeStep, HistoryChains
      <3>2. e.version + 1 # e.version
        BY <1>2, <2>1 DEF ChangeStep
      <3> QED BY <2>2, <3>1, <3>2, <1>c DEF HistoryChains
    <2> QED BY <2>3, <2>4 DEF HistoryChains
  <1> QED BY <1>1, <1>2, ChangeSteps

\* The ownership history tells the truth for any number of concurrent handlers
\* and crashes: every compare-and-set replaced exactly the owner its caller had
\* read, so the recorded rows of an attendance, in the order of the changes,
\* link up from the queue to the current owner.
THEOREM HistoryIsTrue == Spec => []HistoryChains
  <1>1. Init => HistoryChains
    BY DEF Init, HistoryChains, Changes, Unrecorded, Idle
  <1>2. Base /\ HistoryChains /\ [Next]_vars => HistoryChains'
    BY NextHistoryChains
  <1> QED BY <1>1, <1>2, BaseHolds, PTL DEF Spec

-------------------------------------------------------------------------------
(* Attendances implement one lock per conversation *)

LEMMA HeldBy ==
  ASSUME Base, OneActivePerContact, NEW t \in TransferIds, IsActive(t)
  PROVE  /\ transfer[t].contact \in Contacts
         /\ ActiveFor(transfer[t].contact) = {t}
         /\ Held[transfer[t].contact] = {transfer[t].agent}
  <1>1. transfer[t].contact \in Contacts
    BY ActiveRow
  <1>2. ActiveFor(transfer[t].contact) = {t}
    BY DEF ActiveFor, OneActivePerContact
  <1> QED BY <1>1, <1>2 DEF Held

LEMMA StepsLock ==
  ASSUME Base, OneActivePerContact, [Next]_vars
  PROVE  [Lock!Next]_Held
  <1>b. transfer \in [TransferIds -> Transfer]
    BY DEF Base, TypeOK
  <1>h. Held = [c \in Contacts |-> {transfer[t].agent : t \in ActiveFor(c)}]
        /\ Held' = [c \in Contacts |-> {transfer'[t].agent : t \in ActiveFor(c)'}]
    BY DEF Held
  <1>a. ASSUME NEW c \in Contacts
        PROVE  ActiveFor(c)' = {t \in TransferIds : transfer'[t].status = "active"
                                                    /\ transfer'[t].contact = c}
    BY DEF ActiveFor, IsActive
  \* Writing a row touches no other conversation.
  <1>o. ASSUME NEW t \in TransferIds, NEW c \in Contacts,
               \A u \in TransferIds \ {t} : transfer'[u] = transfer[u],
               transfer[t].status = "active" => transfer[t].contact # c,
               transfer'[t].status = "active" => transfer'[t].contact # c
        PROVE  Held'[c] = Held[c]
    <2>1. ActiveFor(c)' = ActiveFor(c) /\ t \notin ActiveFor(c)
      BY <1>o, <1>a DEF ActiveFor, IsActive
    <2>2. \A u \in ActiveFor(c) : transfer'[u].agent = transfer[u].agent
      BY <1>o, <2>1 DEF ActiveFor
    <2> QED BY <2>1, <2>2, <1>h
  <1>1. CASE UNCHANGED transfer
    BY <1>1 DEF Held, ActiveFor, IsActive
  <1>2. ASSUME NEW t \in NextId, NEW c \in Contacts, NEW to \in Owner, Inserts(t, c, to)
        PROVE  Lock!Next
    <2> DEFINE new == [NoTransfer EXCEPT !.contact = c, !.status = "active"]
    <2>1. t \in TransferIds /\ transfer[t].status = "none"
      BY DEF NextId
    <2>2. new \in Transfer /\ new.contact = c /\ new.status = "active"
      BY NewRow DEF NoTransfer
    <2>3. (to # NULL) \in BOOLEAN
      OBVIOUS
    <2>4. /\ transfer'[t] = Owned(new, to, to # NULL)
          /\ \A u \in TransferIds \ {t} : transfer'[u] = transfer[u]
          /\ ActiveFor(c) = {}
      BY <1>2, <2>1, <1>b DEF Inserts, IndexAllows
    <2> HIDE DEF new
    <2>5. LET row == Owned(new, to, to # NULL)
          IN  row.contact = c /\ row.status = "active" /\ row.agent = to
      BY <2>2, <2>3, OwnedRow
    <2>6. ActiveFor(c)' = {t}
      BY <2>1, <2>4, <2>5, <1>a DEF ActiveFor, IsActive
    <2>7. Held[c] = {} /\ Held'[c] = {to}
      BY <2>4, <2>5, <2>6, <1>h
    <2>8. \A d \in Contacts \ {c} : Held'[d] = Held[d]
      BY <2>1, <2>4, <2>5, <1>o
    <2>9. Held' = [Held EXCEPT ![c] = {to}]
      BY <2>7, <2>8, <1>h
    <2>10. Lock!Open(c, to)
      BY <2>7, <2>9 DEF Lock!Open
    <2> QED BY <2>10 DEF Lock!Next, Lock!Holder, Owner
  <1>3. ASSUME NEW t \in TransferIds, NEW to \in Owner, NEW pickup \in BOOLEAN,
               Gives(t, to, pickup)
        PROVE  Lock!Next
    <2> DEFINE c == transfer[t].contact
    <2>1. IsActive(t) /\ c \in Contacts /\ ActiveFor(c) = {t} /\ Held[c] = {transfer[t].agent}
          /\ transfer[t].agent \in Owner
      BY <1>3, HeldBy, ActiveRow DEF Gives
    <2>2. /\ transfer'[t] = Owned(transfer[t], to, pickup)
          /\ \A u \in TransferIds \ {t} : transfer'[u] = transfer[u]
      BY <1>3, <1>b DEF Gives
    <2>3. transfer'[t].contact = c /\ transfer'[t].status = "active" /\ transfer'[t].agent = to
      BY <2>1, <2>2, <1>b, OwnedRow DEF IsActive
    <2>4. ActiveFor(c)' = {t}
      BY <2>1, <2>2, <2>3, <1>a DEF ActiveFor, IsActive
    <2>5. Held'[c] = {to}
      BY <2>1, <2>3, <2>4, <1>h
    <2>6. \A d \in Contacts \ {c} : Held'[d] = Held[d]
      BY <2>2, <2>3, <1>o
    <2>7. Held' = [Held EXCEPT ![c] = {to}]
      BY <2>1, <2>5, <2>6, <1>h
    <2>8. Lock!HandOver(c, transfer[t].agent, to)
      BY <2>1, <2>7 DEF Lock!HandOver
    <2> QED BY <2>1, <2>8 DEF Lock!Next, Lock!Holder, Owner
  <1>4. ASSUME NEW t \in TransferIds, NEW status \in Closed, Closes(t, status)
        PROVE  Lock!Next \/ UNCHANGED Held
    <2> DEFINE c == transfer[t].contact
    <2>1. /\ transfer'[t] = CloseRow(transfer[t], status)
          /\ \A u \in TransferIds \ {t} : transfer'[u] = transfer[u]
      BY <1>4, <1>b DEF Closes
    <2>2. transfer'[t].contact = c /\ transfer'[t].status # "active"
      BY <2>1, <1>b DEF CloseRow, Closed, Transfer
    <2>3. CASE IsActive(t)
      <3>1. c \in Contacts /\ ActiveFor(c) = {t} /\ Held[c] = {transfer[t].agent}
            /\ transfer[t].agent \in Owner
        BY <2>3, HeldBy, ActiveRow
      <3>2. ActiveFor(c)' = {}
        BY <2>1, <2>2, <3>1, <1>a DEF ActiveFor, IsActive
      <3>3. Held'[c] = {}
        BY <2>2, <3>1, <3>2, <1>h
      <3>4. \A d \in Contacts \ {c} : Held'[d] = Held[d]
        BY <2>1, <2>2, <1>o
      <3>5. Held' = [Held EXCEPT ![c] = {}]
        BY <3>1, <3>3, <3>4, <1>h
      <3>6. Lock!Close(c, transfer[t].agent)
        BY <3>1, <3>5 DEF Lock!Close
      <3> QED BY <3>1, <3>6 DEF Lock!Next, Lock!Holder, Owner
    <2>4. CASE ~IsActive(t)
      <3>1. \A d \in Contacts : Held'[d] = Held[d]
        BY <2>1, <2>2, <2>4, <1>o DEF IsActive
      <3> QED BY <3>1, <1>h
    <2> QED BY <2>3, <2>4
  <1> QED BY <1>1, <1>2, <1>3, <1>4, RowSteps DEF RowStep

\* Refinement: the rows, requests and compare-and-sets implement one lock per
\* conversation, opened when free, handed from one holder to one holder, closed.
THEOREM RowsImplementLock == Spec => ImplementsLock
  <1>1. Init => Lock!Init
    BY DEF Init, Lock!Init, Held, ActiveFor, IsActive, NoTransfer
  <1>2. Base /\ OneActivePerContact /\ [Next]_vars => [Lock!Next]_Held
    BY StepsLock
  <1> QED BY <1>1, <1>2, BaseHolds, AtMostOneActive, PTL DEF Spec, ImplementsLock, Lock!Spec

-------------------------------------------------------------------------------
(* An away sweep takes an attendance from the agent it found away *)

\* What reassignAwayTransfer is about to move belonged to the agent of the sweep.
Moving(q) == q.op = "reassign" /\ q.pc = "move"

FoundAway == \A r \in Requests : Moving(req[r]) => req[r].from = req[r].user

LEMMA NextFoundAway ==
  ASSUME Base, FoundAway, [Next]_vars
  PROVE  FoundAway'
  <1>q. ASSUME NEW r \in Requests
        PROVE  req[r] \in Request /\ Shape(req[r])
    BY <1>q DEF Base, GoodRequest
  <1>r. req \in [Requests -> Request]
    BY DEF Base, TypeOK
  <1>g. ASSUME NEW r \in Requests, NEW p, Start(r, p) \/ Goto(r, p),
               Moving(p) => p.from = p.user
        PROVE  FoundAway'
    <2>1. SUFFICES ASSUME NEW s \in Requests, Moving(req'[s])
                   PROVE  req'[s].from = req'[s].user
      BY DEF FoundAway, Moving
    <2>2. CASE s = r
      BY <1>g, <2>1, <2>2, <1>r DEF Start, Goto
    <2>3. CASE s # r
      <3>1. req'[s] = req[s]
        BY <1>g, <2>3, <1>r DEF Start, Goto
      <3> QED BY <2>1, <3>1 DEF FoundAway
    <2> QED BY <2>2, <2>3
  <1>i. ~Moving(Idle)
    BY DEF Moving, Idle
  <1>0. ASSUME NEW r \in Requests, Handlers(r)
        PROVE  FoundAway'
    <2>1. ASSUME NEW c \in Contacts, BeginCreate(r, c) \/ BeginResolve(r, c) \/ BeginInbound(r, c)
          PROVE  FoundAway'
      BY <2>1, <1>g DEF BeginCreate, BeginResolve, BeginInbound, New, Idle, Moving
    <2>2. ASSUME NEW a \in Agents,
                 \/ \E c \in Contacts : BeginSend(r, a, c)
                 \/ BeginPick(r, a) \/ GoAway(r, a) \/ SweepOffline(r, a)
          PROVE  FoundAway'
      BY <2>2, <1>g DEF BeginSend, BeginPick, GoAway, SweepOffline, New, Idle, Moving
    <2>3. ASSUME NEW t \in TransferIds,
                 \/ \E u \in Agents, to \in Owner : BeginAssign(r, u, t, to)
                 \/ BeginUnassign(r, t) \/ BeginReassign(r, t)
                 \/ \E status \in Closed : BeginClose(r, t, status)
          PROVE  FoundAway'
      BY <2>3, <1>g
      DEF BeginAssign, BeginUnassign, BeginReassign, BeginClose, New, Idle, Moving
    <2> QED BY <1>0, <2>1, <2>2, <2>3 DEF Handlers
  <1>1. ASSUME NEW r \in Requests, NEW to \in Owner, ReassignAwayTransfer(r, to)
        PROVE  FoundAway'
    BY <1>1, <1>g, <1>q DEF ReassignAwayTransfer, Moving, Request
  <1>2. ASSUME NEW r \in Requests,
               \/ RefuseCreate(r) \/ GateRefuses(r) \/ SendMessage(r) \/ NothingToPick(r)
               \/ MoveConflict(r) \/ EndReturn(r) \/ ReassignSkips(r) \/ ReleaseContact(r)
               \/ ReopenOnInbound(r) \/ Abort(r)
        PROVE  FoundAway'
    BY <1>2, <1>g, <1>i
    DEF RefuseCreate, GateRefuses, SendMessage, NothingToPick, MoveConflict, EndReturn,
        ReassignSkips, ReleaseContact, ReopenOnInbound, Abort
  <1>3. ASSUME NEW r \in Requests, TransferAlreadyActive(r) \/ LoseClaim(r)
        PROVE  FoundAway'
    BY <1>3, <1>g, <1>i, <1>q DEF TransferAlreadyActive, LoseClaim, LostClaim, Moving, Request
  <1>4. ASSUME NEW r \in Requests,
               GateOpens(r) \/ GateClaims(r) \/ GatePasses(r) \/ LoadContact(r) \/ ListTransfers(r)
        PROVE  FoundAway'
    <2>1. CASE GateOpens(r) \/ LoadContact(r) \/ ListTransfers(r)
      BY <2>1, <1>g, <1>q DEF GateOpens, LoadContact, ListTransfers, Moving, Request
    <2>2. CASE GateClaims(r)
      BY <2>2, <1>g, <1>q DEF GateClaims, Moving, Request
    <2>3. CASE GatePasses(r)
      BY <2>3, <1>g, <1>q DEF GatePasses, Moving, Request
    <2> QED BY <1>4, <2>1, <2>2, <2>3
  <1>5. ASSUME NEW r \in Requests, FindActive(r)
        PROVE  FoundAway'
    BY <1>5, <1>g, <1>q DEF FindActive, Moving, Request
  <1>6. ASSUME NEW r \in Requests, NEW to \in Owner, CheckCreate(r, to)
        PROVE  FoundAway'
    BY <1>6, <1>g, <1>q DEF CheckCreate, Moving, Request
  <1>7. ASSUME NEW r \in Requests, CreateTransferRow(r) \/ ClaimTransfer(r)
        PROVE  FoundAway'
    <2>1. CASE CreateTransferRow(r)
      <3>1. PICK t \in NextId : Goto(r, [req[r] EXCEPT !.pc = "record", !.t = t, !.version = 1])
        BY <2>1 DEF CreateTransferRow
      <3> QED BY <3>1, <1>g, <1>q DEF Moving, Request
    <2>2. CASE ClaimTransfer(r)
      BY <2>2, <1>g, <1>q DEF ClaimTransfer, Moving, Request
    <2> QED BY <1>7, <2>1, <2>2
  <1>8. ASSUME NEW r \in Requests, MoveTransfer(r) \/ CloseAttendance(r)
        PROVE  FoundAway'
    BY <1>8, <1>g, <1>q DEF MoveTransfer, CloseAttendance, Moving, Request
  <1>9. ASSUME NEW r \in Requests, NEW t \in TransferIds, ReturnTransfer(r, t) \/ SkipTransfer(r, t)
        PROVE  FoundAway'
    <2>1. req[r].op # "reassign"
      BY <1>9, <1>q DEF ReturnTransfer, SkipTransfer, Shape, OpsAt
    <2> QED BY <1>9, <2>1, <1>g, <1>q DEF ReturnTransfer, SkipTransfer, Moving, Request
  <1>10. ASSUME NEW r \in Requests, PickNextTransfer(r)
        PROVE  FoundAway'
    <2> DEFINE P(t) == [Idle EXCEPT !.pc = "record", !.op = "pick", !.t = t, !.to = req[r].user,
                                    !.version = transfer[t].version + 1]
    <2>1. PICK t \in Unassigned : Goto(r, P(t))
      BY <1>10 DEF PickNextTransfer
    <2>2. P(t).op = "pick"
      BY DEF Idle
    <2> HIDE DEF P
    <2> QED BY <2>1, <2>2, <1>g DEF Moving
  <1>11. ASSUME NEW r \in Requests, RecordOwnership(r) \/ UpdateManager(r)
        PROVE  FoundAway'
    <2>1. PICK p \in {AfterRecord(req[r]), AfterManager(req[r])} : Goto(r, p)
      BY <1>11 DEF RecordOwnership, UpdateManager
    <2>2. ~Moving(AfterManager(req[r]))
      BY <1>q, <1>i DEF AfterManager, Moving, Request, Idle
    <2>3. ~Moving([req[r] EXCEPT !.pc = "manager"])
      BY <1>q DEF Moving, Request
    <2>4. ~Moving(p)
      BY <2>2, <2>3 DEF AfterRecord
    <2> QED BY <2>1, <2>4, <1>g
  <1>12. CASE Environment \/ UNCHANGED vars
    BY <1>12
    DEF Environment, GoAwayTolerated, ComeBack, Connect, Disconnect, AssignContact, vars,
        FoundAway, Moving
  <1> QED
    BY <1>0, <1>1, <1>2, <1>3, <1>4, <1>5, <1>6, <1>7, <1>8, <1>9, <1>10, <1>11, <1>12
    DEF Next, Step

\* Only moveTransfer takes a request from its statement to the record of the change.
LEMMA MovedStep ==
  ASSUME Base, NEW r \in Requests, req[r].pc = "move", req'[r].pc = "record", [Next]_vars
  PROVE  MoveTransfer(r)
  <1>1. req \in [Requests -> Request]
    BY DEF Base, TypeOK
  <1>2. req'[r] # req[r] /\ req'[r] # Idle
    BY DEF Idle
  <1>3. ASSUME NEW s \in Requests, NEW p, Start(s, p) \/ Goto(s, p)
        PROVE  s = r /\ Goto(s, p)
    BY <1>1, <1>2, <1>3 DEF Start, Goto, Idle
  <1>4. ASSUME NEW s \in Requests, Handlers(s)
        PROVE  FALSE
    <2>1. \E p : Start(s, p)
      BY <1>4
      DEF Handlers, BeginCreate, BeginResolve, BeginInbound, BeginSend, BeginPick, GoAway,
          SweepOffline, BeginAssign, BeginUnassign, BeginReassign, BeginClose
    <2> QED BY <2>1, <1>3 DEF Start, Idle
  <1>5. ASSUME NEW s \in Requests, Step(s)
        PROVE  MoveTransfer(r)
    <2>1. s = r
      <3>1. \E p : Goto(s, p)
        BY <1>5
        DEF Step, CheckCreate, ReassignAwayTransfer, ReturnTransfer, SkipTransfer, RefuseCreate,
            CreateTransferRow, TransferAlreadyActive, GateOpens, GateClaims, GatePasses, GateRefuses,
            ClaimTransfer, LoseClaim, SendMessage, PickNextTransfer, NothingToPick, MoveTransfer,
            MoveConflict, RecordOwnership, UpdateManager, ListTransfers, EndReturn, ReassignSkips,
            LoadContact, FindActive, ReleaseContact, CloseAttendance, ReopenOnInbound
      <3> QED BY <3>1, <1>3
    <2>2. MoveTransfer(r) \/ MoveConflict(r)
      BY <1>5, <2>1
      DEF Step, CheckCreate, ReassignAwayTransfer, ReturnTransfer, SkipTransfer, RefuseCreate,
          CreateTransferRow, TransferAlreadyActive, GateOpens, GateClaims, GatePasses, GateRefuses,
          ClaimTransfer, LoseClaim, SendMessage, PickNextTransfer, NothingToPick,
          RecordOwnership, UpdateManager, ListTransfers, EndReturn, ReassignSkips,
          LoadContact, FindActive, ReleaseContact, CloseAttendance, ReopenOnInbound
    <2>3. ~MoveConflict(r)
      BY <1>1, <1>2 DEF MoveConflict, Goto
    <2> QED BY <2>2, <2>3
  <1>6. CASE Environment \/ UNCHANGED vars \/ \E s \in Requests : Abort(s)
    <2>1. ASSUME NEW s \in Requests, Abort(s) PROVE FALSE
      BY <2>1, <1>1, <1>2, <1>3 DEF Abort, Goto
    <2> QED BY <1>6, <2>1, <1>2
    DEF Environment, GoAwayTolerated, ComeBack, Connect, Disconnect, AssignContact, vars
  <1> QED BY <1>4, <1>5, <1>6 DEF Next

\* The row is loaded long after the sweep selected it, and written later still; whoever
\* received the attendance meanwhile keeps it (reassignAwayTransfer, moveTransfer).
THEOREM OnlyTheAwayAgentLoses == Spec => ReassignsOnlyTheAwayAgent
  <1>1. Init => FoundAway
    BY DEF Init, FoundAway, Moving, Idle
  <1>2. Base /\ FoundAway /\ [Next]_vars => FoundAway'
    BY NextFoundAway
  <1>3. Base /\ FoundAway /\ [Next]_vars =>
          [\A r \in Requests :
              (req[r].op = "reassign" /\ req[r].pc = "move" /\ req'[r].pc = "record") =>
                  transfer[req[r].t].agent = req[r].user]_vars
    <2> SUFFICES ASSUME Base, FoundAway, [Next]_vars,
                        NEW r \in Requests, req[r].op = "reassign", req[r].pc = "move",
                        req'[r].pc = "record"
                 PROVE  transfer[req[r].t].agent = req[r].user
      OBVIOUS
    <2>1. MoveTransfer(r)
      BY MovedStep
    <2> QED BY <2>1 DEF MoveTransfer, MoveMatches, FoundAway, Moving
  <1> QED BY <1>1, <1>2, <1>3, BaseHolds, PTL DEF Spec, ReassignsOnlyTheAwayAgent

-------------------------------------------------------------------------------
(* PresenceLog: the inductive invariant *)

IsClosed(row) == row.ended_at # None

\* What rows of one agent look like at any time up to n: every interval but the last is
\* closed, none is negative or begins before the one before it ended, none lies in the future,
\* and a transition leads to another state.
GoodLog(rows, n) ==
    /\ rows \in Seq(AgentPresenceLog)
    /\ \A i \in 1 .. Len(rows) :
        /\ rows[i].started_at <= n
        /\ IsClosed(rows[i]) => rows[i].started_at <= rows[i].ended_at /\ rows[i].ended_at <= n
        /\ rows[i].reason = "transition" => i < Len(rows)
    /\ \A i \in 1 .. Len(rows) : i < Len(rows) =>
        /\ IsClosed(rows[i])
        /\ rows[i].ended_at <= rows[i + 1].started_at
        /\ rows[i].reason = "transition" =>
             rows[i + 1].state # rows[i].state /\ rows[i + 1].started_at = rows[i].ended_at

\* The clock a recorder has read is not ahead of the time, nor behind the end of the
\* last interval if that is closed: only a restart closes it, and ends all recorders.
GoodJob(q) ==
    /\ q.pc # "idle" => q.agent \in Users
    /\ q.pc = "write" =>
        /\ q.at <= now
        /\ \A n \in 1 .. Len(log[q.agent]) :
             (n = Len(log[q.agent]) /\ IsClosed(log[q.agent][n])) => log[q.agent][n].ended_at <= q.at

LogInv ==
    /\ LogTypeOK
    /\ DOMAIN log = Users /\ log = [a \in Users |-> log[a]]
    /\ \A a \in Users : GoodLog(log[a], now)
    /\ \A j \in Jobs : GoodJob(job[j])

-------------------------------------------------------------------------------
(* Lemmas about logs *)

LEMMA RowTypes ==
  ASSUME NEW row \in AgentPresenceLog
  PROVE  /\ row.started_at \in Nat /\ row.started_at <= MaxNow
         /\ IsClosed(row) => row.ended_at \in Nat /\ row.ended_at <= MaxNow
  BY PresenceLogAssumption DEF AgentPresenceLog, Times, IsClosed

\* A good log stays good as time goes by.
LEMMA GoodLogLater ==
  ASSUME NEW rows, NEW n \in Nat, NEW m \in Nat, n <= m, GoodLog(rows, n)
  PROVE  GoodLog(rows, m)
  <1>1. ASSUME NEW i \in 1 .. Len(rows)
        PROVE  /\ rows[i].started_at <= m
               /\ IsClosed(rows[i]) => rows[i].ended_at <= m
    <2>1. rows[i] \in AgentPresenceLog
      BY DEF GoodLog
    <2> QED BY <2>1, RowTypes DEF GoodLog
  <1> QED BY <1>1 DEF GoodLog

\* A closed log takes a new interval that begins no earlier than it ends.
LEMMA GoodAppend ==
  ASSUME NEW rows, NEW n \in Nat, GoodLog(rows, n),
         NEW row \in AgentPresenceLog, ~IsClosed(row), row.reason # "transition", row.started_at <= n,
         Len(rows) > 0 => /\ IsClosed(rows[Len(rows)])
                          /\ rows[Len(rows)].ended_at <= row.started_at
                          /\ rows[Len(rows)].reason = "transition" =>
                               row.state # rows[Len(rows)].state /\ row.started_at = rows[Len(rows)].ended_at
  PROVE  GoodLog(Append(rows, row), n)
  <1> DEFINE new == Append(rows, row)
  <1>1. /\ new \in Seq(AgentPresenceLog) /\ Len(rows) \in Nat /\ Len(new) = Len(rows) + 1
        /\ \A i \in 1 .. Len(rows) : new[i] = rows[i]
        /\ new[Len(rows) + 1] = row
    BY DEF GoodLog
  <1> HIDE DEF new
  <1>2. ASSUME NEW i \in 1 .. Len(new)
        PROVE  /\ new[i].started_at <= n
               /\ IsClosed(new[i]) => new[i].started_at <= new[i].ended_at /\ new[i].ended_at <= n
               /\ new[i].reason = "transition" => i < Len(new)
    BY <1>1 DEF GoodLog
  <1>3. ASSUME NEW i \in 1 .. Len(new), i < Len(new)
        PROVE  /\ IsClosed(new[i])
               /\ new[i].ended_at <= new[i + 1].started_at
               /\ new[i].reason = "transition" =>
                    new[i + 1].state # new[i].state /\ new[i + 1].started_at = new[i].ended_at
    BY <1>1, <1>3 DEF GoodLog
  <1> QED BY <1>1, <1>2, <1>3 DEF GoodLog, new

\* Closing the last interval changes its end and its reason only.
LEMMA CloseLast ==
  ASSUME NEW rows \in Seq(AgentPresenceLog), Len(rows) > 0, NEW end \in Times,
         NEW reason \in {"transition", "restart"}
  PROVE  LET k == Len(rows)
             new == [rows EXCEPT ![k].ended_at = end, ![k].reason = reason]
         IN  /\ new \in Seq(AgentPresenceLog) /\ Len(new) = k
             /\ \A i \in 1 .. k : i # k => new[i] = rows[i]
             /\ new[k].ended_at = end /\ new[k].started_at = rows[k].started_at
             /\ new[k].state = rows[k].state /\ new[k].reason = reason
  <1> DEFINE k == Len(rows)
             new == [rows EXCEPT ![k].ended_at = end, ![k].reason = reason]
             row == [rows[k] EXCEPT !.ended_at = end, !.reason = reason]
  <1>1. k \in Nat /\ k \in 1 .. k /\ DOMAIN rows = 1 .. k /\ rows \in [1 .. k -> AgentPresenceLog]
    OBVIOUS
  <1>2. rows[k] \in AgentPresenceLog
    BY <1>1
  <1>3. row \in AgentPresenceLog
    BY <1>2 DEF AgentPresenceLog
  <1>4. /\ row.ended_at = end /\ row.started_at = rows[k].started_at
        /\ row.state = rows[k].state /\ row.reason = reason
    BY <1>2 DEF AgentPresenceLog
  <1>5. new = [rows EXCEPT ![k] = row]
    BY <1>1, <1>2 DEF AgentPresenceLog
  <1> HIDE DEF row, new, k
  <1>6. new \in [1 .. k -> AgentPresenceLog] /\ new[k] = row /\ \A i \in 1 .. k : i # k => new[i] = rows[i]
    BY <1>1, <1>3, <1>5
  <1>7. new \in Seq(AgentPresenceLog) /\ Len(new) = k
    BY <1>1, <1>6
  <1> QED BY <1>4, <1>6, <1>7 DEF new, k

\* Closing the last interval for a restart.
LEMMA GoodClose ==
  ASSUME NEW rows, NEW n \in Nat, GoodLog(rows, n), Len(rows) > 0,
         NEW end \in Times, rows[Len(rows)].started_at <= end, end <= n
  PROVE  GoodLog([rows EXCEPT ![Len(rows)].ended_at = end, ![Len(rows)].reason = "restart"], n)
  <1> DEFINE k == Len(rows)
             new == [rows EXCEPT ![k].ended_at = end, ![k].reason = "restart"]
  <1>1. k \in Nat /\ rows \in Seq(AgentPresenceLog)
    BY DEF GoodLog
  <1>2. /\ new \in Seq(AgentPresenceLog) /\ Len(new) = k
        /\ \A i \in 1 .. k : i # k => new[i] = rows[i]
        /\ new[k].ended_at = end /\ new[k].started_at = rows[k].started_at
        /\ new[k].state = rows[k].state /\ new[k].reason = "restart"
    BY <1>1, CloseLast
  <1> HIDE DEF new, k
  <1>6. ASSUME NEW i \in 1 .. k
        PROVE  /\ new[i].started_at <= n
               /\ IsClosed(new[i]) => new[i].started_at <= new[i].ended_at /\ new[i].ended_at <= n
               /\ new[i].reason = "transition" => i < k
    <2>1. CASE i = k
      BY <1>1, <1>2, <2>1 DEF GoodLog, k
    <2>2. CASE i # k
      BY <1>1, <1>2, <2>2 DEF GoodLog, k
    <2> QED BY <2>1, <2>2
  <1>7. ASSUME NEW i \in 1 .. k, i < k
        PROVE  /\ IsClosed(new[i])
               /\ new[i].ended_at <= new[i + 1].started_at
               /\ new[i].reason = "transition" =>
                    new[i + 1].state # new[i].state /\ new[i + 1].started_at = new[i].ended_at
    <2>1. new[i] = rows[i] /\ i + 1 \in 1 .. k
      BY <1>1, <1>2, <1>7
    <2>2. new[i + 1].started_at = rows[i + 1].started_at /\ new[i + 1].state = rows[i + 1].state
      BY <1>2, <2>1
    <2> QED BY <1>7, <2>1, <2>2 DEF GoodLog, k
  <1> QED BY <1>2, <1>6, <1>7 DEF GoodLog, new, k

\* What recordPresenceState leaves: a good log, the same or with an open last interval.
LEMMA GoodRecorded ==
  ASSUME NEW rows, NEW n \in Nat, GoodLog(rows, n),
         NEW state \in States, NEW at \in Times, at <= n,
         \A k \in 1 .. Len(rows) : (k = Len(rows) /\ IsClosed(rows[k])) => rows[k].ended_at <= at
  PROVE  LET new == Recorded(rows, state, at) IN
         /\ GoodLog(new, n)
         /\ new = rows \/ (Len(new) > 0 /\ ~IsClosed(new[Len(new)]))
  <1> DEFINE k == Len(rows)
  <1>1. k \in Nat /\ rows \in Seq(AgentPresenceLog)
    BY DEF GoodLog
  <1>2. ASSUME NEW s \in Times
        PROVE  /\ Opened(state, s) \in AgentPresenceLog /\ Opened(state, s).started_at = s
               /\ Opened(state, s).state = state /\ ~IsClosed(Opened(state, s))
               /\ Opened(state, s).reason # "transition"
    <2>1. Opened(state, s) = [state |-> state, started_at |-> s, ended_at |-> None, reason |-> None]
      BY DEF Opened
    <2>2. None # "transition"
      BY PresenceLogAssumption
    <2> QED BY <2>1, <2>2 DEF AgentPresenceLog, IsClosed
  <1>3. CASE k = 0 \/ rows[k].ended_at # None
    <2>1. Recorded(rows, state, at) = Append(rows, Opened(state, at))
      BY <1>3 DEF Recorded
    <2>2. k > 0 => IsClosed(rows[k]) /\ rows[k].ended_at <= at /\ rows[k].reason # "transition"
      BY <1>1, <1>3 DEF IsClosed, GoodLog
    <2>3. GoodLog(Append(rows, Opened(state, at)), n)
      BY <1>1, <1>2, <2>2, GoodAppend
    <2>4. Len(Append(rows, Opened(state, at))) = k + 1
          /\ Append(rows, Opened(state, at))[k + 1] = Opened(state, at)
      BY <1>1
    <2> QED BY <1>1, <1>2, <2>1, <2>3, <2>4
  <1>4. CASE k # 0 /\ rows[k].ended_at = None /\ rows[k].state = state
    BY <1>4 DEF Recorded
  <1>5. CASE k # 0 /\ rows[k].ended_at = None /\ rows[k].state # state
    <2> DEFINE end == EndOf(rows[k], at)
               closed == [rows EXCEPT ![k].ended_at = end, ![k].reason = "transition"]
               new == Append(closed, Opened(state, end))
    <2>1. /\ k \in 1 .. k /\ rows[k] \in AgentPresenceLog /\ DOMAIN rows = 1 .. k
          /\ \A i \in 1 .. k : rows[i] \in AgentPresenceLog
      BY <1>1, <1>5
    <2>2. end \in Times /\ rows[k].started_at <= end /\ end <= n
      <3>1. rows[k].started_at \in Times /\ rows[k].started_at <= n
        BY <2>1 DEF GoodLog, AgentPresenceLog
      <3> QED BY <3>1, PresenceLogAssumption DEF EndOf, Times
    <2>3. /\ closed \in Seq(AgentPresenceLog) /\ Len(closed) = k
          /\ \A i \in 1 .. k : i # k => closed[i] = rows[i]
          /\ closed[k].ended_at = end /\ closed[k].started_at = rows[k].started_at
          /\ closed[k].state = rows[k].state /\ closed[k].reason = "transition"
      <3>1. Len(rows) > 0
        BY <1>1, <1>5
      <3> HIDE DEF end
      <3> QED BY <1>1, <2>2, <3>1, CloseLast
    <2>6. /\ new \in Seq(AgentPresenceLog) /\ Len(new) = k + 1
          /\ \A i \in 1 .. k : new[i] = closed[i]
          /\ new[k + 1] = Opened(state, end)
      <3>1. Opened(state, end) \in AgentPresenceLog
        BY <1>2, <2>2
      <3> HIDE DEF closed
      <3> QED BY <1>1, <2>3, <3>1
    <2>7. Recorded(rows, state, at) = new
      BY <1>5 DEF Recorded
    <2>8. end # None
      BY <2>2, PresenceLogAssumption DEF Times
    <2> HIDE DEF new, closed, end
    <2>9. ASSUME NEW i \in 1 .. k + 1
          PROVE  /\ new[i].started_at <= n
                 /\ IsClosed(new[i]) => new[i].started_at <= new[i].ended_at /\ new[i].ended_at <= n
                 /\ new[i].reason = "transition" => i < k + 1
      <3>1. CASE i = k + 1
        BY <1>2, <2>2, <2>6, <3>1
      <3>2. CASE i = k
        <4>1. new[i] = closed[k]
          BY <2>1, <2>6, <3>2
        <4>2. rows[k].started_at <= n
          BY <2>1 DEF GoodLog
        <4>3. i < k + 1
          BY <1>1, <3>2
        <4> QED BY <2>2, <2>3, <4>1, <4>2, <4>3
      <3>3. CASE i < k
        <4>1. i \in 1 .. k /\ new[i] = rows[i]
          BY <1>1, <2>3, <2>6, <3>3
        <4> QED BY <1>1, <3>3, <4>1 DEF GoodLog
      <3> QED BY <1>1, <3>1, <3>2, <3>3
    <2>10. ASSUME NEW i \in 1 .. k + 1, i < k + 1
           PROVE  /\ IsClosed(new[i])
                  /\ new[i].ended_at <= new[i + 1].started_at
                  /\ new[i].reason = "transition" =>
                       new[i + 1].state # new[i].state /\ new[i + 1].started_at = new[i].ended_at
      <3>1. CASE i = k
        <4>1. new[i] = closed[k] /\ new[i + 1] = Opened(state, end)
          BY <2>1, <2>6, <3>1
        <4> QED BY <1>2, <1>5, <2>2, <2>3, <2>8, <4>1 DEF IsClosed, Times
      <3>2. CASE i < k
        <4>1. i \in 1 .. k /\ i + 1 \in 1 .. k /\ new[i] = rows[i] /\ new[i + 1] = closed[i + 1]
          BY <1>1, <2>3, <2>6, <3>2
        <4>2. closed[i + 1].started_at = rows[i + 1].started_at /\ closed[i + 1].state = rows[i + 1].state
          BY <2>3, <4>1
        <4> QED BY <3>2, <4>1, <4>2 DEF GoodLog
      <3> QED BY <1>1, <2>10, <3>1, <3>2
    <2>11. GoodLog(new, n)
      BY <2>6, <2>9, <2>10 DEF GoodLog
    <2> QED BY <1>1, <1>2, <2>2, <2>6, <2>7, <2>11
  <1> QED BY <1>3, <1>4, <1>5

-------------------------------------------------------------------------------
(* PresenceLog: steps *)

LEMMA LogInvInit == LogInit => LogInv
  BY PresenceLogAssumption, HubAssumption
  DEF LogInit, HubInit, LogInv, LogTypeOK, HubTypeOK, NoJob, Job, States, Times, GoodLog, GoodJob

\* The hub's part of a step.
LEMMA HubStep ==
  ASSUME HubTypeOK, NEW a \in Users
  PROVE  /\ \A tab \in Tabs : Register(a, tab) \/ Unregister(a, tab) => HubTypeOK'
         /\ \A online \in BOOLEAN : Deliver(a, online) /\ tabs' = tabs => HubTypeOK'
  <1>1. ASSUME NEW online \in BOOLEAN, Notify(a, online) \/ Deliver(a, online)
        PROVE  notices' \in [Users -> [BOOLEAN -> 0..MaxNotices]]
    <2>1. notices[a] \in [BOOLEAN -> 0..MaxNotices] /\ notices[a][online] \in 0..MaxNotices
      BY DEF HubTypeOK
    <2>2. CASE Notify(a, online)
      <3>1. notices[a][online] + 1 \in 0..MaxNotices
        BY <2>1, <2>2, HubAssumption DEF Notify
      <3> QED BY <2>2, <3>1 DEF Notify, HubTypeOK
    <2>3. CASE Deliver(a, online)
      <3>1. notices[a][online] - 1 \in 0..MaxNotices
        BY <2>1, <2>3, HubAssumption DEF Deliver
      <3> QED BY <2>3, <3>1 DEF Deliver, HubTypeOK
    <2> QED BY <1>1, <2>2, <2>3
  <1> QED BY <1>1 DEF Register, Unregister, HubTypeOK

LEMMA LogTypes ==
  ASSUME LogInv
  PROVE  /\ HubTypeOK /\ isAvailable \in [Users -> BOOLEAN] /\ job \in [Jobs -> Job]
         /\ now \in Nat /\ now <= MaxNow /\ now \in Times /\ restarts \in 0..MaxRestarts
         /\ \A a \in Users : GoodLog(log[a], now)
         /\ \A j \in Jobs : GoodJob(job[j])
         /\ DOMAIN log = Users /\ log = [a \in Users |-> log[a]]
  BY PresenceLogAssumption DEF LogInv, LogTypeOK, Times

\* The type of the log follows from the logs being good.
LEMMA GoodLogTypes ==
  ASSUME /\ HubTypeOK' /\ isAvailable' \in [Users -> BOOLEAN] /\ job' \in [Jobs -> Job]
         /\ now' \in Times /\ restarts' \in 0..MaxRestarts
         /\ DOMAIN log' = Users /\ log' = [a \in Users |-> log'[a]],
         \A a \in Users : GoodLog(log'[a], now'),
         \A j \in Jobs : GoodJob(job[j])'
  PROVE  LogInv'
  BY DEF LogInv, LogTypeOK, GoodLog

\* A step that leaves the rows and the clock alone.
LEMMA LogQuietStep ==
  ASSUME LogInv, log' = log, now' = now, restarts' = restarts, HubTypeOK',
         isAvailable' \in [Users -> BOOLEAN],
         NEW j \in Jobs, NEW q \in Job, job' = [job EXCEPT ![j] = q], GoodJob(q)
  PROVE  LogInv'
  <1>1. job' \in [Jobs -> Job]
    BY LogTypes
  <1>2. ASSUME NEW i \in Jobs PROVE GoodJob(job[i])'
    <2>1. job'[i] = IF i = j THEN q ELSE job[i]
      BY LogTypes
    <2>2. GoodJob(job'[i])
      BY <2>1, LogTypes
    <2> QED BY <2>2 DEF GoodJob
  <1> QED BY <1>1, <1>2, LogTypes, GoodLogTypes

LEMMA HubSteps ==
  ASSUME LogInv, NEW a \in Users, NEW tab \in Tabs, OpenTab(a, tab) \/ CloseTab(a, tab)
  PROVE  LogInv'
  <1>1. HubTypeOK' /\ job' = job /\ log' = log /\ now' = now /\ restarts' = restarts
        /\ isAvailable' = isAvailable
    BY LogTypes, HubStep DEF OpenTab, CloseTab
  <1> QED BY <1>1, LogTypes, GoodLogTypes DEF GoodJob

LEMMA JobTypes ==
  ASSUME LogInv, NEW j \in Jobs
  PROVE  /\ job[j].want \in BOOLEAN /\ job[j].was \in BOOLEAN /\ job[j].flag \in BOOLEAN
         /\ job[j].state \in States /\ job[j].at \in Times
         /\ job[j].pc # "idle" => job[j].agent \in Users
         /\ NoJob \in Job /\ GoodJob(NoJob)
  <1>1. job[j] \in Job /\ GoodJob(job[j])
    BY LogTypes
  <1>2. 0 \in Times
    BY PresenceLogAssumption DEF Times
  <1> QED BY <1>1, <1>2 DEF Job, GoodJob, NoJob, States

LEMMA RequestSteps ==
  ASSUME LogInv, NEW j \in Jobs,
         \/ \E a \in Users, b \in BOOLEAN : Listener(j, a, b) \/ BeginUpdateAvailability(j, a, b)
         \/ SaveAvailability(j)
  PROVE  LogInv'
  <1>1. ASSUME NEW a \in Users, NEW b \in BOOLEAN, Listener(j, a, b) PROVE LogInv'
    <2> DEFINE q == [NoJob EXCEPT !.pc = "flag", !.agent = a]
    <2>1. q \in Job /\ GoodJob(q)
      BY JobTypes DEF Job, NoJob, GoodJob
    <2>2. HubTypeOK'
      BY <1>1, LogTypes, HubStep DEF Listener
    <2> QED BY <1>1, <2>1, <2>2, LogTypes, LogQuietStep DEF Listener
  <1>2. ASSUME NEW a \in Users, NEW b \in BOOLEAN, BeginUpdateAvailability(j, a, b) PROVE LogInv'
    <2> DEFINE q == [NoJob EXCEPT !.pc = "save", !.agent = a, !.want = b, !.was = isAvailable[a]]
    <2>1. q \in Job /\ GoodJob(q)
      BY JobTypes, LogTypes DEF Job, NoJob, GoodJob
    <2>2. HubTypeOK'
      BY <1>2, LogTypes DEF BeginUpdateAvailability, HubTypeOK
    <2> QED BY <1>2, <2>1, <2>2, LogTypes, LogQuietStep DEF BeginUpdateAvailability
  <1>3. CASE SaveAvailability(j)
    <2> DEFINE q == IF job[j].was # job[j].want
                    THEN [NoJob EXCEPT !.pc = "flag", !.agent = job[j].agent] ELSE NoJob
    <2>1. q \in Job /\ GoodJob(q)
      <3>1. job[j].agent \in Users
        BY <1>3, JobTypes DEF SaveAvailability
      <3>2. LET p == [NoJob EXCEPT !.pc = "flag", !.agent = job[j].agent] IN p \in Job /\ GoodJob(p)
        BY <3>1, JobTypes DEF Job, NoJob, GoodJob
      <3> QED BY <3>2, JobTypes
    <2>2. HubTypeOK' /\ isAvailable' \in [Users -> BOOLEAN]
      BY <1>3, LogTypes, JobTypes DEF SaveAvailability, HubTypeOK
    <2>3. job' = [job EXCEPT ![j] = q]
      BY <1>3, LogTypes DEF SaveAvailability
    <2> HIDE DEF q
    <2> QED BY <1>3, <2>1, <2>2, <2>3, LogTypes, LogQuietStep DEF SaveAvailability
  <1> QED BY <1>1, <1>2, <1>3

LEMMA ReadSteps ==
  ASSUME LogInv, NEW j \in Jobs, ReadFlag(j) \/ ReadConnection(j) \/ ReadTime(j)
  PROVE  LogInv'
  <1>1. HubTypeOK' /\ isAvailable' \in [Users -> BOOLEAN]
    BY LogTypes DEF ReadFlag, ReadConnection, ReadTime, HubTypeOK
  <1>2. job[j] \in Job /\ job[j].agent \in Users
    BY LogTypes, JobTypes DEF ReadFlag, ReadConnection, ReadTime
  <1>3. CASE ReadFlag(j)
    <2> DEFINE q == [job[j] EXCEPT !.pc = "connection", !.flag = isAvailable[job[j].agent]]
    <2>1. q \in Job /\ GoodJob(q)
      BY <1>2, LogTypes DEF Job, GoodJob
    <2> QED BY <1>1, <1>3, <2>1, LogQuietStep DEF ReadFlag
  <1>4. CASE ReadConnection(j)
    <2> DEFINE s == AgentStateOf(Online(job[j].agent), job[j].flag)
               q == [job[j] EXCEPT !.pc = "clock", !.flag = FALSE, !.state = s]
    <2>1. s \in States
      BY DEF AgentStateOf, States
    <2> HIDE DEF s
    <2>2. q \in Job /\ GoodJob(q)
      BY <1>2, <2>1 DEF Job, GoodJob
    <2> QED BY <1>1, <1>4, <2>2, LogQuietStep DEF ReadConnection, s
  <1>5. CASE ReadTime(j)
    <2> DEFINE q == [job[j] EXCEPT !.pc = "write", !.at = now]
    <2>1. q \in Job /\ q.pc = "write" /\ q.at = now /\ q.agent = job[j].agent
      BY <1>2, LogTypes DEF Job
    <2>2. GoodJob(q)
      <3>1. GoodLog(log[q.agent], now)
        BY <1>2, <2>1, LogTypes
      <3> HIDE DEF q
      <3> QED BY <1>2, <2>1, <3>1, LogTypes DEF GoodJob, GoodLog
    <2> QED BY <1>1, <1>5, <2>1, <2>2, LogQuietStep DEF ReadTime
  <1> QED BY <1>3, <1>4, <1>5

LEMMA RecordStep ==
  ASSUME LogInv, NEW j \in Jobs, RecordPresenceState(j)
  PROVE  LogInv'
  <1> DEFINE a == job[j].agent
             new == Recorded(log[a], job[j].state, job[j].at)
  <1>1. /\ a \in Users /\ job[j].state \in States /\ job[j].at \in Times /\ job[j].at <= now
        /\ GoodJob(job[j]) /\ job[j].pc = "write" /\ GoodLog(log[a], now) /\ now \in Nat
    BY LogTypes, JobTypes DEF RecordPresenceState, GoodJob
  <1>2. GoodLog(new, now) /\ (new = log[a] \/ (Len(new) > 0 /\ ~IsClosed(new[Len(new)])))
    <2>1. \A k \in 1 .. Len(log[a]) : (k = Len(log[a]) /\ IsClosed(log[a][k])) => log[a][k].ended_at <= job[j].at
      BY <1>1 DEF GoodJob
    <2> HIDE DEF a
    <2> QED BY <1>1, <2>1, GoodRecorded
  <1>3. /\ log' = [log EXCEPT ![a] = new] /\ job' = [job EXCEPT ![j] = NoJob]
        /\ now' = now /\ restarts' = restarts /\ isAvailable' = isAvailable /\ HubTypeOK'
    BY LogTypes DEF RecordPresenceState, HubTypeOK
  <1> HIDE DEF a, new
  <1>4. /\ DOMAIN log' = Users /\ log' = [b \in Users |-> log'[b]]
        /\ \A b \in Users : log'[b] = IF b = a THEN new ELSE log[b]
    BY <1>1, <1>3, LogTypes
  <1>5. ASSUME NEW i \in Jobs PROVE GoodJob(job[i])'
    <2>1. CASE i = j
      BY <1>3, <2>1, LogTypes DEF GoodJob, NoJob
    <2>2. CASE i # j
      <3>1. job'[i] = job[i] /\ GoodJob(job[i])
        BY <1>3, <2>2, LogTypes
      <3>2. CASE job[i].agent = a /\ job[i].pc = "write" /\ new # log[a]
        <4>1. log'[job'[i].agent] = new
          BY <1>1, <1>4, <3>1, <3>2
        <4> QED BY <1>2, <1>3, <3>1, <3>2, <4>1 DEF GoodJob
      <3>3. CASE job[i].pc = "write" /\ ~(job[i].agent = a /\ new # log[a])
        <4>1. log'[job'[i].agent] = log[job[i].agent]
          BY <1>1, <1>4, <3>1, <3>3 DEF GoodJob
        <4> QED BY <1>3, <3>1, <4>1 DEF GoodJob
      <3>4. CASE job[i].pc # "write"
        BY <3>1, <3>4 DEF GoodJob
      <3> QED BY <3>2, <3>3, <3>4
    <2> QED BY <2>1, <2>2
  <1>6. job' \in [Jobs -> Job]
    BY <1>3, LogTypes, JobTypes
  <1> QED BY <1>2, <1>3, <1>4, <1>5, <1>6, LogTypes, GoodLogTypes

LEMMA TickStep ==
  ASSUME LogInv, Tick
  PROVE  LogInv'
  <1>1. now' \in Nat /\ now <= now' /\ now' \in Times
    BY LogTypes, PresenceLogAssumption DEF Tick, Times
  <1>2. HubTypeOK' /\ isAvailable' = isAvailable /\ job' = job /\ log' = log /\ restarts' = restarts
    BY LogTypes DEF Tick, HubTypeOK
  <1>3. \A a \in Users : GoodLog(log'[a], now')
    BY <1>1, <1>2, LogTypes, GoodLogLater
  <1>4. ASSUME NEW j \in Jobs PROVE GoodJob(job[j])'
    <2>1. GoodJob(job[j]) /\ job[j].at \in Nat
      BY LogTypes, JobTypes, PresenceLogAssumption DEF Times
    <2> QED BY <1>1, <1>2, <2>1, LogTypes DEF GoodJob
  <1> QED BY <1>1, <1>2, <1>3, <1>4, LogTypes, GoodLogTypes

LEMMA RestartStep ==
  ASSUME LogInv, Restart
  PROVE  LogInv'
  <1>1. /\ HubTypeOK' /\ isAvailable' = isAvailable /\ now' = now /\ restarts' \in 0..MaxRestarts
        /\ job' = [j \in Jobs |-> NoJob]
    BY LogTypes, PresenceLogAssumption, HubAssumption DEF Restart, HubTypeOK
  <1>2. DOMAIN log' = Users /\ log' = [a \in Users |-> log'[a]]
    BY DEF Restart
  <1>3. ASSUME NEW a \in Users PROVE GoodLog(log'[a], now')
    <2>1. GoodLog(log[a], now) /\ now \in Times /\ now \in Nat
      BY LogTypes
    <2>2. CASE IsOpen(a)
      <3>1. log'[a] = [log[a] EXCEPT ![Len(log[a])].ended_at = now, ![Len(log[a])].reason = "restart"]
        BY <2>2 DEF Restart
      <3>2. Len(log[a]) > 0 /\ Len(log[a]) \in 1 .. Len(log[a])
        BY <2>1, <2>2 DEF IsOpen, GoodLog
      <3>3. log[a][Len(log[a])].started_at <= now
        BY <2>1, <3>2 DEF GoodLog
      <3>4. GoodLog([log[a] EXCEPT ![Len(log[a])].ended_at = now, ![Len(log[a])].reason = "restart"], now)
        <4>1. now <= now
          BY <2>1
        <4> QED BY <2>1, <3>2, <3>3, <4>1, GoodClose
      <3> QED BY <1>1, <3>1, <3>4
    <2>3. CASE ~IsOpen(a)
      BY <1>1, <2>1, <2>3 DEF Restart
    <2> QED BY <2>2, <2>3
  <1>4. \A j \in Jobs : NoJob \in Job /\ GoodJob(job[j])'
    BY <1>1, JobTypes DEF GoodJob, NoJob
  <1> QED BY <1>1, <1>2, <1>3, <1>4, LogTypes, GoodLogTypes

LEMMA LogInvStep == LogInv /\ [LogNext]_logVars => LogInv'
  <1> SUFFICES ASSUME LogInv, [LogNext]_logVars PROVE LogInv'
    OBVIOUS
  <1>1. CASE UNCHANGED logVars
    BY <1>1 DEF logVars, LogInv, LogTypeOK, HubTypeOK, GoodJob
  <1>2. CASE LogNext
    BY <1>2, HubSteps, RequestSteps, ReadSteps, RecordStep, TickStep, RestartStep DEF LogNext
  <1> QED BY <1>1, <1>2

-------------------------------------------------------------------------------
(* PresenceLog: theorem *)

\* The log of every agent is a time line in which only the last interval is open, none is
\* negative or overlaps the next, and every transition changes the state, however late the
\* recorders write and whenever the server restarts (recordPresenceState,
\* ResetPresenceLogOnBoot).
THEOREM LogStaysConsistent == LogSpec => []LogConsistent
  <1>1. LogInv => LogConsistent
    <2> SUFFICES ASSUME LogInv PROVE LogConsistent
      OBVIOUS
    <2>1. LogTypeOK
      BY DEF LogInv
    <2>2. ASSUME NEW a \in Users, NEW i \in DOMAIN log[a]
          PROVE  /\ i \in 1 .. Len(log[a]) /\ Len(log[a]) \in Nat /\ GoodLog(log[a], now)
      BY <2>2, LogTypes DEF GoodLog
    <2>3. TimeLine
      BY <2>2 DEF TimeLine, GoodLog, IsClosed
    <2>4. Transitions
      BY <2>2 DEF Transitions, GoodLog
    <2> QED BY <2>1, <2>3, <2>4 DEF LogConsistent
  <1> QED BY <1>1, LogInvInit, LogInvStep, PTL DEF LogSpec

===============================================================================
