------------------------------ MODULE ContactBook ------------------------------
(***************************************************************************)
(* The contacts of an organisation.  One subscriber can be written in      *)
(* several ways (country code, ninth digit, plus sign), rows are looked up *)
(* by every spelling but kept unique only by the literal one, deletion is  *)
(* soft and the deleted row is found and restored.  Inbound messages, the  *)
(* add-contact dialog, imports and the merge command create, claim and     *)
(* fold rows concurrently; tags are kept as names inside the rows; and who *)
(* may see a conversation is decided twice, by a query and by a check.     *)
(***************************************************************************)
EXTENDS Naturals, FiniteSets, FiniteSetsExt, Sequences

CONSTANTS
    People,             \* subscribers
    Area55,             \* those whose area code looks like the country code
    Staff, TeamIds, TagNames,
    Permissions,        \* [Staff -> SUBSET PermissionNames]
    Members,            \* pairs <<user, team>>
    Eligible,           \* users that are active, available and connected
    MaxRows, MaxJobs,   \* bounds
    BookMenus           \* what the requests of one behaviour ask for, and what exists

PermissionNames == {"contacts.read", "contacts.write", "contacts.delete", "contacts.export", "transfers.write", "transfers.pickup",
                    "conversations.view_all", "conversations.view_team"}
ASSUME BookAssumption ==
    /\ {MaxRows, MaxJobs} \subseteq Nat
    /\ Permissions \in [Staff -> SUBSET PermissionNames]
    /\ Members \subseteq Staff \X TeamIds

VARIABLES
    bookMenu,
    row,        \* contacts, in the order of their creation
    attend,     \* the active agent transfer of a row
    children,   \* how many messages point at a row
    notes,      \* conversation_notes: one from before, and one per request
    tagRows,    \* tags
    front,      \* default_team_id of the WhatsApp account
    frontKept,  \* the same in the cache
    job,        \* the requests
    together    \* which kinds of requests were in progress together: history

bookVars == <<bookMenu, row, attend, children, notes, tagRows, front, frontKept, job, together>>

Nobody == "nobody"
Cold == "cold"
Rows == 1 .. MaxRows
Jobs == 1 .. MaxJobs
Phones == [who : People, ddi : BOOLEAN, nine : BOOLEAN, plus : BOOLEAN]
NoPhone == [who |-> Nobody, ddi |-> FALSE, nine |-> FALSE, plus |-> FALSE]
\* Contact; `via` is how the row came about.
ContactRow == [is : {"none", "live", "deleted"}, phone : Phones \cup {NoPhone}, merged : BOOLEAN,
               owner : Staff \cup {Nobody}, team : TeamIds \cup {Nobody}, tags : SUBSET TagNames,
               via : {"old", "inbound", "dialog", "import"}]
AttendRow == [on : BOOLEAN, agent : Staff \cup {Nobody}, team : TeamIds \cup {Nobody}]

BookTypeOK ==
    /\ row \in [Rows -> ContactRow]
    /\ attend \in [Rows -> AttendRow]
    /\ children \in [Rows -> Nat]
    /\ \A n \in {0} \cup Jobs : notes[n].row \in 0 .. MaxRows /\ notes[n].is \in {"none", "there", "gone"}
    /\ tagRows \subseteq TagNames
    /\ front \in TeamIds \cup {Nobody} /\ frontKept \in TeamIds \cup {Nobody, Cold}
    /\ \A j \in Jobs : job[j].row \in 0 .. MaxRows /\ job[j].tag \in TagNames \cup {Nobody}
    /\ \A r \in Rows : row[r].is = "none" => children[r] = 0 /\ ~attend[r].on

NoRow == [is |-> "none", phone |-> NoPhone, merged |-> FALSE, owner |-> Nobody, team |-> Nobody, tags |-> {}, via |-> "old"]
NoAttend == [on |-> FALSE, agent |-> Nobody, team |-> Nobody]
NoJob == [op |-> "none", by |-> CHOOSE u \in Staff : TRUE, phone |-> NoPhone, row |-> 0, was |-> "none", tag |-> Nobody,
          to |-> Nobody, team |-> Nobody, told |-> "", all |-> <<>>, pc |-> "new"]

BookSetUp(menus) ==
    /\ bookMenu \in menus
    /\ row = [r \in Rows |-> IF r <= Len(bookMenu.has) THEN bookMenu.has[r] ELSE NoRow]
    /\ attend = [r \in Rows |-> IF r <= Len(bookMenu.attends) THEN bookMenu.attends[r] ELSE NoAttend]
    /\ children = [r \in Rows |-> IF r <= Len(bookMenu.has) THEN 1 ELSE 0]
    /\ notes = [n \in {0} \cup Jobs |-> [row |-> IF n = 0 /\ bookMenu.has # <<>> THEN Len(bookMenu.has) ELSE 0,
                 by |-> CHOOSE u \in Staff : TRUE, is |-> IF n = 0 /\ bookMenu.has # <<>> THEN "there" ELSE "none"]]
    /\ tagRows = bookMenu.tags
    /\ front = bookMenu.front /\ frontKept = Cold
    /\ job = [j \in Jobs |-> NoJob] /\ together = {}
BookInit == BookSetUp(BookMenus)
BookEnded == BookSetUp({[ops |-> {}, jobs |-> 0, has |-> <<>>, attends |-> <<>>, tags |-> {}, front |-> Nobody, by |-> {},
                         phones |-> {}, strict |-> FALSE, ownerWins |-> FALSE, pickup |-> FALSE, sameAgent |-> FALSE]})

Live(r) == row[r].is = "live"
InProgress == {j \in Jobs : job[j].pc \notin {"new", "done"}}
Goes(j, pc) == job' = [job EXCEPT ![j].pc = pc]
Ends(j, told) == job' = [job EXCEPT ![j].pc = "done", ![j].told = told]
May(u, p) == p \in Permissions[u]
Keep(vs) == UNCHANGED vs /\ UNCHANGED <<bookMenu, together>>

-------------------------------------------------------------------------------
(* The spellings of one subscriber *)

NormalizePhone(p) == [p EXCEPT !.plus = FALSE]
\* A bare number gets the country code, unless its area code already looks like it.
CanonicalPhone(p) == [NormalizePhone(p) EXCEPT !.ddi = @ \/ p.who \notin Area55]
\* The other form of a mobile number: with or without the ninth digit.
brazilianMobileAlternate(p) == IF p.ddi THEN {[p EXCEPT !.nine = ~@]} ELSE {}
PhoneIdentities(p) ==
    LET ids == {CanonicalPhone(p)} \cup brazilianMobileAlternate(CanonicalPhone(p))
    IN  ids \cup {[i EXCEPT !.ddi = FALSE] : i \in {x \in ids : x.ddi}}
phoneMatchSet(p) == {[i EXCEPT !.plus = b] : i \in PhoneIdentities(p), b \in BOOLEAN}
\* contactByPhone: the oldest row of any spelling, deleted ones included; a merged row has another number.
Matches(p) == {r \in Rows : row[r].is # "none" /\ ~row[r].merged /\ row[r].phone \in phoneMatchSet(p)}
contactByPhone(p) == IF Matches(p) = {} THEN 0 ELSE Min(Matches(p))
\* The unique index is on the literal number and does not skip deleted rows.
PhoneIndexAllows(p) == \A r \in Rows : row[r].is # "none" /\ ~row[r].merged => row[r].phone # p
NextRow == Min({r \in Rows : row[r].is = "none"})
RoomLeft == \E r \in Rows : row[r].is = "none"

-------------------------------------------------------------------------------
(* Who may see a conversation *)

userInTeam(u, t) == <<u, t>> \in Members
canViewTeamMember(u, v) == \E t \in TeamIds : userInTeam(u, t) /\ userInTeam(v, t)
\* getAccountDefaultTeamCached
accountDefaultTeamID == IF frontKept = Cold THEN front ELSE frontKept
userOwnsContact(u, r) ==
    \/ row[r].owner = u /\ (bookMenu.ownerWins => ~(attend[r].on /\ attend[r].agent \notin {Nobody, u}))
    \/ attend[r].on /\ attend[r].agent = u
InTeamOf(u, t) == t # Nobody /\ userInTeam(u, t)
\* A user of the same team counts as the owner for those who may view their team.
MineOrMates(u, v) == v = u \/ (May(u, "conversations.view_team") /\ canViewTeamMember(u, v))
\* authorizeConversation: the check of one conversation.
authorizeConversation(u, r) ==
    IF ~bookMenu.strict THEN May(u, "contacts.read") \/ userOwnsContact(u, r)
    ELSE \/ May(u, "conversations.view_all")
         \/ /\ attend[r].on
            /\ IF attend[r].agent # Nobody THEN MineOrMates(u, attend[r].agent)
               ELSE IF attend[r].team # Nobody THEN userInTeam(u, attend[r].team)
               ELSE InTeamOf(u, accountDefaultTeamID)
         \/ /\ ~attend[r].on
            /\ IF row[r].owner # Nobody THEN MineOrMates(u, row[r].owner)
               ELSE IF row[r].team # Nobody THEN userInTeam(u, row[r].team)
               ELSE InTeamOf(u, accountDefaultTeamID)
canInteractWithConversation(u, r) == authorizeConversation(u, r)

\* scopeVisibleConversations: the rows a list returns, as the union of its clauses A to H.
MyTeams(u) == {t \in TeamIds : <<u, t>> \in Members}
ViewTeamScope(u) == {v \in Staff : \E t \in MyTeams(u) : <<v, t>> \in Members}
Active == {r \in Rows : attend[r].on}
AccountDefaultMine(u) == front \in MyTeams(u)
StrictScope(u) ==
    {r \in Active : attend[r].agent = u}
    \cup {r \in Active : attend[r].agent = Nobody /\ attend[r].team \in MyTeams(u)}
    \cup {r \in Active : attend[r].agent = Nobody /\ attend[r].team = Nobody /\ AccountDefaultMine(u)}
    \cup {r \in Rows \ Active : row[r].owner = u}
    \cup {r \in Rows \ Active : row[r].owner = Nobody /\ row[r].team \in MyTeams(u)}
    \cup {r \in Rows \ Active : row[r].owner = Nobody /\ row[r].team = Nobody /\ AccountDefaultMine(u)}
    \cup (IF May(u, "conversations.view_team")
          THEN {r \in Active : attend[r].agent \in ViewTeamScope(u)}
               \cup {r \in Rows \ Active : row[r].owner \in ViewTeamScope(u)}
          ELSE {})
OpenScope(u) ==
    LET OwnedByOther == {r \in Active : attend[r].agent \notin {Nobody, u}}
        Carteira == {r \in Rows : row[r].owner = u}
    IN  (IF bookMenu.ownerWins THEN Carteira \ OwnedByOther ELSE Carteira) \cup {r \in Active : attend[r].agent = u}
scopeVisibleConversations(u) ==
    IF May(u, IF bookMenu.strict THEN "conversations.view_all" ELSE "contacts.read") THEN Rows
    ELSE IF bookMenu.strict THEN StrictScope(u) ELSE OpenScope(u)
ListContacts(u) == {r \in scopeVisibleConversations(u) : Live(r)}
\* ExportData: in strict mode the export has the scope of the list, otherwise the whole table.
ExportData(u) ==
    IF ~May(u, "contacts.export") THEN {} ELSE IF bookMenu.strict THEN ListContacts(u) ELSE {r \in Rows : Live(r)}

-------------------------------------------------------------------------------
(* Requests *)

PhoneOps == {"inbound", "create", "claim", "import", "import_over"}
PersonalOps == {"create", "claim", "import_over", "assign", "clear", "delete", "note", "renote", "unnote"}
RowOps == {"assign", "clear", "delete", "tags", "note", "attend"}
\* What a request of each kind may carry; tags are picked from the list the client has.
Inputs(op) ==
    [op : {op},
     by : IF op \in PersonalOps THEN bookMenu.by ELSE {CHOOSE u \in bookMenu.by : TRUE},
     phone : IF op \in PhoneOps THEN bookMenu.phones ELSE {NoPhone},
     row : IF op \in RowOps THEN {r \in Rows : Live(r)} ELSE {0},
     tag : IF op \in {"tags", "tag_edit", "tag_drop"} THEN tagRows ELSE IF op = "tag_new" THEN TagNames ELSE {Nobody},
     to : IF op = "tag_edit" THEN TagNames ELSE {Nobody},
     team : IF op = "front" THEN TeamIds \cup {Nobody} ELSE {Nobody}]
Arrive(j) ==
    /\ job[j].pc = "new" /\ j <= bookMenu.jobs /\ \A i \in Jobs : i < j => job[i].pc # "new"
    /\ \E op \in bookMenu.ops : \E in \in Inputs(op) :
        /\ job' = [job EXCEPT ![j] = [NoJob EXCEPT !.op = in.op, !.by = in.by, !.phone = in.phone, !.row = in.row,
                                      !.tag = in.tag, !.to = in.to, !.team = in.team, !.pc = "read"]]
        /\ together' = together \cup {{op, job[i].op} : i \in InProgress}
    /\ UNCHANGED <<bookMenu, row, attend, children, notes, tagRows, front, frontKept>>
Reads(j, ops) == job[j].op \in ops /\ job[j].pc = "read"
At(j, ops, pc) == job[j].op \in ops /\ job[j].pc = pc

NewRow(p, owner, via) == [NoRow EXCEPT !.is = "live", !.phone = p, !.owner = owner, !.via = via]
Insert(j, p, owner, via) == row' = [row EXCEPT ![NextRow] = NewRow(p, owner, via)]
\* Writes by primary key: the row is not looked at again.
Restored(r) == row' = [row EXCEPT ![r].is = "live"]

(* GetOrCreateContact, for an inbound message *)

InboundRead(j) ==
    /\ Reads(j, {"inbound"})
    /\ LET r == contactByPhone(job[j].phone) IN
       job' = [job EXCEPT ![j].row = r, ![j].was = IF r = 0 THEN "none" ELSE row[r].is,
                          ![j].pc = IF r = 0 THEN "insert" ELSE IF Live(r) THEN "message" ELSE "restore"]
    /\ Keep(<<row, attend, children, notes, tagRows, front, frontKept>>)
InboundRestore(j) ==
    /\ At(j, {"inbound"}, "restore")
    /\ Restored(job[j].row) /\ Goes(j, "message")
    /\ Keep(<<attend, children, notes, tagRows, front, frontKept>>)
InboundInsert(j) ==
    /\ At(j, {"inbound"}, "insert") /\ RoomLeft
    /\ IF PhoneIndexAllows(CanonicalPhone(job[j].phone))
       THEN Insert(j, CanonicalPhone(job[j].phone), Nobody, "inbound") /\ job' = [job EXCEPT ![j].row = NextRow, ![j].pc = "message"]
       ELSE Goes(j, "raced") /\ UNCHANGED row
    /\ Keep(<<attend, children, notes, tagRows, front, frontKept>>)
\* The insert lost to a concurrent one: the winner's row is used.
InboundRaced(j) ==
    /\ At(j, {"inbound"}, "raced")
    /\ LET r == contactByPhone(job[j].phone) IN
       IF r = 0 THEN Ends(j, "lost") ELSE job' = [job EXCEPT ![j].row = r, ![j].pc = IF Live(r) THEN "message" ELSE "restore"]
    /\ Keep(<<row, attend, children, notes, tagRows, front, frontKept>>)
InboundMessage(j) ==
    /\ At(j, {"inbound"}, "message")
    /\ children' = [children EXCEPT ![job[j].row] = @ + 1] /\ Ends(j, "saved")
    /\ Keep(<<row, attend, notes, tagRows, front, frontKept>>)

(* CreateContact: find, claim, restore or insert *)

currentContactOwner(r) == IF attend[r].on /\ attend[r].agent # Nobody THEN attend[r].agent ELSE row[r].owner
canOverrideConversationOwner(u) == May(u, "transfers.write") \/ May(u, "conversations.view_all")
\* claimBlockReason: the reason or the empty string.
QueueBlock(u, r) ==
    IF canOverrideConversationOwner(u) THEN ""
    ELSE IF ~bookMenu.pickup THEN "queue_pickup_disabled"
    ELSE IF ~May(u, "transfers.pickup") THEN "pickup_permission_required"
    ELSE IF attend[r].team # Nobody /\ ~userInTeam(u, attend[r].team) THEN "not_team_member" ELSE ""
TeamBlock(u, r) ==
    LET t == IF row[r].team # Nobody THEN row[r].team ELSE accountDefaultTeamID
    IN  IF canOverrideConversationOwner(u) \/ t = Nobody \/ userInTeam(u, t) THEN "" ELSE "not_team_member"
claimBlockReason(u, r) ==
    IF attend[r].on THEN IF QueueBlock(u, r) # "" THEN QueueBlock(u, r)
                         ELSE IF u \notin Eligible THEN "agent_unavailable" ELSE ""
    ELSE TeamBlock(u, r)
\* LookupContactByPhone: what the dialog is told while the number is typed.
LookupContactByPhone(u, p) ==
    LET r == contactByPhone(p) IN
    IF r = 0 THEN "free" ELSE IF currentContactOwner(r) # Nobody THEN "assigned"
    ELSE IF claimBlockReason(u, r) = "" THEN "can_claim" ELSE "blocked"

CreateContact(j) ==
    /\ Reads(j, {"create", "claim"})
    /\ LET u == job[j].by
           r == contactByPhone(job[j].phone)
           owner == currentContactOwner(r)
           step == IF r = 0 THEN "insert"
                   ELSE IF owner = u /\ row[r].is = "deleted" THEN "restore"
                   ELSE IF owner # Nobody THEN "assigned"
                   ELSE IF job[j].op = "create" THEN "exists"
                   ELSE IF claimBlockReason(u, r) # "" THEN "forbidden"
                   ELSE IF attend[r].on THEN "take" ELSE "grab"
       IN  IF ~May(u, "contacts.write") \/ step \in {"assigned", "exists", "forbidden"}
           THEN Ends(j, step)
           ELSE job' = [job EXCEPT ![j].row = r, ![j].was = IF r = 0 THEN "none" ELSE row[r].is, ![j].pc = step]
    /\ Keep(<<row, attend, children, notes, tagRows, front, frontKept>>)
CreateInsertRow(j) ==
    /\ At(j, {"create", "claim"}, "insert") /\ RoomLeft
    /\ IF PhoneIndexAllows(CanonicalPhone(job[j].phone))
       THEN Insert(j, CanonicalPhone(job[j].phone), job[j].by, "dialog")
            /\ job' = [job EXCEPT ![j].row = NextRow, ![j].pc = "done", ![j].told = "mine"]
       ELSE Ends(j, "error") /\ UNCHANGED row
    /\ Keep(<<attend, children, notes, tagRows, front, frontKept>>)
\* claimExistingContact without an attendance: the owner is compared and set.
NoOwnerYet_Any(r) == TRUE
NoOwnerYet(r) == row[r].owner = Nobody
ClaimContact(j) ==
    /\ At(j, {"claim"}, "grab")
    /\ LET r == job[j].row IN
       IF NoOwnerYet(r)
       THEN row' = [row EXCEPT ![r].owner = job[j].by, ![r].is = IF job[j].was = "deleted" THEN "live" ELSE @] /\ Ends(j, "mine")
       ELSE Ends(j, "lost") /\ UNCHANGED row
    /\ Keep(<<attend, children, notes, tagRows, front, frontKept>>)
\* claimExistingContact with one: the attendance is compared and set, the carteira is pinned when empty and the
\* row is not deleted.
ClaimAttendance(j) ==
    /\ At(j, {"claim"}, "take")
    /\ LET r == job[j].row
           pins == bookMenu.sameAgent /\ row[r].owner = Nobody /\ Live(r)
       IN  IF attend[r].on /\ attend[r].agent = Nobody
           THEN /\ attend' = [attend EXCEPT ![r].agent = job[j].by]
                /\ row' = [row EXCEPT ![r].owner = IF pins THEN job[j].by ELSE @]
                /\ IF job[j].was = "deleted" THEN Goes(j, "restore") ELSE Ends(j, "mine")
           ELSE Ends(j, "lost") /\ UNCHANGED <<row, attend>>
    /\ Keep(<<children, notes, tagRows, front, frontKept>>)
ClaimRestore(j) ==
    /\ At(j, {"create", "claim"}, "restore")
    /\ Restored(job[j].row) /\ Ends(j, "mine")
    /\ Keep(<<attend, children, notes, tagRows, front, frontKept>>)

\* createTransferToQueue: the bot hands the conversation over, to the queue of the contact's team.
AttendanceStarts(j) ==
    /\ Reads(j, {"attend"})
    /\ attend' = [attend EXCEPT ![job[j].row] = IF @.on THEN @ ELSE [on |-> TRUE, agent |-> Nobody, team |-> row[job[j].row].team]]
    /\ Ends(j, "saved")
    /\ Keep(<<row, children, notes, tagRows, front, frontKept>>)

\* ImportData, one line of the file: only the plus sign is dropped, only live rows of that very spelling are found.
ImportRead(j) ==
    /\ Reads(j, {"import", "import_over"})
    /\ LET found == {r \in Rows : Live(r) /\ ~row[r].merged /\ row[r].phone = NormalizePhone(job[j].phone)} IN
       IF found = {} THEN Goes(j, "insert")
       ELSE IF job[j].op = "import" THEN Ends(j, "skipped")
       ELSE job' = [job EXCEPT ![j].row = Min(found), ![j].pc = "update"]
    /\ Keep(<<row, attend, children, notes, tagRows, front, frontKept>>)
ImportInsert(j) ==
    /\ At(j, {"import", "import_over"}, "insert") /\ RoomLeft
    /\ IF PhoneIndexAllows(NormalizePhone(job[j].phone))
       THEN Insert(j, NormalizePhone(job[j].phone), job[j].by, "import") /\ Ends(j, "created")
       ELSE Ends(j, "error") /\ UNCHANGED row
    /\ Keep(<<attend, children, notes, tagRows, front, frontKept>>)
\* With update_on_duplicate the assigned_user_id column is written over.
ImportUpdate(j) ==
    /\ At(j, {"import_over"}, "update")
    /\ row' = [row EXCEPT ![job[j].row].owner = IF Live(job[j].row) THEN job[j].by ELSE @] /\ Ends(j, "updated")
    /\ Keep(<<attend, children, notes, tagRows, front, frontKept>>)

-------------------------------------------------------------------------------
(* Edits of one contact, and its notes *)

\* findByIDAndOrg and canInteractWithConversation, before every edit.
Admitted(j) ==
    /\ Live(job[j].row) /\ canInteractWithConversation(job[j].by, job[j].row)
    /\ job[j].op \in {"assign", "clear", "tags"} => May(job[j].by, "contacts.write")
EditRead(j) ==
    /\ Reads(j, RowOps \ {"attend"})
    /\ IF job[j].op = "delete" THEN IF May(job[j].by, "contacts.delete") /\ Live(job[j].row) THEN Goes(j, "write") ELSE Ends(j, "refused")
       ELSE IF Admitted(j) THEN Goes(j, "write") ELSE Ends(j, "refused")
    /\ Keep(<<row, attend, children, notes, tagRows, front, frontKept>>)
\* Writes of one column, to a row that is not deleted.
Column(j, op, edited) ==
    /\ At(j, {op}, "write")
    /\ row' = [row EXCEPT ![job[j].row] = IF Live(job[j].row) THEN edited ELSE @] /\ Ends(j, "saved")
    /\ Keep(<<attend, children, notes, tagRows, front, frontKept>>)
AssignOwner(j) == Column(j, "assign", [row[job[j].row] EXCEPT !.owner = job[j].by])
UpdateContact(j) == Column(j, "clear", [row[job[j].row] EXCEPT !.owner = Nobody])
UpdateContactTags(j) == Column(j, "tags", [row[job[j].row] EXCEPT !.tags = {job[j].tag}])
DeleteContact(j) ==
    /\ At(j, {"delete"}, "write")
    /\ row' = [row EXCEPT ![job[j].row].is = "deleted"] /\ Ends(j, "saved")
    /\ Keep(<<attend, children, notes, tagRows, front, frontKept>>)
CreateConversationNote(j) ==
    /\ At(j, {"note"}, "write")
    /\ notes' = [notes EXCEPT ![j] = [row |-> job[j].row, by |-> job[j].by, is |-> "there"]] /\ Ends(j, "saved")
    /\ Keep(<<row, attend, children, tagRows, front, frontKept>>)
\* Only its author edits or deletes a note, found through the contact it belongs to.
NoteRead(j) ==
    /\ Reads(j, {"renote", "unnote"})
    /\ LET n == notes[0] IN
       IF n.is = "there" /\ Live(n.row) /\ canInteractWithConversation(job[j].by, n.row) /\ n.by = job[j].by
       THEN job' = [job EXCEPT ![j].row = n.row, ![j].pc = "write"] ELSE Ends(j, "refused")
    /\ Keep(<<row, attend, children, notes, tagRows, front, frontKept>>)
\* UpdateConversationNote saves the whole row it read, which also brings a row back.
UpdateConversationNote(j) ==
    /\ At(j, {"renote"}, "write")
    /\ notes' = [notes EXCEPT ![0].row = job[j].row, ![0].is = "there"] /\ Ends(j, "saved")
    /\ Keep(<<row, attend, children, tagRows, front, frontKept>>)
DeleteConversationNote(j) ==
    /\ At(j, {"unnote"}, "write")
    /\ notes' = [notes EXCEPT ![0].is = "gone"] /\ Ends(j, "saved")
    /\ Keep(<<row, attend, children, tagRows, front, frontKept>>)

-------------------------------------------------------------------------------
(* Tags are rows, but contacts hold their names *)

Renamed(old, new) == [r \in Rows |-> [row[r] EXCEPT !.tags = IF old \in @ THEN (@ \ {old}) \cup {new} ELSE @]]
TagRead(j) ==
    /\ Reads(j, {"tag_new", "tag_edit", "tag_drop"})
    /\ LET ok == CASE job[j].op = "tag_new" -> job[j].tag \notin tagRows
                   [] job[j].op = "tag_edit" -> job[j].tag \in tagRows /\ job[j].to \notin tagRows
                   [] OTHER -> job[j].tag \in tagRows
       IN  IF ok THEN Goes(j, IF job[j].op = "tag_new" THEN "add" ELSE "rewrite") ELSE Ends(j, "refused")
    /\ Keep(<<row, attend, children, notes, tagRows, front, frontKept>>)
\* CreateTag, and the last step of a rename: the primary key refuses a name that exists.
TagAdd(j) ==
    /\ At(j, {"tag_new", "tag_edit"}, "add")
    /\ LET t == IF job[j].op = "tag_new" THEN job[j].tag ELSE job[j].to IN
       IF t \in tagRows THEN Ends(j, "error") /\ UNCHANGED tagRows ELSE tagRows' = tagRows \cup {t} /\ Ends(j, "saved")
    /\ Keep(<<row, attend, children, notes, front, frontKept>>)
\* UpdateTag and DeleteTag: first every contact, then the tag.
TagRewrite(j) ==
    /\ At(j, {"tag_edit", "tag_drop"}, "rewrite")
    /\ row' = IF job[j].op = "tag_edit" THEN Renamed(job[j].tag, job[j].to)
              ELSE [r \in Rows |-> [row[r] EXCEPT !.tags = @ \ {job[j].tag}]]
    /\ Goes(j, "drop")
    /\ Keep(<<attend, children, notes, tagRows, front, frontKept>>)
TagDrop(j) ==
    /\ At(j, {"tag_edit", "tag_drop"}, "drop")
    /\ tagRows' = tagRows \ {job[j].tag}
    /\ IF job[j].op = "tag_edit" THEN Goes(j, "add") ELSE Ends(j, "saved")
    /\ Keep(<<row, attend, children, notes, front, frontKept>>)

-------------------------------------------------------------------------------
(* The merge command *)

\* MergeDuplicateContacts loads the live rows and joins those that share a spelling.
MergeRead(j) ==
    /\ Reads(j, {"merge"})
    /\ job' = [job EXCEPT ![j].all = row, ![j].row = 0, ![j].pc = "group"]
    /\ Keep(<<row, attend, children, notes, tagRows, front, frontKept>>)
Loaded(all) == {r \in Rows : all[r].is = "live"}
Joined(all, r, q) == PhoneIdentities(all[r].phone) \cap PhoneIdentities(all[q].phone) # {}
\* The union-find of the code: the smallest set with r that is closed under joining.
GroupOf(all, r) ==
    LET closed == {g \in SUBSET Loaded(all) : r \in g /\ \A x \in g, y \in Loaded(all) : Joined(all, x, y) => y \in g}
    IN  CHOOSE g \in closed : \A h \in closed : g \subseteq h
Roots(all) == {r \in Loaded(all) : Cardinality(GroupOf(all, r)) > 1 /\ r = Min(GroupOf(all, r))}
\* mergeGroup: one transaction per group, over the rows as they were loaded.
KeepsOwner(all, keep, dups) ==
    LET owned == {d \in dups : all[d].owner # Nobody}
    IN  IF all[keep].owner = Nobody /\ owned # {} THEN all[Min(owned)].owner ELSE Nobody
Repointed(keep, dups) == [r \in Rows |-> IF r \in dups THEN 0 ELSE IF r = keep THEN MapThenSumSet(LAMBDA d : children[d], dups \cup {keep})
                                         ELSE children[r]]
mergeGroup(j) ==
    /\ At(j, {"merge"}, "group")
    /\ LET all == job[j].all
           left == {r \in Roots(all) : r > job[j].row}
       IN  IF left = {} THEN Ends(j, "merged") /\ UNCHANGED <<row, attend, children, notes>>
           ELSE LET keep == Min(left)
                    dups == GroupOf(all, keep) \ {keep}
                    number == CanonicalPhone(all[keep].phone)
                    clash == number # all[keep].phone /\ \E r \in Rows \ dups : row[r].is # "none" /\ ~row[r].merged /\ row[r].phone = number
                    owner == KeepsOwner(all, keep, dups)
                    on == {r \in dups \cup {keep} : attend[r].on}
                IN  /\ job' = [job EXCEPT ![j].row = keep]
                    /\ IF clash THEN UNCHANGED <<row, attend, children, notes>>
                       ELSE /\ children' = Repointed(keep, dups)
                            /\ notes' = [n \in DOMAIN notes |-> [notes[n] EXCEPT !.row = IF @ \in dups THEN keep ELSE @]]
                            /\ attend' = [r \in Rows |-> IF r \in dups THEN NoAttend
                                            ELSE IF r = keep /\ on # {} THEN attend[IF keep \in on THEN keep ELSE Min(on)] ELSE attend[r]]
                            /\ row' = [r \in Rows |->
                                 IF r \in dups THEN [row[r] EXCEPT !.merged = TRUE, !.is = "deleted"]
                                 ELSE IF r = keep /\ Live(r) THEN [row[r] EXCEPT !.phone = number, !.owner = IF owner = Nobody THEN @ ELSE owner]
                                 ELSE row[r]]
    /\ Keep(<<tagRows, front, frontKept>>)

-------------------------------------------------------------------------------
(* The default team of the account, kept in a cache *)

\* UpdateAccount: the row, then the cache key.
FrontWrite(j) ==
    /\ Reads(j, {"front"}) /\ front' = job[j].team /\ Goes(j, "forget")
    /\ Keep(<<row, attend, children, notes, tagRows, frontKept>>)
InvalidateAccountDefaultTeamCache(j) ==
    /\ At(j, {"front"}, "forget") /\ frontKept' = Cold /\ Ends(j, "saved")
    /\ Keep(<<row, attend, children, notes, tagRows, front>>)
\* getAccountDefaultTeamCached on a miss: the row is read, then the key is set.
FrontRead(j) ==
    /\ Reads(j, {"look"})
    /\ IF frontKept # Cold THEN Ends(j, "hit") ELSE job' = [job EXCEPT ![j].team = front, ![j].pc = "put"]
    /\ Keep(<<row, attend, children, notes, tagRows, front, frontKept>>)
FrontPut(j) ==
    /\ At(j, {"look"}, "put") /\ frontKept' = job[j].team /\ Ends(j, "miss")
    /\ Keep(<<row, attend, children, notes, tagRows, front>>)
FrontExpires == frontKept # Cold /\ frontKept' = Cold /\ Keep(<<row, attend, children, notes, tagRows, front, job>>)

BookStep(j) ==
    \/ Arrive(j)
    \/ InboundRead(j) \/ InboundRestore(j) \/ InboundInsert(j) \/ InboundRaced(j) \/ InboundMessage(j)
    \/ CreateContact(j) \/ CreateInsertRow(j) \/ ClaimContact(j) \/ ClaimAttendance(j) \/ ClaimRestore(j)
    \/ AttendanceStarts(j)
    \/ ImportRead(j) \/ ImportInsert(j) \/ ImportUpdate(j)
    \/ EditRead(j) \/ AssignOwner(j) \/ UpdateContact(j) \/ UpdateContactTags(j) \/ DeleteContact(j)
    \/ CreateConversationNote(j) \/ NoteRead(j) \/ UpdateConversationNote(j) \/ DeleteConversationNote(j)
    \/ TagRead(j) \/ TagAdd(j) \/ TagRewrite(j) \/ TagDrop(j)
    \/ MergeRead(j) \/ mergeGroup(j)
    \/ FrontWrite(j) \/ InvalidateAccountDefaultTeamCache(j) \/ FrontRead(j) \/ FrontPut(j)
BookNext == FrontExpires \/ \E j \in Jobs : BookStep(j)
BookSpec == BookInit /\ [][BookNext]_bookVars

-------------------------------------------------------------------------------
(* What the contact book promises *)

Met(x, y) == {x, y} \in together
Creating == {"inbound", "create", "claim"}
\* "The same subscriber is never split across formats": two live rows of one subscriber have an import among them, or
\* two creations were in progress together, or a merge met a creation; an area code that looks like the country code
\* is the exception the lookup makes.
OneRowPerSubscriber ==
    \A r, q \in Rows : r # q /\ Live(r) /\ Live(q) /\ row[r].phone.who = row[q].phone.who /\ row[r].phone.who \notin Area55 =>
        \/ "import" \in {row[r].via, row[q].via} \/ {row[r].via, row[q].via} = {"old"}
        \/ \E x, y \in Creating : Met(x, y)
        \/ \E x \in Creating : Met(x, "merge")
\* A claim that was confirmed is not taken by another claim of the same contact.
ClaimedOnce ==
    \A i, j \in Jobs : i # j /\ {job[i].op, job[j].op} \subseteq {"create", "claim"} /\ job[i].told = "mine" /\ job[j].told = "mine"
                       /\ job[i].row = job[j].row =>
        \/ job[i].by = job[j].by \/ Met("claim", "attend")
        \/ \E k \in Jobs : job[k].op \in {"assign", "clear", "import_over", "merge"}
\* A contact someone added, claimed or restored through the dialog is in front of them, unless it was deleted again.
ClaimedIsSeen ==
    \A j \in Jobs : job[j].op \in {"create", "claim"} /\ job[j].told = "mine" =>
        job[j].row \in ListContacts(job[j].by) \/ \E k \in Jobs : job[k].op \in {"delete", "assign", "clear", "import_over", "merge", "attend"}
\* After a merge nothing points at a duplicate, unless a message or a note was on its way.
DuplicatesAreBare ==
    \A r \in Rows : row[r].merged /\ (children[r] > 0 \/ \E n \in DOMAIN notes : notes[n].row = r) =>
        \E op \in {"inbound", "note", "renote"} : Met(op, "merge")
\* The duplicate's owner is the owner of the kept row when that had none.
MergeKeepsOwner ==
    [][\A j \in Jobs : job[j].op = "merge" /\ job'[j].row # job[j].row =>
         LET keep == job'[j].row
             dups == {r \in Rows : row'[r].merged /\ ~row[r].merged}
         IN  (\E r \in dups \cup {keep} : row[r].owner # Nobody) /\ dups # {} /\ Live(keep) =>
                row'[keep].owner # Nobody \/ \E x \in {"assign", "clear", "claim"} : Met(x, "merge")]_bookVars
\* Contacts carry the names of tags that exist, unless a tagging met an edit of the tags, or two edits met.
TagsExist ==
    \A r \in Rows : Live(r) /\ ~(row[r].tags \subseteq tagRows) =>
        (\E j \in InProgress : job[j].op \in {"tag_edit", "tag_drop"})
        \/ \E x \in {"tags", "tag_edit", "tag_drop", "tag_new"}, y \in {"tag_edit", "tag_drop"} : Met(x, y)
\* The list of conversations and the check of one conversation agree for every user, while the cached default team is right.
ListAgrees ==
    accountDefaultTeamID = front =>
        \A u \in Staff, r \in Rows : Live(r) =>
            /\ (r \in ListContacts(u)) = authorizeConversation(u, r)
            /\ bookMenu.strict /\ r \in ExportData(u) => authorizeConversation(u, r)
\* The cache is wrong only while an account is being written, or when a reader met the writer.
FrontIsFresh ==
    frontKept \notin {Cold, front} => Met("look", "front") \/ \E j \in Jobs : job[j].op = "front" /\ job[j].pc = "forget"
\* A note is changed by its author only, and one that was deleted comes back only when an edit met the deletion.
NotesStay ==
    [][\A n \in DOMAIN notes : notes[n].is # "none" /\ notes'[n] # notes[n] =>
         \/ \E j \in Jobs : job[j].op = "merge" /\ job[j].pc = "group"
         \/ /\ \E j \in Jobs : job[j].op \in {"renote", "unnote"} /\ job[j].by = notes[n].by /\ job'[j].pc # job[j].pc
            /\ notes[n].is = "gone" => Met("renote", "unnote")]_bookVars
\* A message that was saved is in a conversation that can be listed, unless the contact was deleted or merged.
InboundReachesList ==
    \A j \in Jobs : job[j].op = "inbound" /\ job[j].told = "saved" => Live(job[j].row) \/ \E k \in Jobs : job[k].op \in {"delete", "merge"}

\* However inbound messages, claims, imports, merges and edits of tags overlap: a subscriber
\* has one row, a contact one owner who sees it, a merged duplicate nothing of its own, tags
\* and the list agree with the rows, and an inbound message brings the contact to the list.
BookConsistent ==
    BookTypeOK /\ OneRowPerSubscriber /\ ClaimedOnce /\ ClaimedIsSeen /\ DuplicatesAreBare /\ TagsExist
        /\ ListAgrees /\ FrontIsFresh /\ InboundReachesList
================================================================================
