------------------------------ MODULE Occurrences ------------------------------
(***************************************************************************)
(* The cases (occurrences) of one organization: the pipeline of stages     *)
(* they move through, the protocol numbers, the timeline of events, the    *)
(* documents with their files, the reply to the customer and the SLA mark. *)
(* A request reads what it needs, and writes later what it then decided;   *)
(* nothing is locked in between, except the protocol counter's row.        *)
(***************************************************************************)
EXTENDS Naturals, FiniteSets

CONSTANTS
    Cases, Documents,
    LastStage,          \* stages by position: a bound
    Staff, Seeing,      \* all users, and those who may see the contact's conversation
    MaxJobs,            \* requests: a bound
    MaxDocuments,       \* maxOccurrenceDocuments
    CaseMenus           \* what the requests of one behaviour ask for, and how many they are

\* The handlers; "none" is a request that has not come.
CaseOps == {"none", "open", "move", "stage_new", "stage_edit", "stage_delete", "update", "note", "protocol", "used",
            "reply", "doc_add", "doc_drop", "upload", "delete"}

ASSUME CasesAssumption ==
    /\ Seeing \subseteq Staff /\ Seeing # {}
    /\ LastStage \in Nat /\ LastStage > 2
    /\ {MaxJobs, MaxDocuments} \subseteq Nat \ {0}
    /\ IsFiniteSet(Cases) /\ Cases # {} /\ Documents # {} /\ "none" \notin Staff
    \* A behaviour begins with one case at most, and only that case has documents.
    /\ \A m \in CaseMenus :
        /\ m.ops \subseteq CaseOps \ {"none"} /\ m.open \subseteq Cases /\ m.docs \subseteq Documents
        /\ \A c, d \in m.open : c = d
        /\ m.open = {} => m.docs = {}

VARIABLES
    caseMenu,
    stage,      \* occurrence_stages
    row,        \* occurrences
    counter,    \* last_seq of occurrence_counters
    holder,     \* the request whose transaction holds the counter's row
    timeline,   \* occurrence_events of a case
    document,   \* occurrence_documents
    stored,     \* attachment files
    overdue,    \* the deadlines that have passed
    job,        \* the requests
    crossed     \* which kinds of requests were in progress together: history

caseVars == <<caseMenu, stage, row, counter, holder, timeline, document, stored, overdue, job, crossed>>

StageIds == 1 .. LastStage
Jobs == 1 .. MaxJobs
Exts == {"pdf", "jpg"}
None == "none"
Deadlines == {"response", "resolution"}
\* OccurrenceStage, Occurrence, OccurrenceDocument, and a request with what it has read.
StageRow == [is : {"none", "live", "gone"}, initial : BOOLEAN, closing : BOOLEAN]
CaseRow == [is : {"none", "live", "deleted"}, number : 0 .. Cardinality(Cases), stage : StageIds, closed : BOOLEAN,
            assignee : Staff \cup {None}, urgent : BOOLEAN, answered : BOOLEAN, breached : BOOLEAN,
            summary : SUBSET Documents]
DocumentRow == [is : {"none", "live", "gone"}, of : Cases, path : Exts \cup {None}]
Event == [kind : {"opened", "stage_change", "closed", "assignment", "reply", "note", "protocol_sent", "message_used"},
          to : StageIds]
Job == [op : CaseOps, of : Cases, by : Staff, to : StageIds, initial : BOOLEAN, closing : BOOLEAN, doc : Documents,
        ext : Exts \cup {None}, user : Staff \cup {None}, saw : CaseRow, path : Exts \cup {None},
        number : 0 .. Cardinality(Cases), pc : {"new", "read", "number", "write", "after", "files", "done"}]
CasesTypeOK ==
    /\ stage \in [StageIds -> StageRow]
    /\ row \in [Cases -> CaseRow]
    /\ counter \in 0 .. Cardinality(Cases)
    /\ holder \in Jobs \cup {0}
    /\ timeline \in [Cases -> SUBSET Event]
    /\ document \in [Documents -> DocumentRow]
    /\ stored \subseteq Documents \X Exts
    /\ overdue \subseteq Cases \X Deadlines
    /\ job \in [Jobs -> Job]
    /\ crossed \subseteq SUBSET CaseOps

Live(c) == row[c].is = "live"
NoCase == [is |-> "none", number |-> 0, stage |-> 1, closed |-> FALSE, assignee |-> None, urgent |-> FALSE,
           answered |-> FALSE, breached |-> FALSE, summary |-> {}]
First(S) == CHOOSE x \in S : TRUE
\* ensureDefaultStages: one initial stage, one to work in, one closing; the last is not there yet.
CasesSetUp(menus) ==
    /\ caseMenu \in menus
    /\ stage = [s \in StageIds |-> [is |-> IF s <= 3 THEN "live" ELSE "none", initial |-> s = 1, closing |-> s = 3]]
    /\ row = [c \in Cases |-> IF c \in caseMenu.open
                              THEN [NoCase EXCEPT !.is = "live", !.number = 1, !.assignee = First(Seeing), !.summary = caseMenu.docs]
                              ELSE NoCase]
    /\ counter = Cardinality(caseMenu.open) /\ holder = 0
    /\ timeline = [c \in Cases |-> IF c \in caseMenu.open THEN {[kind |-> "opened", to |-> 1]} ELSE {}]
    /\ document = [d \in Documents |-> [is |-> IF d \in caseMenu.docs THEN "live" ELSE None, of |-> First(IF caseMenu.open = {} THEN Cases ELSE caseMenu.open),
                                        path |-> IF d \in caseMenu.docs THEN "pdf" ELSE None]]
    /\ stored = caseMenu.docs \X {"pdf"}
    /\ overdue = {} /\ crossed = {}
    /\ job = [j \in Jobs |-> [op |-> None, of |-> First(Cases), by |-> First(Staff), to |-> 1, initial |-> FALSE, closing |-> FALSE,
                              doc |-> First(Documents), ext |-> None, user |-> None, saw |-> NoCase, path |-> None,
                              number |-> 0, pc |-> "new"]]
CasesInit == CasesSetUp(CaseMenus)
CasesEnded == CasesSetUp({[ops |-> {}, jobs |-> 0, open |-> {}, docs |-> {}, late |-> FALSE]})

Reached(j, pc) == job' = [job EXCEPT ![j].pc = pc]
Leave(vs) == UNCHANGED vs /\ UNCHANGED <<caseMenu, crossed>>
Active == {j \in Jobs : job[j].pc \notin {"new", "done"}}
\* UPDATE ... WHERE id: nothing happens to a row that is gone.
UpdateRow(c, new) == row' = IF Live(c) THEN [row EXCEPT ![c] = new] ELSE row

-------------------------------------------------------------------------------
(* A request arrives and reads *)

\* visibleOccurrences, loadAuthorizedOccurrence: the assignee may always open a case.
allowed(u, c) == u \in Seeing \/ row[c].assignee = u
initialStage == {s \in StageIds : stage[s].is = "live" /\ stage[s].initial /\
                   \A t \in StageIds : t < s => ~(stage[t].is = "live" /\ stage[t].initial)}
hasOtherClosingStage(s) == \E t \in StageIds \ {s} : stage[t].is = "live" /\ stage[t].closing
inUse_Open(s) == \E c \in Cases : Live(c) /\ row[c].stage = s /\ ~row[c].closed
inUse(s) == \E c \in Cases : Live(c) /\ row[c].stage = s
\* The checks each handler makes before it writes, on what it reads now.
Accepts(q) ==
    CASE q.op = "open" -> q.by \in Seeing /\ initialStage = {q.to} /\ row[q.of].is = "none"
                          /\ \A j \in Active : job[j].op # "open" \/ job[j].of # q.of
      [] q.op = "move" -> Live(q.of) /\ allowed(q.by, q.of) /\ stage[q.to].is = "live" /\ q.to # row[q.of].stage
      [] q.op = "stage_new" -> stage[q.to].is = "none" /\ ~(q.initial /\ q.closing)
      [] q.op = "stage_edit" -> /\ stage[q.to].is = "live" /\ ~(q.initial /\ q.closing)
                                /\ stage[q.to].initial => q.initial
                                /\ stage[q.to].closing /\ ~q.closing => hasOtherClosingStage(q.to)
      [] q.op = "stage_delete" -> /\ stage[q.to].is = "live" /\ ~inUse(q.to) /\ ~stage[q.to].initial
                                  /\ stage[q.to].closing => hasOtherClosingStage(q.to)
      [] q.op = "doc_add" -> Live(q.of) /\ allowed(q.by, q.of) /\ document[q.doc].is = "none"
                             /\ Cardinality({d \in Documents : document[d].is = "live" /\ document[d].of = q.of}) < MaxDocuments
      [] q.op \in {"doc_drop", "upload"} -> Live(q.of) /\ allowed(q.by, q.of)
                                            /\ document[q.doc].is = "live" /\ document[q.doc].of = q.of
      [] OTHER -> Live(q.of) /\ allowed(q.by, q.of)
\* What a kind of request leaves open, so that behaviours do not differ in unused parameters.
Neutral(q) ==
    /\ q.op \notin {"open", "move", "stage_new", "stage_edit", "stage_delete"} => q.to = 1
    /\ q.op \notin {"stage_new", "stage_edit"} => ~q.initial /\ q.closing = (q.op = "move" /\ stage[q.to].closing)
    /\ q.op \notin {"doc_add", "doc_drop", "upload"} => q.doc = First(Documents)
    /\ (q.op = "upload") = (q.ext # None)
    /\ q.op # "update" => q.user = None
    /\ q.op \in {"stage_new", "stage_edit", "stage_delete"} => q.of = First(Cases) /\ q.by = First(Seeing)
Come(j) ==
    /\ j <= caseMenu.jobs /\ job[j].pc = "new" /\ \A k \in Jobs : k < j => job[k].pc # "new"
    /\ \E op \in caseMenu.ops, c \in Cases, u \in Staff, s \in StageIds, ini \in BOOLEAN, clo \in BOOLEAN,
          d \in Documents, e \in Exts \cup {None}, to \in Staff \cup {None} :
        LET q == [op |-> op, of |-> c, by |-> u, to |-> s, initial |-> ini, closing |-> clo, doc |-> d, ext |-> e, user |-> to,
                  saw |-> IF op = "open" THEN NoCase ELSE row[c], path |-> document[d].path, number |-> 0, pc |-> "read"]
        IN /\ Neutral(q) /\ Accepts(q)
           /\ job' = [job EXCEPT ![j] = q]
           /\ crossed' = crossed \cup {{op, job[k].op} : k \in Active}
    /\ UNCHANGED <<caseMenu, stage, row, counter, holder, timeline, document, stored, overdue>>

-------------------------------------------------------------------------------
(* Opening a case: insertOccurrenceWithProtocol is one transaction *)

\* UPDATE occurrence_counters ... RETURNING last_seq: the row stays locked until the end.
nextProtocolNumber == counter + 1
TakeNumber(j) ==
    /\ job[j].op = "open" /\ job[j].pc = "read" /\ holder = 0
    /\ holder' = j
    /\ job' = [job EXCEPT ![j].pc = "number", ![j].number = nextProtocolNumber]
    /\ Leave(<<stage, row, counter, timeline, document, stored, overdue>>)
insertOccurrenceWithProtocol(j) ==
    LET q == job[j] IN
    /\ q.op = "open" /\ q.pc = "number"
    /\ row' = [row EXCEPT ![q.of] = [NoCase EXCEPT !.is = "live", !.number = q.number, !.stage = q.to, !.assignee = q.by]]
    /\ timeline' = [timeline EXCEPT ![q.of] = {[kind |-> "opened", to |-> q.to]}]
    /\ counter' = q.number /\ holder' = 0 /\ Reached(j, "done")
    /\ Leave(<<stage, document, stored, overdue>>)
\* The insert fails: the number goes back with the transaction.
RollBack(j) ==
    /\ job[j].op = "open" /\ job[j].pc = "number"
    /\ holder' = 0 /\ Reached(j, "done")
    /\ Leave(<<stage, row, counter, timeline, document, stored, overdue>>)

-------------------------------------------------------------------------------
(* Moving a case *)

\* The stage and closed_at in one update, by what the target was when it was read; the
\* events afterwards.
ChangeOccurrenceStage(j) ==
    LET q == job[j] IN
    /\ q.op = "move" /\ q.pc = "read"
    /\ UpdateRow(q.of, [row[q.of] EXCEPT !.stage = q.to, !.closed = q.closing])
    /\ Reached(j, "after")
    /\ Leave(<<stage, counter, holder, timeline, document, stored, overdue>>)
MoveEvents(q) == {[kind |-> "stage_change", to |-> q.to]}
                 \cup (IF q.closing THEN {[kind |-> "closed", to |-> q.to]} ELSE {})
LogMove(j) ==
    LET q == job[j] IN
    /\ q.op = "move" /\ q.pc = "after"
    /\ timeline' = [timeline EXCEPT ![q.of] = @ \cup MoveEvents(q)]
    /\ Reached(j, "done")
    /\ Leave(<<stage, row, counter, holder, document, stored, overdue>>)

-------------------------------------------------------------------------------
(* The pipeline *)

\* unsetOtherInitial, in the transaction of the write.
unsetOtherInitial(keep, on) == [s \in StageIds |-> IF on /\ s # keep THEN [stage[s] EXCEPT !.initial = FALSE] ELSE stage[s]]
CreateOccurrenceStage(j) ==
    LET q == job[j] IN
    /\ q.op = "stage_new" /\ q.pc = "read"
    /\ stage' = [unsetOtherInitial(q.to, q.initial) EXCEPT ![q.to] = [is |-> "live", initial |-> q.initial, closing |-> q.closing]]
    /\ Reached(j, "done")
    /\ Leave(<<row, counter, holder, timeline, document, stored, overdue>>)
UpdateOccurrenceStage(j) ==
    LET q == job[j] IN
    /\ q.op = "stage_edit" /\ q.pc = "read"
    /\ stage' = [unsetOtherInitial(q.to, q.initial) EXCEPT ![q.to].initial = q.initial, ![q.to].closing = q.closing]
    /\ Reached(j, "done")
    /\ Leave(<<row, counter, holder, timeline, document, stored, overdue>>)
DeleteOccurrenceStage(j) ==
    LET q == job[j] IN
    /\ q.op = "stage_delete" /\ q.pc = "read"
    /\ stage' = [stage EXCEPT ![q.to].is = "gone"]
    /\ Reached(j, "done")
    /\ Leave(<<row, counter, holder, timeline, document, stored, overdue>>)

-------------------------------------------------------------------------------
(* Editing, answering and noting *)

\* A changed priority starts both deadlines again, from now; the mark stays.
UpdateOccurrence(j) ==
    LET q == job[j] IN
    /\ q.op = "update" /\ q.pc = "read"
    /\ UpdateRow(q.of, [row[q.of] EXCEPT !.urgent = ~q.saw.urgent, !.assignee = q.user])
    /\ overdue' = overdue \ ({q.of} \X Deadlines)
    /\ Reached(j, IF q.user # q.saw.assignee THEN "after" ELSE "done")
    /\ Leave(<<stage, counter, holder, timeline, document, stored>>)
AddEvent(j, op, pc, kind, next) ==
    /\ job[j].op = op /\ job[j].pc = pc
    /\ timeline' = [timeline EXCEPT ![job[j].of] = @ \cup {[kind |-> kind, to |-> 1]}]
    /\ Reached(j, next)
    /\ Leave(<<stage, row, counter, holder, document, stored, overdue>>)
LogAssignment(j) == AddEvent(j, "update", "after", "assignment", "done")
CreateOccurrenceEvent(j) == AddEvent(j, "note", "read", "note", "done")
SendOccurrenceProtocol(j) == AddEvent(j, "protocol", "read", "protocol_sent", "done")
LogOccurrenceProcessMessageUse(j) == AddEvent(j, "used", "read", "message_used", "done")
\* ReplyToOccurrence sends, records the reply and stamps the first response it did not see.
ReplyToOccurrence(j) == AddEvent(j, "reply", "read", "reply", IF job[j].saw.answered THEN "done" ELSE "after")
StampFirstResponse(j) ==
    /\ job[j].op = "reply" /\ job[j].pc = "after"
    /\ UpdateRow(job[j].of, [row[job[j].of] EXCEPT !.answered = TRUE])
    /\ Reached(j, "done")
    /\ Leave(<<stage, counter, holder, timeline, document, stored, overdue>>)

-------------------------------------------------------------------------------
(* Documents and their files *)

\* updateSummaryForDocument works on the case as the request read it.
updateSummary(q) == IF q.op = "doc_add" THEN q.saw.summary \cup {q.doc} ELSE q.saw.summary \ {q.doc}
CreateOccurrenceDocument(j) ==
    LET q == job[j] IN
    /\ q.op = "doc_add" /\ q.pc = "read" /\ document[q.doc].is = "none"
    /\ document' = [document EXCEPT ![q.doc] = [is |-> "live", of |-> q.of, path |-> None]]
    /\ UpdateRow(q.of, [row[q.of] EXCEPT !.summary = updateSummary(q)])
    /\ Reached(j, "done")
    /\ Leave(<<stage, counter, holder, timeline, stored, overdue>>)
DeleteOccurrenceDocument(j) ==
    LET q == job[j] IN
    /\ q.op = "doc_drop" /\ q.pc = "read"
    /\ document' = [document EXCEPT ![q.doc].is = "gone"]
    /\ UpdateRow(q.of, [row[q.of] EXCEPT !.summary = updateSummary(q)])
    /\ Reached(j, "files")
    /\ Leave(<<stage, counter, holder, timeline, stored, overdue>>)
removeOccurrenceAttachment(j) ==
    /\ job[j].op = "doc_drop" /\ job[j].pc = "files"
    /\ stored' = stored \ {<<job[j].doc, job[j].path>>}
    /\ Reached(j, "done")
    /\ Leave(<<stage, row, counter, holder, timeline, document, overdue>>)
\* The file first, under the document's id and its own extension; then the one it replaces goes.
Replaced(q) == IF q.path # q.ext THEN {<<q.doc, q.path>>} ELSE {}
UploadOccurrenceDocumentAttachment(j) ==
    LET q == job[j] IN
    /\ q.op = "upload" /\ q.pc = "read"
    /\ stored' = (stored \cup {<<q.doc, q.ext>>}) \ Replaced(q)
    /\ Reached(j, "write")
    /\ Leave(<<stage, row, counter, holder, timeline, document, overdue>>)
WritePath(j) ==
    LET q == job[j] IN
    /\ q.op = "upload" /\ q.pc = "write"
    /\ document' = IF document[q.doc].is = "live" THEN [document EXCEPT ![q.doc].path = q.ext] ELSE document
    /\ Reached(j, "done")
    /\ Leave(<<stage, row, counter, holder, timeline, stored, overdue>>)

\* DeleteOccurrence: events, documents and the row in one transaction, then the files.
Belonging(c) == {d \in Documents : document[d].is = "live" /\ document[d].of = c}
DeleteOccurrence(j) ==
    LET q == job[j] IN
    /\ q.op = "delete" /\ q.pc = "read"
    /\ row' = [row EXCEPT ![q.of].is = "deleted"]
    /\ timeline' = [timeline EXCEPT ![q.of] = {}]
    /\ document' = [d \in Documents |-> IF d \in Belonging(q.of) THEN [document[d] EXCEPT !.is = "gone"] ELSE document[d]]
    /\ stored' = stored \ {<<d, document[d].path>> : d \in Belonging(q.of)}
    /\ overdue' = overdue \ ({q.of} \X Deadlines)
    /\ Reached(j, "done")
    /\ Leave(<<stage, counter, holder>>)

-------------------------------------------------------------------------------
(* Deadlines *)

TimePasses(c, d) ==
    /\ caseMenu.late /\ Live(c) /\ <<c, d>> \notin overdue
    /\ overdue' = overdue \cup {<<c, d>>}
    /\ Leave(<<stage, row, counter, holder, timeline, document, stored, job>>)
\* processOccurrenceSLA: two conditional updates of one tick.
Missing(c) == \/ <<c, "response">> \in overdue /\ ~row[c].answered
              \/ <<c, "resolution">> \in overdue /\ ~row[c].closed
Breaches(c) == Live(c) /\ ~row[c].breached /\ Missing(c)
processOccurrenceSLA ==
    /\ \E c \in Cases : Breaches(c)
    /\ row' = [c \in Cases |-> IF Breaches(c) THEN [row[c] EXCEPT !.breached = TRUE] ELSE row[c]]
    /\ Leave(<<stage, counter, holder, timeline, document, stored, overdue, job>>)

CaseStep(j) ==
    \/ TakeNumber(j) \/ insertOccurrenceWithProtocol(j) \/ RollBack(j)
    \/ ChangeOccurrenceStage(j) \/ LogMove(j)
    \/ CreateOccurrenceStage(j) \/ UpdateOccurrenceStage(j) \/ DeleteOccurrenceStage(j)
    \/ UpdateOccurrence(j) \/ LogAssignment(j) \/ CreateOccurrenceEvent(j) \/ SendOccurrenceProtocol(j)
    \/ LogOccurrenceProcessMessageUse(j) \/ ReplyToOccurrence(j) \/ StampFirstResponse(j)
    \/ CreateOccurrenceDocument(j) \/ DeleteOccurrenceDocument(j) \/ removeOccurrenceAttachment(j)
    \/ UploadOccurrenceDocumentAttachment(j) \/ WritePath(j) \/ DeleteOccurrence(j)
CasesNext ==
    \/ \E j \in Jobs : Come(j) \/ CaseStep(j)
    \/ \E c \in Cases, d \in Deadlines : TimePasses(c, d)
    \/ processOccurrenceSLA
\* A request is served to its end and the SLA processor keeps ticking.
CasesFairness == WF_caseVars(processOccurrenceSLA)

-------------------------------------------------------------------------------
(* Properties *)

Quiet == Active = {}
Pipeline == {"stage_new", "stage_edit", "stage_delete"}
PipelineEdits == \E p \in crossed : p \subseteq Pipeline
With(op, others) == \E p \in crossed : op \in p /\ p \cap others # {}

\* Protocol numbers are never given twice and never skipped, whether cases are
\* deleted, opened together or their insert fails (nextProtocolNumber).
ProtocolsDense ==
    LET given == {c \in Cases : row[c].is # "none"} IN
    /\ {row[c].number : c \in given} = 1 .. counter
    /\ Cardinality(given) = counter

\* One initial and at least one closing stage, however stages are added, edited and
\* removed, as long as two edits of the pipeline are not handled together: the two
\* checks of UpdateOccurrenceStage and DeleteOccurrenceStage hold no lock.
PipelineUsable ==
    ~PipelineEdits =>
        /\ Cardinality({s \in StageIds : stage[s].is = "live" /\ stage[s].initial}) = 1
        /\ \E s \in StageIds : stage[s].is = "live" /\ stage[s].closing

\* No case stands in a removed stage, unless the removal overlapped a move or an opening.
StageOfCaseLives ==
    ~With("stage_delete", {"move", "open"}) => \A c \in Cases : Live(c) => stage[row[c].stage].is = "live"

\* Once the requests are served, the timeline of a case names the stage it is in, and
\* says that it was closed if it is; moves handled together included.
MovesAreLogged ==
    Quiet => \A c \in Cases : Live(c) =>
        /\ row[c].stage = 1 \/ \E e \in timeline[c] : e.kind \in {"opened", "stage_change"} /\ e.to = row[c].stage
        /\ row[c].closed => \E e \in timeline[c] : e.kind = "closed"

\* A document's row never points to a missing file, and no file is left without its
\* row, unless an upload overlapped another upload, the removal of the document or
\* of the case.
FilesMatchRows ==
    Quiet /\ ~With("upload", {"upload", "doc_drop", "delete"}) /\ ~With("doc_drop", {"delete"}) =>
        stored = {<<d, document[d].path>> : d \in {e \in Documents : document[e].is = "live" /\ document[e].path # None}}

\* The invoice summary of a case names exactly its documents, unless two requests
\* about documents overlapped (the summary is computed from an earlier read).
SummaryTrue ==
    (\A p \in crossed : ~(p \subseteq {"doc_add", "doc_drop", "delete"})) =>
        \A c \in Cases : Live(c) => row[c].summary = Belonging(c)

\* Deleting a case leaves no event and no document of it, unless another request on
\* a case overlapped the deletion.
NothingLeftBehind ==
    (\A p \in crossed : "delete" \notin p) =>
        \A c \in Cases : row[c].is = "deleted" => timeline[c] = {} /\ \A d \in Documents : document[d].of = c => document[d].is # "live"

\* A case past a deadline that it did not meet is eventually marked, or no longer
\* misses it (processOccurrenceSLA runs on every tick).
OverdueIsMarked == \A c \in Cases : (Live(c) /\ Missing(c)) ~> (row[c].breached \/ ~Live(c) \/ ~Missing(c))
===============================================================================
