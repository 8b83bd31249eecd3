------------------------------ MODULE CaseCatalog ------------------------------
(***************************************************************************)
(* What a case is classified by: categories of two levels, reasons (what   *)
(* happened), the processes that guide a reason with their messages, and   *)
(* the units and departments.  Each request checks what it refers to, or   *)
(* that nothing refers to what it removes, and writes afterwards; the      *)
(* first reader of the processes seeds the defaults.                       *)
(***************************************************************************)
EXTENDS Naturals, FiniteSets

CONSTANTS
    Categories, Reasons, Processes, Places,
    Filed,              \* cases being classified, and contacts given a place
    MaxTasks,           \* requests: a bound
    CatalogMenus        \* what the requests of one behaviour ask for, how many, and what exists

ASSUME CatalogAssumption ==
    /\ MaxTasks \in Nat \ {0}
    /\ \A p \in {<<Categories, Reasons>>, <<Categories, Processes>>, <<Reasons, Processes>>} : p[1] \cap p[2] = {}

VARIABLES
    catMenu,
    entry,      \* occurrence_categories, _what_happened, _processes, units and departments
    message,    \* live occurrence_process_messages of a process, one stage of them
    filed,      \* the classification of the cases
    seedLock,   \* the request holding the advisory lock of the seed
    task,       \* the requests
    overlapped  \* which kinds of requests were in progress together: history

catalogVars == <<catMenu, entry, message, filed, seedLock, task, overlapped>>

Nil == "none"
Entries == Categories \cup Reasons \cup Processes \cup Places
Tasks == 1 .. MaxTasks
\* OccurrenceCategory (cat is its parent), OccurrenceWhatHappened, OccurrenceProcess, Unit, Department.
EntryRow == [is : {"none", "live", "gone"}, cat : Categories \cup {Nil}, reason : Reasons \cup {Nil},
             active : BOOLEAN, seed : BOOLEAN]
FiledRow == [is : {"none", "live"}, cat : Categories \cup {Nil}, reason : Reasons \cup {Nil},
             process : Processes \cup {Nil}, place : Places \cup {Nil}]
Task == [op : STRING, on : Entries \cup Filed, cat : Categories \cup {Nil}, reason : Reasons \cup {Nil},
         process : Processes \cup {Nil}, place : Places \cup {Nil}, active : BOOLEAN, saw : BOOLEAN,
         pc : {"new", "read", "reasons", "lock", "insert", "done"}]
CatalogTypeOK ==
    /\ entry \in [Entries -> EntryRow]
    /\ message \in [Processes -> 0 .. 2]
    /\ filed \in [Filed -> FiledRow]
    /\ seedLock \in Tasks \cup {0}
    /\ task \in [Tasks -> Task]
    /\ overlapped \subseteq SUBSET STRING

NoEntry == [is |-> "none", cat |-> Nil, reason |-> Nil, active |-> TRUE, seed |-> FALSE]
CatalogSetUp(menus) ==
    /\ catMenu \in menus
    /\ entry = [x \in Entries |-> [NoEntry EXCEPT !.is = IF x \in catMenu.has THEN "live" ELSE "none"]]
    /\ message = [p \in Processes |-> 0]
    /\ filed = [f \in Filed |-> [is |-> "none", cat |-> Nil, reason |-> Nil, process |-> Nil, place |-> Nil]]
    /\ seedLock = 0 /\ overlapped = {}
    /\ task = [t \in Tasks |-> [op |-> Nil, on |-> CHOOSE x \in Entries : TRUE, cat |-> Nil, reason |-> Nil, process |-> Nil,
                                place |-> Nil, active |-> TRUE, saw |-> FALSE, pc |-> "new"]]
CatalogInit == CatalogSetUp(CatalogMenus)
CatalogEnded == CatalogSetUp({[ops |-> {}, tasks |-> 0, has |-> {}]})

Exists(x) == x \in Entries => entry[x].is = "live"
Open == {t \in Tasks : task[t].pc \notin {"new", "done"}}
Finish(t) == task' = [task EXCEPT ![t].pc = "done"]
Rest(vs) == UNCHANGED vs /\ UNCHANGED <<catMenu, overlapped>>

-------------------------------------------------------------------------------
(* The checks before the write *)

\* resolveCategoryParent: a parent of the first level.
resolveCategoryParent_Any(p) == Exists(p)
resolveCategoryParent(p) == p \in Categories => entry[p].is = "live" /\ entry[p].cat = Nil
Children(x) == {c \in Categories : entry[c].is = "live" /\ entry[c].cat = x}
isPlacementInUse(x) == \E f \in Filed : filed[f].is = "live" /\ filed[f].place = x
\* assertNoActiveProcessForReason, and the partial unique index behind it.
ActiveFor(r, p) == {q \in Processes \ {p} : entry[q].is = "live" /\ entry[q].active /\ entry[q].reason = r /\ r # Nil}
occCount(x) == \E f \in Filed : filed[f].is = "live" /\ x \in {filed[f].cat, filed[f].reason, filed[f].process}

Allows(q) ==
    CASE q.op = "cat_new" -> q.on \in Categories /\ entry[q.on].is = "none" /\ resolveCategoryParent(q.cat)
      [] q.op = "cat_edit" -> /\ q.on \in Categories /\ entry[q.on].is = "live" /\ resolveCategoryParent(q.cat)
                              /\ q.cat # Nil => q.cat # q.on /\ Children(q.on) = {}
      [] q.op = "cat_drop" -> q.on \in Categories /\ entry[q.on].is = "live" /\ Children(q.on) = {} /\ ~occCount(q.on)
      [] q.op = "reason_new" -> q.on \in Reasons /\ entry[q.on].is = "none" /\ Exists(q.cat)
      [] q.op = "reason_edit" -> q.on \in Reasons /\ entry[q.on].is = "live" /\ Exists(q.cat)
      [] q.op = "reason_drop" -> q.on \in Reasons /\ entry[q.on].is = "live" /\ ~occCount(q.on)
      [] q.op = "process_new" -> /\ q.on \in Processes /\ entry[q.on].is = "none" /\ Exists(q.cat) /\ Exists(q.reason)
                                 /\ q.active => ActiveFor(q.reason, q.on) = {}
      [] q.op = "process_edit" -> /\ q.on \in Processes /\ entry[q.on].is = "live" /\ Exists(q.cat) /\ Exists(q.reason)
                                  /\ q.active => ActiveFor(q.reason, q.on) = {}
      [] q.op = "process_drop" -> q.on \in Processes /\ entry[q.on].is = "live" /\ ~occCount(q.on)
      [] q.op = "message" -> q.on \in Processes /\ entry[q.on].is = "live"
      [] q.op = "place_new" -> q.on \in Places /\ entry[q.on].is = "none"
      [] q.op = "place_drop" -> q.on \in Places /\ entry[q.on].is = "live" /\ ~isPlacementInUse(q.on)
      [] q.op = "file" -> /\ q.on \in Filed /\ filed[q.on].is = "none"
                          /\ Exists(q.cat) /\ Exists(q.reason)
                          /\ q.process \in Processes => entry[q.process].is = "live" /\ entry[q.process].active
      [] q.op = "settle" -> q.on \in Filed /\ filed[q.on].is = "none" /\ q.place # Nil /\ Exists(q.place)
      [] q.op = "seed" -> q.on = (CHOOSE x \in Processes : TRUE) /\ \A p \in Processes : entry[p].is # "live"
      [] OTHER -> FALSE
\* Parameters an operation does not have.
Plain(q) ==
    /\ q.op \notin {"cat_new", "cat_edit", "reason_new", "reason_edit", "process_new", "process_edit", "file"} => q.cat = Nil
    /\ q.op \notin {"process_new", "process_edit", "file"} => q.reason = Nil
    /\ q.op # "file" => q.process = Nil
    /\ q.op # "settle" => q.place = Nil
    /\ q.op \notin {"process_new", "process_edit"} => q.active
Ask(t) ==
    /\ t <= catMenu.tasks /\ task[t].pc = "new" /\ \A k \in Tasks : k < t => task[k].pc # "new"
    /\ \E op \in catMenu.ops, x \in Entries \cup Filed, c \in Categories \cup {Nil}, r \in Reasons \cup {Nil},
          p \in Processes \cup {Nil}, w \in Places \cup {Nil}, b \in BOOLEAN :
        LET q == [op |-> op, on |-> x, cat |-> c, reason |-> r, process |-> p, place |-> w, active |-> b,
                  saw |-> op = "message" /\ (x \in Processes => message[x] > 0), pc |-> IF op = "seed" THEN "reasons" ELSE "read"]
        IN /\ Plain(q) /\ Allows(q)
           /\ \A k \in Open : task[k].op = op /\ op \in {"cat_new", "reason_new", "process_new", "place_new", "file", "settle"} => task[k].on # x
           /\ task' = [task EXCEPT ![t] = q]
           /\ overlapped' = overlapped \cup {{op, task[k].op} : k \in Open}
    /\ UNCHANGED <<catMenu, entry, message, filed, seedLock>>

-------------------------------------------------------------------------------
(* The writes *)

Write(t, ops, new) ==
    /\ task[t].op \in ops /\ task[t].pc = "read"
    /\ entry' = [entry EXCEPT ![task[t].on] = new]
    /\ Finish(t) /\ Rest(<<filed, seedLock>>)
Removed(x) == [entry[x] EXCEPT !.is = "gone"]
WriteCategory(t) == Write(t, {"cat_new", "cat_edit"}, [entry[task[t].on] EXCEPT !.is = IF @ = "gone" THEN @ ELSE "live", !.cat = task[t].cat])
                    /\ UNCHANGED message
DeleteOccurrenceCategory(t) == Write(t, {"cat_drop"}, Removed(task[t].on)) /\ UNCHANGED message
WriteReason(t) == Write(t, {"reason_new", "reason_edit"}, [entry[task[t].on] EXCEPT !.is = IF @ = "gone" THEN @ ELSE "live", !.cat = task[t].cat])
                  /\ UNCHANGED message
DeleteOccurrenceWhatHappened(t) == Write(t, {"reason_drop"}, Removed(task[t].on)) /\ UNCHANGED message
\* idx_occ_process_what_happened decides between two that both passed the check.
Conflict(q) == q.active /\ ActiveFor(q.reason, q.on) # {}
WriteProcess(t) ==
    /\ ~Conflict(task[t])
    /\ Write(t, {"process_new", "process_edit"},
             [entry[task[t].on] EXCEPT !.is = IF @ = "gone" THEN @ ELSE "live", !.cat = task[t].cat,
                                       !.reason = task[t].reason, !.active = task[t].active])
    /\ UNCHANGED message
RefuseProcess(t) ==
    /\ task[t].op \in {"process_new", "process_edit"} /\ task[t].pc = "read" /\ Conflict(task[t])
    /\ Finish(t) /\ Rest(<<entry, message, filed, seedLock>>)
\* The messages go with the process, in one transaction.
DroppedMessages(p) == [message EXCEPT ![p] = 0]
DeleteOccurrenceProcess(t) ==
    /\ Write(t, {"process_drop"}, Removed(task[t].on))
    /\ message' = DroppedMessages(task[t].on)
\* Read, then created or updated; idx_occ_process_msg_stage refuses a second row.
UpsertOccurrenceProcessMessage(t) ==
    LET q == task[t] IN
    /\ q.op = "message" /\ q.pc = "read"
    /\ message' = IF q.saw \/ message[q.on] > 0 THEN message ELSE [message EXCEPT ![q.on] = 1]
    /\ Finish(t) /\ Rest(<<entry, filed, seedLock>>)
CreatePlace(t) == Write(t, {"place_new"}, [NoEntry EXCEPT !.is = "live"]) /\ UNCHANGED message
DeletePlace(t) == Write(t, {"place_drop"}, Removed(task[t].on)) /\ UNCHANGED message

\* A contact or user is given a unit or department (resolveOrgPlacement), or
\* CreateOccurrence: the category asked for, or the one of the reason, or of its process.
suggestedCategory(r, p) ==
    LET c == IF r \in Reasons /\ (r \in Reasons => entry[r].cat # Nil) THEN entry[r].cat ELSE IF p \in Processes THEN entry[p].cat ELSE Nil
    IN IF Exists(c) THEN c ELSE Nil
FileCase(t) ==
    LET q == task[t] IN
    /\ q.op \in {"file", "settle"} /\ q.pc = "read"
    /\ filed' = [filed EXCEPT ![q.on] =
                   [is |-> "live", cat |-> IF q.cat # Nil THEN q.cat ELSE suggestedCategory(q.reason, q.process),
                    reason |-> q.reason, process |-> q.process, place |-> q.place]]
    /\ Finish(t) /\ Rest(<<entry, message, seedLock>>)

-------------------------------------------------------------------------------
(* ensureDefaultOccurrenceProcesses *)

\* findOrCreateWhatHappened, outside the lock: a default reason that is there, or a new one.
FindOrCreateReason(t) ==
    /\ task[t].op = "seed" /\ task[t].pc = "reasons"
    /\ \E r \in Reasons :
        /\ \/ entry[r].is = "live" /\ entry[r].seed
           \/ entry[r].is = "none" /\ \A x \in Reasons : ~(entry[x].is = "live" /\ entry[x].seed)
        /\ entry' = [entry EXCEPT ![r] = [@ EXCEPT !.is = "live", !.seed = TRUE]]
        /\ task' = [task EXCEPT ![t].reason = r, ![t].pc = "lock"]
    /\ Rest(<<message, filed, seedLock>>)
\* Two readers at once may each create the reason: there is no unique index on its name.
CreateReasonAgain(t) ==
    /\ task[t].op = "seed" /\ task[t].pc = "reasons" /\ \E k \in Open \ {t} : task[k].op = "seed"
    /\ \E r \in Reasons :
        /\ entry[r].is = "none"
        /\ entry' = [entry EXCEPT ![r] = [@ EXCEPT !.is = "live", !.seed = TRUE]]
        /\ task' = [task EXCEPT ![t].reason = r, ![t].pc = "lock"]
    /\ Rest(<<message, filed, seedLock>>)
SeedLocked(t) ==
    /\ task[t].op = "seed" /\ task[t].pc = "lock" /\ seedLock = 0
    /\ seedLock' = t
    /\ task' = [task EXCEPT ![t].pc = "insert"]
    /\ Rest(<<entry, message, filed>>)
\* Counted again under the lock, then the processes, the reason's category and the messages.
Unseeded == \A p \in Processes : entry[p].is # "live"
SeedProcesses(t) ==
    LET q == task[t] IN
    /\ q.op = "seed" /\ q.pc = "insert" /\ Unseeded /\ ActiveFor(q.reason, Nil) = {}
    /\ \E p \in Processes, c \in {x \in Categories : entry[x].is = "live"} \cup {Nil} :
        /\ entry[p].is = "none"
        /\ entry' = [entry EXCEPT ![p] = [is |-> "live", cat |-> c, reason |-> q.reason, active |-> TRUE, seed |-> TRUE],
                                  ![q.reason].cat = IF @ = Nil THEN c ELSE @]
        /\ message' = [message EXCEPT ![p] = 1]
    /\ seedLock' = 0 /\ Finish(t) /\ Rest(<<filed>>)
SeedSkips(t) ==
    /\ task[t].op = "seed" /\ task[t].pc = "insert" /\ (~Unseeded \/ ActiveFor(task[t].reason, Nil) # {})
    /\ seedLock' = 0 /\ Finish(t) /\ Rest(<<entry, message, filed>>)

CatalogNext ==
    \E t \in Tasks :
        \/ Ask(t)
        \/ WriteCategory(t) \/ DeleteOccurrenceCategory(t) \/ WriteReason(t) \/ DeleteOccurrenceWhatHappened(t)
        \/ WriteProcess(t) \/ RefuseProcess(t) \/ DeleteOccurrenceProcess(t) \/ UpsertOccurrenceProcessMessage(t)
        \/ CreatePlace(t) \/ DeletePlace(t) \/ FileCase(t)
        \/ FindOrCreateReason(t) \/ CreateReasonAgain(t) \/ SeedLocked(t) \/ SeedProcesses(t) \/ SeedSkips(t)

-------------------------------------------------------------------------------
(* Properties *)

Both(a, b) == \E p \in overlapped : p \cap a # {} /\ p \cap b # {}

\* ResolveOccurrenceProcess takes the first process of a reason: there is never more
\* than one active, whoever creates and edits processes at the same moment.
OneProcessPerReason ==
    \A p \in Processes : entry[p].is = "live" /\ entry[p].active => ActiveFor(entry[p].reason, p) = {}

\* First readers at the same moment seed the default processes once, even when each
\* created its own copy of the reason.
SeededOnce == Cardinality({p \in Processes : entry[p].seed /\ entry[p].is = "live"}) <= 1

\* A subcategory has no subcategories, unless two category requests overlapped.
TwoLevels ==
    ~Both({"cat_new", "cat_edit", "cat_drop"}, {"cat_new", "cat_edit", "cat_drop"}) =>
        \A c \in Categories : entry[c].is = "live" /\ entry[c].cat # Nil =>
            entry[entry[c].cat].is = "live" /\ entry[entry[c].cat].cat = Nil

\* What a case is classified by still exists, unless its removal overlapped the filing.
ClassificationLives ==
    ~Both({"file"}, {"cat_drop", "reason_drop", "process_drop"}) =>
        \A f \in Filed : filed[f].is = "live" =>
            Exists(filed[f].cat) /\ Exists(filed[f].reason) /\ Exists(filed[f].process)

\* A contact's unit or department still exists, unless its removal overlapped the edit
\* that gave it.
PlaceLives ==
    ~Both({"settle"}, {"place_drop"}) => \A f \in Filed : filed[f].is = "live" => Exists(filed[f].place)

\* A removed process leaves no message behind, unless one was being saved meanwhile.
MessagesHaveProcess ==
    ~Both({"process_drop"}, {"message"}) => \A p \in Processes : message[p] > 0 => entry[p].is = "live"
===============================================================================
