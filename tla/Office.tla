--------------------------------- MODULE Office ---------------------------------
(***************************************************************************)
(* The internal tools of the team: the chat channel and the cases.  They   *)
(* share no variable; the runs explore one at a time.                      *)
(***************************************************************************)
EXTENDS TeamChat, Occurrences

VARIABLE focus      \* the tool a behaviour is about
officeVars == <<focus, teamVars, caseVars>>

OfficeInit ==
    /\ focus \in {"team", "cases"}
    /\ IF focus = "team" THEN TeamInit ELSE TeamEnded
    /\ IF focus = "cases" THEN CasesInit ELSE CasesEnded
OfficeNext ==
    \/ focus = "team" /\ TeamNext /\ UNCHANGED <<focus, caseVars>>
    \/ focus = "cases" /\ CasesNext /\ UNCHANGED <<focus, teamVars>>
OfficeSpec == OfficeInit /\ [][OfficeNext]_officeVars /\ TeamFairness /\ CasesFairness

-------------------------------------------------------------------------------
(* Properties *)

\* Rows and requests keep their types: a case has a protocol number only when it exists.
OfficeTypeOK == (focus = "team" => TeamTypeOK) /\ (focus = "cases" => CasesTypeOK)

\* Whatever uploads, deletions and readings overlap: the limits on pending files hold,
\* a file that may be downloaded is on disk, and what is shown as read was read.
TeamChatConsistent == OfficeTypeOK /\ CapsHold /\ FileOnDisk /\ MarkedIsRead

\* Protocol numbers have no gap or double, the pipeline stays usable, and stages, events,
\* files and the summary agree with the case they are about (the handlers of occurrences).
CasesConsistent ==
    ProtocolsDense /\ PipelineUsable /\ StageOfCaseLives /\ MovesAreLogged
        /\ FilesMatchRows /\ SummaryTrue /\ NothingLeftBehind

\* A conversation is only opened to members and keeps its owner, a read marker moves
\* forward, orphaned files are collected, and an overdue case is marked.
OfficeEvolves == OpenToMembers /\ OwnerStays /\ MarkerForward /\ OrphansCollected /\ OverdueIsMarked
===============================================================================
