------------------------------- MODULE TeamChat -------------------------------
(***************************************************************************)
(* One private channel of the team chat: its members, messages, reactions, *)
(* read markers and files.  A request checks access, waits for the channel *)
(* row (FOR SHARE or FOR UPDATE), checks again inside the transaction and  *)
(* commits; deleting, discarding, marking as read and the housekeeping     *)
(* pass take no lock.                                                      *)
(***************************************************************************)
EXTENDS Naturals, FiniteSets

CONSTANTS
    ChatUsers, FirstOwners, FirstMembers,
    Managers,           \* holders of team_chat:manage, delete and join_any
    Files,              \* names an upload may get
    Codes,              \* reactions of the palette
    MaxPending, MaxKinds,
    MaxCalls,           \* requests: a bound
    LastLine,           \* messages of the channel: a bound
    Menus               \* what the requests of one behaviour ask for, who makes them, how many

\* The handlers; "none" is a request that has not come.
ChatOps == {"none", "send", "edit", "delete", "upload", "discard", "react", "unreact", "mark", "add", "remove",
            "role_owner", "role_member", "rename", "archive", "reopen", "join"}

ASSUME ChatAssumption ==
    /\ FirstOwners \cup FirstMembers \cup Managers \subseteq ChatUsers
    /\ FirstOwners # {} /\ FirstOwners \cap FirstMembers = {}
    /\ {MaxPending, MaxKinds, MaxCalls} \subseteq Nat \ {0}
    /\ LastLine \in Nat /\ LastLine > 1
    /\ Codes # {} /\ IsFiniteSet(Codes) /\ IsFiniteSet(Files) /\ "none" \notin Files
    /\ \A m \in Menus : m.ops \subseteq ChatOps \ {"none"} /\ m.by \subseteq ChatUsers

VARIABLES
    menu,
    channel,    \* archived_at and name of the chat_channels row
    role,       \* chat_channel_members; "none" is no row
    joined,     \* the line after which a member counts unread messages
    line,       \* chat_messages by creation time; a "draft" is not committed
    lastLine,   \* lines given out
    marker,     \* chat_reads
    reaction,   \* chat_message_reactions of line 1
    upload,     \* chat_attachments rows
    disk,       \* files of the storage
    aged,       \* files older than every grace period
    call,       \* the requests in progress
    sweep       \* the housekeeping pass and the files it is about to remove

teamVars == <<menu, channel, role, joined, line, lastLine, marker, reaction, upload, disk, aged, call, sweep>>

Calls == 1 .. MaxCalls
Lines == 1 .. LastLine
Roles == {"none", "member", "owner"}
NoFile == "none"
\* ChatMessage, ChatAttachment and a request with what it has read so far.
MessageRow == [by : ChatUsers, kind : {"user", "system"}, is : {"none", "draft", "live", "deleted"}]
FileRow == [is : {"none", "pending", "attached", "purged", "gone"}, by : ChatUsers, of : Lines]
Call == [op : ChatOps, by : ChatUsers, to : ChatUsers, at : 0 .. LastLine, file : Files \cup {NoFile},
         code : Codes, pc : {"new", "wait", "in", "key", "done"}, ok : BOOLEAN]
TeamTypeOK ==
    /\ channel \in [archived : BOOLEAN, name : {"old", "new"}]
    /\ role \in [ChatUsers -> Roles]
    /\ joined \in [ChatUsers -> 0 .. LastLine]
    /\ line \in [Lines -> MessageRow]
    /\ lastLine \in 0 .. LastLine
    /\ marker \in [ChatUsers -> 0 .. LastLine]
    /\ reaction \subseteq ChatUsers \X Codes
    /\ upload \in [Files -> FileRow]
    /\ disk \subseteq Files /\ aged \subseteq Files
    /\ call \in [Calls -> Call]
    /\ sweep \in [pc : {"idle", "pending", "drop", "deleted", "mark", "orphans", "remove"}, files : SUBSET Files]

Members == {u \in ChatUsers : role[u] # "none"}
Owners == {u \in ChatUsers : role[u] = "owner"}
\* CreateChatChannel: the creator owns the channel; lines 1 and 2 are already there.
ChatSetUp(menus) ==
    /\ menu \in menus
    /\ channel = [archived |-> FALSE, name |-> "old"]
    /\ role = [u \in ChatUsers |-> IF u \in FirstOwners THEN "owner" ELSE IF u \in FirstMembers THEN "member" ELSE "none"]
    /\ joined = [u \in ChatUsers |-> 0]
    /\ line = [i \in Lines |-> [by |-> CHOOSE u \in FirstOwners : TRUE, kind |-> "user",
                                is |-> IF i <= 2 THEN "live" ELSE "none"]]
    /\ lastLine = 2
    /\ marker = [u \in ChatUsers |-> 0]
    /\ reaction = {} /\ disk = {} /\ aged = {}
    /\ upload = [f \in Files |-> [is |-> "none", by |-> CHOOSE u \in ChatUsers : TRUE, of |-> 1]]
    /\ call = [c \in Calls |-> [op |-> "none", by |-> CHOOSE u \in ChatUsers : TRUE, to |-> CHOOSE u \in ChatUsers : TRUE,
                                at |-> 0, file |-> NoFile, code |-> CHOOSE k \in Codes : TRUE, pc |-> "new", ok |-> FALSE]]
    /\ sweep = [pc |-> "idle", files |-> {}]
TeamInit == ChatSetUp(Menus)
TeamEnded == ChatSetUp({[ops |-> {}, by |-> {}, calls |-> 0]})

-------------------------------------------------------------------------------
(* Access *)

\* canAccessChatChannelDB, requireComposer, canDeleteChatMessage, chatRecipients
canAccess(u) == role[u] # "none"
requireComposer(u) == role[u] = "owner" \/ u \in Managers
canDelete(u, i) == canAccess(u) /\ line[i].kind = "user" /\ (line[i].by = u \/ u \in Managers)
Recipients == Members
\* chatUnreadCounts: the lines of others above the marker and above the joining.
unreadOf(u) == {i \in Lines : line[i].is = "live" /\ line[i].by # u /\ i > marker[u] /\ i > joined[u]}

\* ListChatMessages and chatAttachmentsFor: what a member sees; DownloadChatAttachment:
\* a pending file is the uploader's alone, a sent one goes with its message.
ListChatMessages(u) == {i \in Lines : canAccess(u) /\ line[i].is = "live"}
chatAttachmentsFor(i) == {f \in Files : upload[f].is = "attached" /\ upload[f].of = i}
DownloadChatAttachment(u, f) ==
    /\ canAccess(u)
    /\ \/ upload[f].is = "pending" /\ upload[f].by = u
       \/ \E i \in ListChatMessages(u) : f \in chatAttachmentsFor(i)

\* The channel lock an operation takes.
Sharing == {"send", "edit", "add", "upload", "react", "unreact"}
Exclusive == {"remove", "role_owner", "role_member", "rename", "archive", "reopen", "join"}
LockMode(op) == IF op \in Sharing THEN "SHARE" ELSE IF op \in Exclusive THEN "UPDATE" ELSE "none"
InTransaction == {c \in Calls : call[c].pc \in {"in", "key"} /\ LockMode(call[c].op) # "none"}
LockFree(c) == \A d \in InTransaction : LockMode(call[c].op) = "SHARE" /\ LockMode(call[d].op) = "SHARE"

Reach(c, pc) == call' = [call EXCEPT ![c].pc = pc]
Keep(vs) == UNCHANGED vs /\ UNCHANGED <<menu>>

-------------------------------------------------------------------------------
(* A request arrives: the checks before the transaction *)

\* chatChannelFor, chatMessageFor and each handler's own early returns.
Arrives(u, op, to, i, f) ==
    CASE op \in {"send", "mark"} -> canAccess(u) /\ (f \in Files => op = "send") /\ i = 0 /\ to = u
      [] op = "edit" -> canAccess(u) /\ i \in Lines /\ line[i].is = "live" /\ line[i].kind = "user" /\ line[i].by = u /\ f = NoFile /\ to = u
      [] op = "delete" -> i \in Lines /\ line[i].is = "live" /\ canDelete(u, i) /\ f = NoFile /\ to = u
      [] op \in {"react", "unreact"} -> canAccess(u) /\ i = 1 /\ line[1].is = "live" /\ f = NoFile /\ to = u
      [] op = "upload" -> canAccess(u) /\ ~channel.archived /\ f \in Files /\ upload[f].is = "none" /\ f \notin disk /\ i = 0 /\ to = u
      [] op = "discard" -> canAccess(u) /\ f \in Files /\ upload[f].is = "pending" /\ upload[f].by = u /\ i = 0 /\ to = u
      [] op = "join" -> u \in Managers /\ i = 0 /\ f = NoFile /\ to = u
      [] op \in {"rename", "archive", "reopen"} -> i = 0 /\ f = NoFile /\ to = u
      [] OTHER -> i = 0 /\ f = NoFile
Marking(u) == \E c \in Calls : call[c].op = "mark" /\ call[c].by = u /\ call[c].pc # "done"
\* UploadChatAttachment writes the file before its row.  For a marking, ok records
\* that no other one of the same person was in progress.
Arrive(c) ==
    /\ c <= menu.calls /\ call[c].pc = "new" /\ \A d \in Calls : d < c => call[d].pc # "new"
    /\ \E u \in menu.by, to \in ChatUsers, op \in menu.ops, i \in 0 .. LastLine, f \in Files \cup {NoFile}, k \in Codes :
        /\ Arrives(u, op, to, i, f)
        /\ op \in {"react", "unreact"} \/ k = CHOOSE x \in Codes : TRUE
        /\ call' = [call EXCEPT ![c] = [op |-> op, by |-> u, to |-> to, at |-> i, file |-> f, code |-> k,
                                        pc |-> "wait", ok |-> op = "mark" /\ ~Marking(u)]]
        /\ disk' = IF op = "upload" THEN disk \cup {f} ELSE disk
    /\ Keep(<<channel, role, joined, line, lastLine, marker, reaction, upload, aged, sweep>>)

-------------------------------------------------------------------------------
(* Inside the transaction *)

\* What a handler checks again once it holds the channel row.
Rechecked_Trusted(q) == ~channel.archived \/ q.op \in {"remove", "reopen"}
Rechecked(q) ==
    LET writes == canAccess(q.by) /\ ~channel.archived
    IN CASE q.op \in {"send", "edit", "upload"} -> writes
         [] q.op \in {"react", "unreact"} -> writes /\ line[q.at].is = "live"
         [] q.op = "add" -> requireComposer(q.by) /\ q.to # q.by /\ ~channel.archived /\ role[q.to] = "none"
         [] q.op = "remove" -> /\ role[q.to] # "none"
                               /\ IF q.to = q.by THEN Owners # {q.by} ELSE requireComposer(q.by)
         [] q.op = "role_owner" -> requireComposer(q.by) /\ ~channel.archived /\ role[q.to] = "member"
         [] q.op = "role_member" -> /\ requireComposer(q.by) /\ ~channel.archived /\ role[q.to] = "owner"
                                    /\ ~(q.to = q.by /\ Owners = {q.by})
         [] q.op = "rename" -> requireComposer(q.by) /\ ~channel.archived /\ channel.name # "new"
         [] q.op = "archive" -> requireComposer(q.by) /\ ~channel.archived
         [] q.op = "reopen" -> q.by \in Managers /\ channel.archived
         [] q.op = "join" -> ~channel.archived /\ role[q.by] = "none"
         [] OTHER -> FALSE
\* A new message, of the caller or of the change the call makes (recordChatChange),
\* gets its creation time here and is visible after the commit.
Writes(op) == op \in {"send", "add"} \cup Exclusive
Enter(c) ==
    LET q == call[c] IN
    /\ q.pc = "wait" /\ LockMode(q.op) # "none" /\ LockFree(c) /\ Rechecked(q)
    /\ IF Writes(q.op)
       THEN /\ lastLine < LastLine
            /\ lastLine' = lastLine + 1
            /\ line' = [line EXCEPT ![lastLine + 1] =
                          [by |-> q.by, kind |-> IF q.op = "send" THEN "user" ELSE "system", is |-> "draft"]]
            /\ call' = [call EXCEPT ![c].pc = "in", ![c].ok = TRUE, ![c].at = lastLine + 1]
       ELSE call' = [call EXCEPT ![c].pc = "in", ![c].ok = TRUE] /\ UNCHANGED <<line, lastLine>>
    /\ Keep(<<channel, role, joined, marker, reaction, upload, disk, aged, sweep>>)

\* lockChatKey: uploads of one person, reactions to one message.  The count is
\* read under the key.
Pending(u) == {f \in Files : upload[f].is = "pending" /\ upload[f].by = u}
Kinds == {r[2] : r \in reaction}
Keyed == {"upload", "react"}
KeyFree(q) == \A d \in Calls : ~(call[d].pc = "key" /\ call[d].op = q.op /\ (q.op = "upload" => call[d].by = q.by))
TakeKey(c) ==
    LET q == call[c] IN
    /\ q.pc = "in" /\ q.op \in Keyed /\ q.ok /\ KeyFree(q)
    /\ call' = [call EXCEPT ![c].pc = "key",
                            ![c].ok = IF q.op = "upload" THEN Cardinality(Pending(q.by)) < MaxPending
                                      ELSE q.code \in Kinds \/ Cardinality(Kinds) < MaxKinds]
    /\ Keep(<<channel, role, joined, line, lastLine, marker, reaction, upload, disk, aged, sweep>>)

\* attachPendingFiles: one conditional update; a file that is gone aborts the send.
attachPendingFiles(q) == q.file \in Files => upload[q.file].is = "pending" /\ upload[q.file].by = q.by
Committing(c, op) == call[c].pc = (IF op \in Keyed THEN "key" ELSE "in") /\ call[c].op = op /\ call[c].ok
Visible(q) == line' = [line EXCEPT ![q.at].is = "live"]

CommitSend(c) ==
    LET q == call[c] IN
    /\ Committing(c, "send") /\ attachPendingFiles(q)
    /\ Visible(q) /\ Reach(c, "done")
    /\ upload' = IF q.file = NoFile THEN upload
                 ELSE [upload EXCEPT ![q.file].is = "attached", ![q.file].of = q.at]
    /\ Keep(<<channel, role, joined, lastLine, marker, reaction, disk, aged, sweep>>)
CommitEdit(c) ==
    /\ Committing(c, "edit") /\ Reach(c, "done")
    /\ Keep(<<channel, role, joined, line, lastLine, marker, reaction, upload, disk, aged, sweep>>)
CommitUpload(c) ==
    LET q == call[c] IN
    /\ Committing(c, "upload") /\ Reach(c, "done")
    /\ upload' = [upload EXCEPT ![q.file].is = "pending", ![q.file].by = q.by]
    /\ Keep(<<channel, role, joined, line, lastLine, marker, reaction, disk, aged, sweep>>)
CommitReact(c) ==
    /\ Committing(c, "react") /\ Reach(c, "done")
    /\ reaction' = reaction \cup {<<call[c].by, call[c].code>>}
    /\ Keep(<<channel, role, joined, line, lastLine, marker, upload, disk, aged, sweep>>)
CommitUnreact(c) ==
    /\ Committing(c, "unreact") /\ Reach(c, "done")
    /\ reaction' = reaction \ {<<call[c].by, call[c].code>>}
    /\ Keep(<<channel, role, joined, line, lastLine, marker, upload, disk, aged, sweep>>)

\* The member row is unique: the loser of two additions is refused.
CommitMember(c, op, u, r) ==
    /\ Committing(c, op)
    /\ op = "add" => role[u] = "none"
    /\ role' = [role EXCEPT ![u] = r]
    /\ joined' = IF role[u] = "none" THEN [joined EXCEPT ![u] = lastLine] ELSE joined
    /\ Visible(call[c]) /\ Reach(c, "done")
    /\ Keep(<<channel, lastLine, marker, reaction, upload, disk, aged, sweep>>)
AddChatChannelMember(c) == CommitMember(c, "add", call[c].to, "member")
removeChatMember(c) == CommitMember(c, "remove", call[c].to, "none")
SetChatMemberRole(c) == CommitMember(c, "role_owner", call[c].to, "owner") \/ CommitMember(c, "role_member", call[c].to, "member")
JoinChatChannel(c) == CommitMember(c, "join", call[c].by, "member")

CommitChannel(c, op, ch) ==
    /\ Committing(c, op)
    /\ channel' = ch
    /\ Visible(call[c]) /\ Reach(c, "done")
    /\ Keep(<<role, joined, lastLine, marker, reaction, upload, disk, aged, sweep>>)
RenameChatChannel(c) == CommitChannel(c, "rename", [channel EXCEPT !.name = "new"])
setChatArchived(c) == \/ CommitChannel(c, "archive", [channel EXCEPT !.archived = TRUE])
                      \/ CommitChannel(c, "reopen", [channel EXCEPT !.archived = FALSE])

\* Refused, or rolled back: an upload takes its file away again.
Refuse(c) ==
    LET q == call[c] IN
    /\ LockMode(q.op) # "none"
    /\ \/ q.pc = "wait" /\ LockFree(c) /\ ~Rechecked(q)
       \/ q.pc = "key" /\ ~q.ok
       \/ q.op = "send" /\ q.pc = "in" /\ ~attachPendingFiles(q)
       \/ q.op = "add" /\ q.pc = "in" /\ role[q.to] # "none"
    /\ Reach(c, "done")
    /\ line' = IF q.pc = "in" /\ Writes(q.op) THEN [line EXCEPT ![q.at].is = "none"] ELSE line
    /\ disk' = IF q.op = "upload" THEN disk \ {q.file} ELSE disk
    /\ Keep(<<channel, role, joined, lastLine, marker, reaction, upload, aged, sweep>>)

-------------------------------------------------------------------------------
(* Requests without the channel lock *)

\* DeleteChatMessage: on the message as it was read.
DeleteChatMessage(c) ==
    LET q == call[c] IN
    /\ q.op = "delete" /\ q.pc = "wait"
    /\ line' = [line EXCEPT ![q.at].is = "deleted"]
    /\ Reach(c, "done")
    /\ Keep(<<channel, role, joined, lastLine, marker, reaction, upload, disk, aged, sweep>>)
\* DeleteChatAttachment: the row, if it is still pending, then the file.
DiscardRow(c) ==
    LET q == call[c] IN
    /\ q.op = "discard" /\ q.pc = "wait"
    /\ IF upload[q.file].is = "pending"
       THEN upload' = [upload EXCEPT ![q.file].is = "gone"] /\ Reach(c, "in")
       ELSE UNCHANGED upload /\ Reach(c, "done")
    /\ Keep(<<channel, role, joined, line, lastLine, marker, reaction, disk, aged, sweep>>)
DiscardFile(c) ==
    LET q == call[c] IN
    /\ q.op = "discard" /\ q.pc = "in"
    /\ disk' = disk \ {q.file} /\ aged' = aged \ {q.file} /\ Reach(c, "done")
    /\ Keep(<<channel, role, joined, line, lastLine, marker, reaction, upload, sweep>>)
\* MarkChatChannelRead: the latest message, the marker's row, the write.
Latest == {i \in Lines : line[i].is = "live" /\ \A j \in Lines : line[j].is = "live" => j <= i}
ReadLatest(c) ==
    /\ call[c].op = "mark" /\ call[c].pc = "wait" /\ Latest # {}
    /\ call' = [call EXCEPT ![c].pc = "in", ![c].at = CHOOSE i \in Latest : TRUE]
    /\ Keep(<<channel, role, joined, line, lastLine, marker, reaction, upload, disk, aged, sweep>>)
Behind(q) == marker[q.by] >= q.at
CompareMarker(c) ==
    /\ call[c].op = "mark" /\ call[c].pc = "in"
    /\ Reach(c, IF Behind(call[c]) THEN "done" ELSE "key")
    /\ Keep(<<channel, role, joined, line, lastLine, marker, reaction, upload, disk, aged, sweep>>)
Marked(q) == q.at
WriteMarker(c) ==
    /\ call[c].op = "mark" /\ call[c].pc = "key"
    /\ marker' = [marker EXCEPT ![call[c].by] = Marked(call[c])]
    /\ Reach(c, "done")
    /\ Keep(<<channel, role, joined, line, lastLine, reaction, upload, disk, aged, sweep>>)

-------------------------------------------------------------------------------
(* CleanupChatAttachments: abandoned uploads, files of deleted messages, files *)
(* without a row.  A file is old only when no request is still storing it.     *)

GrowOld(f) ==
    /\ f \in disk \ aged
    /\ \A c \in Calls : call[c].file = f => call[c].pc = "done"
    /\ aged' = aged \cup {f}
    /\ Keep(<<channel, role, joined, line, lastLine, marker, reaction, upload, disk, call, sweep>>)

Pass(pc, fs) == sweep' = [pc |-> pc, files |-> fs]
SelectPending ==
    /\ sweep.pc = "idle" /\ disk # {}
    /\ Pass("pending", {f \in aged : upload[f].is = "pending"})
    /\ Keep(<<channel, role, joined, line, lastLine, marker, reaction, upload, disk, aged, call>>)
\* DELETE ... WHERE id IN (selected) AND message_id IS NULL RETURNING
Returned_Selected(gone) == sweep.files
Returned(gone) == gone
DeletePending ==
    LET gone == {f \in sweep.files : upload[f].is = "pending"} IN
    /\ sweep.pc = "pending"
    /\ upload' = [f \in Files |-> IF f \in gone THEN [upload[f] EXCEPT !.is = "gone"] ELSE upload[f]]
    /\ Pass("drop", Returned(gone))
    /\ Keep(<<channel, role, joined, line, lastLine, marker, reaction, disk, aged, call>>)
\* A file that cannot be removed stays for the third part.
DropPending(kept) ==
    /\ sweep.pc = "drop" /\ kept \subseteq sweep.files
    /\ disk' = disk \ (sweep.files \ kept)
    /\ aged' = aged \ (sweep.files \ kept)
    /\ Pass("deleted", {})
    /\ Keep(<<channel, role, joined, line, lastLine, marker, reaction, upload, call>>)
RemoveDeleted ==
    LET old == {f \in aged : upload[f].is = "attached" /\ line[upload[f].of].is = "deleted"} IN
    /\ sweep.pc = "deleted"
    /\ disk' = disk \ old /\ aged' = aged \ old
    /\ Pass("mark", old)
    /\ Keep(<<channel, role, joined, line, lastLine, marker, reaction, upload, call>>)
MarkPurged ==
    /\ sweep.pc = "mark"
    /\ upload' = [f \in Files |-> IF f \in sweep.files THEN [upload[f] EXCEPT !.is = "purged"] ELSE upload[f]]
    /\ Pass("orphans", aged)
    /\ Keep(<<channel, role, joined, line, lastLine, marker, reaction, disk, aged, call>>)
\* The lookup of the rows; when it fails the batch is left alone.
LookUp(fs) == {f \in fs : upload[f].is \in {"none", "gone"}}
FindOrphans(works) ==
    /\ sweep.pc = "orphans"
    /\ Pass("remove", IF works THEN LookUp(sweep.files) ELSE {})
    /\ Keep(<<channel, role, joined, line, lastLine, marker, reaction, upload, disk, aged, call>>)
RemoveOrphans ==
    /\ sweep.pc = "remove"
    /\ disk' = disk \ sweep.files /\ aged' = aged \ sweep.files
    /\ Pass("idle", {})
    /\ Keep(<<channel, role, joined, line, lastLine, marker, reaction, upload, call>>)
Cleanup == \/ SelectPending \/ DeletePending \/ DropPending({}) \/ RemoveDeleted \/ MarkPurged
           \/ FindOrphans(TRUE) \/ RemoveOrphans

\* The server stops: open transactions roll back, nobody gets an answer, and the
\* files written stay.
Crash ==
    /\ \E c \in Calls : call[c].pc \in {"wait", "in", "key"} /\ call[c].op \in {"upload", "discard"}
    /\ call' = [c \in Calls |-> IF call[c].pc = "new" THEN call[c] ELSE [call[c] EXCEPT !.pc = "done", !.ok = FALSE]]
    /\ line' = [i \in Lines |-> IF line[i].is = "draft" THEN [line[i] EXCEPT !.is = "none"] ELSE line[i]]
    /\ Pass("idle", {})
    /\ Keep(<<channel, role, joined, lastLine, marker, reaction, upload, disk, aged>>)

Serve(c) ==
    \/ Enter(c) \/ TakeKey(c) \/ Refuse(c)
    \/ CommitSend(c) \/ CommitEdit(c) \/ CommitUpload(c) \/ CommitReact(c) \/ CommitUnreact(c)
    \/ AddChatChannelMember(c) \/ removeChatMember(c) \/ SetChatMemberRole(c) \/ JoinChatChannel(c)
    \/ RenameChatChannel(c) \/ setChatArchived(c)
    \/ DeleteChatMessage(c) \/ DiscardRow(c) \/ DiscardFile(c)
    \/ ReadLatest(c) \/ CompareMarker(c) \/ WriteMarker(c)
TeamNext ==
    \/ \E c \in Calls : Arrive(c) \/ Serve(c)
    \/ \E f \in Files : GrowOld(f)
    \/ Cleanup \/ FindOrphans(FALSE) \/ (\E kept \in SUBSET Files : DropPending(kept))
    \/ Crash

\* RunChatAttachmentCleanup repeats, time passes and a request is served to its end.
TeamFairness ==
    /\ \A c \in Calls : WF_teamVars(Serve(c))
    /\ \A f \in Files : WF_teamVars(GrowOld(f))
    /\ WF_teamVars(Cleanup) /\ SF_teamVars(FindOrphans(TRUE))

-------------------------------------------------------------------------------
(* Properties *)

\* A message, an edit, a file or a reaction is committed only while its author is
\* a member and the channel is open, whatever was true when the request arrived
\* ("a message either lands before the archive or is refused", SendChatMessage).
OpenToMembers ==
    [][\A c \in Calls : call[c].op \in {"send", "edit", "upload", "react", "unreact"} /\ call[c].ok
                        /\ call[c].pc \in {"in", "key"} /\ call'[c].pc = "done" /\ call'[c].ok
                        /\ (line' # line \/ upload' # upload \/ reaction' # reaction)
                        => canAccess(call[c].by) /\ ~channel.archived]_teamVars

\* The channel loses its last owner only by what someone with team_chat:manage does
\* to somebody else; owners leaving or stepping down at the same moment do not do it.
OwnerStays ==
    [][Owners # {} /\ Owners' = {} =>
        \E c \in Calls : /\ call[c].op \in {"remove", "role_member"}
                         /\ call[c].by \in Managers /\ call[c].to # call[c].by /\ call'[c] # call[c]]_teamVars

\* Parallel uploads and reactions stay within chatMaxPending and chatMaxReactionKinds.
CapsHold == /\ \A u \in ChatUsers : Cardinality(Pending(u)) <= MaxPending
            /\ Cardinality(Kinds) <= MaxKinds

\* A file that a person can still send or open is on the disk, whatever the pass,
\* a discard and a send do at the same moment.
FileOnDisk == \A u \in ChatUsers, f \in Files : DownloadChatAttachment(u, f) => f \in disk

Alone(c) == call[c].ok /\ \A d \in Calls : d > c => call[d].op # "mark" \/ call[d].by # call[c].by
\* The read marker moves back only when two requests of the same person overlap:
\* a deleted latest message alone never makes read messages unread.
MarkerForward ==
    [][\A u \in ChatUsers : marker'[u] < marker[u] =>
        \E c \in Calls : call[c].op = "mark" /\ call[c].by = u /\ call[c].pc # "done" /\ ~Alone(c)]_teamVars

\* The answer "unread_count: 0" is true: after a marking that no other marking of
\* the same person overlapped, nothing it had seen counts as unread.
MarkedIsRead ==
    \A c \in Calls : call[c].op = "mark" /\ call[c].pc = "done" /\ Alone(c) =>
        \A i \in unreadOf(call[c].by) : i > call[c].at

Orphan(f) == f \in disk /\ upload[f].is \in {"none", "gone"}
\* A file without a row (a crash, a failed removal) is eventually taken away.
OrphansCollected ==
    (\E f \in Files : Orphan(f)) ~> (\A f \in Files : ~Orphan(f))
===============================================================================
