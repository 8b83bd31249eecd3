------------------------------ MODULE OfficeProofs ------------------------------
(***************************************************************************)
(* Proofs about the tools of the team: TeamChat, for any people, files,    *)
(* reactions and requests, and Occurrences, for any cases, stages,         *)
(* documents and requests.                                                 *)
(***************************************************************************)
EXTENDS Office, FiniteSetTheorems, TLAPS

-------------------------------------------------------------------------------
(* TeamChat: the inductive invariant *)

\* A request in progress.
Serving(c) == call[c].pc \notin {"new", "done"}
MenuOK == menu.ops \subseteq ChatOps \ {"none"} /\ menu.by \subseteq ChatUsers

\* Nothing is given out beyond lastLine; who is writing has a draft of its own, and a
\* deletion is about a message that was live.
LinesKept ==
    /\ \A i \in Lines : i > lastLine => line[i].is = "none"
    /\ \A c \in Calls : call[c].pc = "in" /\ Writes(call[c].op) =>
         call[c].at \in Lines /\ line[call[c].at].is = "draft"
    /\ \A c, d \in Calls :
         /\ call[c].pc = "in" /\ Writes(call[c].op) /\ call[d].pc = "in" /\ Writes(call[d].op)
         /\ call[c].at = call[d].at
         => c = d
    /\ \A c \in Calls : call[c].op = "delete" /\ Serving(c) =>
         call[c].at \in Lines /\ line[call[c].at].is \in {"live", "deleted"}

\* A file that is being uploaded is on the disk, is nobody else's and not yet a row.
Uploading(f) == \E c \in Calls : call[c].op = "upload" /\ Serving(c) /\ call[c].file = f
FilesInUse ==
    /\ \A c \in Calls : call[c].op \in {"upload", "discard"} => call[c].file \in Files
    /\ \A c, d \in Calls :
         /\ call[c].op = "upload" /\ Serving(c) /\ call[d].op = "upload" /\ Serving(d)
         /\ call[c].file = call[d].file
         => c = d
    /\ \A f \in Files : Uploading(f) => upload[f].is = "none" /\ f \in disk /\ f \notin aged
    /\ \A c \in Calls : call[c].op = "discard" /\ call[c].pc = "in" => upload[call[c].file].is = "gone"

\* What the housekeeping pass holds between its steps.
SweepTrue ==
    /\ aged \subseteq disk
    /\ sweep.pc = "drop" => \A f \in sweep.files : upload[f].is = "gone"
    /\ sweep.pc = "mark" => \A f \in sweep.files :
         upload[f].is = "attached" /\ line[upload[f].of].is = "deleted"
    /\ sweep.pc \in {"orphans", "remove"} => \A f \in sweep.files :
         upload[f].is = "none" => f \in disk /\ ~Uploading(f)
    /\ sweep.pc = "remove" => \A f \in sweep.files : upload[f].is \in {"none", "gone"}

FilesStored ==
    /\ \A f \in Files : upload[f].is = "pending" => f \in disk
    /\ \A f \in Files : upload[f].is = "attached" =>
         /\ line[upload[f].of].is \in {"live", "deleted"}
         /\ line[upload[f].of].is = "live" => f \in disk

\* The counts that were read under the key still hold.
CapsKept ==
    /\ CapsHold
    /\ \A c \in Calls, u \in ChatUsers :
         call[c].op = "upload" /\ call[c].by = u /\ call[c].pc = "key" /\ call[c].ok =>
         Cardinality(Pending(u)) < MaxPending
    /\ \A c \in Calls : call[c].op = "react" /\ call[c].pc = "key" /\ call[c].ok =>
         Cardinality(Kinds \cup {call[c].code}) <= MaxKinds
    /\ \A c, d \in Calls :
         /\ call[c].op \in Keyed /\ call[c].pc = "key" /\ call[d].op = call[c].op /\ call[d].pc = "key"
         /\ call[c].op = "upload" => call[d].by = call[c].by
         => c = d

\* Requests arrive in their order; a marking that nobody overlapped finds the marker as it
\* left it.
Alike(c, d) == call[c].op = "mark" /\ call[d].op = "mark" /\ call[c].by = call[d].by
MarksKept ==
    /\ \A c, d \in Calls : d < c /\ call[c].pc # "new" => call[d].pc # "new"
    /\ \A c \in Calls : call[c].pc = "new" => call[c].op = "none"
    /\ \A c, d \in Calls : Alike(c, d) /\ call[c].ok /\ d < c => call[d].pc = "done"
    /\ \A c \in Calls : call[c].op = "mark" /\ Alone(c) =>
         /\ call[c].pc = "key" => marker[call[c].by] < call[c].at
         /\ call[c].pc = "done" => marker[call[c].by] >= call[c].at

\* Whoever changes the channel has its row alone, and what was checked under the lock
\* stays true.
LocksKept ==
    /\ \A c, d \in InTransaction : c # d =>
         LockMode(call[c].op) = "SHARE" /\ LockMode(call[d].op) = "SHARE"
    /\ \A c \in InTransaction :
         /\ call[c].op \in Exclusive => Rechecked(call[c])
         /\ call[c].op \in Sharing \ {"add"} => canAccess(call[c].by) /\ ~channel.archived

TeamInv ==
    /\ MenuOK /\ TeamTypeOK /\ LinesKept /\ FilesInUse /\ SweepTrue /\ FilesStored
    /\ CapsKept /\ MarksKept /\ LocksKept

-------------------------------------------------------------------------------
(* TeamChat: what a step does to the requests *)

OnlyCall(c) == \A d \in Calls : d # c => call'[d] = call[d]
SameRequest(c) ==
    /\ call'[c].op = call[c].op /\ call'[c].by = call[c].by /\ call'[c].to = call[c].to
    /\ call'[c].file = call[c].file /\ call'[c].code = call[c].code
SameAnswer(c) == call'[c].at = call[c].at /\ call'[c].ok = call[c].ok

LEMMA ChatNumbers ==
  /\ LastLine \in Nat /\ LastLine > 1 /\ MaxCalls \in Nat \ {0}
  /\ MaxPending \in Nat \ {0} /\ MaxKinds \in Nat \ {0}
  /\ IsFiniteSet(Codes) /\ IsFiniteSet(Files) /\ NoFile \notin Files
  BY ChatAssumption DEF NoFile

\* Reaching a program point changes nothing else of the request.
LEMMA ReachEffect ==
  ASSUME TeamTypeOK, NEW c \in Calls, NEW pc \in {"new", "wait", "in", "key", "done"}, Reach(c, pc)
  PROVE  /\ call' \in [Calls -> Call] /\ OnlyCall(c) /\ SameRequest(c) /\ SameAnswer(c)
         /\ call'[c].pc = pc
  <1>1. call \in [Calls -> Call] /\ call[c] \in Call
    BY DEF TeamTypeOK
  <1> DEFINE new == [call[c] EXCEPT !.pc = pc]
  <1>2. /\ new \in Call /\ new.pc = pc /\ new.op = call[c].op /\ new.by = call[c].by
        /\ new.to = call[c].to /\ new.file = call[c].file /\ new.code = call[c].code
        /\ new.at = call[c].at /\ new.ok = call[c].ok
    BY <1>1 DEF Call
  <1>3. call' = [call EXCEPT ![c] = new]
    BY <1>1 DEF Reach
  <1> HIDE DEF new
  <1> QED BY <1>1, <1>2, <1>3 DEF OnlyCall, SameRequest, SameAnswer

\* The steps that only bring the request to another program point.
Ends(c) ==
    \/ CommitSend(c) \/ CommitEdit(c) \/ CommitUpload(c) \/ CommitReact(c) \/ CommitUnreact(c)
    \/ AddChatChannelMember(c) \/ removeChatMember(c) \/ SetChatMemberRole(c) \/ JoinChatChannel(c)
    \/ RenameChatChannel(c) \/ setChatArchived(c) \/ Refuse(c) \/ DeleteChatMessage(c)
    \/ DiscardFile(c) \/ WriteMarker(c)

LEMMA EndsEffect ==
  ASSUME TeamTypeOK, NEW c \in Calls, Ends(c)
  PROVE  /\ call' \in [Calls -> Call] /\ OnlyCall(c) /\ SameRequest(c) /\ SameAnswer(c)
         /\ call'[c].pc = "done" /\ Serving(c) /\ UNCHANGED menu
  <1>1. Reach(c, "done") /\ Serving(c) /\ UNCHANGED menu
    BY DEF Ends, CommitSend, CommitEdit, CommitUpload, CommitReact, CommitUnreact,
           AddChatChannelMember, removeChatMember, SetChatMemberRole, JoinChatChannel, CommitMember,
           RenameChatChannel, setChatArchived, CommitChannel, Refuse, DeleteChatMessage,
           DiscardFile, WriteMarker, Committing, Keyed, Serving, Keep
  <1> QED BY <1>1, ReachEffect

\* The row first: the file follows only if the upload was still pending.
LEMMA DiscardRowEffect ==
  ASSUME TeamTypeOK, NEW c \in Calls, DiscardRow(c)
  PROVE  /\ call' \in [Calls -> Call] /\ OnlyCall(c) /\ SameRequest(c) /\ SameAnswer(c)
         /\ call'[c].pc = (IF upload[call[c].file].is = "pending" THEN "in" ELSE "done")
         /\ Serving(c) /\ UNCHANGED menu
  BY ReachEffect DEF DiscardRow, Serving, Keep

\* A marking compares before it writes.
LEMMA CompareMarkerEffect ==
  ASSUME TeamTypeOK, NEW c \in Calls, CompareMarker(c)
  PROVE  /\ call' \in [Calls -> Call] /\ OnlyCall(c) /\ SameRequest(c) /\ SameAnswer(c)
         /\ call'[c].pc = (IF Behind(call[c]) THEN "done" ELSE "key")
         /\ Serving(c) /\ UNCHANGED menu
  BY ReachEffect DEF CompareMarker, Serving, Keep

LEMMA ReadLatestEffect ==
  ASSUME TeamTypeOK, NEW c \in Calls, ReadLatest(c)
  PROVE  /\ call' \in [Calls -> Call] /\ OnlyCall(c) /\ SameRequest(c)
         /\ call'[c].pc = "in" /\ call'[c].ok = call[c].ok /\ Serving(c) /\ UNCHANGED menu
  <1>1. call \in [Calls -> Call] /\ call[c] \in Call
    BY DEF TeamTypeOK
  <1>2. PICK i \in Lines : call' = [call EXCEPT ![c].pc = "in", ![c].at = i]
    BY DEF ReadLatest, Latest
  <1> DEFINE new == [call[c] EXCEPT !.pc = "in", !.at = i]
  <1>3. i \in 0 .. LastLine
    BY ChatNumbers DEF Lines
  <1>4. /\ new \in Call /\ new.pc = "in" /\ new.op = call[c].op /\ new.by = call[c].by
        /\ new.to = call[c].to /\ new.file = call[c].file /\ new.code = call[c].code
        /\ new.ok = call[c].ok
    BY <1>1, <1>3 DEF Call
  <1>5. call' = [call EXCEPT ![c] = new]
    BY <1>1, <1>2
  <1>6. Serving(c) /\ UNCHANGED menu
    BY DEF ReadLatest, Serving, Keep
  <1> HIDE DEF new
  <1> QED BY <1>1, <1>4, <1>5, <1>6 DEF OnlyCall, SameRequest

\* A transaction begins; the message it will show gets its line.
LEMMA EnterEffect ==
  ASSUME TeamTypeOK, NEW c \in Calls, Enter(c)
  PROVE  /\ call' \in [Calls -> Call] /\ OnlyCall(c) /\ SameRequest(c)
         /\ call[c].pc = "wait" /\ call'[c].pc = "in" /\ call'[c].ok = TRUE /\ UNCHANGED menu
         /\ IF Writes(call[c].op)
            THEN /\ call'[c].at = lastLine + 1 /\ lastLine' = lastLine + 1 /\ lastLine + 1 \in Lines
                 /\ line' = [line EXCEPT ![lastLine + 1] =
                              [by |-> call[c].by,
                               kind |-> IF call[c].op = "send" THEN "user" ELSE "system", is |-> "draft"]]
            ELSE call'[c].at = call[c].at /\ UNCHANGED <<line, lastLine>>
  <1>1. call \in [Calls -> Call] /\ call[c] \in Call /\ lastLine \in 0 .. LastLine
    BY DEF TeamTypeOK
  <1> DEFINE i == IF Writes(call[c].op) THEN lastLine + 1 ELSE call[c].at
             new == [call[c] EXCEPT !.pc = "in", !.ok = TRUE, !.at = i]
  <1>2. i \in 0 .. LastLine /\ (Writes(call[c].op) => i \in Lines)
    <2>1. CASE Writes(call[c].op)
      BY <1>1, <2>1, ChatNumbers DEF Enter, Lines
    <2>2. CASE ~Writes(call[c].op)
      BY <1>1, <2>2 DEF Call
    <2> QED BY <2>1, <2>2
  <1> HIDE DEF i
  <1>3. /\ new \in Call /\ new.pc = "in" /\ new.op = call[c].op /\ new.by = call[c].by
        /\ new.to = call[c].to /\ new.file = call[c].file /\ new.code = call[c].code
        /\ new.ok = TRUE /\ new.at = i
    BY <1>1, <1>2 DEF Call
  <1>4. call' = [call EXCEPT ![c] = new]
    <2>1. CASE Writes(call[c].op)
      BY <1>1, <2>1 DEF Enter, i
    <2>2. CASE ~Writes(call[c].op)
      <3>1. call' = [call EXCEPT ![c].pc = "in", ![c].ok = TRUE]
        BY <2>2 DEF Enter
      <3>2. [call[c] EXCEPT !.pc = "in", !.ok = TRUE] = [call[c] EXCEPT !.pc = "in", !.ok = TRUE, !.at = call[c].at]
        BY <1>1 DEF Call
      <3> QED BY <1>1, <2>2, <3>1, <3>2 DEF i
    <2> QED BY <2>1, <2>2
  <1>5. /\ call' \in [Calls -> Call] /\ OnlyCall(c) /\ SameRequest(c)
        /\ call'[c].pc = "in" /\ call'[c].ok = TRUE /\ call'[c].at = i
    <2> HIDE DEF new
    <2> QED BY <1>1, <1>3, <1>4 DEF OnlyCall, SameRequest
  <1>6. call[c].pc = "wait" /\ UNCHANGED menu
    BY DEF Enter, Keep
  <1> QED BY <1>2, <1>5, <1>6 DEF Enter, i

LEMMA TakeKeyEffect ==
  ASSUME TeamTypeOK, NEW c \in Calls, TakeKey(c)
  PROVE  /\ call' \in [Calls -> Call] /\ OnlyCall(c) /\ SameRequest(c)
         /\ call[c].pc = "in" /\ call[c].op \in Keyed /\ KeyFree(call[c]) /\ UNCHANGED menu
         /\ call'[c].pc = "key" /\ call'[c].at = call[c].at
         /\ call'[c].ok = (IF call[c].op = "upload" THEN Cardinality(Pending(call[c].by)) < MaxPending
                           ELSE call[c].code \in Kinds \/ Cardinality(Kinds) < MaxKinds)
  <1>1. call \in [Calls -> Call] /\ call[c] \in Call
    BY DEF TeamTypeOK
  <1> DEFINE fits == IF call[c].op = "upload" THEN Cardinality(Pending(call[c].by)) < MaxPending
                     ELSE call[c].code \in Kinds \/ Cardinality(Kinds) < MaxKinds
  <1>2. fits \in BOOLEAN
    <2>1. CASE call[c].op = "upload"
      <3>1. (Cardinality(Pending(call[c].by)) < MaxPending) \in BOOLEAN
        OBVIOUS
      <3> QED BY <2>1, <3>1
    <2>2. CASE call[c].op # "upload"
      <3>1. (call[c].code \in Kinds \/ Cardinality(Kinds) < MaxKinds) \in BOOLEAN
        OBVIOUS
      <3> QED BY <2>2, <3>1
    <2> QED BY <2>1, <2>2
  <1> DEFINE ok == fits
  <1>3. call' = [call EXCEPT ![c].pc = "key", ![c].ok = ok]
    BY DEF TakeKey
  <1> HIDE DEF ok
  <1> DEFINE new == [call[c] EXCEPT !.pc = "key", !.ok = ok]
  <1>4. /\ new \in Call /\ new.pc = "key" /\ new.op = call[c].op /\ new.by = call[c].by
        /\ new.to = call[c].to /\ new.file = call[c].file /\ new.code = call[c].code
        /\ new.at = call[c].at /\ new.ok = ok
    <2>1. ok \in BOOLEAN
      BY <1>2 DEF ok
    <2> HIDE DEF fits
    <2> QED BY <1>1, <2>1 DEF Call
  <1>5. call' = [call EXCEPT ![c] = new]
    BY <1>1, <1>3
  <1>6. call[c].pc = "in" /\ call[c].op \in Keyed
 /\ KeyFree(call[c]) /\ UNCHANGED menu
    BY DEF TakeKey, Keep
  <1> HIDE DEF new, fits
  <1>7. /\ call' \in [Calls -> Call] /\ OnlyCall(c) /\ SameRequest(c)
        /\ call'[c].pc = "key" /\ call'[c].at = call[c].at /\ call'[c].ok = fits
    BY <1>1, <1>4, <1>5 DEF OnlyCall, SameRequest, ok
  <1> QED BY <1>6, <1>7 DEF fits

\* What Serve is made of.
LEMMA ServeCases ==
  ASSUME NEW c \in Calls, Serve(c)
  PROVE  Ends(c) \/ DiscardRow(c) \/ CompareMarker(c) \/ ReadLatest(c) \/ Enter(c) \/ TakeKey(c)
  BY DEF Serve, Ends

LEMMA ServeEffect ==
  ASSUME TeamTypeOK, NEW c \in Calls, Serve(c)
  PROVE  /\ call' \in [Calls -> Call] /\ OnlyCall(c) /\ SameRequest(c)
         /\ Serving(c) /\ call'[c].pc # "new" /\ UNCHANGED menu
  BY ServeCases, EndsEffect, DiscardRowEffect, CompareMarkerEffect, ReadLatestEffect, EnterEffect,
     TakeKeyEffect DEF Serving

\* A request arrives, and its handler lets it in.
LEMMA ArriveEffect ==
  ASSUME TeamTypeOK, MenuOK, NEW c \in Calls, Arrive(c)
  PROVE  /\ call' \in [Calls -> Call] /\ OnlyCall(c)
         /\ call[c].pc = "new" /\ call'[c].pc = "wait"
         /\ \A d \in Calls : d < c => call[d].pc # "new"
         /\ Arrives(call'[c].by, call'[c].op, call'[c].to, call'[c].at, call'[c].file)
         /\ call'[c].ok = (call'[c].op = "mark" /\ ~Marking(call'[c].by))
         /\ disk' = (IF call'[c].op = "upload" THEN disk \cup {call'[c].file} ELSE disk)
         /\ UNCHANGED <<menu, channel, role, joined, line, lastLine, marker, reaction, upload, aged, sweep>>
  <1>1. call \in [Calls -> Call] /\ call[c] \in Call
    BY DEF TeamTypeOK
  <1>2. PICK u \in menu.by, to \in ChatUsers, op \in menu.ops, i \in 0 .. LastLine,
             f \in Files \cup {NoFile}, k \in Codes :
          /\ Arrives(u, op, to, i, f)
          /\ op \in {"react", "unreact"} \/ k = CHOOSE x \in Codes : TRUE
          /\ call' = [call EXCEPT ![c] = [op |-> op, by |-> u, to |-> to, at |-> i, file |-> f, code |-> k,
                                          pc |-> "wait", ok |-> op = "mark" /\ ~Marking(u)]]
          /\ disk' = IF op = "upload" THEN disk \cup {f} ELSE disk
    BY Zenon DEF Arrive
  <1>3. u \in ChatUsers /\ op \in ChatOps
    BY DEF MenuOK
  <1>4. PICK ok \in BOOLEAN : ok = (op = "mark" /\ ~Marking(u))
    OBVIOUS
  <1> DEFINE new == [op |-> op, by |-> u, to |-> to, at |-> i, file |-> f, code |-> k,
                     pc |-> "wait", ok |-> ok]
  <1>5. /\ new \in Call /\ new.pc = "wait" /\ new.op = op /\ new.by = u /\ new.to = to /\ new.at = i
        /\ new.file = f /\ new.ok = ok
    BY <1>3 DEF Call
  <1>6. call' = [call EXCEPT ![c] = new]
    BY <1>2, <1>4
  <1> HIDE DEF new
  <1>7. call' \in [Calls -> Call] /\ OnlyCall(c) /\ call'[c] = new
    BY <1>1, <1>5, <1>6 DEF OnlyCall
  <1>8. /\ call[c].pc = "new" /\ \A d \in Calls : d < c => call[d].pc # "new"
        /\ UNCHANGED <<menu, channel, role, joined, line, lastLine, marker, reaction, upload, aged, sweep>>
    BY DEF Arrive, Keep
  <1> QED BY <1>2, <1>4, <1>5, <1>7, <1>8

\* A crash ends every request that had arrived.
LEMMA CrashEffect ==
  ASSUME TeamTypeOK, Crash
  PROVE  /\ call' \in [Calls -> Call]
         /\ \A c \in Calls : SameRequest(c) /\ call'[c].at = call[c].at
         /\ \A c \in Calls : call[c].pc = "new" => call'[c] = call[c]
         /\ \A c \in Calls : call[c].pc # "new" => call'[c].pc = "done" /\ call'[c].ok = FALSE
         /\ line' \in [Lines -> MessageRow]
         /\ \A i \in Lines : line'[i].is = (IF line[i].is = "draft" THEN "none" ELSE line[i].is)
         /\ sweep' = [pc |-> "idle", files |-> {}]
         /\ UNCHANGED <<menu, channel, role, joined, lastLine, marker, reaction, upload, disk, aged>>
  <1>1. call \in [Calls -> Call] /\ line \in [Lines -> MessageRow]
    BY DEF TeamTypeOK
  <1>2. /\ call' = [c \in Calls |-> IF call[c].pc = "new" THEN call[c]
                                    ELSE [call[c] EXCEPT !.pc = "done", !.ok = FALSE]]
        /\ line' = [i \in Lines |-> IF line[i].is = "draft" THEN [line[i] EXCEPT !.is = "none"] ELSE line[i]]
        /\ sweep' = [pc |-> "idle", files |-> {}]
        /\ UNCHANGED <<menu, channel, role, joined, lastLine, marker, reaction, upload, disk, aged>>
    BY DEF Crash, Pass, Keep
  <1>3. ASSUME NEW c \in Calls
        PROVE  /\ call'[c] \in Call /\ SameRequest(c) /\ call'[c].at = call[c].at
               /\ call[c].pc = "new" => call'[c] = call[c]
               /\ call[c].pc # "new" => call'[c].pc = "done" /\ call'[c].ok = FALSE
    BY <1>1, <1>2 DEF Call, SameRequest
  <1>4. ASSUME NEW i \in Lines
        PROVE  line'[i] \in MessageRow
               /\ line'[i].is = (IF line[i].is = "draft" THEN "none" ELSE line[i].is)
    BY <1>1, <1>2 DEF MessageRow
  <1>5. call' = [c \in Calls |-> call'[c]] /\ line' = [i \in Lines |-> line'[i]]
    BY <1>2
  <1> QED BY <1>2, <1>3, <1>4, <1>5

-------------------------------------------------------------------------------
(* TeamChat: type correctness *)

LEMMA ShownLine ==
  ASSUME TeamTypeOK, NEW c \in Calls, Visible(call[c])
  PROVE  /\ line' \in [Lines -> MessageRow]
         /\ \A i \in Lines : line'[i].is = IF i = call[c].at THEN "live" ELSE line[i].is
  BY DEF TeamTypeOK, Visible, MessageRow

LEMMA ServeType ==
  ASSUME TeamTypeOK, LinesKept, NEW c \in Calls, Serve(c)
  PROVE  TeamTypeOK'
  <1>1. /\ call' \in [Calls -> Call] /\ call[c] \in Call
        /\ call[c].by \in ChatUsers /\ call[c].to \in ChatUsers /\ call[c].code \in Codes
        /\ call[c].at \in 0 .. LastLine
    BY ServeEffect DEF TeamTypeOK, Call
  <1>2. CASE Enter(c)
    <2>1. UNCHANGED <<channel, role, joined, marker, reaction, upload, disk, aged, sweep>>
      BY <1>2 DEF Enter, Keep
    <2>2. lastLine' \in 0 .. LastLine
      <3>1. lastLine' \in Lines \/ lastLine' = lastLine
        BY <1>2, EnterEffect
      <3> QED BY <3>1, ChatNumbers DEF TeamTypeOK, Lines
    <2>3. line' \in [Lines -> MessageRow]
      <3>1. CASE Writes(call[c].op)
        <4> DEFINE new == [by |-> call[c].by, kind |-> IF call[c].op = "send" THEN "user" ELSE "system",
                           is |-> "draft"]
        <4>1. new \in MessageRow
          BY <1>1 DEF MessageRow
        <4>2. line' = [line EXCEPT ![lastLine + 1] = new]
          BY <1>2, <3>1, EnterEffect
        <4> HIDE DEF new
        <4> QED BY <4>1, <4>2 DEF TeamTypeOK
      <3>2. CASE ~Writes(call[c].op)
        BY <1>2, <3>2, EnterEffect DEF TeamTypeOK
      <3> QED BY <3>1, <3>2
    <2> QED BY <1>1, <2>1, <2>2, <2>3 DEF TeamTypeOK
  <1>3. CASE CommitSend(c)
    <2>1. /\ UNCHANGED <<channel, role, joined, lastLine, marker, reaction, disk, aged, sweep>>
          /\ Visible(call[c])
      BY <1>3 DEF CommitSend, Keep
    <2>2. call[c].at \in Lines
      BY <1>3 DEF CommitSend, Committing, Keyed, LinesKept, Writes
    <2>3. upload' \in [Files -> FileRow]
      <3>1. CASE call[c].file = NoFile
        BY <1>3, <3>1 DEF CommitSend, TeamTypeOK
      <3>2. CASE call[c].file # NoFile
        <4>1. upload' = [upload EXCEPT ![call[c].file].is = "attached", ![call[c].file].of = call[c].at]
          BY <1>3, <3>2 DEF CommitSend
        <4>2. call[c].file \in Files
          BY <1>1, <3>2 DEF Call
        <4>3. upload[call[c].file] \in FileRow
          BY <4>2 DEF TeamTypeOK
        <4> DEFINE new == [upload[call[c].file] EXCEPT !.is = "attached", !.of = call[c].at]
        <4>4. new \in FileRow
          BY <2>2, <4>3 DEF FileRow
        <4>5. upload' = [upload EXCEPT ![call[c].file] = new]
          BY <4>1, <4>2 DEF TeamTypeOK
        <4> HIDE DEF new
        <4> QED BY <4>2, <4>4, <4>5 DEF TeamTypeOK
      <3> QED BY <3>1, <3>2
    <2> QED BY <1>1, <2>1, <2>3, ShownLine DEF TeamTypeOK
  <1>4. CASE CommitEdit(c) \/ TakeKey(c) \/ ReadLatest(c) \/ CompareMarker(c)
    BY <1>1, <1>4 DEF CommitEdit, TakeKey, ReadLatest, CompareMarker, Keep, TeamTypeOK
  <1>5. CASE CommitUpload(c) \/ DiscardRow(c)
    <2>1. upload' \in [Files -> FileRow]
      BY <1>1, <1>5 DEF CommitUpload, DiscardRow, TeamTypeOK, FileRow
    <2> QED BY <1>1, <1>5, <2>1 DEF CommitUpload, DiscardRow, Keep, TeamTypeOK
  <1>6. CASE CommitReact(c) \/ CommitUnreact(c)
    BY <1>1, <1>6 DEF CommitReact, CommitUnreact, Keep, TeamTypeOK
  <1>7. CASE AddChatChannelMember(c) \/ removeChatMember(c) \/ SetChatMemberRole(c) \/ JoinChatChannel(c)
    <2>1. ASSUME NEW u \in ChatUsers, NEW r \in Roles, NEW op, CommitMember(c, op, u, r)
          PROVE  TeamTypeOK'
      <3>1. role' \in [ChatUsers -> Roles] /\ joined' \in [ChatUsers -> 0 .. LastLine]
        BY <2>1 DEF CommitMember, TeamTypeOK
      <3> QED BY <1>1, <2>1, <3>1, ShownLine DEF CommitMember, Keep, TeamTypeOK
    <2>2. "none" \in Roles /\ "member" \in Roles /\ "owner" \in Roles
      BY DEF Roles
    <2> QED BY <1>1, <1>7, <2>1, <2>2
         DEF AddChatChannelMember, removeChatMember, SetChatMemberRole, JoinChatChannel
  <1>8. CASE RenameChatChannel(c) \/ setChatArchived(c)
    <2> DEFINE Channel == [archived : BOOLEAN, name : {"old", "new"}]
    <2>1. ASSUME NEW op, NEW ch \in Channel, CommitChannel(c, op, ch)
          PROVE  TeamTypeOK'
      BY <1>1, <2>1, ShownLine DEF CommitChannel, Keep, TeamTypeOK
    <2>2. /\ [channel EXCEPT !.name = "new"] \in Channel
          /\ [channel EXCEPT !.archived = TRUE] \in Channel
          /\ [channel EXCEPT !.archived = FALSE] \in Channel
      BY DEF TeamTypeOK
    <2> HIDE DEF Channel
    <2> QED BY <1>8, <2>1, <2>2 DEF RenameChatChannel, setChatArchived
  <1>9. CASE Refuse(c)
    <2>1. line' \in [Lines -> MessageRow] /\ disk' \subseteq Files
      BY <1>9 DEF Refuse, TeamTypeOK, MessageRow
    <2> QED BY <1>1, <1>9, <2>1 DEF Refuse, Keep, TeamTypeOK
  <1>10. CASE DeleteChatMessage(c)
    <2>1. line' \in [Lines -> MessageRow]
      BY <1>10 DEF DeleteChatMessage, TeamTypeOK, MessageRow
    <2> QED BY <1>1, <1>10, <2>1 DEF DeleteChatMessage, Keep, TeamTypeOK
  <1>11. CASE DiscardFile(c)
    BY <1>1, <1>11 DEF DiscardFile, Keep, TeamTypeOK
  <1>12. CASE WriteMarker(c)
    BY <1>1, <1>12 DEF WriteMarker, Marked, Keep, TeamTypeOK
  <1> QED BY <1>2, <1>3, <1>4, <1>5, <1>6, <1>7, <1>8, <1>9, <1>10, <1>11, <1>12 DEF Serve

\* The steps of the housekeeping pass and of time.
Tidy == \/ \E f \in Files : GrowOld(f)
        \/ Cleanup \/ FindOrphans(FALSE) \/ \E kept \in SUBSET Files : DropPending(kept)

LEMMA TidyKeeps ==
  ASSUME Tidy
  PROVE  UNCHANGED <<menu, channel, role, joined, line, lastLine, marker, reaction, call>>
  BY DEF Tidy, Cleanup, GrowOld, SelectPending, DeletePending, DropPending, RemoveDeleted, MarkPurged,
         FindOrphans, RemoveOrphans, Keep

LEMMA TidyType ==
  ASSUME TeamTypeOK, Tidy
  PROVE  TeamTypeOK'
  <1>1. upload' \in [Files -> FileRow]
    BY DEF Tidy, Cleanup, GrowOld, SelectPending, DeletePending, DropPending, RemoveDeleted, MarkPurged,
           FindOrphans, RemoveOrphans, Keep, TeamTypeOK, FileRow
  <1>2. disk' \subseteq Files /\ aged' \subseteq Files
    BY DEF Tidy, Cleanup, GrowOld, SelectPending, DeletePending, DropPending, RemoveDeleted, MarkPurged,
           FindOrphans, RemoveOrphans, Keep, TeamTypeOK
  <1>3. PICK pc \in {"idle", "pending", "drop", "deleted", "mark", "orphans", "remove"}, fs \in SUBSET Files :
          Pass(pc, fs) \/ UNCHANGED sweep
    BY DEF Tidy, Cleanup, GrowOld, SelectPending, DeletePending, DropPending, RemoveDeleted, MarkPurged,
           FindOrphans, RemoveOrphans, Returned, LookUp, Keep, TeamTypeOK
  <1>4. sweep' \in [pc : {"idle", "pending", "drop", "deleted", "mark", "orphans", "remove"}, files : SUBSET Files]
    BY <1>3 DEF Pass, TeamTypeOK
  <1> QED BY <1>1, <1>2, <1>4, TidyKeeps DEF TeamTypeOK

LEMMA TeamTypeStep ==
  ASSUME TeamTypeOK, MenuOK, LinesKept, [TeamNext]_teamVars
  PROVE  TeamTypeOK' /\ MenuOK'
  <1>1. ASSUME NEW c \in Calls, Arrive(c) PROVE TeamTypeOK' /\ MenuOK'
    <2>1. disk' \subseteq Files
      <3>1. call'[c].op = "upload" => call'[c].file \in Files
        BY <1>1, ArriveEffect DEF Arrives
      <3> QED BY <1>1, <3>1, ArriveEffect DEF TeamTypeOK
    <2> QED BY <1>1, <2>1, ArriveEffect DEF TeamTypeOK, MenuOK
  <1>2. ASSUME NEW c \in Calls, Serve(c) PROVE TeamTypeOK' /\ MenuOK'
    BY <1>2, ServeType, ServeEffect DEF MenuOK
  <1>3. CASE Tidy
    BY <1>3, TidyType, TidyKeeps DEF MenuOK
  <1>4. CASE Crash
    <2>1. /\ call' \in [Calls -> Call] /\ line' \in [Lines -> MessageRow]
          /\ sweep' = [pc |-> "idle", files |-> {}]
          /\ UNCHANGED <<menu, channel, role, joined, lastLine, marker, reaction, upload, disk, aged>>
      BY <1>4, CrashEffect
    <2> QED BY <2>1 DEF TeamTypeOK, MenuOK
  <1>5. CASE UNCHANGED teamVars
    BY <1>5 DEF teamVars, TeamTypeOK, MenuOK
  <1> QED BY <1>1, <1>2, <1>3, <1>4, <1>5 DEF TeamNext, Tidy

-------------------------------------------------------------------------------
(* TeamChat: files and messages *)

\* No request arrives, takes a line or gives up a row.
CallsCalm ==
    \A c \in Calls :
        /\ SameRequest(c)
        /\ Serving(c)' => Serving(c)
        /\ Writes(call[c].op) /\ call'[c].pc = "in" => call[c].pc = "in" /\ call'[c].at = call[c].at
        /\ call[c].op = "discard" /\ call'[c].pc = "in" => call[c].pc = "in"
        /\ call[c].op = "delete" /\ Serving(c)' => call'[c].at = call[c].at

\* A message keeps its author's draft until it is shown, and is deleted for good.
LinesCalm ==
    /\ UNCHANGED lastLine
    /\ \A i \in Lines :
        /\ line[i].is = "none" => line'[i].is = "none"
        /\ line[i].is = "live" => line'[i].is \in {"live", "deleted"}
        /\ line[i].is = "deleted" => line'[i].is = "deleted"
        /\ \A c \in Calls : Writes(call[c].op) /\ call'[c].pc = "in" /\ call[c].at = i =>
             line'[i].is = line[i].is

FilesCalm ==
    \A f \in Files :
        /\ upload[f].is = "gone" => upload'[f].is = "gone"
        /\ Uploading(f)' => upload'[f].is = "none" /\ f \in disk' /\ f \notin aged'

LEMMA CalmLines ==
  ASSUME LinesKept, CallsCalm, LinesCalm
  PROVE  LinesKept'
  <1>1. \A i \in Lines : i > lastLine' => line'[i].is = "none"
    BY DEF LinesKept, LinesCalm
  <1>2. ASSUME NEW c \in Calls, call'[c].pc = "in" /\ Writes(call'[c].op)
        PROVE  /\ call[c].pc = "in" /\ Writes(call[c].op) /\ call'[c].at = call[c].at
               /\ call[c].at \in Lines /\ line'[call[c].at].is = "draft"
    BY <1>2 DEF LinesKept, CallsCalm, LinesCalm, SameRequest
  <1>3. ASSUME NEW c \in Calls, call'[c].op = "delete" /\ Serving(c)'
        PROVE  call'[c].at \in Lines /\ line'[call'[c].at].is \in {"live", "deleted"}
    BY <1>3 DEF LinesKept, CallsCalm, LinesCalm, SameRequest
  <1>4. \A c, d \in Calls :
          /\ call'[c].pc = "in" /\ Writes(call'[c].op) /\ call'[d].pc = "in" /\ Writes(call'[d].op)
          /\ call'[c].at = call'[d].at
          => c = d
    BY <1>2 DEF LinesKept
  <1> QED BY <1>1, <1>2, <1>3, <1>4 DEF LinesKept

LEMMA CalmUploading ==
  ASSUME CallsCalm, NEW f \in Files, Uploading(f)'
  PROVE  Uploading(f)
  BY DEF Uploading, CallsCalm, SameRequest

LEMMA CalmFiles ==
  ASSUME FilesInUse, CallsCalm, FilesCalm
  PROVE  FilesInUse'
  BY DEF FilesInUse, CallsCalm, FilesCalm, SameRequest

\* Steps that only touch requests and messages.
LEMMA LinesStep ==
  ASSUME LinesKept, FilesInUse, SweepTrue, FilesStored, TeamTypeOK, CallsCalm, LinesCalm,
         UNCHANGED <<upload, disk, aged, sweep>>
  PROVE  LinesKept' /\ FilesInUse' /\ SweepTrue' /\ FilesStored'
  <1>1. \A f \in Files : Uploading(f)' => Uploading(f)
    BY CalmUploading
  <1>2. \A f \in Files : upload[f].of \in Lines
    BY DEF TeamTypeOK, FileRow
  <1>3. FilesInUse'
    BY <1>1, CalmFiles DEF FilesCalm, FilesInUse
  <1>4. SweepTrue'
    <2>1. sweep.files \subseteq Files
      BY DEF TeamTypeOK
    <2> QED BY <1>1, <1>2, <2>1 DEF SweepTrue, LinesCalm
  <1>5. FilesStored'
    <2> SUFFICES ASSUME NEW f \in Files, upload[f].is = "attached"
                 PROVE  /\ line'[upload[f].of].is \in {"live", "deleted"}
                        /\ line'[upload[f].of].is = "live" => f \in disk
      BY DEF FilesStored
    <2> QED BY <1>2 DEF FilesStored, LinesCalm
  <1> QED BY <1>3, <1>4, <1>5, CalmLines

LEMMA CalmOthers ==
  ASSUME NEW c \in Calls, OnlyCall(c), SameRequest(c), Serving(c),
         Writes(call[c].op) /\ call'[c].pc = "in" => call[c].pc = "in" /\ call'[c].at = call[c].at,
         call[c].op = "discard" /\ call'[c].pc = "in" => call[c].pc = "in",
         call[c].op = "delete" /\ Serving(c)' => call'[c].at = call[c].at
  PROVE  CallsCalm
  BY DEF CallsCalm, OnlyCall, SameRequest, Serving

\* The steps at the end of a request, and those on the way that are nobody's concern.
LEMMA CalmServe ==
  ASSUME TeamTypeOK, NEW c \in Calls,
         \/ Ends(c) \/ CompareMarker(c) \/ ReadLatest(c) \/ TakeKey(c)
         \/ Enter(c) /\ ~Writes(call[c].op)
  PROVE  CallsCalm
  <1>1. CASE Ends(c)
    BY <1>1, EndsEffect, CalmOthers DEF Serving
  <1>2. CASE CompareMarker(c)
    BY <1>2, CompareMarkerEffect, CalmOthers DEF CompareMarker, Writes, Exclusive
  <1>3. CASE ReadLatest(c)
    BY <1>3, ReadLatestEffect, CalmOthers DEF ReadLatest, Writes, Exclusive
  <1>4. CASE TakeKey(c)
    BY <1>4, TakeKeyEffect, CalmOthers DEF Keyed, Serving
  <1>5. CASE Enter(c) /\ ~Writes(call[c].op)
    <2>1. call[c].op # "discard" /\ call[c].op # "delete" /\ Serving(c)
      BY <1>5 DEF Enter, LockMode, Sharing, Exclusive, Serving
    <2> QED BY <1>5, <2>1, EnterEffect, CalmOthers
  <1> QED BY <1>1, <1>2, <1>3, <1>4, <1>5

\* The line of a message that is shown was the draft of its writer, and of nobody else.
LEMMA ShowingCalm ==
  ASSUME TeamTypeOK, LinesKept, NEW c \in Calls, Visible(call[c]), UNCHANGED lastLine,
         call[c].pc = "in", Writes(call[c].op), OnlyCall(c), call'[c].pc = "done"
  PROVE  LinesCalm
  <1>1. call[c].at \in Lines /\ line[call[c].at].is = "draft"
    BY DEF LinesKept
  <1>2. \A i \in Lines : line'[i].is = IF i = call[c].at THEN "live" ELSE line[i].is
    BY ShownLine
  <1>3. ASSUME NEW d \in Calls, Writes(call[d].op), call'[d].pc = "in", call[d].at = call[c].at
        PROVE  FALSE
    BY <1>3 DEF OnlyCall, LinesKept
  <1> QED BY <1>1, <1>2, <1>3 DEF LinesCalm

LEMMA QuietServe ==
  ASSUME TeamTypeOK, LinesKept, FilesInUse, SweepTrue, FilesStored, NEW c \in Calls,
         \/ CommitEdit(c) \/ CommitReact(c) \/ CommitUnreact(c) \/ WriteMarker(c)
         \/ CompareMarker(c) \/ ReadLatest(c) \/ TakeKey(c)
         \/ Enter(c) /\ ~Writes(call[c].op)
         \/ AddChatChannelMember(c) \/ removeChatMember(c) \/ SetChatMemberRole(c) \/ JoinChatChannel(c)
         \/ RenameChatChannel(c) \/ setChatArchived(c) \/ DeleteChatMessage(c)
         \/ Refuse(c) /\ call[c].op # "upload"
  PROVE  LinesKept' /\ FilesInUse' /\ SweepTrue' /\ FilesStored'
  <1>1. CallsCalm
    BY CalmServe DEF Ends
  <1>2. UNCHANGED <<upload, disk, aged, sweep, lastLine>>
    BY EnterEffect
       DEF CommitEdit, CommitReact, CommitUnreact, WriteMarker, CompareMarker, ReadLatest, TakeKey, Enter,
           AddChatChannelMember, removeChatMember, SetChatMemberRole, JoinChatChannel, CommitMember,
           RenameChatChannel, setChatArchived, CommitChannel, DeleteChatMessage, Refuse, Keep
  <1>3. LinesCalm
    <2>1. CASE UNCHANGED line
      BY <1>2, <2>1 DEF LinesCalm
    <2>2. CASE \/ AddChatChannelMember(c) \/ removeChatMember(c) \/ SetChatMemberRole(c) \/ JoinChatChannel(c)
               \/ RenameChatChannel(c) \/ setChatArchived(c)
      <3>1. /\ Visible(call[c]) /\ call[c].pc = "in" /\ Writes(call[c].op)
        BY <2>2 DEF AddChatChannelMember, removeChatMember, SetChatMemberRole, JoinChatChannel, CommitMember,
           RenameChatChannel, setChatArchived, CommitChannel, Committing, Keyed, Writes, Exclusive
      <3>2. OnlyCall(c) /\ call'[c].pc = "done"
        BY <2>2, EndsEffect DEF Ends
      <3> QED BY <1>2, <3>1, <3>2, ShowingCalm
    <2>3. CASE DeleteChatMessage(c)
      <3>1. call[c].at \in Lines /\ line[call[c].at].is \in {"live", "deleted"}
        BY <2>3 DEF DeleteChatMessage, LinesKept, Serving
      <3>2. \A i \in Lines : line'[i].is = IF i = call[c].at THEN "deleted" ELSE line[i].is
        BY <2>3, <3>1 DEF DeleteChatMessage, TeamTypeOK, MessageRow
      <3>3. ASSUME NEW d \in Calls, Writes(call[d].op), call'[d].pc = "in"
            PROVE  call[d].at # call[c].at
        <4>1. call[d].pc = "in"
          BY <1>1, <3>3 DEF CallsCalm
        <4> QED BY <3>1, <3>3, <4>1 DEF LinesKept
      <3> QED BY <1>2, <3>1, <3>2, <3>3 DEF LinesCalm
    <2>4. CASE Refuse(c) /\ call[c].pc = "in" /\ Writes(call[c].op)
      <3>1. call[c].at \in Lines /\ line[call[c].at].is = "draft"
        BY <2>4 DEF LinesKept
      <3>2. \A i \in Lines : line'[i].is = IF i = call[c].at THEN "none" ELSE line[i].is
        BY <2>4, <3>1 DEF Refuse, TeamTypeOK, MessageRow
      <3>3. ASSUME NEW d \in Calls, Writes(call[d].op), call'[d].pc = "in"
            PROVE  call[d].at # call[c].at
        <4>1. call[d].pc = "in" /\ OnlyCall(c) /\ call'[c].pc = "done"
          BY <1>1, <2>4, <3>3, EndsEffect DEF CallsCalm, Ends
        <4> QED BY <2>4, <3>3, <4>1 DEF LinesKept
      <3> QED BY <1>2, <3>1, <3>2, <3>3 DEF LinesCalm
    <2>5. CASE Refuse(c) /\ ~(call[c].pc = "in" /\ Writes(call[c].op))
      BY <1>2, <2>5 DEF Refuse, LinesCalm
    <2> QED BY <2>1, <2>2, <2>3, <2>4, <2>5, EnterEffect
         DEF CommitEdit, CommitReact, CommitUnreact, WriteMarker, CompareMarker, ReadLatest, TakeKey, Keep
  <1> QED BY <1>1, <1>2, <1>3, LinesStep

\* A call that takes a line takes one nobody has had.
LEMMA EnterLines ==
  ASSUME TeamTypeOK, LinesKept, FilesInUse, SweepTrue, FilesStored, NEW c \in Calls,
         Enter(c), Writes(call[c].op)
  PROVE  LinesKept' /\ FilesInUse' /\ SweepTrue' /\ FilesStored'
  <1> DEFINE new == lastLine + 1
  <1>1. /\ OnlyCall(c) /\ SameRequest(c) /\ call[c].pc = "wait" /\ call'[c].pc = "in"
        /\ call'[c].at = new /\ lastLine' = new /\ new \in Lines
        /\ \E m \in {"user", "system"} :
             line' = [line EXCEPT ![new] = [by |-> call[c].by, kind |-> m, is |-> "draft"]]
    BY EnterEffect
  <1>2. lastLine \in Nat /\ line[new].is = "none"
    BY <1>1 DEF TeamTypeOK, LinesKept, Lines
  <1>3. /\ \A i \in Lines : line'[i].is = IF i = new THEN "draft" ELSE line[i].is
        /\ UNCHANGED <<upload, disk, aged, sweep>>
    BY <1>1 DEF TeamTypeOK, Enter, Keep
  <1>4. call[c].op \notin {"upload", "discard", "delete"}
    BY DEF Writes, Exclusive
  <1>5. \A d \in Calls : call[d].pc = "in" /\ Writes(call[d].op) => call[d].at # new
    BY <1>2 DEF LinesKept
  <1>6. LinesKept'
    <2>1. \A i \in Lines : i > lastLine' => line'[i].is = "none"
      <3> SUFFICES ASSUME NEW i \in Lines, i > lastLine' PROVE line'[i].is = "none"
        OBVIOUS
      <3>1. i # new /\ i > lastLine
        BY <1>1, <1>2 DEF Lines
      <3> QED BY <1>3, <3>1 DEF LinesKept
    <2>2. ASSUME NEW d \in Calls, d # c, call'[d].pc = "in", Writes(call'[d].op)
          PROVE  /\ call'[d] = call[d] /\ call'[d].at \in Lines /\ line'[call'[d].at].is = "draft"
                 /\ call'[d].at # new
      BY <1>1, <1>3, <1>5, <2>2 DEF LinesKept, OnlyCall
    <2>3. ASSUME NEW d \in Calls, call'[d].op = "delete", Serving(d)'
          PROVE  call'[d].at \in Lines /\ line'[call'[d].at].is \in {"live", "deleted"}
      <3>1. d # c /\ call'[d] = call[d]
        BY <1>1, <1>4, <2>3 DEF OnlyCall, SameRequest
      <3> QED BY <1>2, <1>3, <2>3, <3>1 DEF LinesKept, Serving
    <2>4. \A d, e \in Calls :
            /\ call'[d].pc = "in" /\ Writes(call'[d].op) /\ call'[e].pc = "in" /\ Writes(call'[e].op)
            /\ call'[d].at = call'[e].at
            => d = e
      BY <1>1, <2>2 DEF LinesKept
    <2> HIDE DEF new
    <2>5. \A d \in Calls : call'[d].pc = "in" /\ Writes(call'[d].op) =>
            call'[d].at \in Lines /\ line'[call'[d].at].is = "draft"
      BY <1>1, <1>3, <2>2
    <2> QED BY <2>1, <2>3, <2>4, <2>5 DEF LinesKept
  <1> HIDE DEF new
  <1>7. \A f \in Files : Uploading(f)' => Uploading(f)
    BY <1>1, <1>4 DEF Uploading, OnlyCall, SameRequest, Serving
  <1>8. FilesInUse'
    <2>1. \A d \in Calls : call'[d].op \in {"upload", "discard"} => call'[d] = call[d]
      BY <1>1, <1>4 DEF OnlyCall, SameRequest
    <2> QED BY <1>3, <1>7, <2>1 DEF FilesInUse, Serving
  <1>9. \A f \in Files : upload[f].of \in Lines
    BY DEF TeamTypeOK, FileRow
  <1>10. SweepTrue'
    <2>1. sweep.files \subseteq Files
      BY DEF TeamTypeOK
    <2> QED BY <1>2, <1>3, <1>7, <1>9, <2>1 DEF SweepTrue
  <1>11. FilesStored'
    BY <1>2, <1>3, <1>9 DEF FilesStored
  <1> QED BY <1>6, <1>8, <1>10, <1>11

\* A request that arrives holds nothing yet but the file it is storing.
LEMMA ArriveLines ==
  ASSUME TeamTypeOK, MenuOK, LinesKept, FilesInUse, SweepTrue, FilesStored, NEW c \in Calls, Arrive(c)
  PROVE  LinesKept' /\ FilesInUse' /\ SweepTrue' /\ FilesStored'
  <1> DEFINE f0 == call'[c].file
  <1>1. /\ OnlyCall(c) /\ call[c].pc = "new" /\ call'[c].pc = "wait"
        /\ disk' = (IF call'[c].op = "upload" THEN disk \cup {f0} ELSE disk)
        /\ UNCHANGED <<line, lastLine, upload, aged, sweep>>
    BY ArriveEffect
  <1>2. /\ call'[c].op = "upload" => f0 \in Files /\ upload[f0].is = "none" /\ f0 \notin disk
        /\ call'[c].op = "discard" => f0 \in Files
        /\ call'[c].op = "delete" => call'[c].at \in Lines /\ line[call'[c].at].is = "live"
    BY ArriveEffect DEF Arrives
  <1> HIDE DEF f0
  <1>3. LinesKept'
    BY <1>1, <1>2 DEF LinesKept, OnlyCall, Serving
  <1>4. \A f \in Files : Uploading(f)' => Uploading(f) \/ (call'[c].op = "upload" /\ f = f0)
    BY <1>1 DEF Uploading, OnlyCall, Serving, f0
  <1>5. aged \subseteq disk
    BY DEF SweepTrue
  <1>6. FilesInUse'
    <2>1. \A d \in Calls : call'[d].op \in {"upload", "discard"} => call'[d].file \in Files
      BY <1>1, <1>2 DEF FilesInUse, OnlyCall, f0
    <2>2. ASSUME NEW d \in Calls, call'[c].op = "upload", call[d].op = "upload", Serving(d)
          PROVE  call[d].file # f0
      BY <1>2, <2>2 DEF FilesInUse, Uploading
    <2>3. \A d, e \in Calls :
            /\ call'[d].op = "upload" /\ Serving(d)' /\ call'[e].op = "upload" /\ Serving(e)'
            /\ call'[d].file = call'[e].file
            => d = e
      BY <1>1, <2>2 DEF FilesInUse, OnlyCall, Serving, f0
    <2>4. \A f \in Files : Uploading(f)' => upload'[f].is = "none" /\ f \in disk' /\ f \notin aged'
      BY <1>1, <1>2, <1>4, <1>5 DEF FilesInUse
    <2>5. \A d \in Calls : call'[d].op = "discard" /\ call'[d].pc = "in" => upload'[call'[d].file].is = "gone"
      BY <1>1 DEF FilesInUse, OnlyCall
    <2> QED BY <2>1, <2>3, <2>4, <2>5 DEF FilesInUse
  <1>7. SweepTrue'
    <2>1. sweep.files \subseteq Files
      BY DEF TeamTypeOK
    <2> QED BY <1>1, <1>2, <1>4, <1>5, <2>1 DEF SweepTrue
  <1>8. FilesStored'
    BY <1>1 DEF FilesStored
  <1> QED BY <1>3, <1>6, <1>7, <1>8

\* Sending shows the message and hands over the file.
LEMMA SendLines ==
  ASSUME TeamTypeOK, LinesKept, FilesInUse, SweepTrue, FilesStored, NEW c \in Calls, CommitSend(c)
  PROVE  LinesKept' /\ FilesInUse' /\ SweepTrue' /\ FilesStored'
  <1> DEFINE f0 == call[c].file
             i0 == call[c].at
  <1>1. /\ call[c].op = "send" /\ call[c].pc = "in" /\ Writes(call[c].op) /\ Visible(call[c])
        /\ UNCHANGED <<lastLine, disk, aged, sweep>>
    BY DEF CommitSend, Committing, Keyed, Writes, Keep
  <1>2. CallsCalm /\ OnlyCall(c) /\ call'[c].pc = "done"
    BY CalmServe, EndsEffect DEF Ends
  <1>3. LinesCalm /\ i0 \in Lines /\ line[i0].is = "draft"
        /\ \A i \in Lines : line'[i].is = IF i = i0 THEN "live" ELSE line[i].is
    BY <1>1, <1>2, ShowingCalm, ShownLine DEF LinesKept
  <1>4. /\ f0 \in Files => upload[f0].is = "pending"
        /\ \A f \in Files :
             IF f = f0 THEN upload'[f].is = "attached" /\ upload'[f].of = i0 ELSE upload'[f] = upload[f]
    <2>1. f0 \in Files \cup {NoFile} /\ upload \in [Files -> FileRow]
      BY DEF TeamTypeOK, Call
    <2>2. CASE f0 = NoFile
      BY <2>1, <2>2, ChatNumbers DEF CommitSend
    <2>3. CASE f0 # NoFile
      BY <2>1, <2>3 DEF CommitSend, attachPendingFiles, FileRow
    <2> QED BY <2>2, <2>3
  <1> HIDE DEF f0, i0
  <1>5. \A f \in Files : Uploading(f)' => Uploading(f)
    BY <1>2, CalmUploading
  <1>6. FilesCalm
    BY <1>1, <1>4, <1>5 DEF FilesCalm, FilesInUse
  <1>7. \A f \in Files : upload[f].of \in Lines
    BY DEF TeamTypeOK, FileRow
  <1>8. SweepTrue'
    <2>1. sweep.files \subseteq Files
      BY DEF TeamTypeOK
    <2> QED BY <1>1, <1>3, <1>4, <1>5, <1>7, <2>1 DEF SweepTrue, LinesCalm
  <1>9. FilesStored'
    BY <1>1, <1>3, <1>4, <1>7 DEF FilesStored
  <1> QED BY <1>2, <1>3, <1>6, <1>8, <1>9, CalmLines, CalmFiles

\* The row of an upload is written while its file is on the disk and nobody else's.
LEMMA UploadLines ==
  ASSUME TeamTypeOK, LinesKept, FilesInUse, SweepTrue, FilesStored, NEW c \in Calls, CommitUpload(c)
  PROVE  LinesKept' /\ FilesInUse' /\ SweepTrue' /\ FilesStored'
  <1> DEFINE f0 == call[c].file
  <1>1. call[c].op = "upload" /\ Serving(c) /\ UNCHANGED <<line, lastLine, disk, aged, sweep>>
    BY DEF CommitUpload, Committing, Keyed, Serving, Keep
  <1>2. CallsCalm /\ OnlyCall(c) /\ call'[c].pc = "done"
    BY CalmServe, EndsEffect DEF Ends
  <1>3. f0 \in Files /\ Uploading(f0) /\ upload[f0].is = "none" /\ f0 \in disk
    BY <1>1 DEF FilesInUse, Uploading
  <1>4. \A f \in Files : IF f = f0 THEN upload'[f].is = "pending" ELSE upload'[f] = upload[f]
    BY <1>3 DEF CommitUpload, TeamTypeOK, FileRow
  <1>5. \A f \in Files : Uploading(f)' => Uploading(f) /\ f # f0
    <2> SUFFICES ASSUME NEW f \in Files, Uploading(f)' PROVE Uploading(f) /\ f # f0
      OBVIOUS
    <2>1. PICK d \in Calls : call'[d].op = "upload" /\ Serving(d)' /\ call'[d].file = f
      BY DEF Uploading
    <2>2. d # c /\ call'[d] = call[d]
      BY <1>2, <2>1 DEF Serving, OnlyCall
    <2>3. call[d].op = "upload" /\ Serving(d) /\ call[d].file = f
      BY <2>1, <2>2 DEF Serving
    <2> QED BY <1>1, <2>2, <2>3 DEF FilesInUse, Uploading
  <1> HIDE DEF f0
  <1>6. LinesCalm /\ FilesCalm
    BY <1>1, <1>3, <1>4, <1>5 DEF LinesCalm, FilesCalm, FilesInUse
  <1>7. SweepTrue'
    <2>1. sweep.files \subseteq Files
      BY DEF TeamTypeOK
    <2> QED BY <1>1, <1>3, <1>4, <1>5, <2>1 DEF SweepTrue
  <1>8. FilesStored'
    BY <1>1, <1>3, <1>4 DEF FilesStored
  <1> QED BY <1>2, <1>6, <1>7, <1>8, CalmLines, CalmFiles

\* A refused upload takes back a file that has no row and that nobody else stores.
LEMMA RefuseLines ==
  ASSUME TeamTypeOK, LinesKept, FilesInUse, SweepTrue, FilesStored, NEW c \in Calls, Refuse(c),
         call[c].op = "upload"
  PROVE  LinesKept' /\ FilesInUse' /\ SweepTrue' /\ FilesStored'
  <1> DEFINE f0 == call[c].file
  <1>1. /\ Serving(c) /\ UNCHANGED <<line, lastLine, upload, aged, sweep>> /\ disk' = disk \ {f0}
    BY DEF Refuse, Serving, Writes, Exclusive, Keep
  <1>2. CallsCalm /\ OnlyCall(c) /\ call'[c].pc = "done"
    BY CalmServe, EndsEffect DEF Ends
  <1>3. f0 \in Files /\ Uploading(f0) /\ upload[f0].is = "none" /\ f0 \notin aged
    BY <1>1 DEF FilesInUse, Uploading
  <1>4. \A f \in Files : Uploading(f)' => Uploading(f) /\ f # f0
    <2> SUFFICES ASSUME NEW f \in Files, Uploading(f)' PROVE Uploading(f) /\ f # f0
      OBVIOUS
    <2>1. PICK d \in Calls : call'[d].op = "upload" /\ Serving(d)' /\ call'[d].file = f
      BY DEF Uploading
    <2>2. d # c /\ call'[d] = call[d]
      BY <1>2, <2>1 DEF Serving, OnlyCall
    <2>3. call[d].op = "upload" /\ Serving(d) /\ call[d].file = f
      BY <2>1, <2>2 DEF Serving
    <2> QED BY <1>1, <2>2, <2>3 DEF FilesInUse, Uploading
  <1> HIDE DEF f0
  <1>5. LinesCalm /\ FilesCalm
    BY <1>1, <1>4 DEF LinesCalm, FilesCalm, FilesInUse
  <1>6. SweepTrue'
    <2>1. sweep.files \subseteq Files
      BY DEF TeamTypeOK
    <2> QED BY <1>1, <1>3, <1>4, <2>1 DEF SweepTrue
  <1>7. FilesStored'
    BY <1>1, <1>3 DEF FilesStored
  <1> QED BY <1>2, <1>5, <1>6, <1>7, CalmLines, CalmFiles

\* A discard takes the row, then the file.
LEMMA DiscardLines ==
  ASSUME TeamTypeOK, LinesKept, FilesInUse, SweepTrue, FilesStored, NEW c \in Calls,
         DiscardRow(c) \/ DiscardFile(c)
  PROVE  LinesKept' /\ FilesInUse' /\ SweepTrue' /\ FilesStored'
  <1> DEFINE f0 == call[c].file
  <1>1. f0 \in Files /\ call[c].op = "discard" /\ UNCHANGED <<line, lastLine, sweep>>
    BY DEF DiscardRow, DiscardFile, FilesInUse, Keep
  <1>2. OnlyCall(c) /\ SameRequest(c) /\ Serving(c)
    BY DiscardRowEffect, EndsEffect DEF Ends
  <1>3. \A f \in Files : Uploading(f)' => Uploading(f)
    BY <1>1, <1>2 DEF Uploading, OnlyCall, SameRequest, Serving
  <1>4. LinesKept'
    BY <1>1, <1>2 DEF LinesKept, OnlyCall, SameRequest, Writes, Exclusive, Serving
  <1>5. sweep.files \subseteq Files
    BY DEF TeamTypeOK
  <1>6. CASE DiscardRow(c) /\ upload[f0].is = "pending"
    <2>1. UNCHANGED <<disk, aged>> /\ \A f \in Files :
            IF f = f0 THEN upload'[f].is = "gone" /\ upload'[f].of = upload[f].of
            ELSE upload'[f] = upload[f]
      BY <1>1, <1>6 DEF DiscardRow, TeamTypeOK, FileRow, Keep
    <2> HIDE DEF f0
    <2>2. FilesInUse'
      <3>1. \A d \in Calls : call'[d].op \in {"upload", "discard"} => call'[d].file \in Files
        BY <1>2 DEF FilesInUse, OnlyCall, SameRequest
      <3>2. \A d \in Calls : call'[d].op = "upload" => call'[d] = call[d]
        BY <1>1, <1>2 DEF OnlyCall, SameRequest
      <3>3. \A d, e \in Calls :
              /\ call'[d].op = "upload" /\ Serving(d)' /\ call'[e].op = "upload" /\ Serving(e)'
              /\ call'[d].file = call'[e].file
              => d = e
        BY <3>2 DEF FilesInUse, Serving
      <3>4. \A f \in Files : Uploading(f)' => upload'[f].is = "none" /\ f \in disk' /\ f \notin aged'
        BY <1>3, <1>6, <2>1 DEF FilesInUse, f0
      <3>5. \A d \in Calls : call'[d].op = "discard" /\ call'[d].pc = "in" =>
              upload'[call'[d].file].is = "gone"
        BY <1>1, <1>2, <2>1, <3>1 DEF FilesInUse, OnlyCall, SameRequest, f0
      <3> QED BY <3>1, <3>3, <3>4, <3>5 DEF FilesInUse
    <2>3. SweepTrue'
      BY <1>1, <1>3, <1>5, <1>6, <2>1 DEF SweepTrue
    <2>4. FilesStored'
      BY <1>1, <2>1 DEF FilesStored
    <2> QED BY <1>4, <2>2, <2>3, <2>4
  <1>7. CASE DiscardRow(c) /\ upload[f0].is # "pending"
    <2>1. UNCHANGED <<upload, disk, aged>> /\ call'[c].pc = "done"
      BY <1>7, DiscardRowEffect DEF DiscardRow, Keep
    <2>2. FilesInUse'
      BY <1>2, <1>3, <2>1 DEF FilesInUse, OnlyCall, SameRequest, Serving
    <2>3. SweepTrue'
      BY <1>1, <1>3, <1>5, <2>1 DEF SweepTrue
    <2>4. FilesStored'
      BY <1>1, <2>1 DEF FilesStored
    <2> QED BY <1>4, <2>2, <2>3, <2>4
  <1>8. CASE DiscardFile(c)
    <2>1. /\ UNCHANGED upload /\ disk' = disk \ {f0} /\ aged' = aged \ {f0} /\ call[c].pc = "in"
          /\ call'[c].pc = "done"
      BY <1>8, EndsEffect DEF DiscardFile, Ends, Keep
    <2>2. upload[f0].is = "gone"
      BY <1>1, <2>1 DEF FilesInUse
    <2> HIDE DEF f0
    <2>3. FilesInUse'
      BY <1>2, <1>3, <2>1, <2>2 DEF FilesInUse, OnlyCall, SameRequest, Serving
    <2>4. SweepTrue'
      BY <1>1, <1>3, <1>5, <2>1, <2>2 DEF SweepTrue
    <2>5. FilesStored'
      BY <1>1, <2>1, <2>2 DEF FilesStored
    <2> QED BY <1>4, <2>3, <2>4, <2>5
  <1> QED BY <1>6, <1>7, <1>8

\* A crash leaves files, rows and finished messages as they are.
LEMMA CrashLines ==
  ASSUME TeamTypeOK, LinesKept, FilesInUse, SweepTrue, FilesStored, MarksKept, Crash
  PROVE  LinesKept' /\ FilesInUse' /\ SweepTrue' /\ FilesStored'
  <1>1. /\ \A c \in Calls : ~Serving(c)' /\ SameRequest(c) /\ call'[c].pc # "in"
        /\ \A i \in Lines : line'[i].is = (IF line[i].is = "draft" THEN "none" ELSE line[i].is)
        /\ sweep'.pc = "idle" /\ UNCHANGED <<lastLine, upload, disk, aged>>
    <2>1. \A c \in Calls : call'[c].pc \in {"new", "done"}
      BY CrashEffect
    <2>2. sweep'.pc = "idle"
      BY CrashEffect
    <2> QED BY <2>1, <2>2, CrashEffect DEF Serving
  <1>2. \A f \in Files : ~Uploading(f)' /\ upload[f].of \in Lines
    BY <1>1 DEF Uploading, TeamTypeOK, FileRow
  <1>3. LinesKept'
    BY <1>1 DEF LinesKept
  <1>4. FilesInUse'
    BY <1>1, <1>2 DEF FilesInUse, SameRequest
  <1>5. SweepTrue' /\ FilesStored'
    BY <1>1, <1>2 DEF SweepTrue, FilesStored
  <1> QED BY <1>3, <1>4, <1>5

\* The housekeeping pass: it takes away what nobody stores, sends or shows.
LEMMA TidyLines ==
  ASSUME TeamTypeOK, LinesKept, FilesInUse, SweepTrue, FilesStored, Tidy
  PROVE  LinesKept' /\ FilesInUse' /\ SweepTrue' /\ FilesStored'
  <1>1. UNCHANGED <<line, lastLine, call>>
    BY TidyKeeps
  <1>2. /\ \A f \in Files : Uploading(f)' <=> Uploading(f)
        /\ \A f \in Files : upload[f].of \in Lines
        /\ sweep.files \subseteq Files /\ aged \subseteq Files /\ aged \subseteq disk
        /\ \A f \in Files : Uploading(f) => upload[f].is = "none" /\ f \in disk /\ f \notin aged
    BY <1>1 DEF Uploading, Serving, TeamTypeOK, FileRow, SweepTrue, FilesInUse
  <1>3. LinesKept'
    BY <1>1 DEF LinesKept, Serving
  <1>4. ASSUME FilesCalm PROVE FilesInUse'
    BY <1>1, <1>4 DEF FilesInUse, FilesCalm, Serving
  <1>5. ASSUME NEW f0 \in Files, GrowOld(f0) PROVE FilesInUse' /\ SweepTrue' /\ FilesStored'
    <2>1. f0 \in disk /\ aged' = aged \cup {f0} /\ UNCHANGED <<upload, disk, sweep>>
      BY <1>5 DEF GrowOld, Keep
    <2>2. ~Uploading(f0)
      BY <1>5 DEF GrowOld, Uploading, Serving
    <2>3. FilesCalm
      BY <1>2, <2>1, <2>2 DEF FilesCalm
    <2>4. SweepTrue' /\ FilesStored'
      BY <1>1, <1>2, <2>1 DEF SweepTrue, FilesStored
    <2> QED BY <1>4, <2>3, <2>4
  <1>6. CASE SelectPending
    <2>1. sweep'.pc = "pending" /\ UNCHANGED <<upload, disk, aged>>
      BY <1>6 DEF SelectPending, Pass, Keep
    <2> QED BY <1>1, <1>2, <1>3, <1>4, <2>1 DEF FilesCalm, SweepTrue, FilesStored
  <1>7. CASE DeletePending
    <2> DEFINE gone == {f \in sweep.files : upload[f].is = "pending"}
    <2>1. /\ sweep' = [pc |-> "drop", files |-> gone] /\ UNCHANGED <<disk, aged>>
          /\ \A f \in Files : IF f \in gone THEN upload'[f] = [upload[f] EXCEPT !.is = "gone"]
                              ELSE upload'[f] = upload[f]
      BY <1>7 DEF DeletePending, Pass, Returned, Keep
    <2>2. gone \subseteq Files /\ \A f \in gone : upload[f].is = "pending"
      BY <1>2
    <2>3. \A f \in Files : upload[f] \in FileRow
      BY DEF TeamTypeOK
    <2> HIDE DEF gone
    <2>4. \A f \in Files : IF f \in gone THEN upload'[f].is = "gone" ELSE upload'[f] = upload[f]
      BY <2>1, <2>3 DEF FileRow
    <2>5. sweep'.pc = "drop" /\ sweep'.files = gone
      BY <2>1
    <2>6. FilesCalm
      BY <1>2, <2>1, <2>2, <2>4 DEF FilesCalm
    <2>7. SweepTrue'
      BY <1>2, <2>1, <2>2, <2>4, <2>5 DEF SweepTrue
    <2>8. FilesStored'
      BY <1>1, <2>1, <2>4 DEF FilesStored
    <2> QED BY <1>3, <1>4, <2>6, <2>7, <2>8
  <1>8. ASSUME NEW kept \in SUBSET Files, DropPending(kept) PROVE FilesInUse' /\ SweepTrue' /\ FilesStored'
    <2>1. /\ disk' = disk \ (sweep.files \ kept) /\ aged' = aged \ (sweep.files \ kept)
          /\ sweep.pc = "drop" /\ sweep'.pc = "deleted" /\ UNCHANGED upload
      BY <1>8 DEF DropPending, Pass, Keep
    <2>2. \A f \in sweep.files : upload[f].is = "gone"
      BY <2>1 DEF SweepTrue
    <2>3. FilesCalm
      BY <1>2, <2>1, <2>2 DEF FilesCalm
    <2>4. SweepTrue'
      BY <1>2, <2>1 DEF SweepTrue
    <2>5. FilesStored'
      BY <1>1, <2>1, <2>2 DEF FilesStored
    <2> QED BY <1>4, <2>3, <2>4, <2>5
  <1>9. CASE RemoveDeleted
    <2> DEFINE old == {f \in aged : upload[f].is = "attached" /\ line[upload[f].of].is = "deleted"}
    <2>1. /\ disk' = disk \ old /\ aged' = aged \ old /\ sweep' = [pc |-> "mark", files |-> old]
          /\ UNCHANGED upload
      BY <1>9 DEF RemoveDeleted, Pass, Keep
    <2>2. \A f \in old : f \in aged /\ upload[f].is = "attached" /\ line[upload[f].of].is = "deleted"
      OBVIOUS
    <2>3. sweep'.pc = "mark" /\ sweep'.files = old
      BY <2>1
    <2> HIDE DEF old
    <2>4. FilesCalm
      BY <1>2, <2>1, <2>2 DEF FilesCalm
    <2>5. SweepTrue'
      BY <1>1, <1>2, <2>1, <2>2, <2>3 DEF SweepTrue
    <2>6. FilesStored'
      BY <1>1, <2>1, <2>2 DEF FilesStored
    <2> QED BY <1>3, <1>4, <2>4, <2>5, <2>6
  <1>10. CASE MarkPurged
    <2>1. /\ sweep.pc = "mark" /\ sweep' = [pc |-> "orphans", files |-> aged] /\ UNCHANGED <<disk, aged>>
          /\ \A f \in Files : IF f \in sweep.files THEN upload'[f] = [upload[f] EXCEPT !.is = "purged"]
                              ELSE upload'[f] = upload[f]
      BY <1>10 DEF MarkPurged, Pass, Keep
    <2>2. \A f \in sweep.files : upload[f].is = "attached"
      BY <2>1 DEF SweepTrue
    <2>3. \A f \in Files : upload[f] \in FileRow
      BY DEF TeamTypeOK
    <2>4. \A f \in Files : IF f \in sweep.files THEN upload'[f].is = "purged" ELSE upload'[f] = upload[f]
      BY <2>1, <2>3 DEF FileRow
    <2>5. sweep'.pc = "orphans" /\ sweep'.files = aged
      BY <2>1
    <2>6. FilesCalm
      BY <1>2, <2>1, <2>2, <2>4 DEF FilesCalm
    <2>7. SweepTrue'
      BY <1>2, <2>1, <2>5 DEF SweepTrue
    <2>8. FilesStored'
      BY <1>1, <2>1, <2>4 DEF FilesStored
    <2> QED BY <1>3, <1>4, <2>6, <2>7, <2>8
  <1>11. CASE \E works \in BOOLEAN : FindOrphans(works)
    <2>1. /\ sweep.pc = "orphans" /\ sweep'.pc = "remove" /\ UNCHANGED <<upload, disk, aged>>
          /\ sweep'.files \subseteq {f \in sweep.files : upload[f].is \in {"none", "gone"}}
      BY <1>11 DEF FindOrphans, Pass, LookUp, Keep
    <2> QED BY <1>1, <1>2, <1>3, <1>4, <2>1 DEF FilesCalm, SweepTrue, FilesStored
  <1>12. CASE RemoveOrphans
    <2>1. /\ disk' = disk \ sweep.files /\ aged' = aged \ sweep.files /\ sweep.pc = "remove"
          /\ sweep'.pc = "idle" /\ UNCHANGED upload
      BY <1>12 DEF RemoveOrphans, Pass, Keep
    <2>2. \A f \in sweep.files : upload[f].is \in {"none", "gone"} /\ ~Uploading(f)
      BY <1>2, <2>1 DEF SweepTrue
    <2>3. FilesCalm
      BY <1>2, <2>1, <2>2 DEF FilesCalm
    <2>4. SweepTrue'
      BY <1>2, <2>1 DEF SweepTrue
    <2>5. FilesStored'
      BY <1>1, <2>1, <2>2 DEF FilesStored
    <2> QED BY <1>3, <1>4, <2>3, <2>4, <2>5
  <1> QED BY <1>3, <1>5, <1>6, <1>7, <1>8, <1>9, <1>10, <1>11, <1>12 DEF Tidy, Cleanup

LEMMA FilesStep ==
  ASSUME TeamTypeOK, MenuOK, LinesKept, FilesInUse, SweepTrue, FilesStored, MarksKept,
         [TeamNext]_teamVars
  PROVE  LinesKept' /\ FilesInUse' /\ SweepTrue' /\ FilesStored'
  <1>1. ASSUME NEW c \in Calls, Serve(c)
        PROVE  LinesKept' /\ FilesInUse' /\ SweepTrue' /\ FilesStored'
    BY <1>1, QuietServe, EnterLines, SendLines, UploadLines, RefuseLines, DiscardLines DEF Serve
  <1>2. ASSUME UNCHANGED teamVars
        PROVE  LinesKept' /\ FilesInUse' /\ SweepTrue' /\ FilesStored'
    <2>1. UNCHANGED <<line, lastLine, call, upload, disk, aged, sweep>>
      BY <1>2 DEF teamVars
    <2> QED BY <2>1 DEF LinesKept, FilesInUse, SweepTrue, FilesStored, Serving, Uploading
  <1> QED BY <1>1, <1>2, ArriveLines, TidyLines, CrashLines DEF TeamNext, Tidy

-------------------------------------------------------------------------------
(* TeamChat: limits *)

LEMMA CapsFinite ==
  ASSUME TeamTypeOK
  PROVE  /\ \A u \in ChatUsers : IsFiniteSet(Pending(u)) /\ Cardinality(Pending(u)) \in Nat
         /\ IsFiniteSet(Kinds) /\ Cardinality(Kinds) \in Nat /\ Kinds \subseteq Codes
  <1>1. Kinds \subseteq Codes
    BY DEF TeamTypeOK, Kinds
  <1>2. \A u \in ChatUsers : Pending(u) \subseteq Files
    BY DEF Pending
  <1> QED BY <1>1, <1>2, ChatNumbers, FS_Subset, FS_CardinalityType

\* A key is given back or kept as it is, and nothing counts more than before.
CapsCalm ==
    /\ \A u \in ChatUsers : Pending(u)' \subseteq Pending(u)
    /\ Kinds' \subseteq Kinds
    /\ \A c \in Calls : call'[c].op \in Keyed /\ call'[c].pc = "key" => call'[c] = call[c]

LEMMA CalmCaps ==
  ASSUME TeamTypeOK, CapsKept, CapsCalm
  PROVE  CapsKept'
  <1>1. \A u \in ChatUsers : Cardinality(Pending(u)') <= Cardinality(Pending(u))
                             /\ Cardinality(Pending(u)') \in Nat /\ Cardinality(Pending(u)) \in Nat
    BY CapsFinite, FS_Subset, FS_CardinalityType DEF CapsCalm
  <1>2. \A k \in Codes : /\ Cardinality(Kinds' \cup {k}) <= Cardinality(Kinds \cup {k})
                         /\ Cardinality(Kinds' \cup {k}) \in Nat /\ Cardinality(Kinds \cup {k}) \in Nat
    <2> SUFFICES ASSUME NEW k \in Codes
                 PROVE  /\ Cardinality(Kinds' \cup {k}) <= Cardinality(Kinds \cup {k})
                        /\ Cardinality(Kinds' \cup {k}) \in Nat /\ Cardinality(Kinds \cup {k}) \in Nat
      OBVIOUS
    <2>1. IsFiniteSet(Kinds \cup {k})
      BY CapsFinite, FS_AddElement
    <2>2. (Kinds' \cup {k}) \in SUBSET (Kinds \cup {k})
      BY DEF CapsCalm
    <2> QED BY <2>1, <2>2, FS_Subset, FS_CardinalityType
  <1>3. /\ Cardinality(Kinds') <= Cardinality(Kinds) /\ Cardinality(Kinds') \in Nat
        /\ Cardinality(Kinds) \in Nat
    BY CapsFinite, FS_Subset, FS_CardinalityType DEF CapsCalm
  <1>4. \A c \in Calls : call[c].by \in ChatUsers /\ call[c].code \in Codes
    BY DEF TeamTypeOK, Call
  <1>5. CapsHold'
    BY <1>1, <1>3, ChatNumbers DEF CapsKept, CapsHold
  <1>6. ASSUME NEW c \in Calls, NEW u \in ChatUsers,
               call'[c].op = "upload" /\ call'[c].by = u /\ call'[c].pc = "key" /\ call'[c].ok
        PROVE  Cardinality(Pending(u)') < MaxPending
    <2>1. call'[c] = call[c] /\ call[c].op = "upload"
      BY <1>6 DEF CapsCalm, Keyed
    <2>2. Cardinality(Pending(u)) < MaxPending
      BY <1>6, <2>1 DEF CapsKept
    <2> QED BY <1>1, <2>2, ChatNumbers
  <1>7. ASSUME NEW c \in Calls, call'[c].op = "react" /\ call'[c].pc = "key" /\ call'[c].ok
        PROVE  Cardinality(Kinds' \cup {call'[c].code}) <= MaxKinds
    <2>1. call'[c] = call[c] /\ call[c].op = "react"
      BY <1>7 DEF CapsCalm, Keyed
    <2>2. Cardinality(Kinds \cup {call[c].code}) <= MaxKinds
      BY <1>7, <2>1 DEF CapsKept
    <2>3. PICK k \in Codes : k = call[c].code
      BY <1>4
    <2>4. Cardinality(Kinds \cup {k}) <= MaxKinds
      BY <2>2, <2>3
    <2>5. Cardinality(Kinds' \cup {k}) <= MaxKinds
      BY <1>2, <2>4, ChatNumbers
    <2> QED BY <2>1, <2>3, <2>5
  <1>8. \A c, d \in Calls :
          /\ call'[c].op \in Keyed /\ call'[c].pc = "key" /\ call'[d].op = call'[c].op /\ call'[d].pc = "key"
          /\ call'[c].op = "upload" => call'[d].by = call'[c].by
          => c = d
    BY DEF CapsKept, CapsCalm
  <1> QED BY <1>5, <1>6, <1>7, <1>8 DEF CapsKept

\* What most steps do to the rows that are counted.
LEMMA ShrinkingRows ==
  ASSUME UNCHANGED reaction,
         \A f \in Files : upload'[f].is = "pending" => upload[f].is = "pending" /\ upload'[f].by = upload[f].by
  PROVE  Kinds' \subseteq Kinds /\ \A u \in ChatUsers : Pending(u)' \subseteq Pending(u)
  BY DEF Kinds, Pending

LEMMA UploadCaps ==
  ASSUME TeamTypeOK, CapsKept, FilesInUse, NEW c \in Calls, CommitUpload(c)
  PROVE  CapsKept'
  <1>0. PICK u0 \in ChatUsers, f0 \in Files : call[c].by = u0 /\ call[c].file = f0
    BY DEF CommitUpload, Committing, TeamTypeOK, Call, FilesInUse
  <1>1. /\ call[c].op = "upload" /\ call[c].pc = "key" /\ call[c].ok /\ UNCHANGED reaction
        /\ upload' = [upload EXCEPT ![f0].is = "pending", ![f0].by = u0]
    BY <1>0 DEF CommitUpload, Committing, Keyed, Keep
  <1>2. OnlyCall(c) /\ SameRequest(c) /\ call'[c].pc = "done"
    BY EndsEffect DEF Ends
  <1>3. u0 \in ChatUsers /\ f0 \in Files
    OBVIOUS
  <1>4. \A f \in Files : IF f = f0 THEN upload'[f].by = u0 ELSE upload'[f] = upload[f]
    BY <1>1, <1>3 DEF TeamTypeOK, FileRow
  <1>5. /\ Kinds' = Kinds /\ \A u \in ChatUsers : u # u0 => Pending(u)' \subseteq Pending(u)
        /\ Pending(u0)' \subseteq Pending(u0) \cup {f0}
    <2>1. Kinds' = Kinds
      BY <1>1 DEF Kinds
    <2>2. \A u \in ChatUsers : u # u0 => Pending(u)' \subseteq Pending(u)
      BY <1>4 DEF Pending
    <2>3. Pending(u0)' \subseteq Pending(u0) \cup {f0}
      <3> SUFFICES ASSUME NEW f \in Files, f # f0, upload'[f].is = "pending" /\ upload'[f].by = u0
                   PROVE  upload[f].is = "pending" /\ upload[f].by = u0
        BY DEF Pending
      <3> QED BY <1>4
    <2> QED BY <2>1, <2>2, <2>3
  <1>6. /\ Cardinality(Pending(u0)) < MaxPending
        /\ \A d \in Calls : d # c => ~(call[d].op = "upload" /\ call[d].pc = "key" /\ call[d].by = u0)
    BY <1>0, <1>1, <1>3 DEF CapsKept, Keyed
  <1>7. Cardinality(Pending(u0)') <= MaxPending
    <2>1. /\ IsFiniteSet(Pending(u0) \cup {f0}) /\ Cardinality(Pending(u0)) \in Nat
          /\ Cardinality(Pending(u0) \cup {f0}) <= Cardinality(Pending(u0)) + 1
      <3>1. IsFiniteSet(Pending(u0)) /\ Cardinality(Pending(u0)) \in Nat
        BY <1>3, CapsFinite
      <3>2. /\ IsFiniteSet(Pending(u0) \cup {f0})
            /\ Cardinality(Pending(u0) \cup {f0}) =
                 IF f0 \in Pending(u0) THEN Cardinality(Pending(u0)) ELSE Cardinality(Pending(u0)) + 1
        BY <3>1, FS_AddElement
      <3> QED BY <3>1, <3>2
    <2>2. /\ Cardinality(Pending(u0)') <= Cardinality(Pending(u0) \cup {f0})
          /\ Cardinality(Pending(u0)') \in Nat /\ Cardinality(Pending(u0) \cup {f0}) \in Nat
      BY <1>5, <2>1, FS_Subset, FS_CardinalityType
    <2> QED BY <1>6, <2>1, <2>2, ChatNumbers
  <1>8. \A u \in ChatUsers : u # u0 => Cardinality(Pending(u)') <= Cardinality(Pending(u))
          /\ Cardinality(Pending(u)') \in Nat /\ Cardinality(Pending(u)) \in Nat
    BY <1>5, CapsFinite, FS_Subset, FS_CardinalityType
  <1>9. CapsHold'
    <2>1. \A u \in ChatUsers : Cardinality(Pending(u)') <= MaxPending
      <3> SUFFICES ASSUME NEW u \in ChatUsers, u # u0 PROVE Cardinality(Pending(u)') <= MaxPending
        BY <1>7
      <3>1. Cardinality(Pending(u)) <= MaxPending
        BY DEF CapsKept, CapsHold
      <3> QED BY <1>8, <3>1, ChatNumbers
    <2> QED BY <1>5, <2>1 DEF CapsKept, CapsHold
  <1>10. ASSUME NEW d \in Calls, NEW u \in ChatUsers,
                call'[d].op = "upload" /\ call'[d].by = u /\ call'[d].pc = "key" /\ call'[d].ok
         PROVE  Cardinality(Pending(u)') < MaxPending
    <2>1. d # c /\ call'[d] = call[d] /\ u # u0
      BY <1>2, <1>6, <1>10 DEF OnlyCall
    <2>2. Cardinality(Pending(u)) < MaxPending
      BY <1>10, <2>1 DEF CapsKept
    <2> QED BY <1>8, <2>1, <2>2, ChatNumbers
  <1>11. \A d \in Calls : call'[d].op = "react" /\ call'[d].pc = "key" => d # c /\ call'[d] = call[d]
    BY <1>2 DEF OnlyCall
  <1>12. \A d, e \in Calls :
          /\ call'[d].op \in Keyed /\ call'[d].pc = "key" /\ call'[e].op = call'[d].op /\ call'[e].pc = "key"
          /\ call'[d].op = "upload" => call'[e].by = call'[d].by
          => d = e
    BY <1>2 DEF CapsKept, OnlyCall
  <1>13. \A d \in Calls : call'[d].op = "react" /\ call'[d].pc = "key" /\ call'[d].ok =>
           Cardinality(Kinds' \cup {call'[d].code}) <= MaxKinds
    BY <1>5, <1>11 DEF CapsKept
  <1> QED BY <1>9, <1>10, <1>12, <1>13 DEF CapsKept

LEMMA ReactCaps ==
  ASSUME TeamTypeOK, CapsKept, NEW c \in Calls, CommitReact(c)
  PROVE  CapsKept'
  <1>1. /\ call[c].op = "react" /\ call[c].pc = "key" /\ call[c].ok /\ UNCHANGED upload
        /\ reaction' = reaction \cup {<<call[c].by, call[c].code>>}
    BY DEF CommitReact, Committing, Keyed, Keep
  <1>2. OnlyCall(c) /\ SameRequest(c) /\ call'[c].pc = "done"
    BY EndsEffect DEF Ends
  <1>3. Kinds' = Kinds \cup {call[c].code} /\ \A u \in ChatUsers : Pending(u)' = Pending(u)
    <2>1. \A u \in ChatUsers : Pending(u)' = Pending(u)
      BY <1>1 DEF Pending
    <2>2. <<call[c].by, call[c].code>>[2] = call[c].code
      OBVIOUS
    <2>3. Kinds' = Kinds \cup {<<call[c].by, call[c].code>>[2]}
      BY <1>1 DEF Kinds
    <2> QED BY <2>1, <2>2, <2>3
  <1>4. CapsHold'
    BY <1>1, <1>3 DEF CapsKept, CapsHold
  <1>5. \A d \in Calls : d # c => ~(call[d].op = "react" /\ call[d].pc = "key")
    BY <1>1 DEF CapsKept, Keyed
  <1>6. \A d, e \in Calls :
          /\ call'[d].op \in Keyed /\ call'[d].pc = "key" /\ call'[e].op = call'[d].op /\ call'[e].pc = "key"
          /\ call'[d].op = "upload" => call'[e].by = call'[d].by
          => d = e
    BY <1>2 DEF CapsKept, OnlyCall
  <1>7. \A d \in Calls : ~(call'[d].op = "react" /\ call'[d].pc = "key")
    BY <1>2, <1>5 DEF OnlyCall
  <1>8. \A d \in Calls, u \in ChatUsers :
          call'[d].op = "upload" /\ call'[d].by = u /\ call'[d].pc = "key" /\ call'[d].ok =>
          Cardinality(Pending(u)') < MaxPending
    BY <1>2, <1>3 DEF CapsKept, OnlyCall
  <1> QED BY <1>4, <1>6, <1>7, <1>8 DEF CapsKept

\* The limit is compared under the key, so nobody else is between count and commit.
LEMMA KeyCaps ==
  ASSUME TeamTypeOK, CapsKept, NEW c \in Calls, TakeKey(c)
  PROVE  CapsKept'
  <1>1. /\ OnlyCall(c) /\ SameRequest(c) /\ call[c].op \in Keyed /\ KeyFree(call[c])
        /\ call'[c].ok = (IF call[c].op = "upload" THEN Cardinality(Pending(call[c].by)) < MaxPending
                          ELSE call[c].code \in Kinds \/ Cardinality(Kinds) < MaxKinds)
    BY TakeKeyEffect
  <1>2. Kinds' = Kinds /\ \A u \in ChatUsers : Pending(u)' = Pending(u)
    BY DEF TakeKey, Keep, Kinds, Pending
  <1>3. CapsHold'
    BY <1>2 DEF CapsKept, CapsHold
  <1>4. \A d \in Calls : ~(call[d].pc = "key" /\ call[d].op = call[c].op
                           /\ (call[c].op = "upload" => call[d].by = call[c].by))
    BY <1>1 DEF KeyFree
  <1>5. \A d, e \in Calls :
          /\ call'[d].op \in Keyed /\ call'[d].pc = "key" /\ call'[e].op = call'[d].op /\ call'[e].pc = "key"
          /\ call'[d].op = "upload" => call'[e].by = call'[d].by
          => d = e
    BY <1>1, <1>4 DEF CapsKept, OnlyCall, SameRequest
  <1>6. ASSUME NEW d \in Calls, NEW u \in ChatUsers,
               call'[d].op = "upload" /\ call'[d].by = u /\ call'[d].pc = "key" /\ call'[d].ok
        PROVE  Cardinality(Pending(u)) < MaxPending
    BY <1>1, <1>6 DEF CapsKept, OnlyCall, SameRequest
  <1>7. ASSUME NEW d \in Calls, call'[d].op = "react" /\ call'[d].pc = "key" /\ call'[d].ok
        PROVE  Cardinality(Kinds \cup {call'[d].code}) <= MaxKinds
    <2>1. CASE d # c
      BY <1>1, <1>7, <2>1 DEF CapsKept, OnlyCall
    <2>2. CASE d = c
      <3>1. call'[c].code = call[c].code /\ (call[c].code \in Kinds \/ Cardinality(Kinds) < MaxKinds)
        BY <1>1, <1>7, <2>2 DEF SameRequest
      <3>2. Cardinality(Kinds) <= MaxKinds /\ Cardinality(Kinds) \in Nat /\ IsFiniteSet(Kinds)
        BY CapsFinite DEF CapsKept, CapsHold
      <3>3. Cardinality(Kinds \cup {call[c].code}) =
              IF call[c].code \in Kinds THEN Cardinality(Kinds) ELSE Cardinality(Kinds) + 1
        BY <3>2, FS_AddElement
      <3> QED BY <2>2, <3>1, <3>2, <3>3, ChatNumbers
    <2> QED BY <2>1, <2>2
  <1> QED BY <1>2, <1>3, <1>5, <1>6, <1>7 DEF CapsKept

LEMMA CapsStep ==
  ASSUME TeamTypeOK, MenuOK, FilesInUse, CapsKept, [TeamNext]_teamVars
  PROVE  CapsKept'
  <1>1. ASSUME NEW c \in Calls, Serve(c), ~TakeKey(c), ~CommitUpload(c), ~CommitReact(c)
        PROVE  CapsKept'
    <2>1. Kinds' \subseteq Kinds
      BY <1>1 DEF Serve, Enter, Refuse, CommitSend, CommitEdit, CommitUnreact,
           AddChatChannelMember, removeChatMember, SetChatMemberRole, JoinChatChannel, CommitMember,
           RenameChatChannel, setChatArchived, CommitChannel, DeleteChatMessage, DiscardRow, DiscardFile,
           ReadLatest, CompareMarker, WriteMarker, Keep, Kinds
    <2>2. \A f \in Files : upload'[f].is = "pending" => upload[f].is = "pending" /\ upload'[f].by = upload[f].by
      <3>1. CASE CommitSend(c) \/ DiscardRow(c)
        BY <3>1 DEF CommitSend, DiscardRow, Keep, TeamTypeOK, FileRow
      <3>2. CASE ~(CommitSend(c) \/ DiscardRow(c))
        BY <1>1, <3>2 DEF Serve, Enter, Refuse, CommitEdit, CommitUnreact,
           AddChatChannelMember, removeChatMember, SetChatMemberRole, JoinChatChannel, CommitMember,
           RenameChatChannel, setChatArchived, CommitChannel, DeleteChatMessage, DiscardFile,
           ReadLatest, CompareMarker, WriteMarker, Keep
      <3> QED BY <3>1, <3>2
    <2>3. \A u \in ChatUsers : Pending(u)' \subseteq Pending(u)
      BY <2>2 DEF Pending
    <2>4. OnlyCall(c) /\ SameRequest(c) /\ ~(call[c].op \in Keyed /\ call'[c].pc = "key")
      BY <1>1, ServeCases, EndsEffect, DiscardRowEffect, CompareMarkerEffect, ReadLatestEffect, EnterEffect
         DEF DiscardRow, CompareMarker, Keyed
    <2> QED BY <2>1, <2>3, <2>4, CalmCaps DEF CapsCalm, OnlyCall, SameRequest
  <1>2. ASSUME NEW c \in Calls, Arrive(c) PROVE CapsKept'
    <2>1. UNCHANGED <<reaction, upload>> /\ OnlyCall(c) /\ call'[c].pc = "wait"
      BY <1>2, ArriveEffect
    <2> QED BY <2>1, CalmCaps, ShrinkingRows DEF CapsCalm, OnlyCall
  <1>3. CASE Tidy
    <2>1. UNCHANGED <<call, reaction>>
      BY <1>3, TidyKeeps
    <2>2. \A f \in Files : upload'[f].is = "pending" => upload[f].is = "pending" /\ upload'[f].by = upload[f].by
      <3>1. CASE DeletePending
        BY <3>1 DEF DeletePending, TeamTypeOK, FileRow
      <3>2. CASE MarkPurged
        BY <3>2 DEF MarkPurged, TeamTypeOK, FileRow
      <3>3. CASE ~DeletePending /\ ~MarkPurged
        BY <1>3, <3>3 DEF Tidy, Cleanup, GrowOld, SelectPending, DropPending, RemoveDeleted,
           FindOrphans, RemoveOrphans, Keep
      <3> QED BY <3>1, <3>2, <3>3
    <2> QED BY <2>1, <2>2, CalmCaps, ShrinkingRows DEF CapsCalm
  <1>4. CASE Crash
    <2>1. UNCHANGED <<reaction, upload>> /\ \A c \in Calls : call'[c].pc \in {"new", "done"}
      BY <1>4, CrashEffect
    <2> QED BY <2>1, CalmCaps, ShrinkingRows DEF CapsCalm
  <1>5. CASE UNCHANGED teamVars
    <2>1. UNCHANGED <<reaction, upload, call>>
      BY <1>5 DEF teamVars
    <2> QED BY <2>1, CalmCaps, ShrinkingRows DEF CapsCalm
  <1> QED BY <1>1, <1>2, <1>3, <1>4, <1>5, UploadCaps, ReactCaps, KeyCaps DEF TeamNext, Tidy

-------------------------------------------------------------------------------
(* TeamChat: read markers *)

\* Requests stay who they are, those that ended stay ended, and an answer does not change.
MarksCalm ==
    \A c \in Calls :
        /\ SameRequest(c)
        /\ call'[c].pc = "new" <=> call[c].pc = "new"
        /\ call[c].pc = "done" => call'[c].pc = "done"
        /\ call[c].op = "mark" /\ call'[c].ok => call[c].ok

LEMMA CalmMarks ==
  ASSUME MarksKept, MarksCalm,
         \A c \in Calls : call[c].op = "mark" /\ Alone(c) =>
           /\ call'[c].ok /\ call'[c].pc = "key" => marker'[call[c].by] < call'[c].at
           /\ call'[c].ok /\ call'[c].pc = "done" => marker'[call[c].by] >= call'[c].at
  PROVE  MarksKept'
  <1>1. \A c, d \in Calls : d < c /\ call'[c].pc # "new" => call'[d].pc # "new"
    BY DEF MarksKept, MarksCalm
  <1>2. \A c \in Calls : call'[c].pc = "new" => call'[c].op = "none"
    BY DEF MarksKept, MarksCalm, SameRequest
  <1>3. \A c, d \in Calls : Alike(c, d)' /\ call'[c].ok /\ d < c => call'[d].pc = "done"
    BY DEF MarksKept, MarksCalm, SameRequest, Alike
  <1>4. ASSUME NEW c \in Calls, call'[c].op = "mark", Alone(c)'
        PROVE  /\ call'[c].pc = "key" => marker'[call'[c].by] < call'[c].at
               /\ call'[c].pc = "done" => marker'[call'[c].by] >= call'[c].at
    <2>1. call[c].op = "mark" /\ Alone(c) /\ call'[c].ok /\ call'[c].by = call[c].by
      BY <1>4 DEF Alone, MarksCalm, SameRequest
    <2> QED BY <2>1
  <1> QED BY <1>1, <1>2, <1>3, <1>4 DEF MarksKept

\* Of the markings of one person only the last that arrived can be one nobody overlapped.
LEMMA AloneWrites ==
  ASSUME MarksKept, NEW c \in Calls, NEW d \in Calls, MaxCalls \in Nat,
         Alike(c, d), Alone(c), call[d].pc # "done"
  PROVE  c = d
  <1>1. ~(d > c) /\ ~(d < c)
    BY DEF Alone, Alike, MarksKept
  <1> QED BY <1>1 DEF Calls

LEMMA ServeMarks ==
  ASSUME TeamTypeOK, MarksKept, NEW c \in Calls, Serve(c)
  PROVE  MarksKept'
  <1>1. OnlyCall(c) /\ SameRequest(c) /\ Serving(c) /\ call'[c].pc # "new"
    BY ServeEffect
  <1>2. call[c].op = "mark" => call'[c].ok = call[c].ok
    BY ServeCases, EndsEffect, DiscardRowEffect, CompareMarkerEffect, ReadLatestEffect, EnterEffect,
       TakeKeyEffect DEF SameAnswer, Enter, LockMode, Sharing, Exclusive, Keyed
  <1>3. MarksCalm
    BY <1>1, <1>2 DEF MarksCalm, OnlyCall, SameRequest, Serving
  <1>4. \A d \in Calls : call[d] \in Call /\ call[d].by \in ChatUsers /\ call[d].at \in Nat
    BY ChatNumbers DEF TeamTypeOK, Call
  <1>5. \A u \in ChatUsers : marker[u] \in Nat
    BY ChatNumbers DEF TeamTypeOK
  <1>6. CASE WriteMarker(c)
    <2>1. /\ call[c].op = "mark" /\ marker' = [marker EXCEPT ![call[c].by] = call[c].at]
          /\ call'[c].pc = "done" /\ call'[c].at = call[c].at
      BY <1>6, EndsEffect DEF WriteMarker, Marked, Ends, SameAnswer
    <2> SUFFICES ASSUME NEW d \in Calls, call[d].op = "mark" /\ Alone(d)
                 PROVE  /\ call'[d].ok /\ call'[d].pc = "key" => marker'[call[d].by] < call'[d].at
                        /\ call'[d].ok /\ call'[d].pc = "done" => marker'[call[d].by] >= call'[d].at
      BY <1>3, CalmMarks
    <2>2. CASE d = c
      BY <1>4, <2>1, <2>2 DEF TeamTypeOK
    <2>3. CASE d # c
      <3>1. call[d].by # call[c].by
        BY <1>1, <2>1, <2>3, AloneWrites, ChatNumbers DEF Alike, Serving
      <3>2. marker'[call[d].by] = marker[call[d].by] /\ call'[d] = call[d]
        BY <1>1, <1>4, <2>1, <2>3, <3>1 DEF TeamTypeOK, OnlyCall
      <3> QED BY <3>2 DEF MarksKept
    <2> QED BY <2>2, <2>3
  <1>7. CASE ~WriteMarker(c)
    <2>1. UNCHANGED marker
      BY <1>7 DEF Serve, Enter, TakeKey, Refuse, CommitSend, CommitEdit, CommitUpload, CommitReact,
         CommitUnreact, AddChatChannelMember, removeChatMember, SetChatMemberRole, JoinChatChannel,
         CommitMember, RenameChatChannel, setChatArchived, CommitChannel, DeleteChatMessage, DiscardRow,
         DiscardFile, ReadLatest, CompareMarker, Keep
    <2>2. ASSUME call[c].op = "mark"
          PROVE  CompareMarker(c) \/ ReadLatest(c)
      BY <1>7, <2>2 DEF Serve, Enter, TakeKey, Refuse, CommitSend, CommitEdit, CommitUpload, CommitReact,
         CommitUnreact, AddChatChannelMember, removeChatMember, SetChatMemberRole, JoinChatChannel,
         CommitMember, RenameChatChannel, setChatArchived, CommitChannel, DeleteChatMessage, DiscardRow,
         DiscardFile, Committing, LockMode, Sharing, Exclusive, Keyed
    <2> SUFFICES ASSUME NEW d \in Calls, call[d].op = "mark" /\ Alone(d)
                 PROVE  /\ call'[d].ok /\ call'[d].pc = "key" => marker[call[d].by] < call'[d].at
                        /\ call'[d].ok /\ call'[d].pc = "done" => marker[call[d].by] >= call'[d].at
      BY <1>3, <2>1, CalmMarks
    <2>3. CASE d # c
      <3>1. call'[d] = call[d]
        BY <1>1, <2>3 DEF OnlyCall
      <3> QED BY <3>1 DEF MarksKept
    <2>4. CASE d = c /\ ReadLatest(c)
      BY <2>4, ReadLatestEffect
    <2>5. CASE d = c /\ CompareMarker(c)
      <3>1. /\ call'[c].pc = (IF marker[call[c].by] >= call[c].at THEN "done" ELSE "key")
            /\ call'[c].at = call[c].at
        BY <2>5, CompareMarkerEffect DEF Behind, SameAnswer
      <3>2. marker[call[c].by] \in Nat /\ call[c].at \in Nat
        BY <1>4, <1>5
      <3> QED BY <2>5, <3>1, <3>2
    <2> QED BY <2>2, <2>3, <2>4, <2>5
  <1> QED BY <1>6, <1>7

LEMMA ArriveMarks ==
  ASSUME TeamTypeOK, MenuOK, MarksKept, NEW c \in Calls, Arrive(c)
  PROVE  MarksKept'
  <1>1. /\ OnlyCall(c) /\ call[c].pc = "new" /\ call'[c].pc = "wait" /\ UNCHANGED marker
        /\ \A d \in Calls : d < c => call[d].pc # "new"
        /\ call'[c].ok = (call'[c].op = "mark" /\ ~Marking(call'[c].by))
    BY ArriveEffect
  <1>2. \A d \in Calls : d > c => call[d].pc = "new" /\ call[d].op = "none"
    BY <1>1 DEF MarksKept
  <1>3. \A d \in Calls : d # c => d < c \/ d > c
    BY ChatNumbers DEF Calls
  <1>4. \A d, e \in Calls : e < d /\ call'[d].pc # "new" => call'[e].pc # "new"
    BY <1>1, <1>2, <1>3 DEF MarksKept, OnlyCall
  <1>5. \A d \in Calls : call'[d].pc = "new" => call'[d].op = "none"
    BY <1>1 DEF MarksKept, OnlyCall
  <1>6. ASSUME NEW d \in Calls, NEW e \in Calls, Alike(d, e)', call'[d].ok, e < d
        PROVE  call'[e].pc = "done"
    <2>1. CASE d = c
      <3>1. ~Marking(call'[c].by) /\ e # c /\ call'[e] = call[e]
        BY <1>1, <1>6, <2>1 DEF OnlyCall, Calls, Alike
      <3>2. call[e].op = "mark" /\ call[e].by = call'[c].by
        BY <1>6, <2>1, <3>1 DEF Alike
      <3> QED BY <3>1, <3>2 DEF Marking
    <2>2. CASE d # c
      <3>1. d < c
        BY <1>1, <1>2, <1>3, <1>6, <2>2 DEF OnlyCall, Alike
      <3>2. e # c /\ call'[d] = call[d] /\ call'[e] = call[e]
        BY <1>1, <1>6, <2>2, <3>1, ChatNumbers DEF OnlyCall, Calls
      <3> QED BY <1>6, <3>2 DEF MarksKept, Alike
    <2> QED BY <2>1, <2>2
  <1>7. ASSUME NEW d \in Calls, call'[d].op = "mark" /\ Alone(d)'
        PROVE  /\ call'[d].pc = "key" => marker[call'[d].by] < call'[d].at
               /\ call'[d].pc = "done" => marker[call'[d].by] >= call'[d].at
    <2>1. CASE d = c
      BY <1>1, <2>1
    <2>2. CASE d # c
      <3>1. call'[d] = call[d]
        BY <1>1, <2>2 DEF OnlyCall
      <3>2. Alone(d)
        <4>1. ASSUME NEW e \in Calls, e > d, call[e].op = "mark", call[e].by = call[d].by
              PROVE  FALSE
          <5>1. e # c
            BY <1>1, <4>1 DEF MarksKept
          <5>2. call'[e] = call[e]
            BY <1>1, <5>1 DEF OnlyCall
          <5> QED BY <1>7, <3>1, <4>1, <5>2 DEF Alone
        <4> QED BY <1>7, <3>1, <4>1 DEF Alone
      <3> QED BY <1>7, <3>1, <3>2 DEF MarksKept
    <2> QED BY <2>1, <2>2
  <1> QED BY <1>1, <1>4, <1>5, <1>6, <1>7 DEF MarksKept

LEMMA MarksStep ==
  ASSUME TeamTypeOK, MenuOK, MarksKept, [TeamNext]_teamVars
  PROVE  MarksKept'
  <1>1. CASE Tidy \/ UNCHANGED teamVars
    <2>1. UNCHANGED <<marker, call>>
      BY <1>1, TidyKeeps DEF teamVars
    <2> QED BY <2>1 DEF MarksKept, Alike, Alone
  <1>2. CASE Crash
    <2>1. \A c \in Calls : /\ call'[c].op = call[c].op
                           /\ call[c].pc = "new" => call'[c].pc = "new"
                           /\ call[c].pc # "new" => call'[c].pc = "done" /\ call'[c].ok = FALSE
      BY <1>2, CrashEffect DEF SameRequest
    <2> QED BY <2>1 DEF MarksKept, Alike, Alone
  <1> QED BY <1>1, <1>2, ServeMarks, ArriveMarks DEF TeamNext, Tidy

-------------------------------------------------------------------------------
(* TeamChat: the lock on the channel's row *)

\* Nobody enters the transaction, and the channel is as it was.
LocksCalm ==
    /\ UNCHANGED <<role, channel>>
    /\ \A c \in Calls : c \in InTransaction' => c \in InTransaction /\ SameRequest(c)

LEMMA CalmLocks ==
  ASSUME LocksKept, LocksCalm
  PROVE  LocksKept'
  <1>1. \A c, d \in Calls : c \in InTransaction' /\ d \in InTransaction' /\ c # d =>
          LockMode(call'[c].op) = "SHARE" /\ LockMode(call'[d].op) = "SHARE"
    BY DEF LocksKept, LocksCalm, SameRequest
  <1>2. InTransaction' \subseteq Calls
    BY DEF InTransaction
  <1>3. ASSUME NEW c \in Calls, c \in InTransaction', call'[c].op \in Exclusive
        PROVE  Rechecked(call[c])'
    <2>1. Rechecked(call[c]) /\ SameRequest(c) /\ call[c].op \in Exclusive
      BY <1>3 DEF LocksKept, LocksCalm, SameRequest
    <2> QED BY <2>1 DEF Rechecked, Exclusive, LocksCalm, SameRequest, requireComposer, Owners
  <1>4. ASSUME NEW c \in Calls, c \in InTransaction', call'[c].op \in Sharing \ {"add"}
        PROVE  canAccess(call[c].by)' /\ ~channel'.archived
    BY <1>4 DEF LocksKept, LocksCalm, SameRequest, canAccess
  <1> QED BY <1>1, <1>2, <1>3, <1>4 DEF LocksKept

\* Entering waits for whoever excludes it, and checks again.
LEMMA EnterLocks ==
  ASSUME TeamTypeOK, LocksKept, NEW c \in Calls, Enter(c)
  PROVE  LocksKept'
  <1>1. /\ OnlyCall(c) /\ SameRequest(c) /\ UNCHANGED <<role, channel>> /\ LockFree(c)
        /\ Rechecked(call[c]) /\ LockMode(call[c].op) # "none"
    BY EnterEffect DEF Enter, Keep
  <1>2. \A d \in Calls : d \in InTransaction' => d = c \/ (d \in InTransaction /\ call'[d] = call[d])
    BY <1>1 DEF InTransaction, OnlyCall
  <1>3. InTransaction' \subseteq Calls
    BY DEF InTransaction
  <1>4. \A d, e \in InTransaction' : d # e =>
          LockMode(call'[d].op) = "SHARE" /\ LockMode(call'[e].op) = "SHARE"
    BY <1>1, <1>2, <1>3 DEF LocksKept, LockFree, SameRequest
  <1>5. ASSUME NEW d \in InTransaction', call'[d].op \in Exclusive
        PROVE  Rechecked(call[d])'
    <2>1. d \in Calls /\ Rechecked(call[d]) /\ SameRequest(d) /\ call[d].op \in Exclusive
      BY <1>1, <1>2, <1>3, <1>5 DEF LocksKept, SameRequest
    <2> QED BY <1>1, <2>1 DEF Rechecked, Exclusive, SameRequest, requireComposer, Owners
  <1>6. ASSUME NEW d \in InTransaction', call'[d].op \in Sharing \ {"add"}
        PROVE  canAccess(call[d].by)' /\ ~channel'.archived
    <2>1. CASE d = c
      <3>1. call[c].op \in Sharing \ {"add"} /\ call'[c].by = call[c].by
        BY <1>1, <1>6, <2>1 DEF SameRequest
      <3>2. canAccess(call[c].by) /\ ~channel.archived
        BY <1>1, <3>1 DEF Rechecked, Sharing
      <3> QED BY <1>1, <2>1, <3>1, <3>2 DEF canAccess
    <2>2. CASE d # c
      BY <1>1, <1>2, <1>3, <1>6, <2>2 DEF LocksKept, canAccess
    <2> QED BY <2>1, <2>2
  <1> QED BY <1>4, <1>5, <1>6 DEF LocksKept

\* Somebody is added while others share the row: nobody loses access by it.
LEMMA AddLocks ==
  ASSUME TeamTypeOK, LocksKept, NEW c \in Calls, AddChatChannelMember(c)
  PROVE  LocksKept'
  <1>1. /\ OnlyCall(c) /\ SameRequest(c) /\ call'[c].pc = "done" /\ UNCHANGED channel
        /\ call[c].op = "add" /\ call[c].pc = "in"
        /\ role' = [role EXCEPT ![call[c].to] = "member"] /\ call[c].to \in ChatUsers
    BY EndsEffect DEF Ends, AddChatChannelMember, CommitMember, Committing, Keyed, Keep, TeamTypeOK, Call
  <1>2. InTransaction' \subseteq Calls
        /\ \A d \in InTransaction' : d # c /\ d \in InTransaction /\ call'[d] = call[d]
    BY <1>1 DEF InTransaction, OnlyCall
  <1>3. c \in InTransaction
    BY <1>1 DEF InTransaction, LockMode, Sharing
  <1>4. \A d \in InTransaction' : LockMode(call'[d].op) = "SHARE"
    BY <1>2, <1>3 DEF LocksKept
  <1>5. \A d \in InTransaction' : call'[d].op \notin Exclusive
    BY <1>4 DEF LockMode, Exclusive, Sharing
  <1>6. ASSUME NEW d \in InTransaction', call'[d].op \in Sharing \ {"add"}
        PROVE  canAccess(call[d].by)' /\ ~channel'.archived
    <2>1. canAccess(call[d].by) /\ ~channel.archived /\ call'[d] = call[d] /\ call[d].by \in ChatUsers
      BY <1>2, <1>6 DEF LocksKept, TeamTypeOK, Call
    <2> QED BY <1>1, <2>1 DEF canAccess, TeamTypeOK
  <1> QED BY <1>2, <1>4, <1>5, <1>6 DEF LocksKept

\* Everybody else who changes the channel is alone with it.
LEMMA AloneLocks ==
  ASSUME TeamTypeOK, LocksKept, NEW c \in Calls,
         \/ removeChatMember(c) \/ SetChatMemberRole(c) \/ JoinChatChannel(c)
         \/ RenameChatChannel(c) \/ setChatArchived(c)
  PROVE  LocksKept'
  <1>1. OnlyCall(c) /\ call'[c].pc = "done"
    BY EndsEffect DEF Ends
  <1>2. call[c].op \in Exclusive /\ call[c].pc = "in"
    BY DEF removeChatMember, SetChatMemberRole, JoinChatChannel, CommitMember, RenameChatChannel,
           setChatArchived, CommitChannel, Committing, Keyed, Exclusive
  <1>3. c \in InTransaction /\ LockMode(call[c].op) # "SHARE"
    BY <1>2 DEF InTransaction, LockMode, Sharing, Exclusive
  <1>4. InTransaction' = {}
    BY <1>1, <1>3 DEF InTransaction, OnlyCall, LocksKept
  <1> QED BY <1>4 DEF LocksKept

LEMMA LocksStep ==
  ASSUME TeamTypeOK, MenuOK, LocksKept, [TeamNext]_teamVars
  PROVE  LocksKept'
  <1>1. ASSUME NEW c \in Calls, Serve(c) PROVE LocksKept'
    <2>1. CASE \/ Enter(c) \/ AddChatChannelMember(c) \/ removeChatMember(c) \/ SetChatMemberRole(c)
               \/ JoinChatChannel(c) \/ RenameChatChannel(c) \/ setChatArchived(c)
      BY <2>1, EnterLocks, AddLocks, AloneLocks
    <2>2. CASE ~(\/ Enter(c) \/ AddChatChannelMember(c) \/ removeChatMember(c) \/ SetChatMemberRole(c)
                 \/ JoinChatChannel(c) \/ RenameChatChannel(c) \/ setChatArchived(c))
      <3>1. UNCHANGED <<role, channel>>
        BY <1>1, <2>2 DEF Serve, TakeKey, Refuse, CommitSend, CommitEdit, CommitUpload, CommitReact,
           CommitUnreact, DeleteChatMessage, DiscardRow, DiscardFile, ReadLatest, CompareMarker,
           WriteMarker, Keep
      <3>2. OnlyCall(c) /\ SameRequest(c)
        BY <1>1, ServeEffect
      <3>3. c \in InTransaction' => c \in InTransaction
        BY <1>1, <2>2, <3>2, ServeCases, EndsEffect, TakeKeyEffect
           DEF InTransaction, SameRequest, DiscardRow, CompareMarker, ReadLatest, LockMode, Sharing, Exclusive
      <3> QED BY <3>1, <3>2, <3>3, CalmLocks DEF LocksCalm, OnlyCall, SameRequest, InTransaction
    <2> QED BY <2>1, <2>2
  <1>2. ASSUME NEW c \in Calls, Arrive(c) PROVE LocksKept'
    <2>1. OnlyCall(c) /\ call'[c].pc = "wait" /\ UNCHANGED <<role, channel>>
      BY <1>2, ArriveEffect
    <2> QED BY <2>1, CalmLocks DEF LocksCalm, OnlyCall, SameRequest, InTransaction
  <1>3. CASE Tidy \/ UNCHANGED teamVars
    <2>1. UNCHANGED <<role, channel, call>>
      BY <1>3, TidyKeeps DEF teamVars
    <2> QED BY <2>1, CalmLocks DEF LocksCalm, SameRequest, InTransaction
  <1>4. CASE Crash
    <2>1. UNCHANGED <<role, channel>> /\ \A c \in Calls : call'[c].pc \in {"new", "done"}
      BY <1>4, CrashEffect
    <2> QED BY <2>1, CalmLocks DEF LocksCalm, InTransaction
  <1> QED BY <1>1, <1>2, <1>3, <1>4 DEF TeamNext, Tidy

LEMMA TeamStep == TeamInv /\ [TeamNext]_teamVars => TeamInv'
  BY TeamTypeStep, FilesStep, CapsStep, MarksStep, LocksStep DEF TeamInv

LEMMA TeamStart ==
  ASSUME NEW menus, \A m \in menus : m.ops \subseteq ChatOps \ {"none"} /\ m.by \subseteq ChatUsers,
         ChatSetUp(menus)
  PROVE  TeamInv
  <1>1. FirstOwners \subseteq ChatUsers /\ FirstOwners # {} /\ Codes # {}
    BY ChatAssumption
  <1>2. PICK o \in ChatUsers : o = CHOOSE u \in FirstOwners : TRUE
    BY <1>1
  <1>3. PICK u0 \in ChatUsers : u0 = CHOOSE u \in ChatUsers : TRUE
    BY <1>1
  <1>4. PICK k0 \in Codes : k0 = CHOOSE k \in Codes : TRUE
    BY <1>1
  <1>5. /\ menu \in menus
        /\ channel = [archived |-> FALSE, name |-> "old"]
        /\ role = [u \in ChatUsers |-> IF u \in FirstOwners THEN "owner"
                                       ELSE IF u \in FirstMembers THEN "member" ELSE "none"]
        /\ joined = [u \in ChatUsers |-> 0]
        /\ line = [i \in Lines |-> [by |-> o, kind |-> "user", is |-> IF i <= 2 THEN "live" ELSE "none"]]
        /\ lastLine = 2 /\ marker = [u \in ChatUsers |-> 0]
        /\ reaction = {} /\ disk = {} /\ aged = {}
        /\ upload = [f \in Files |-> [is |-> "none", by |-> u0, of |-> 1]]
        /\ call = [c \in Calls |-> [op |-> "none", by |-> u0, to |-> u0, at |-> 0, file |-> NoFile,
                                    code |-> k0, pc |-> "new", ok |-> FALSE]]
        /\ sweep = [pc |-> "idle", files |-> {}]
    BY <1>2, <1>3, <1>4 DEF ChatSetUp
  <1>6. 0 \in 0 .. LastLine /\ 2 \in 0 .. LastLine /\ 1 \in Lines
    BY ChatNumbers DEF Lines
  <1>7. TeamTypeOK
    <2>1. channel \in [archived : BOOLEAN, name : {"old", "new"}]
      BY <1>5
    <2>2. role \in [ChatUsers -> Roles]
      BY <1>5 DEF Roles
    <2>3. joined \in [ChatUsers -> 0 .. LastLine] /\ marker \in [ChatUsers -> 0 .. LastLine]
      BY <1>5, <1>6
    <2>4. line \in [Lines -> MessageRow]
      BY <1>5 DEF MessageRow
    <2>5. upload \in [Files -> FileRow]
      BY <1>5, <1>6 DEF FileRow
    <2>6. call \in [Calls -> Call]
      <3>1. [op |-> "none", by |-> u0, to |-> u0, at |-> 0, file |-> NoFile, code |-> k0, pc |-> "new",
             ok |-> FALSE] \in Call
        BY <1>6 DEF Call, ChatOps
      <3> QED BY <1>5, <3>1
    <2>7. sweep \in [pc : {"idle", "pending", "drop", "deleted", "mark", "orphans", "remove"}, files : SUBSET Files]
      BY <1>5
    <2> QED BY <1>5, <1>6, <2>1, <2>2, <2>3, <2>4, <2>5, <2>6, <2>7 DEF TeamTypeOK
  <1>8. /\ \A c \in Calls : call[c].op = "none" /\ call[c].pc = "new" /\ call[c].ok = FALSE
        /\ \A f \in Files : upload[f].is = "none"
        /\ \A i \in Lines : i > 2 => line[i].is = "none"
    BY <1>5 DEF Lines
  <1>9. LinesKept /\ FilesInUse /\ FilesStored /\ SweepTrue
    BY <1>5, <1>8 DEF LinesKept, FilesInUse, FilesStored, SweepTrue, Uploading, Serving
  <1>10. CapsKept
    <2>1. \A u \in ChatUsers : Pending(u) = {}
      BY <1>8 DEF Pending
    <2>2. Kinds = {}
      BY <1>5 DEF Kinds
    <2>3. CapsHold
      BY <2>1, <2>2, FS_EmptySet, ChatNumbers DEF CapsHold
    <2> QED BY <1>8, <2>3 DEF CapsKept
  <1>11. MarksKept /\ LocksKept
    BY <1>8 DEF MarksKept, LocksKept, Alike, Alone, InTransaction
  <1> QED BY <1>5, <1>7, <1>9, <1>10, <1>11 DEF TeamInv, MenuOK

-------------------------------------------------------------------------------
(* TeamChat: what the invariant says of the channel *)

LEMMA TeamConsistent ==
  ASSUME TeamInv
  PROVE  CapsHold /\ FileOnDisk /\ MarkedIsRead
  <1>1. CapsHold
    BY DEF TeamInv, CapsKept
  <1>2. FileOnDisk
    BY DEF TeamInv, FilesStored, FileOnDisk, DownloadChatAttachment, ListChatMessages, chatAttachmentsFor
  <1>3. MarkedIsRead
    <2> SUFFICES ASSUME NEW c \in Calls, call[c].op = "mark" /\ call[c].pc = "done" /\ Alone(c),
                        NEW i \in unreadOf(call[c].by)
                 PROVE  i > call[c].at
      BY DEF MarkedIsRead
    <2>1. marker[call[c].by] >= call[c].at
      BY DEF TeamInv, MarksKept
    <2>2. i \in Nat /\ i > marker[call[c].by]
      BY DEF unreadOf, Lines
    <2>3. marker[call[c].by] \in Nat /\ call[c].at \in Nat
      BY ChatNumbers DEF TeamInv, TeamTypeOK, Call
    <2> QED BY <2>1, <2>2, <2>3
  <1> QED BY <1>1, <1>2, <1>3

\* A commit finds its author a member and the channel open.
LEMMA CommitsAreOpen ==
  ASSUME TeamInv, NEW c \in Calls,
         call[c].op \in {"send", "edit", "upload", "react", "unreact"}, call[c].pc \in {"in", "key"}
  PROVE  canAccess(call[c].by) /\ ~channel.archived
  <1>1. c \in InTransaction /\ call[c].op \in Sharing \ {"add"}
    BY DEF InTransaction, LockMode, Sharing
  <1> QED BY <1>1 DEF TeamInv, LocksKept

\* Whoever is left without an owner was left by somebody else, who manages the chat.
LEMMA OwnersLeave ==
  ASSUME TeamInv, TeamNext, Owners # {}, Owners' = {}
  PROVE  \E c \in Calls : /\ call[c].op \in {"remove", "role_member"}
                          /\ call[c].by \in Managers /\ call[c].to # call[c].by /\ call'[c] # call[c]
  <1>1. TeamTypeOK /\ LocksKept
    BY DEF TeamInv
  <1>2. role' # role
    BY DEF Owners
  <1>3. PICK c \in Calls : AddChatChannelMember(c) \/ removeChatMember(c) \/ SetChatMemberRole(c)
                           \/ JoinChatChannel(c)
    <2>1. ~(Tidy \/ Crash) /\ \A c \in Calls : ~Arrive(c)
      BY <1>2, TidyKeeps DEF Crash, Arrive, Keep
    <2>2. PICK c \in Calls : Serve(c)
      BY <2>1 DEF TeamNext, Tidy
    <2> QED BY <1>2, <2>2 DEF Serve, Enter, TakeKey, Refuse, CommitSend, CommitEdit, CommitUpload,
          CommitReact, CommitUnreact, RenameChatChannel, setChatArchived, CommitChannel,
          DeleteChatMessage, DiscardRow, DiscardFile, ReadLatest, CompareMarker, WriteMarker, Keep
  <1>4. call[c].by \in ChatUsers /\ call[c].to \in ChatUsers
    BY <1>1 DEF TeamTypeOK, Call
  <1>5. call'[c] # call[c]
    <2>1. call'[c].pc = "done" /\ Serving(c)
      BY <1>1, <1>3, EndsEffect DEF Ends
    <2> QED BY <2>1 DEF Serving
  <1>6. \A u \in ChatUsers : role'[u] # "owner"
    BY DEF Owners
  <1>7. CASE AddChatChannelMember(c)
    <2>1. role' = [role EXCEPT ![call[c].to] = "member"] /\ role[call[c].to] = "none"
      BY <1>7 DEF AddChatChannelMember, CommitMember
    <2>2. PICK u \in ChatUsers : role[u] = "owner"
      BY DEF Owners
    <2> QED BY <1>1, <1>6, <2>1, <2>2 DEF TeamTypeOK
  <1>8. CASE ~AddChatChannelMember(c)
    <2>1. PICK u \in ChatUsers, r \in Roles :
            /\ role' = [role EXCEPT ![u] = r] /\ call[c].pc = "in"
            /\ \/ call[c].op = "remove" /\ u = call[c].to
               \/ call[c].op = "role_owner" /\ u = call[c].to /\ r = "owner"
               \/ call[c].op = "role_member" /\ u = call[c].to
               \/ call[c].op = "join" /\ u = call[c].by
      <3>1. "none" \in Roles /\ "member" \in Roles /\ "owner" \in Roles
        BY DEF Roles
      <3> QED BY <1>3, <1>4, <1>8, <3>1 DEF removeChatMember, SetChatMemberRole, JoinChatChannel, CommitMember,
            Committing, Keyed
    <2>2. Rechecked(call[c])
      <3>1. c \in InTransaction /\ call[c].op \in Exclusive
        BY <2>1 DEF InTransaction, LockMode, Sharing, Exclusive
      <3> QED BY <1>1, <3>1 DEF LocksKept
    <2>3. \A v \in ChatUsers : v # u => role'[v] = role[v]
      BY <1>1, <2>1 DEF TeamTypeOK
    <2>4. Owners = {u}
      BY <1>6, <2>3 DEF Owners
    <2>5. CASE call[c].op = "remove"
      <3>1. call[c].to # call[c].by /\ requireComposer(call[c].by)
        BY <2>1, <2>2, <2>4, <2>5 DEF Rechecked
      <3> QED BY <1>4, <1>5, <2>1, <2>4, <2>5, <3>1 DEF requireComposer, Owners
    <2>6. CASE call[c].op = "role_member"
      <3>1. call[c].to # call[c].by /\ requireComposer(call[c].by)
        BY <2>1, <2>2, <2>4, <2>6 DEF Rechecked
      <3> QED BY <1>4, <1>5, <2>1, <2>4, <2>6, <3>1 DEF requireComposer, Owners
    <2>7. CASE call[c].op = "role_owner"
      BY <1>1, <1>6, <2>1, <2>7 DEF TeamTypeOK
    <2>8. CASE call[c].op = "join"
      <3>1. role[call[c].by] = "none"
        BY <2>2, <2>8 DEF Rechecked
      <3> QED BY <2>1, <2>4, <2>8, <3>1 DEF Owners
    <2> QED BY <2>1, <2>5, <2>6, <2>7, <2>8
  <1> QED BY <1>7, <1>8

\* A marker that moves back was written by a marking that another one overlapped.
LEMMA MarkersMove ==
  ASSUME TeamInv, TeamNext, NEW u \in ChatUsers, marker'[u] < marker[u]
  PROVE  \E c \in Calls : call[c].op = "mark" /\ call[c].by = u /\ call[c].pc # "done" /\ ~Alone(c)
  <1>1. TeamTypeOK /\ MarksKept /\ marker[u] \in Nat
    BY ChatNumbers DEF TeamInv, TeamTypeOK
  <1>2. marker' # marker
    BY <1>1
  <1>3. PICK c \in Calls : WriteMarker(c)
    <2>1. ~(Tidy \/ Crash) /\ \A c \in Calls : ~Arrive(c)
      BY <1>2, TidyKeeps DEF Crash, Arrive, Keep
    <2>2. PICK c \in Calls : Serve(c)
      BY <2>1 DEF TeamNext, Tidy
    <2> QED BY <1>2, <2>2 DEF Serve, Enter, TakeKey, Refuse, CommitSend, CommitEdit, CommitUpload,
          CommitReact, CommitUnreact, AddChatChannelMember, removeChatMember, SetChatMemberRole,
          JoinChatChannel, CommitMember, RenameChatChannel, setChatArchived, CommitChannel,
          DeleteChatMessage, DiscardRow, DiscardFile, ReadLatest, CompareMarker, Keep
  <1>4. /\ call[c].op = "mark" /\ call[c].pc = "key"
        /\ marker' = [marker EXCEPT ![call[c].by] = call[c].at]
    BY <1>3 DEF WriteMarker, Marked
  <1>5. call[c].by = u /\ ~(marker[u] < call[c].at)
    BY <1>1, <1>4, ChatNumbers DEF TeamTypeOK, Call
  <1> QED BY <1>1, <1>4, <1>5 DEF MarksKept

-------------------------------------------------------------------------------
(* Occurrences: the inductive invariant *)

CaseMenuOK == caseMenu.ops \subseteq CaseOps \ {"none"}
Given == {c \in Cases : row[c].is # "none"}
OnCase == CaseOps \ ({"none", "open"} \cup Pipeline)

\* Who holds the counter has the next number, and a case is opened once.
NumbersKept ==
    /\ Cardinality(Given) = counter
    /\ {row[c].number : c \in Given} = 1 .. counter
    /\ \A j \in Jobs : job[j].pc = "number" => holder = j /\ job[j].number = counter + 1
    /\ \A j \in Active : job[j].op = "open" => row[job[j].of].is = "none"
    /\ \A j, k \in Active :
         job[j].op = "open" /\ job[k].op = "open" /\ job[j].of = job[k].of => j = k
    /\ \A j \in Active : job[j].op \in OnCase => row[job[j].of].is # "none"

\* Each request has the fields its handler uses, and requests that are in progress
\* together are on record.
JobsKept ==
    /\ \A j \in Active : job[j].op \in CaseOps \ {"none"} /\ (job[j].op = "upload" => job[j].ext \in Exts)
    /\ \A j, k \in Active : j # k => {job[j].op, job[k].op} \in crossed

\* An edit of the pipeline that nobody else edits finds it as it was checked.
Fits(q) ==
    CASE q.op = "stage_new" -> stage[q.to].is = "none" /\ ~(q.initial /\ q.closing)
      [] q.op = "stage_edit" -> /\ stage[q.to].is = "live" /\ ~(q.initial /\ q.closing)
                                /\ stage[q.to].initial => q.initial
                                /\ stage[q.to].closing /\ ~q.closing => hasOtherClosingStage(q.to)
      [] OTHER -> /\ stage[q.to].is = "live" /\ ~stage[q.to].initial
                  /\ stage[q.to].closing => hasOtherClosingStage(q.to)
Opens(s) == stage[s].is = "live" /\ stage[s].initial
PipelineKept ==
    ~PipelineEdits =>
        /\ \E s \in StageIds : Opens(s) /\ \A t \in StageIds : Opens(t) => t = s
        /\ \E s \in StageIds : stage[s].is = "live" /\ stage[s].closing
        /\ \A j \in Active : job[j].op \in Pipeline => Fits(job[j])

\* The stage a case is in or about to enter is not being removed.
StagesKept ==
    ~With("stage_delete", {"move", "open"}) =>
        /\ \A c \in Cases : Live(c) => stage[row[c].stage].is = "live"
        /\ \A j \in Active : job[j].op \in {"move", "open"} => stage[job[j].to].is = "live"
        /\ \A j \in Active : job[j].op = "stage_delete" => ~inUse(job[j].to)

\* A move that is not in the timeline yet is about to be.
MovesKept ==
    \A c \in Cases : Live(c) =>
        /\ \/ row[c].stage = 1
           \/ \E e \in timeline[c] : e.kind \in {"opened", "stage_change"} /\ e.to = row[c].stage
           \/ \E j \in Active : job[j].op = "move" /\ job[j].pc = "after" /\ job[j].of = c /\ job[j].to = row[c].stage
        /\ row[c].closed =>
             \/ \E e \in timeline[c] : e.kind = "closed"
             \/ \E j \in Active : job[j].op = "move" /\ job[j].pc = "after" /\ job[j].of = c /\ job[j].closing

\* Files and rows differ by what a request is in the middle of.
FilesApart == ~With("upload", {"upload", "doc_drop", "delete"}) /\ ~With("doc_drop", {"delete"})
Removing(d, e) == \E j \in Active : job[j].op = "doc_drop" /\ job[j].pc = "files" /\ job[j].doc = d /\ job[j].path = e
Writing(d) == \E j \in Active : job[j].op = "upload" /\ job[j].pc = "write" /\ job[j].doc = d
Named(d, e) == document[d].is = "live" /\ document[d].path = e
DocumentsKept ==
    FilesApart =>
        /\ \A d \in Documents, e \in Exts : <<d, e>> \in stored => Named(d, e) \/ Removing(d, e) \/ Writing(d)
        /\ \A d \in Documents, e \in Exts : Named(d, e) /\ ~Writing(d) => <<d, e>> \in stored
        /\ \A j \in Active : job[j].op = "upload" =>
             /\ document[job[j].doc].is = "live" /\ document[job[j].doc].path = job[j].path
             /\ job[j].pc = "write" => \A e \in Exts : <<job[j].doc, e>> \in stored <=> e = job[j].ext
        /\ \A j \in Active : job[j].op = "doc_drop" =>
             /\ job[j].pc = "read" => document[job[j].doc].path = job[j].path /\ document[job[j].doc].is # "none"
             /\ job[j].pc # "read" => document[job[j].doc].is = "gone"

\* A document belongs to a case that was opened; the summary is computed from what a
\* request that nobody overlapped has read.
DocumentOps == {"doc_add", "doc_drop", "delete"}
SummaryApart == \A p \in crossed : ~(p \subseteq DocumentOps)
SummaryKept ==
    /\ \A d \in Documents : document[d].is = "live" => row[document[d].of].is # "none"
    /\ SummaryApart =>
         /\ \A c \in Cases : Live(c) => row[c].summary = Belonging(c)
         /\ \A j \in Active : job[j].op \in {"doc_add", "doc_drop"} /\ job[j].pc = "read" =>
              /\ Live(job[j].of) => job[j].saw.summary = row[job[j].of].summary
              /\ job[j].op = "doc_drop" => document[job[j].doc].of = job[j].of

\* Nothing is added to a case that is deleted, by a request that nobody deletes under.
DeletionsApart == \A p \in crossed : "delete" \notin p
DeletionsKept ==
    DeletionsApart =>
        /\ NothingLeftBehind
        /\ \A j \in Active : job[j].op \in OnCase => Live(job[j].of)

CasesInv ==
    /\ CaseMenuOK /\ CasesTypeOK /\ NumbersKept /\ JobsKept /\ PipelineKept /\ StagesKept
    /\ MovesKept /\ DocumentsKept /\ SummaryKept /\ DeletionsKept

-------------------------------------------------------------------------------
(* The effect of a step on the requests *)

OnlyJob(j) == \A k \in Jobs : k # j => job'[k] = job[k]
SameJob(j) ==
    /\ job'[j].op = job[j].op /\ job'[j].of = job[j].of /\ job'[j].by = job[j].by /\ job'[j].to = job[j].to
    /\ job'[j].initial = job[j].initial /\ job'[j].closing = job[j].closing /\ job'[j].doc = job[j].doc
    /\ job'[j].ext = job[j].ext /\ job'[j].user = job[j].user /\ job'[j].saw = job[j].saw
    /\ job'[j].path = job[j].path
JobMoves(j, pc, n) ==
    /\ job' \in [Jobs -> Job] /\ OnlyJob(j) /\ SameJob(j)
    /\ job'[j].pc = pc /\ job'[j].number = n

LEMMA JobEffect ==
  ASSUME CasesTypeOK, NEW j \in Jobs, NEW pc \in {"read", "number", "write", "after", "files", "done"},
         NEW n \in 0 .. Cardinality(Cases), job' = [job EXCEPT ![j].pc = pc, ![j].number = n]
  PROVE  JobMoves(j, pc, n)
<1> DEFINE r == [job[j] EXCEPT !.pc = pc, !.number = n]
<1>1. job \in [Jobs -> Job] /\ job[j] \in Job
  BY DEF CasesTypeOK
<1>2. r \in Job
  BY <1>1 DEF Job
<1>3. job' = [job EXCEPT ![j] = r]
  BY <1>1
<1>4. /\ r.op = job[j].op /\ r.of = job[j].of /\ r.by = job[j].by /\ r.to = job[j].to
      /\ r.initial = job[j].initial /\ r.closing = job[j].closing /\ r.doc = job[j].doc
      /\ r.ext = job[j].ext /\ r.user = job[j].user /\ r.saw = job[j].saw
      /\ r.path = job[j].path /\ r.pc = pc /\ r.number = n
  BY <1>1 DEF Job
<1> HIDE DEF r
<1>5. job'[j] = r /\ \A k \in Jobs : k # j => job'[k] = job[k]
  BY <1>1, <1>3
<1>6. job' \in [Jobs -> Job]
  BY <1>1, <1>2, <1>3
<1> QED
  BY <1>4, <1>5, <1>6 DEF JobMoves, OnlyJob, SameJob

LEMMA ReachedEffect ==
  ASSUME CasesTypeOK, NEW j \in Jobs, NEW pc \in {"read", "number", "write", "after", "files", "done"}, Reached(j, pc)
  PROVE  JobMoves(j, pc, job[j].number)
<1> DEFINE n == job[j].number
<1>1. job \in [Jobs -> Job] /\ job[j] \in Job
  BY DEF CasesTypeOK
<1>2. n \in 0 .. Cardinality(Cases)
  BY <1>1 DEF Job
<1>3. [job[j] EXCEPT !.pc = pc, !.number = n] = [job[j] EXCEPT !.pc = pc]
  BY <1>1 DEF Job
<1>4. job' = [job EXCEPT ![j].pc = pc, ![j].number = n]
  BY <1>1, <1>3 DEF Reached
<1> HIDE DEF n
<1>5. JobMoves(j, pc, n)
  BY <1>2, <1>4, JobEffect
<1> QED
  BY <1>5 DEF n

\* A step of a request: it was in progress, only its place in its handler changes.
Moves(j) ==
    /\ j \in Active /\ Active' \subseteq Active
    /\ job' \in [Jobs -> Job] /\ OnlyJob(j) /\ SameJob(j) /\ job'[j].pc # "read"
    /\ crossed' = crossed /\ caseMenu' = caseMenu

LEMMA MovesFromEffect ==
  ASSUME CasesTypeOK, NEW j \in Jobs, NEW pc, NEW n, JobMoves(j, pc, n), pc # "read",
         job[j].pc \notin {"new", "done"}, UNCHANGED <<caseMenu, crossed>>
  PROVE  Moves(j)
BY DEF JobMoves, Moves, OnlyJob, Active

\* What a conjunct that does not speak of places sees of the requests.
JobsCalm ==
    /\ Active' \subseteq Active /\ crossed' = crossed
    /\ \A k \in Active : SameJob(k) /\ (job'[k].pc = "read" => job[k].pc = "read")

LEMMA MovesAreCalm ==
  ASSUME CasesTypeOK, NEW j \in Jobs, Moves(j)
  PROVE  JobsCalm
<1>1. ASSUME NEW k \in Active
      PROVE  SameJob(k) /\ (job'[k].pc = "read" => job[k].pc = "read")
  BY <1>1 DEF Moves, OnlyJob, SameJob, Active
<1> QED
  BY <1>1 DEF Moves, JobsCalm

LEMMA NextNumber ==
  ASSUME CasesTypeOK, NumbersKept, NEW c \in Cases, row[c].is = "none"
  PROVE  counter + 1 \in 1 .. Cardinality(Cases)
<1>1. IsFiniteSet(Cases)
  BY CasesAssumption
<1>2. IsFiniteSet(Cases \ {c}) /\ Cardinality(Cases \ {c}) = Cardinality(Cases) - 1
  BY <1>1, FS_RemoveElement
<1>3. Given \subseteq Cases \ {c}
  BY DEF Given
<1>4. Cardinality(Given) <= Cardinality(Cases \ {c})
  BY <1>2, <1>3, FS_Subset
<1>5. Cardinality(Given) = counter /\ counter \in Nat
  BY <1>1, FS_CardinalityType DEF NumbersKept, CasesTypeOK
<1>6. Cardinality(Cases) \in Nat
  BY <1>1, FS_CardinalityType
<1> QED
  BY <1>2, <1>4, <1>5, <1>6

LEMMA TakeNumberEffect ==
  ASSUME CasesTypeOK, NumbersKept, NEW j \in Jobs, TakeNumber(j)
  PROVE  JobMoves(j, "number", counter + 1)
<1>1. job[j].of \in Cases /\ job[j].op = "open" /\ j \in Active
  BY DEF CasesTypeOK, Job, TakeNumber, Active
<1>2. row[job[j].of].is = "none"
  BY <1>1 DEF NumbersKept
<1>3. counter + 1 \in 0 .. Cardinality(Cases)
  BY <1>1, <1>2, NextNumber
<1> QED
  BY <1>3, JobEffect DEF TakeNumber, nextProtocolNumber

LEMMA StepEffect ==
  ASSUME CasesTypeOK, NumbersKept, NEW j \in Jobs, CaseStep(j)
  PROVE  Moves(j)
<1> USE DEF Leave
<1>1. CASE TakeNumber(j)
  BY <1>1, TakeNumberEffect, MovesFromEffect DEF TakeNumber
<1>2. CASE insertOccurrenceWithProtocol(j)
  BY <1>2, ReachedEffect, MovesFromEffect DEF insertOccurrenceWithProtocol
<1>3. CASE RollBack(j)
  BY <1>3, ReachedEffect, MovesFromEffect DEF RollBack
<1>4. CASE ChangeOccurrenceStage(j)
  BY <1>4, ReachedEffect, MovesFromEffect DEF ChangeOccurrenceStage
<1>5. CASE LogMove(j)
  BY <1>5, ReachedEffect, MovesFromEffect DEF LogMove
<1>6. CASE CreateOccurrenceStage(j)
  BY <1>6, ReachedEffect, MovesFromEffect DEF CreateOccurrenceStage
<1>7. CASE UpdateOccurrenceStage(j)
  BY <1>7, ReachedEffect, MovesFromEffect DEF UpdateOccurrenceStage
<1>8. CASE DeleteOccurrenceStage(j)
  BY <1>8, ReachedEffect, MovesFromEffect DEF DeleteOccurrenceStage
<1>9. CASE UpdateOccurrence(j)
  <2>1. PICK pc \in {"after", "done"} : Reached(j, pc)
    BY <1>9 DEF UpdateOccurrence
  <2> QED
    BY <1>9, <2>1, ReachedEffect, MovesFromEffect DEF UpdateOccurrence
<1>10. CASE LogAssignment(j)
  BY <1>10, ReachedEffect, MovesFromEffect DEF LogAssignment, AddEvent
<1>11. CASE CreateOccurrenceEvent(j)
  BY <1>11, ReachedEffect, MovesFromEffect DEF CreateOccurrenceEvent, AddEvent
<1>12. CASE SendOccurrenceProtocol(j)
  BY <1>12, ReachedEffect, MovesFromEffect DEF SendOccurrenceProtocol, AddEvent
<1>13. CASE LogOccurrenceProcessMessageUse(j)
  BY <1>13, ReachedEffect, MovesFromEffect DEF LogOccurrenceProcessMessageUse, AddEvent
<1>14. CASE ReplyToOccurrence(j)
  <2>1. PICK pc \in {"after", "done"} : Reached(j, pc)
    BY <1>14 DEF ReplyToOccurrence, AddEvent
  <2> QED
    BY <1>14, <2>1, ReachedEffect, MovesFromEffect DEF ReplyToOccurrence, AddEvent
<1>15. CASE StampFirstResponse(j)
  BY <1>15, ReachedEffect, MovesFromEffect DEF StampFirstResponse
<1>16. CASE CreateOccurrenceDocument(j)
  BY <1>16, ReachedEffect, MovesFromEffect DEF CreateOccurrenceDocument
<1>17. CASE DeleteOccurrenceDocument(j)
  BY <1>17, ReachedEffect, MovesFromEffect DEF DeleteOccurrenceDocument
<1>18. CASE removeOccurrenceAttachment(j)
  BY <1>18, ReachedEffect, MovesFromEffect DEF removeOccurrenceAttachment
<1>19. CASE UploadOccurrenceDocumentAttachment(j)
  BY <1>19, ReachedEffect, MovesFromEffect DEF UploadOccurrenceDocumentAttachment
<1>20. CASE WritePath(j)
  BY <1>20, ReachedEffect, MovesFromEffect DEF WritePath
<1>21. CASE DeleteOccurrence(j)
  BY <1>21, ReachedEffect, MovesFromEffect DEF DeleteOccurrence
<1> QED
  BY <1>1, <1>2, <1>3, <1>4, <1>5, <1>6, <1>7, <1>8, <1>9, <1>10, <1>11, <1>12, <1>13, <1>14, <1>15, <1>16, <1>17, <1>18, <1>19, <1>20, <1>21 DEF CaseStep

-------------------------------------------------------------------------------
(* Types *)

LEMMA UpdateRowType ==
  ASSUME CasesTypeOK, NEW c \in Cases, NEW new \in CaseRow, UpdateRow(c, new)
  PROVE  row' \in [Cases -> CaseRow]
BY DEF CasesTypeOK, UpdateRow

LEMMA RowFields ==
  ASSUME CasesTypeOK, NEW c \in Cases
  PROVE  /\ row[c] \in CaseRow
         /\ row[c].is \in {"none", "live", "deleted"} /\ row[c].number \in 0 .. Cardinality(Cases)
         /\ row[c].stage \in StageIds /\ row[c].closed \in BOOLEAN /\ row[c].assignee \in Staff \cup {None}
         /\ row[c].urgent \in BOOLEAN /\ row[c].answered \in BOOLEAN /\ row[c].breached \in BOOLEAN
         /\ row[c].summary \in SUBSET Documents
BY DEF CasesTypeOK, CaseRow

LEMMA JobFields ==
  ASSUME CasesTypeOK, NEW j \in Jobs
  PROVE  /\ job[j] \in Job /\ job[j].op \in CaseOps /\ job[j].of \in Cases /\ job[j].by \in Staff
         /\ job[j].to \in StageIds /\ job[j].initial \in BOOLEAN /\ job[j].closing \in BOOLEAN
         /\ job[j].doc \in Documents /\ job[j].ext \in Exts \cup {None} /\ job[j].user \in Staff \cup {None}
         /\ job[j].saw \in CaseRow /\ job[j].path \in Exts \cup {None}
         /\ job[j].number \in 0 .. Cardinality(Cases)
         /\ job[j].saw.urgent \in BOOLEAN /\ job[j].saw.summary \in SUBSET Documents
BY DEF CasesTypeOK, Job, CaseRow

LEMMA StepType ==
  ASSUME CasesTypeOK, NumbersKept, JobsKept, NEW j \in Jobs, CaseStep(j)
  PROVE  CasesTypeOK'
<1> USE DEF Leave
<1> DEFINE q == job[j]
<1>0. Moves(j)
  BY StepEffect
<1>a. job' \in [Jobs -> Job] /\ crossed' = crossed /\ job[j] \in Job /\ j \in Active
  BY <1>0, JobFields DEF Moves
<1>b. row[q.of] \in CaseRow /\ q.of \in Cases
  BY JobFields, RowFields
<1>c. \A is \in {"none", "live", "gone"}, ini, clo \in BOOLEAN : [is |-> is, initial |-> ini, closing |-> clo] \in StageRow
  BY DEF StageRow
<1>d. \A s \in StageIds : stage[s] \in StageRow /\ stage[s].is \in {"none", "live", "gone"}
                         /\ stage[s].initial \in BOOLEAN /\ stage[s].closing \in BOOLEAN
  BY DEF CasesTypeOK, StageRow
<1>e. \A s \in StageIds : [stage[s] EXCEPT !.initial = FALSE] \in StageRow
  BY <1>d DEF StageRow
<1>f. \A kind \in {"opened", "stage_change", "closed", "assignment", "reply", "note", "protocol_sent", "message_used"},
        s \in StageIds : [kind |-> kind, to |-> s] \in Event
  BY DEF Event
<1>g. 1 \in StageIds
  BY CasesAssumption DEF StageIds
<1>1. CASE TakeNumber(j)
  BY <1>1, <1>a DEF TakeNumber, CasesTypeOK
<1>2. CASE insertOccurrenceWithProtocol(j)
  <2> DEFINE new == [NoCase EXCEPT !.is = "live", !.number = q.number, !.stage = q.to, !.assignee = q.by]
  <2>1. q.number \in 0 .. Cardinality(Cases) /\ q.to \in StageIds /\ q.by \in Staff
    BY JobFields
  <2>2. NoCase \in CaseRow
    <3>1. 0 \in 0 .. Cardinality(Cases)
      BY CasesAssumption, FS_CardinalityType
    <3> QED
      BY <1>g, <3>1 DEF NoCase, CaseRow
  <2>3. new \in CaseRow
    BY <2>1, <2>2 DEF CaseRow
  <2>4. row' = [row EXCEPT ![q.of] = new]
    BY <1>2 DEF insertOccurrenceWithProtocol
  <2> HIDE DEF new
  <2>5. row' \in [Cases -> CaseRow]
    BY <2>3, <2>4 DEF CasesTypeOK
  <2>6. timeline' \in [Cases -> SUBSET Event]
    BY <2>1, <1>2, <1>f DEF insertOccurrenceWithProtocol, CasesTypeOK
  <2> QED
    BY <2>1, <2>5, <2>6, <1>2, <1>a DEF insertOccurrenceWithProtocol, CasesTypeOK
<1>3. CASE RollBack(j)
  BY <1>3, <1>a DEF RollBack, CasesTypeOK
<1>4. CASE ChangeOccurrenceStage(j)
  <2> DEFINE new == [row[q.of] EXCEPT !.stage = q.to, !.closed = q.closing]
  <2>1. new \in CaseRow
    BY <1>b, JobFields DEF CaseRow
  <2>2. UpdateRow(q.of, new)
    BY <1>4 DEF ChangeOccurrenceStage
  <2> HIDE DEF new
  <2>3. row' \in [Cases -> CaseRow]
    BY <1>b, <2>1, <2>2, UpdateRowType
  <2> QED
    BY <2>3, <1>4, <1>a DEF ChangeOccurrenceStage, CasesTypeOK
<1>5. CASE LogMove(j)
  <2>1. MoveEvents(q) \in SUBSET Event
    BY <1>f, JobFields DEF MoveEvents
  <2>2. timeline' \in [Cases -> SUBSET Event]
    BY <2>1, <1>5, <1>b DEF LogMove, CasesTypeOK
  <2> QED
    BY <2>2, <1>5, <1>a DEF LogMove, CasesTypeOK
<1>6. CASE CreateOccurrenceStage(j)
  <2>1. unsetOtherInitial(q.to, q.initial) \in [StageIds -> StageRow]
    BY <1>d, <1>e DEF unsetOtherInitial
  <2>2. [is |-> "live", initial |-> q.initial, closing |-> q.closing] \in StageRow
    BY <1>c, JobFields
  <2>3. stage' \in [StageIds -> StageRow]
    BY <2>1, <2>2, <1>6 DEF CreateOccurrenceStage
  <2> QED
    BY <2>3, <1>6, <1>a DEF CreateOccurrenceStage, CasesTypeOK
<1>7. CASE UpdateOccurrenceStage(j)
  <2> DEFINE old == unsetOtherInitial(q.to, q.initial)
  <2> DEFINE new == [old[q.to] EXCEPT !.initial = q.initial, !.closing = q.closing]
  <2>1. old \in [StageIds -> StageRow]
    BY <1>d, <1>e DEF unsetOtherInitial
  <2>2. old[q.to] \in StageRow /\ q.initial \in BOOLEAN /\ q.closing \in BOOLEAN
    BY <2>1, JobFields
  <2>3. stage' = [old EXCEPT ![q.to].initial = q.initial, ![q.to].closing = q.closing]
    BY <1>7 DEF UpdateOccurrenceStage
  <2> HIDE DEF old
  <2>4. new \in StageRow
    BY <2>2 DEF StageRow
  <2>5. stage' = [old EXCEPT ![q.to] = new]
    BY <2>1, <2>3, JobFields
  <2> HIDE DEF new
  <2>6. stage' \in [StageIds -> StageRow]
    BY <2>1, <2>4, <2>5
  <2> QED
    BY <2>6, <1>7, <1>a DEF UpdateOccurrenceStage, CasesTypeOK
<1>8. CASE DeleteOccurrenceStage(j)
  <2> DEFINE new == [stage[q.to] EXCEPT !.is = "gone"]
  <2>1. q.to \in StageIds
    BY JobFields
  <2>2. new \in StageRow
    BY <2>1, <1>d DEF StageRow
  <2>3. stage' = [stage EXCEPT ![q.to] = new]
    BY <1>8 DEF DeleteOccurrenceStage
  <2> HIDE DEF new
  <2>4. stage' \in [StageIds -> StageRow]
    BY <2>2, <2>3 DEF CasesTypeOK
  <2> QED
    BY <2>4, <1>8, <1>a DEF DeleteOccurrenceStage, CasesTypeOK
<1>9. CASE UpdateOccurrence(j)
  <2> DEFINE new == [row[q.of] EXCEPT !.urgent = ~q.saw.urgent, !.assignee = q.user]
  <2>1. new \in CaseRow
    BY <1>b, JobFields DEF CaseRow
  <2>2. UpdateRow(q.of, new)
    BY <1>9 DEF UpdateOccurrence
  <2> HIDE DEF new
  <2>3. row' \in [Cases -> CaseRow]
    BY <1>b, <2>1, <2>2, UpdateRowType
  <2> QED
    BY <2>3, <1>9, <1>a DEF UpdateOccurrence, CasesTypeOK
<1>10. ASSUME NEW op, NEW pc, NEW kind \in {"assignment", "reply", "note", "protocol_sent", "message_used"},
              NEW next, AddEvent(j, op, pc, kind, next)
       PROVE  CasesTypeOK'
  <2>1. timeline' \in [Cases -> SUBSET Event]
    BY <1>10, <1>b, <1>f, <1>g DEF AddEvent, CasesTypeOK
  <2> QED
    BY <2>1, <1>10, <1>a DEF AddEvent, CasesTypeOK
<1>11. CASE StampFirstResponse(j)
  <2> DEFINE new == [row[q.of] EXCEPT !.answered = TRUE]
  <2>1. new \in CaseRow
    BY <1>b DEF CaseRow
  <2>2. UpdateRow(q.of, new)
    BY <1>11 DEF StampFirstResponse
  <2> HIDE DEF new
  <2>3. row' \in [Cases -> CaseRow]
    BY <1>b, <2>1, <2>2, UpdateRowType
  <2> QED
    BY <2>3, <1>11, <1>a DEF StampFirstResponse, CasesTypeOK
<1>12. updateSummary(q) \in SUBSET Documents
  BY JobFields DEF updateSummary
<1>13. UpdateRow(q.of, [row[q.of] EXCEPT !.summary = updateSummary(q)]) => row' \in [Cases -> CaseRow]
  <2> DEFINE new == [row[q.of] EXCEPT !.summary = updateSummary(q)]
  <2>1. new \in CaseRow
    BY <1>b, <1>12 DEF CaseRow
  <2> HIDE DEF new
  <2>2. UpdateRow(q.of, new) => row' \in [Cases -> CaseRow]
    BY <1>b, <2>1, UpdateRowType
  <2> QED
    BY <2>2 DEF new
<1>14. q.doc \in Documents /\ document[q.doc] \in DocumentRow
  BY JobFields DEF CasesTypeOK
<1>15. CASE CreateOccurrenceDocument(j)
  <2>1. [is |-> "live", of |-> q.of, path |-> None] \in DocumentRow
    BY <1>b DEF DocumentRow
  <2>2. document' \in [Documents -> DocumentRow]
    BY <2>1, <1>15 DEF CreateOccurrenceDocument, CasesTypeOK
  <2> QED
    BY <2>2, <1>13, <1>15, <1>a DEF CreateOccurrenceDocument, CasesTypeOK
<1>16. CASE DeleteOccurrenceDocument(j)
  <2> DEFINE new == [document[q.doc] EXCEPT !.is = "gone"]
  <2>1. new \in DocumentRow
    BY <1>14 DEF DocumentRow
  <2>2. document' = [document EXCEPT ![q.doc] = new]
    BY <1>16 DEF DeleteOccurrenceDocument
  <2> HIDE DEF new
  <2>3. document' \in [Documents -> DocumentRow]
    BY <2>1, <2>2 DEF CasesTypeOK
  <2> QED
    BY <2>3, <1>13, <1>16, <1>a DEF DeleteOccurrenceDocument, CasesTypeOK
<1>17. CASE removeOccurrenceAttachment(j)
  BY <1>17, <1>a DEF removeOccurrenceAttachment, CasesTypeOK
<1>18. CASE UploadOccurrenceDocumentAttachment(j)
  <2>1. q.ext \in Exts
    BY <1>18, <1>a DEF UploadOccurrenceDocumentAttachment, JobsKept
  <2>2. stored' \subseteq Documents \X Exts
    BY <2>1, <1>14, <1>18 DEF UploadOccurrenceDocumentAttachment, CasesTypeOK
  <2> QED
    BY <2>2, <1>18, <1>a DEF UploadOccurrenceDocumentAttachment, CasesTypeOK
<1>19. CASE WritePath(j)
  <2> DEFINE new == [document[q.doc] EXCEPT !.path = q.ext]
  <2>1. new \in DocumentRow
    BY <1>14, JobFields DEF DocumentRow
  <2>2. document' = [document EXCEPT ![q.doc] = new] \/ document' = document
    BY <1>19 DEF WritePath
  <2> HIDE DEF new
  <2>3. document' \in [Documents -> DocumentRow]
    BY <2>1, <2>2 DEF CasesTypeOK
  <2> QED
    BY <2>3, <1>19, <1>a DEF WritePath, CasesTypeOK
<1>20. CASE DeleteOccurrence(j)
  <2> DEFINE new == [row[q.of] EXCEPT !.is = "deleted"]
  <2>1. new \in CaseRow
    BY <1>b DEF CaseRow
  <2>2. row' = [row EXCEPT ![q.of] = new]
    BY <1>20 DEF DeleteOccurrence
  <2> HIDE DEF new
  <2>3. row' \in [Cases -> CaseRow]
    BY <2>1, <2>2 DEF CasesTypeOK
  <2>4. \A d \in Documents : document[d] \in DocumentRow /\ [document[d] EXCEPT !.is = "gone"] \in DocumentRow
    BY DEF CasesTypeOK, DocumentRow
  <2>5. document' \in [Documents -> DocumentRow]
    BY <2>4, <1>20 DEF DeleteOccurrence
  <2>6. timeline' \in [Cases -> SUBSET Event] /\ stored' \subseteq Documents \X Exts /\ overdue' \subseteq Cases \X Deadlines
    BY <1>20 DEF DeleteOccurrence, CasesTypeOK
  <2> QED
    BY <2>3, <2>5, <2>6, <1>20, <1>a DEF DeleteOccurrence, CasesTypeOK
<1>21. CASE LogAssignment(j) \/ CreateOccurrenceEvent(j) \/ SendOccurrenceProtocol(j)
            \/ LogOccurrenceProcessMessageUse(j) \/ ReplyToOccurrence(j)
  BY <1>10, <1>21 DEF LogAssignment, CreateOccurrenceEvent, SendOccurrenceProtocol, LogOccurrenceProcessMessageUse,
     ReplyToOccurrence
<1> QED
  BY <1>1, <1>2, <1>3, <1>4, <1>5, <1>6, <1>7, <1>8, <1>9, <1>11, <1>15, <1>16, <1>17, <1>18, <1>19, <1>20, <1>21
     DEF CaseStep

-------------------------------------------------------------------------------
(* The arrival of a request, and the steps that are not a request's *)

CaseArrives(j, q) ==
    /\ q \in Job /\ q.op \in CaseOps \ {"none"} /\ q.pc = "read" /\ q.path = document[q.doc].path
    /\ q.op # "open" => q.saw = row[q.of]
    /\ Neutral(q) /\ Accepts(q)
    /\ j \notin Active /\ job' = [job EXCEPT ![j] = q] /\ Active' = Active \cup {j}
    /\ crossed' = crossed \cup {{q.op, job[k].op} : k \in Active}
    /\ UNCHANGED <<caseMenu, stage, row, counter, holder, timeline, document, stored, overdue>>

LEMMA ComeEffect ==
  ASSUME CaseMenuOK, CasesTypeOK, NEW j \in Jobs, Come(j)
  PROVE  \E q \in Job : CaseArrives(j, q)
<1>1. PICK op \in caseMenu.ops, c \in Cases, u \in Staff, s \in StageIds, ini \in BOOLEAN, clo \in BOOLEAN,
          d \in Documents, e \in Exts \cup {None}, to \in Staff \cup {None} :
        LET q == [op |-> op, of |-> c, by |-> u, to |-> s, initial |-> ini, closing |-> clo, doc |-> d, ext |-> e, user |-> to,
                  saw |-> IF op = "open" THEN NoCase ELSE row[c], path |-> document[d].path, number |-> 0, pc |-> "read"]
        IN /\ Neutral(q) /\ Accepts(q)
           /\ job' = [job EXCEPT ![j] = q]
           /\ crossed' = crossed \cup {{op, job[k].op} : k \in Active}
  BY Zenon DEF Come
<1> DEFINE saw == IF op = "open" THEN NoCase ELSE row[c]
<1> DEFINE q == [op |-> op, of |-> c, by |-> u, to |-> s, initial |-> ini, closing |-> clo, doc |-> d, ext |-> e, user |-> to,
                 saw |-> saw, path |-> document[d].path, number |-> 0, pc |-> "read"]
<1>2. 0 \in 0 .. Cardinality(Cases) /\ 1 \in StageIds
  BY CasesAssumption, FS_CardinalityType DEF StageIds
<1>3. NoCase \in CaseRow
  BY <1>2 DEF NoCase, CaseRow
<1>4. saw \in CaseRow /\ op \in CaseOps \ {"none"} /\ document[d].path \in Exts \cup {None}
  BY <1>3, RowFields DEF CaseMenuOK, CasesTypeOK, DocumentRow
<1> HIDE DEF saw
<1>5. q \in Job
  BY <1>2, <1>4 DEF Job
<1>6. /\ q.op = op /\ q.pc = "read" /\ q.doc = d /\ q.of = c /\ q.path = document[d].path /\ q.saw = saw
  OBVIOUS
<1>7. q.op # "open" => q.saw = row[q.of]
  BY <1>6 DEF saw
<1>8. Neutral(q) /\ Accepts(q) /\ job' = [job EXCEPT ![j] = q] /\ crossed' = crossed \cup {{op, job[k].op} : k \in Active}
  BY <1>1, Zenon DEF saw
<1> HIDE DEF q
<1>9. UNCHANGED <<caseMenu, stage, row, counter, holder, timeline, document, stored, overdue>> /\ job[j].pc = "new"
  BY DEF Come
<1>10. job \in [Jobs -> Job]
  BY DEF CasesTypeOK
<1>11. j \notin Active /\ Active' = Active \cup {j}
  BY <1>6, <1>8, <1>9, <1>10 DEF Active
<1>12. CaseArrives(j, q)
  BY <1>4, <1>5, <1>6, <1>7, <1>8, <1>9, <1>11 DEF CaseArrives
<1> QED
  BY <1>5, <1>12

LEMMA ArrivalEffect ==
  ASSUME CasesTypeOK, NEW j \in Jobs, NEW q \in Job, CaseArrives(j, q)
  PROVE  /\ job'[j] = q /\ \A k \in Jobs : k # j => job'[k] = job[k]
         /\ \A k \in Active : k # j /\ job'[k] = job[k] /\ k \in Active'
         /\ \A k \in Active : {q.op, job[k].op} \in crossed'
         /\ crossed \subseteq crossed'
BY DEF CaseArrives, CasesTypeOK, Active

\* What is seen of the rows by what does not speak of editing, answering and the SLA mark.
RowsCalm ==
    \A c \in Cases : /\ row'[c].is = row[c].is /\ row'[c].number = row[c].number /\ row'[c].stage = row[c].stage
                     /\ row'[c].closed = row[c].closed /\ row'[c].summary = row[c].summary
\* The step of the clock and of the SLA processor.
Aside ==
    /\ UNCHANGED <<caseMenu, stage, counter, holder, timeline, document, stored, job, crossed>>
    /\ RowsCalm

LEMMA AsideEffect ==
  ASSUME CasesTypeOK,
         (\E c \in Cases, d \in Deadlines : TimePasses(c, d)) \/ processOccurrenceSLA
  PROVE  CasesTypeOK' /\ Aside
<1>1. CASE \E c \in Cases, d \in Deadlines : TimePasses(c, d)
  BY <1>1 DEF TimePasses, Leave, CasesTypeOK, Aside, RowsCalm
<1>2. CASE processOccurrenceSLA
  <2>1. \A c \in Cases : LET r == [row[c] EXCEPT !.breached = TRUE] IN
          /\ r \in CaseRow /\ r.is = row[c].is /\ r.number = row[c].number /\ r.stage = row[c].stage
          /\ r.closed = row[c].closed /\ r.summary = row[c].summary
    BY RowFields DEF CaseRow
  <2>2. row' = [c \in Cases |-> IF Breaches(c) THEN [row[c] EXCEPT !.breached = TRUE] ELSE row[c]]
    BY <1>2 DEF processOccurrenceSLA
  <2>3. row' \in [Cases -> CaseRow] /\ RowsCalm
    BY <2>1, <2>2, RowFields DEF RowsCalm
  <2> QED
    BY <2>3, <1>2 DEF processOccurrenceSLA, Leave, CasesTypeOK, Aside
<1> QED
  BY <1>1, <1>2

LEMMA AsideIsCalm ==
  ASSUME CasesTypeOK, Aside
  PROVE  JobsCalm /\ Active' = Active
BY DEF Aside, JobsCalm, SameJob, Active

LEMMA ArrivalType ==
  ASSUME CasesTypeOK, NEW j \in Jobs, NEW q \in Job, CaseArrives(j, q)
  PROVE  CasesTypeOK'
<1>1. \A k \in Active : {q.op, job[k].op} \in SUBSET CaseOps
  BY JobFields DEF Active, CaseArrives
<1>2. crossed' \subseteq SUBSET CaseOps
  BY <1>1 DEF CaseArrives, CasesTypeOK
<1> QED
  BY <1>2 DEF CaseArrives, CasesTypeOK

LEMMA ArrivalJobs ==
  ASSUME CasesTypeOK, JobsKept, NEW j \in Jobs, NEW q \in Job, CaseArrives(j, q)
  PROVE  JobsKept'
<1>1. Active' = Active \cup {j} /\ Active \subseteq Jobs
  BY DEF CaseArrives, Active
<1>2. q.op = "upload" => q.ext \in Exts
  BY DEF CaseArrives, Neutral, Job
<1>3. ASSUME NEW k \in Active'
      PROVE  job'[k].op \in CaseOps \ {"none"} /\ (job'[k].op = "upload" => job'[k].ext \in Exts)
  <2>1. CASE k \in Active
    <3>1. job'[k] = job[k]
      BY <2>1, ArrivalEffect
    <3> QED
      BY <2>1, <3>1 DEF JobsKept
  <2>2. CASE k = j
    <3>1. job'[k] = q
      BY <2>2, ArrivalEffect
    <3>2. q.op \in CaseOps \ {"none"}
      BY DEF CaseArrives
    <3> QED
      BY <3>1, <3>2, <1>2
  <2> QED
    BY <2>1, <2>2, <1>1
<1>4. ASSUME NEW k \in Active', NEW m \in Active', k # m
      PROVE  {job'[k].op, job'[m].op} \in crossed'
  <2>1. CASE k \in Active /\ m \in Active
    BY <2>1, <1>4, ArrivalEffect DEF JobsKept
  <2>2. CASE k = j
    BY <2>2, <1>1, <1>4, ArrivalEffect
  <2>3. CASE m = j
    <3>1. k \in Active /\ job'[k] = job[k] /\ job'[m] = q
      BY <2>3, <1>1, <1>4, ArrivalEffect
    <3>2. {job[k].op, q.op} = {q.op, job[k].op}
      OBVIOUS
    <3> QED
      BY <3>1, <3>2, ArrivalEffect
  <2> QED
    BY <2>1, <2>2, <2>3, <1>1
<1> QED
  BY <1>3, <1>4 DEF JobsKept

LEMMA CalmJobs ==
  ASSUME JobsKept, JobsCalm
  PROVE  JobsKept'
BY DEF JobsKept, JobsCalm, SameJob

-------------------------------------------------------------------------------
(* The protocol numbers *)

LEMMA NumbersFrame ==
  ASSUME CasesTypeOK, NumbersKept, JobsCalm, counter' = counter,
         \A c \in Cases : (row'[c].is = "none" <=> row[c].is = "none") /\ row'[c].number = row[c].number,
         \A k \in Jobs : job'[k].pc = "number" => holder' = k /\ job'[k].number = counter + 1
  PROVE  NumbersKept'
<1>1. Given' = Given /\ Given \subseteq Cases
  BY DEF Given
<1>2. {row'[c].number : c \in Given} = {row[c].number : c \in Given}
  BY <1>1
<1>3. Cardinality(Given') = counter' /\ {row'[c].number : c \in Given'} = 1 .. counter'
  BY <1>1, <1>2 DEF NumbersKept
<1>4. \A k \in Active' : k \in Active /\ job'[k].op = job[k].op /\ job'[k].of = job[k].of /\ job[k].of \in Cases
  BY JobFields DEF JobsCalm, SameJob, Active
<1>5. \A k \in Jobs : job'[k].pc = "number" => holder' = k /\ job'[k].number = counter' + 1
  OBVIOUS
<1>6. /\ \A k \in Active' : job'[k].op = "open" => row'[job'[k].of].is = "none"
      /\ \A k \in Active' : job'[k].op \in OnCase => row'[job'[k].of].is # "none"
  BY <1>4 DEF NumbersKept
<1>7. \A k, m \in Active' :
        job'[k].op = "open" /\ job'[m].op = "open" /\ job'[k].of = job'[m].of => k = m
  BY <1>4 DEF NumbersKept
<1> QED
  BY <1>3, <1>5, <1>6, <1>7 DEF NumbersKept

LEMMA UpdateRowEffect ==
  ASSUME CasesTypeOK, NEW c \in Cases, NEW new \in CaseRow, UpdateRow(c, new),
         new.is = row[c].is, new.number = row[c].number
  PROVE  /\ \A d \in Cases : row'[d].is = row[d].is /\ row'[d].number = row[d].number
         /\ \A d \in Cases : d # c => row'[d] = row[d]
         /\ row'[c] = IF Live(c) THEN new ELSE row[c]
BY DEF UpdateRow, CasesTypeOK

\* What the steps write to the rows.
LEMMA ChangeStageEffect ==
  ASSUME CasesTypeOK, NEW j \in Jobs, ChangeOccurrenceStage(j)
  PROVE  /\ \A d \in Cases : row'[d].is = row[d].is /\ row'[d].number = row[d].number /\ row'[d].summary = row[d].summary
         /\ \A d \in Cases : d # job[j].of \/ ~Live(d) => row'[d] = row[d]
         /\ Live(job[j].of) => row'[job[j].of].stage = job[j].to /\ row'[job[j].of].closed = job[j].closing
<1> DEFINE c == job[j].of
<1> DEFINE new == [row[c] EXCEPT !.stage = job[j].to, !.closed = job[j].closing]
<1>1. c \in Cases
  BY JobFields
<1>2. /\ new \in CaseRow /\ new.is = row[c].is /\ new.number = row[c].number /\ new.summary = row[c].summary
      /\ new.stage = job[j].to /\ new.closed = job[j].closing
  BY <1>1, RowFields, JobFields DEF CaseRow
<1>3. UpdateRow(c, new)
  BY DEF ChangeOccurrenceStage
<1> HIDE DEF new, c
<1>4. /\ \A d \in Cases : row'[d].is = row[d].is /\ row'[d].number = row[d].number
      /\ \A d \in Cases : d # c => row'[d] = row[d]
      /\ row'[c] = IF Live(c) THEN new ELSE row[c]
  BY <1>1, <1>2, <1>3, UpdateRowEffect
<1>5. \A d \in Cases : row'[d].summary = row[d].summary
  BY <1>1, <1>2, <1>4
<1> QED
  BY <1>1, <1>2, <1>4, <1>5 DEF c

LEMMA EditsAreCalm ==
  ASSUME CasesTypeOK, NEW j \in Jobs, UpdateOccurrence(j) \/ StampFirstResponse(j)
  PROVE  RowsCalm
<1> DEFINE c == job[j].of
<1>1. c \in Cases /\ row[c] \in CaseRow /\ job[j].saw.urgent \in BOOLEAN /\ job[j].user \in Staff \cup {None}
  BY JobFields, RowFields
<1>2. PICK new \in CaseRow : /\ UpdateRow(c, new) /\ new.is = row[c].is /\ new.number = row[c].number
                             /\ new.stage = row[c].stage /\ new.closed = row[c].closed /\ new.summary = row[c].summary
  <2>1. CASE UpdateOccurrence(j)
    <3> DEFINE new == [row[c] EXCEPT !.urgent = ~job[j].saw.urgent, !.assignee = job[j].user]
    <3>1. /\ new \in CaseRow /\ new.is = row[c].is /\ new.number = row[c].number
          /\ new.stage = row[c].stage /\ new.closed = row[c].closed /\ new.summary = row[c].summary
      BY <1>1 DEF CaseRow
    <3>2. UpdateRow(c, new)
      BY <2>1 DEF UpdateOccurrence
    <3> HIDE DEF new
    <3> QED
      BY <3>1, <3>2
  <2>2. CASE StampFirstResponse(j)
    <3> DEFINE new == [row[c] EXCEPT !.answered = TRUE]
    <3>1. /\ new \in CaseRow /\ new.is = row[c].is /\ new.number = row[c].number
          /\ new.stage = row[c].stage /\ new.closed = row[c].closed /\ new.summary = row[c].summary
      BY <1>1 DEF CaseRow
    <3>2. UpdateRow(c, new)
      BY <2>2 DEF StampFirstResponse
    <3> HIDE DEF new
    <3> QED
      BY <3>1, <3>2
  <2> QED
    BY <2>1, <2>2
<1> HIDE DEF c
<1>3. /\ \A d \in Cases : d # c => row'[d] = row[d]
      /\ row'[c] = IF Live(c) THEN new ELSE row[c]
  BY <1>1, <1>2, UpdateRowEffect
<1> QED
  BY <1>1, <1>2, <1>3 DEF RowsCalm

LEMMA DocumentRowsEffect ==
  ASSUME CasesTypeOK, NEW j \in Jobs, CreateOccurrenceDocument(j) \/ DeleteOccurrenceDocument(j)
  PROVE  /\ \A d \in Cases : /\ row'[d].is = row[d].is /\ row'[d].number = row[d].number
                             /\ row'[d].stage = row[d].stage /\ row'[d].closed = row[d].closed
         /\ \A d \in Cases : d # job[j].of => row'[d] = row[d]
         /\ Live(job[j].of) => row'[job[j].of].summary = updateSummary(job[j])
<1> DEFINE c == job[j].of
<1> DEFINE new == [row[c] EXCEPT !.summary = updateSummary(job[j])]
<1>1. c \in Cases /\ row[c] \in CaseRow
  BY JobFields, RowFields
<1>2. updateSummary(job[j]) \in SUBSET Documents
  BY JobFields DEF updateSummary
<1>3. /\ new \in CaseRow /\ new.is = row[c].is /\ new.number = row[c].number
      /\ new.stage = row[c].stage /\ new.closed = row[c].closed /\ new.summary = updateSummary(job[j])
  BY <1>1, <1>2 DEF CaseRow
<1>4. UpdateRow(c, new)
  BY DEF CreateOccurrenceDocument, DeleteOccurrenceDocument
<1> HIDE DEF new, c
<1>5. /\ \A d \in Cases : row'[d].is = row[d].is /\ row'[d].number = row[d].number
      /\ \A d \in Cases : d # c => row'[d] = row[d]
      /\ row'[c] = IF Live(c) THEN new ELSE row[c]
  BY <1>1, <1>3, <1>4, UpdateRowEffect
<1> QED
  BY <1>1, <1>3, <1>5 DEF c

LEMMA InsertEffect ==
  ASSUME CasesTypeOK, NEW j \in Jobs, insertOccurrenceWithProtocol(j)
  PROVE  /\ \A d \in Cases : d # job[j].of => row'[d] = row[d] /\ timeline'[d] = timeline[d]
         /\ row'[job[j].of].is = "live" /\ row'[job[j].of].number = job[j].number /\ row'[job[j].of].stage = job[j].to
         /\ row'[job[j].of].closed = FALSE /\ row'[job[j].of].summary = {}
         /\ timeline'[job[j].of] = {[kind |-> "opened", to |-> job[j].to]}
<1> DEFINE q == job[j]
<1> DEFINE new == [NoCase EXCEPT !.is = "live", !.number = q.number, !.stage = q.to, !.assignee = q.by]
<1>1. new.is = "live" /\ new.number = q.number /\ new.stage = q.to /\ new.closed = FALSE /\ new.summary = {}
  BY DEF NoCase
<1>2. row' = [row EXCEPT ![q.of] = new] /\ timeline' = [timeline EXCEPT ![q.of] = {[kind |-> "opened", to |-> q.to]}]
  BY DEF insertOccurrenceWithProtocol
<1> HIDE DEF new
<1>3. job[j].of \in Cases
  BY JobFields
<1> QED
  BY <1>1, <1>2, <1>3 DEF CasesTypeOK

LEMMA DeleteCaseEffect ==
  ASSUME CasesTypeOK, NEW j \in Jobs, DeleteOccurrence(j)
  PROVE  /\ \A d \in Cases : d # job[j].of => row'[d] = row[d] /\ timeline'[d] = timeline[d]
         /\ row'[job[j].of].is = "deleted" /\ row'[job[j].of].number = row[job[j].of].number
         /\ timeline'[job[j].of] = {}
         /\ \A d \in Documents : IF d \in Belonging(job[j].of)
              THEN document'[d].is = "gone" /\ document'[d].of = document[d].of /\ document'[d].path = document[d].path
              ELSE document'[d] = document[d]
<1> DEFINE c == job[j].of
<1> DEFINE new == [row[c] EXCEPT !.is = "deleted"]
<1>1. c \in Cases /\ row[c] \in CaseRow
  BY JobFields, RowFields
<1>2. new.is = "deleted" /\ new.number = row[c].number
  BY <1>1 DEF CaseRow
<1>3. row' = [row EXCEPT ![c] = new] /\ timeline' = [timeline EXCEPT ![c] = {}]
  BY DEF DeleteOccurrence
<1>4. \A d \in Documents : LET r == [document[d] EXCEPT !.is = "gone"] IN
        r.is = "gone" /\ r.of = document[d].of /\ r.path = document[d].path
  BY DEF CasesTypeOK, DocumentRow
<1>5. document' = [d \in Documents |-> IF d \in Belonging(c) THEN [document[d] EXCEPT !.is = "gone"] ELSE document[d]]
  BY DEF DeleteOccurrence
<1>6. \A d \in Documents : IF d \in Belonging(c)
        THEN document'[d].is = "gone" /\ document'[d].of = document[d].of /\ document'[d].path = document[d].path
        ELSE document'[d] = document[d]
  BY <1>4, <1>5
<1> HIDE DEF new, c
<1> QED
  BY <1>1, <1>2, <1>3, <1>6 DEF CasesTypeOK, c

LEMMA InsertNumbers ==
  ASSUME CasesTypeOK, NumbersKept, NEW j \in Jobs, insertOccurrenceWithProtocol(j), Moves(j)
  PROVE  NumbersKept'
<1> DEFINE c == job[j].of
<1>1. c \in Cases /\ j \in Active /\ job[j].op = "open" /\ job[j].pc = "number" /\ job'[j].pc = "done"
  BY JobFields, ReachedEffect DEF insertOccurrenceWithProtocol, Moves, JobMoves
<1>2. row[c].is = "none" /\ job[j].number = counter + 1 /\ holder = j /\ counter' = counter + 1
  BY <1>1 DEF NumbersKept, insertOccurrenceWithProtocol
<1>3. /\ \A d \in Cases : d # c => row'[d] = row[d]
      /\ row'[c].is = "live" /\ row'[c].number = counter + 1
  BY <1>2, InsertEffect
<1> HIDE DEF c
<1>4. Given' = Given \cup {c} /\ c \notin Given /\ Given \subseteq Cases
  BY <1>1, <1>2, <1>3 DEF Given
<1>5. counter \in Nat
  BY CasesAssumption, FS_CardinalityType DEF CasesTypeOK
<1>6. IsFiniteSet(Given)
  BY <1>4, CasesAssumption, FS_Subset
<1>7. Cardinality(Given') = counter + 1
  BY <1>4, <1>6, FS_AddElement DEF NumbersKept
<1>8. {row'[d].number : d \in Given} = {row[d].number : d \in Given}
  BY <1>3, <1>4
<1>9. {row'[d].number : d \in Given'} = {row'[d].number : d \in Given} \cup {counter + 1}
  BY <1>3, <1>4
<1>10. {row'[d].number : d \in Given'} = 1 .. counter + 1
  <2>1. 1 .. counter + 1 = (1 .. counter) \cup {counter + 1}
    BY <1>5
  <2>2. {row[d].number : d \in Given} = 1 .. counter
    BY DEF NumbersKept
  <2> QED
    BY <2>1, <2>2, <1>8, <1>9
<1>11. \A k \in Jobs : job'[k].pc # "number"
  BY <1>1, <1>2 DEF NumbersKept, Moves, OnlyJob
<1>12. \A k \in Active' : k # j /\ k \in Active /\ job'[k] = job[k] /\ job[k].of \in Cases
  BY <1>1, JobFields DEF Moves, OnlyJob, Active
<1>13. /\ \A k \in Active' : job'[k].op = "open" => row'[job'[k].of].is = "none"
       /\ \A k \in Active' : job'[k].op \in OnCase => row'[job'[k].of].is # "none"
  <2>1. ASSUME NEW k \in Active', job'[k].op = "open"
        PROVE  row'[job'[k].of].is = "none"
    <3>1. job[k].of # c
      BY <1>1, <1>12, <2>1 DEF NumbersKept, c
    <3> QED
      BY <1>3, <1>12, <2>1, <3>1 DEF NumbersKept
  <2>2. ASSUME NEW k \in Active', job'[k].op \in OnCase
        PROVE  row'[job'[k].of].is # "none"
    BY <1>3, <1>12, <2>2 DEF NumbersKept
  <2> QED
    BY <2>1, <2>2
<1>14. \A k, m \in Active' :
         job'[k].op = "open" /\ job'[m].op = "open" /\ job'[k].of = job'[m].of => k = m
  BY <1>12 DEF NumbersKept
<1> QED
  BY <1>2, <1>7, <1>10, <1>11, <1>13, <1>14 DEF NumbersKept

LEMMA ArrivalNumbers ==
  ASSUME CasesTypeOK, NumbersKept, NEW j \in Jobs, NEW q \in Job, CaseArrives(j, q)
  PROVE  NumbersKept'
<1>1. /\ job'[j] = q /\ \A k \in Jobs : k # j => job'[k] = job[k]
      /\ \A k \in Active : k # j /\ job'[k] = job[k] /\ k \in Active'
      /\ Active' = Active \cup {j} /\ Active \subseteq Jobs
  BY ArrivalEffect DEF CaseArrives, Active
<1>2. row' = row /\ counter' = counter /\ holder' = holder /\ q.pc = "read" /\ Accepts(q) /\ Given' = Given
  BY DEF CaseArrives, Given
<1>3. Cardinality(Given') = counter' /\ {row'[c].number : c \in Given'} = 1 .. counter'
  BY <1>2 DEF NumbersKept
<1>4. \A k \in Jobs : job'[k].pc = "number" => holder' = k /\ job'[k].number = counter' + 1
  BY <1>1, <1>2 DEF NumbersKept
<1>5. q.op = "open" => row[q.of].is = "none" /\ \A k \in Active : job[k].op # "open" \/ job[k].of # q.of
  BY <1>2 DEF Accepts
<1>6. q.op \in OnCase => row[q.of].is # "none"
  BY <1>2 DEF Accepts, OnCase, CaseOps, Pipeline, Live
<1>7. \A k \in Active' : job'[k].op = "open" => row'[job'[k].of].is = "none"
  BY <1>1, <1>2, <1>5 DEF NumbersKept
<1>8. \A k \in Active' : job'[k].op \in OnCase => row'[job'[k].of].is # "none"
  BY <1>1, <1>2, <1>6 DEF NumbersKept
<1>9. ASSUME NEW k \in Active', NEW m \in Active',
             job'[k].op = "open", job'[m].op = "open", job'[k].of = job'[m].of
      PROVE  k = m
  <2>1. CASE k \in Active /\ m \in Active
    BY <2>1, <1>1, <1>9 DEF NumbersKept
  <2>2. CASE k = j \/ m = j
    BY <2>2, <1>1, <1>5, <1>9
  <2> QED
    BY <2>1, <2>2, <1>1
<1> QED
  BY <1>3, <1>4, <1>7, <1>8, <1>9 DEF NumbersKept

LEMMA StepNumbers ==
  ASSUME CasesTypeOK, NumbersKept, NEW j \in Jobs, CaseStep(j)
  PROVE  NumbersKept'
<1> USE DEF Leave
<1>1. Moves(j) /\ JobsCalm
  BY StepEffect, MovesAreCalm
<1>2. \A k \in Jobs : k # j => job'[k] = job[k]
  BY <1>1 DEF Moves, OnlyJob
<1>3. ASSUME ~insertOccurrenceWithProtocol(j)
      PROVE  \A c \in Cases : (row'[c].is = "none" <=> row[c].is = "none") /\ row'[c].number = row[c].number
  <2>1. CASE ChangeOccurrenceStage(j)
    BY <2>1, ChangeStageEffect
  <2>2. CASE UpdateOccurrence(j) \/ StampFirstResponse(j)
    BY <2>2, EditsAreCalm DEF RowsCalm
  <2>3. CASE CreateOccurrenceDocument(j) \/ DeleteOccurrenceDocument(j)
    BY <2>3, DocumentRowsEffect
  <2>4. CASE DeleteOccurrence(j)
    <3>1. job[j].op \in OnCase /\ j \in Active /\ job[j].of \in Cases
      BY <2>4, <1>1, JobFields DEF DeleteOccurrence, Moves, OnCase, CaseOps, Pipeline
    <3>2. row[job[j].of].is # "none"
      BY <3>1 DEF NumbersKept
    <3> QED
      BY <2>4, <3>1, <3>2, DeleteCaseEffect
  <2>5. CASE row' = row
    BY <2>5
  <2>6. row' = row \/ ChangeOccurrenceStage(j) \/ UpdateOccurrence(j) \/ StampFirstResponse(j)
          \/ CreateOccurrenceDocument(j) \/ DeleteOccurrenceDocument(j) \/ DeleteOccurrence(j)
    BY <1>3 DEF CaseStep, TakeNumber, RollBack, LogMove, CreateOccurrenceStage, UpdateOccurrenceStage, DeleteOccurrenceStage,
       LogAssignment, CreateOccurrenceEvent, SendOccurrenceProtocol, LogOccurrenceProcessMessageUse, ReplyToOccurrence,
       AddEvent, removeOccurrenceAttachment, UploadOccurrenceDocumentAttachment, WritePath
  <2> QED
    BY <2>1, <2>2, <2>3, <2>4, <2>5, <2>6
<1>4. CASE insertOccurrenceWithProtocol(j)
  BY <1>1, <1>4, InsertNumbers
<1>5. CASE TakeNumber(j)
  <2>1. /\ job'[j].number = counter + 1 /\ holder' = j /\ holder = 0 /\ counter' = counter
        /\ ~insertOccurrenceWithProtocol(j)
    BY <1>5, TakeNumberEffect DEF JobMoves, TakeNumber, insertOccurrenceWithProtocol
  <2>2. \A k \in Jobs : k # j => job[k].pc # "number"
    BY <2>1 DEF NumbersKept, Jobs
  <2>3. \A k \in Jobs : job'[k].pc = "number" => holder' = k /\ job'[k].number = counter + 1
    BY <2>1, <2>2, <1>2
  <2> QED
    BY <2>1, <2>3, <1>1, <1>3, NumbersFrame
<1>6. CASE RollBack(j)
  <2>1. job[j].pc = "number" /\ job'[j].pc = "done" /\ counter' = counter
    BY <1>6, ReachedEffect DEF RollBack, JobMoves
  <2>2. \A k \in Jobs : k # j => job[k].pc # "number"
    BY <2>1 DEF NumbersKept
  <2>3. \A k \in Jobs : job'[k].pc = "number" => holder' = k /\ job'[k].number = counter + 1
    BY <2>1, <2>2, <1>2
  <2>4. row' = row
    BY <1>6 DEF RollBack
  <2> QED
    BY <2>1, <2>3, <2>4, <1>1, NumbersFrame
<1>7. CASE ~(TakeNumber(j) \/ insertOccurrenceWithProtocol(j) \/ RollBack(j))
  <2>1. counter' = counter /\ holder' = holder
    BY <1>7 DEF CaseStep, LogMove, CreateOccurrenceStage, UpdateOccurrenceStage, DeleteOccurrenceStage,
       LogAssignment, CreateOccurrenceEvent, SendOccurrenceProtocol, LogOccurrenceProcessMessageUse, ReplyToOccurrence,
       AddEvent, removeOccurrenceAttachment, UploadOccurrenceDocumentAttachment, WritePath, ChangeOccurrenceStage,
       UpdateOccurrence, StampFirstResponse, CreateOccurrenceDocument, DeleteOccurrenceDocument, DeleteOccurrence
  <2>2. \E pc \in {"done", "after", "files", "write"} : Reached(j, pc)
    BY <1>7 DEF CaseStep, LogMove, CreateOccurrenceStage, UpdateOccurrenceStage, DeleteOccurrenceStage,
       LogAssignment, CreateOccurrenceEvent, SendOccurrenceProtocol, LogOccurrenceProcessMessageUse, ReplyToOccurrence,
       AddEvent, removeOccurrenceAttachment, UploadOccurrenceDocumentAttachment, WritePath, ChangeOccurrenceStage,
       UpdateOccurrence, StampFirstResponse, CreateOccurrenceDocument, DeleteOccurrenceDocument, DeleteOccurrence
  <2>3. job'[j].pc # "number"
    BY <2>2, ReachedEffect DEF JobMoves
  <2>4. \A k \in Jobs : job'[k].pc = "number" => holder' = k /\ job'[k].number = counter + 1
    BY <2>1, <2>3, <1>2 DEF NumbersKept
  <2> QED
    BY <2>1, <2>4, <1>1, <1>3, <1>7, NumbersFrame
<1> QED
  BY <1>4, <1>5, <1>6, <1>7

-------------------------------------------------------------------------------
(* The pipeline and the stages of the cases *)

LEMMA PipelineFrame ==
  ASSUME PipelineKept, JobsCalm, stage' = stage
  PROVE  PipelineKept'
<1> SUFFICES ASSUME ~PipelineEdits'
             PROVE  /\ \E s \in StageIds : Opens(s)' /\ \A t \in StageIds : Opens(t)' => t = s
                    /\ \E s \in StageIds : stage'[s].is = "live" /\ stage'[s].closing
                    /\ \A k \in Active' : job'[k].op \in Pipeline => Fits(job[k])'
  BY DEF PipelineKept
<1>1. ~PipelineEdits
  BY DEF PipelineEdits, JobsCalm
<1>2. ASSUME NEW k \in Active', job'[k].op \in Pipeline
      PROVE  Fits(job[k])'
  <2>1. k \in Active /\ job'[k].op = job[k].op /\ job'[k].to = job[k].to
        /\ job'[k].initial = job[k].initial /\ job'[k].closing = job[k].closing
    BY <1>2 DEF JobsCalm, SameJob
  <2>2. Fits(job[k])
    BY <1>1, <1>2, <2>1 DEF PipelineKept
  <2> QED
    BY <2>1, <2>2 DEF Fits, hasOtherClosingStage
<1> QED
  BY <1>1, <1>2 DEF PipelineKept, Opens

LEMMA ArrivalPipeline ==
  ASSUME CasesTypeOK, PipelineKept, NEW j \in Jobs, NEW q \in Job, CaseArrives(j, q)
  PROVE  PipelineKept'
<1>1. /\ job'[j] = q /\ \A k \in Active : job'[k] = job[k]
      /\ Active' = Active \cup {j} /\ crossed \subseteq crossed' /\ stage' = stage /\ Accepts(q)
  BY ArrivalEffect DEF CaseArrives
<1> SUFFICES ASSUME ~PipelineEdits'
             PROVE  /\ \E s \in StageIds : Opens(s)' /\ \A t \in StageIds : Opens(t)' => t = s
                    /\ \E s \in StageIds : stage'[s].is = "live" /\ stage'[s].closing
                    /\ \A k \in Active' : job'[k].op \in Pipeline => Fits(job[k])'
  BY DEF PipelineKept
<1>2. ~PipelineEdits
  BY <1>1 DEF PipelineEdits
<1>3. ASSUME NEW k \in Active', job'[k].op \in Pipeline
      PROVE  Fits(job[k])'
  <2>1. CASE k = j
    <3>1. Fits(q)
      BY <2>1, <1>1, <1>3 DEF Accepts, Fits, Pipeline
    <3> QED
      BY <2>1, <3>1, <1>1 DEF Fits, hasOtherClosingStage
  <2>2. CASE k \in Active
    <3>1. Fits(job[k]) /\ job'[k] = job[k]
      BY <2>2, <1>1, <1>2, <1>3 DEF PipelineKept
    <3> QED
      BY <3>1, <1>1 DEF Fits, hasOtherClosingStage
  <2> QED
    BY <2>1, <2>2, <1>1
<1> QED
  BY <1>1, <1>2, <1>3 DEF PipelineKept, Opens

\* What an edit of the pipeline writes: s is the stage it is about.
LEMMA StageEditEffect ==
  ASSUME CasesTypeOK, NEW j \in Jobs,
         CreateOccurrenceStage(j) \/ UpdateOccurrenceStage(j) \/ DeleteOccurrenceStage(j)
  PROVE  LET q == job[j]
             s == job[j].to
         IN /\ q.op \in Pipeline /\ q.pc = "read" /\ Reached(j, "done") /\ s \in StageIds
            /\ \A t \in StageIds : t # s => /\ stage'[t].is = stage[t].is /\ stage'[t].closing = stage[t].closing
                                            /\ (stage'[t].initial <=> stage[t].initial /\ ~(q.op # "stage_delete" /\ q.initial))
            /\ IF q.op = "stage_delete"
               THEN stage'[s].is = "gone"
               ELSE /\ stage'[s].initial = q.initial /\ stage'[s].closing = q.closing
                    /\ stage'[s].is = IF q.op = "stage_new" THEN "live" ELSE stage[s].is
<1> DEFINE q == job[j]
<1> DEFINE s == job[j].to
<1> DEFINE old == unsetOtherInitial(s, q.initial)
<1>1. s \in StageIds /\ q.initial \in BOOLEAN
  BY JobFields
<1>2. \A t \in StageIds : LET r == [stage[t] EXCEPT !.initial = FALSE] IN
        /\ stage[t] \in StageRow /\ r \in StageRow /\ r.is = stage[t].is /\ r.closing = stage[t].closing /\ r.initial = FALSE
        /\ stage[t].initial \in BOOLEAN
  BY DEF CasesTypeOK, StageRow
<1>3. /\ old \in [StageIds -> StageRow] /\ old[s] = stage[s]
      /\ \A t \in StageIds : t # s => /\ old[t].is = stage[t].is /\ old[t].closing = stage[t].closing
                                      /\ (old[t].initial <=> stage[t].initial /\ ~q.initial)
  BY <1>1, <1>2 DEF unsetOtherInitial
<1> HIDE DEF old
<1>4. CASE CreateOccurrenceStage(j)
  <2>1. stage' = [old EXCEPT ![s] = [is |-> "live", initial |-> q.initial, closing |-> q.closing]]
        /\ q.op = "stage_new" /\ q.pc = "read" /\ Reached(j, "done")
    BY <1>4 DEF CreateOccurrenceStage, old
  <2>2. stage'[s] = [is |-> "live", initial |-> q.initial, closing |-> q.closing]
        /\ \A t \in StageIds : t # s => stage'[t] = old[t]
    BY <1>1, <1>3, <2>1
  <2> QED
    BY <1>1, <1>3, <2>1, <2>2 DEF Pipeline
<1>5. CASE UpdateOccurrenceStage(j)
  <2> DEFINE new == [old[s] EXCEPT !.initial = q.initial, !.closing = q.closing]
  <2>1. stage' = [old EXCEPT ![s].initial = q.initial, ![s].closing = q.closing]
        /\ q.op = "stage_edit" /\ q.pc = "read" /\ Reached(j, "done")
    BY <1>5 DEF UpdateOccurrenceStage, old
  <2>2. stage' = [old EXCEPT ![s] = new]
    BY <1>1, <1>3, <2>1
  <2>3. new.is = stage[s].is /\ new.initial = q.initial /\ new.closing = q.closing
    BY <1>1, <1>2, <1>3 DEF StageRow
  <2> HIDE DEF new
  <2>4. stage'[s] = new /\ \A t \in StageIds : t # s => stage'[t] = old[t]
    BY <1>1, <1>3, <2>2
  <2> QED
    BY <1>1, <1>3, <2>1, <2>3, <2>4 DEF Pipeline
<1>6. CASE DeleteOccurrenceStage(j)
  <2> DEFINE new == [stage[s] EXCEPT !.is = "gone"]
  <2>1. stage' = [stage EXCEPT ![s] = new] /\ q.op = "stage_delete" /\ q.pc = "read" /\ Reached(j, "done")
    BY <1>6 DEF DeleteOccurrenceStage
  <2>2. new.is = "gone"
    BY <1>1, <1>2 DEF StageRow
  <2> HIDE DEF new
  <2>3. stage'[s] = new /\ \A t \in StageIds : t # s => stage'[t] = stage[t]
    BY <1>1, <2>1 DEF CasesTypeOK
  <2> QED
    BY <1>1, <1>2, <2>1, <2>2, <2>3 DEF Pipeline
<1> QED
  BY <1>4, <1>5, <1>6

LEMMA EditPipeline ==
  ASSUME CasesTypeOK, PipelineKept, JobsKept, NEW j \in Jobs, Moves(j),
         CreateOccurrenceStage(j) \/ UpdateOccurrenceStage(j) \/ DeleteOccurrenceStage(j)
  PROVE  PipelineKept'
<1> DEFINE q == job[j]
<1>0. PICK s \in StageIds : s = job[j].to
  BY JobFields
<1>1. /\ q.op \in Pipeline /\ q.pc = "read" /\ Reached(j, "done") /\ s \in StageIds
      /\ \A t \in StageIds : t # s => /\ stage'[t].is = stage[t].is /\ stage'[t].closing = stage[t].closing
                                      /\ (stage'[t].initial <=> stage[t].initial /\ ~(q.op # "stage_delete" /\ q.initial))
      /\ IF q.op = "stage_delete"
         THEN stage'[s].is = "gone"
         ELSE /\ stage'[s].initial = q.initial /\ stage'[s].closing = q.closing
              /\ stage'[s].is = IF q.op = "stage_new" THEN "live" ELSE stage[s].is
  BY <1>0, StageEditEffect
<1>2. q.initial \in BOOLEAN /\ q.closing \in BOOLEAN
  BY JobFields
<1>3. j \in Active /\ crossed' = crossed /\ job'[j].pc = "done" /\ Active' \subseteq Active
      /\ \A k \in Jobs : k # j => job'[k] = job[k]
  BY <1>1, ReachedEffect DEF Moves, OnlyJob, JobMoves
<1> SUFFICES ASSUME ~PipelineEdits'
             PROVE  /\ \E t \in StageIds : Opens(t)' /\ \A u \in StageIds : Opens(u)' => u = t
                    /\ \E t \in StageIds : stage'[t].is = "live" /\ stage'[t].closing
                    /\ \A k \in Active' : job'[k].op \in Pipeline => Fits(job[k])'
  BY DEF PipelineKept
<1>4. ~PipelineEdits
  BY <1>3 DEF PipelineEdits
<1>5. \A k \in Active : k # j => job[k].op \notin Pipeline
  BY <1>1, <1>3, <1>4 DEF JobsKept, PipelineEdits
<1>6. ASSUME NEW k \in Active' PROVE job'[k].op \notin Pipeline
  BY <1>3, <1>5 DEF Active
<1>7. Fits(q) /\ q.to = s
  BY <1>0, <1>1, <1>3, <1>4 DEF PipelineKept
<1>8. PICK s1 \in StageIds : Opens(s1) /\ \A t \in StageIds : Opens(t) => t = s1
  BY <1>4 DEF PipelineKept
<1>9. PICK s2 \in StageIds : stage[s2].is = "live" /\ stage[s2].closing
  BY <1>4 DEF PipelineKept
<1>10. q.op = "stage_new" \/ q.op = "stage_edit" \/ q.op = "stage_delete"
  BY <1>1 DEF Pipeline
<1>11. CASE q.op = "stage_new"
  <2>1. stage[s].is = "none" /\ s # s1 /\ s # s2
    BY <1>7, <1>8, <1>9, <1>11 DEF Fits, Opens
  <2>2. stage'[s2].is = "live" /\ stage'[s2].closing
    BY <1>1, <1>9, <2>1
  <2>3. \E t \in StageIds : Opens(t)' /\ \A u \in StageIds : Opens(u)' => u = t
    <3>1. CASE q.initial
      <4>1. Opens(s)' /\ \A u \in StageIds : u # s => ~Opens(u)'
        BY <3>1, <1>1, <1>11, <2>1 DEF Opens
      <4> QED
        BY <4>1, <1>1
    <3>2. CASE ~q.initial
      <4>1. \A u \in StageIds : Opens(u)' <=> Opens(u)
        <5>1. ~Opens(s) /\ ~Opens(s)'
          BY <3>2, <1>1, <1>11, <2>1 DEF Opens
        <5>2. \A u \in StageIds : u # s => (Opens(u)' <=> Opens(u))
          BY <3>2, <1>1, <1>11, <2>1 DEF Opens
        <5> QED
          BY <5>1, <5>2
      <4> QED
        BY <4>1, <1>8
    <3> QED
      BY <3>1, <3>2
  <2> QED
    BY <2>2, <2>3, <1>6, <1>9
<1>12. CASE q.op = "stage_edit"
  <2>1. stage[s].is = "live" /\ stage'[s].is = "live" /\ (stage[s].initial => q.initial)
        /\ (stage[s].closing /\ ~q.closing => \E t \in StageIds \ {s} : stage[t].is = "live" /\ stage[t].closing)
    BY <1>1, <1>7, <1>12 DEF Fits, hasOtherClosingStage
  <2>2. \E t \in StageIds : stage'[t].is = "live" /\ stage'[t].closing
    BY <1>1, <1>2, <1>9, <1>12, <2>1
  <2>3. \E t \in StageIds : Opens(t)' /\ \A u \in StageIds : Opens(u)' => u = t
    <3>1. CASE q.initial
      <4>1. Opens(s)' /\ \A u \in StageIds : u # s => ~Opens(u)'
        BY <3>1, <1>1, <1>12, <2>1 DEF Opens
      <4> QED
        BY <4>1, <1>1
    <3>2. CASE ~q.initial
      <4>1. \A u \in StageIds : Opens(u)' <=> Opens(u)
        <5>1. ~Opens(s) /\ ~Opens(s)'
          BY <3>2, <1>1, <1>12, <2>1 DEF Opens
        <5>2. \A u \in StageIds : u # s => (Opens(u)' <=> Opens(u))
          BY <3>2, <1>1, <1>12, <2>1 DEF Opens
        <5> QED
          BY <5>1, <5>2
      <4> QED
        BY <4>1, <1>8
    <3> QED
      BY <3>1, <3>2
  <2> QED
    BY <2>2, <2>3, <1>6
<1>13. CASE q.op = "stage_delete"
  <2>1. stage[s].is = "live" /\ ~stage[s].initial /\ stage'[s].is = "gone"
        /\ (stage[s].closing => \E t \in StageIds \ {s} : stage[t].is = "live" /\ stage[t].closing)
    BY <1>1, <1>7, <1>13 DEF Fits, hasOtherClosingStage
  <2>2. \E t \in StageIds : stage'[t].is = "live" /\ stage'[t].closing
    BY <1>1, <1>9, <1>13, <2>1
  <2>3. \E t \in StageIds : Opens(t)' /\ \A u \in StageIds : Opens(u)' => u = t
    <3>1. \A u \in StageIds : Opens(u)' <=> Opens(u)
      BY <1>1, <1>13, <2>1 DEF Opens
    <3> QED
      BY <3>1, <1>8
  <2> QED
    BY <2>2, <2>3, <1>6
<1> QED
  BY <1>10, <1>11, <1>12, <1>13

LEMMA StepPipeline ==
  ASSUME CasesTypeOK, NumbersKept, PipelineKept, JobsKept, NEW j \in Jobs, CaseStep(j)
  PROVE  PipelineKept'
<1>1. Moves(j) /\ JobsCalm
  BY StepEffect, MovesAreCalm
<1>2. stage' = stage \/ CreateOccurrenceStage(j) \/ UpdateOccurrenceStage(j) \/ DeleteOccurrenceStage(j)
  BY DEF CaseStep, Leave, TakeNumber, insertOccurrenceWithProtocol, RollBack, ChangeOccurrenceStage, LogMove,
     UpdateOccurrence, LogAssignment, CreateOccurrenceEvent, SendOccurrenceProtocol, LogOccurrenceProcessMessageUse,
     ReplyToOccurrence, AddEvent, StampFirstResponse, CreateOccurrenceDocument, DeleteOccurrenceDocument,
     removeOccurrenceAttachment, UploadOccurrenceDocumentAttachment, WritePath, DeleteOccurrence
<1> QED
  BY <1>1, <1>2, PipelineFrame, EditPipeline

LEMMA StagesFrame ==
  ASSUME CasesTypeOK, StagesKept, JobsCalm,
         \A s \in StageIds : stage[s].is = "live" => stage'[s].is = "live",
         \A c \in Cases : row'[c].is = "live" => row[c].is = "live" /\ row'[c].stage = row[c].stage
  PROVE  StagesKept'
<1> SUFFICES ASSUME ~With("stage_delete", {"move", "open"})'
             PROVE  /\ \A c \in Cases : row'[c].is = "live" => stage'[row'[c].stage].is = "live"
                    /\ \A k \in Active' : job'[k].op \in {"move", "open"} => stage'[job'[k].to].is = "live"
                    /\ \A k \in Active' : job'[k].op = "stage_delete" => ~inUse(job[k].to)'
  BY DEF StagesKept, Live
<1>1. ~With("stage_delete", {"move", "open"})
  BY DEF With, JobsCalm
<1>2. \A c \in Cases : row'[c].is = "live" => stage'[row'[c].stage].is = "live"
  BY <1>1, RowFields DEF StagesKept, Live
<1>3. \A k \in Active' : job'[k].op \in {"move", "open"} => stage'[job'[k].to].is = "live"
  BY <1>1, JobFields DEF StagesKept, JobsCalm, SameJob, Active
<1>4. ASSUME NEW k \in Active', job'[k].op = "stage_delete"
      PROVE  ~inUse(job[k].to)'
  <2>1. ~inUse(job[k].to) /\ job'[k].to = job[k].to
    BY <1>1, <1>4 DEF StagesKept, JobsCalm, SameJob
  <2> QED
    BY <2>1 DEF inUse, Live
<1> QED
  BY <1>2, <1>3, <1>4

\* A case enters a stage: the one that a move or an opening in progress has read.
LEMMA EnterStage ==
  ASSUME CasesTypeOK, StagesKept, JobsKept, JobsCalm, stage' = stage,
         NEW j \in Active, job[j].op \in {"move", "open"},
         \A c \in Cases : row'[c].is = "live" /\ row'[c].stage # job[j].to => row[c].is = "live" /\ row'[c].stage = row[c].stage
  PROVE  StagesKept'
<1> SUFFICES ASSUME ~With("stage_delete", {"move", "open"})'
             PROVE  /\ \A c \in Cases : row'[c].is = "live" => stage'[row'[c].stage].is = "live"
                    /\ \A k \in Active' : job'[k].op \in {"move", "open"} => stage'[job'[k].to].is = "live"
                    /\ \A k \in Active' : job'[k].op = "stage_delete" => ~inUse(job[k].to)'
  BY DEF StagesKept, Live
<1>1. ~With("stage_delete", {"move", "open"})
  BY DEF With, JobsCalm
<1>2. stage[job[j].to].is = "live"
  BY <1>1 DEF StagesKept
<1>3. \A c \in Cases : row'[c].is = "live" => stage'[row'[c].stage].is = "live"
  BY <1>1, <1>2 DEF StagesKept, Live
<1>4. \A k \in Active' : job'[k].op \in {"move", "open"} => stage'[job'[k].to].is = "live"
  BY <1>1 DEF StagesKept, JobsCalm, SameJob
<1>5. ASSUME NEW k \in Active', job'[k].op = "stage_delete"
      PROVE  FALSE
  <2>1. k \in Active /\ job[k].op = "stage_delete" /\ k # j
    BY <1>5 DEF JobsCalm, SameJob
  <2>2. {job[k].op, job[j].op} \in crossed
    BY <2>1 DEF JobsKept
  <2> QED
    BY <1>1, <2>1, <2>2 DEF With
<1> QED
  BY <1>3, <1>4, <1>5

LEMMA DeleteStageStages ==
  ASSUME CasesTypeOK, StagesKept, JobsKept, NEW j \in Jobs, Moves(j), DeleteOccurrenceStage(j)
  PROVE  StagesKept'
<1>0. PICK s \in StageIds : s = job[j].to
  BY JobFields
<1>1. /\ \A t \in StageIds : t # s => stage'[t].is = stage[t].is
      /\ job[j].op = "stage_delete" /\ row' = row /\ job'[j].pc = "done" /\ j \in Active
  BY <1>0, StageEditEffect, ReachedEffect DEF DeleteOccurrenceStage, Leave, Moves, JobMoves
<1>2. /\ crossed' = crossed /\ Active' \subseteq Active
      /\ \A k \in Active' : k # j /\ job'[k] = job[k]
  BY <1>1 DEF Moves, OnlyJob, Active
<1> SUFFICES ASSUME ~With("stage_delete", {"move", "open"})'
             PROVE  /\ \A c \in Cases : row'[c].is = "live" => stage'[row'[c].stage].is = "live"
                    /\ \A k \in Active' : job'[k].op \in {"move", "open"} => stage'[job'[k].to].is = "live"
                    /\ \A k \in Active' : job'[k].op = "stage_delete" => ~inUse(job[k].to)'
  BY DEF StagesKept, Live
<1>3. ~With("stage_delete", {"move", "open"})
  BY <1>2 DEF With
<1>4. ~inUse(s)
  BY <1>0, <1>1, <1>3 DEF StagesKept
<1>5. \A c \in Cases : row'[c].is = "live" => stage'[row'[c].stage].is = "live"
  BY <1>1, <1>3, <1>4, RowFields DEF StagesKept, inUse, Live
<1>6. ASSUME NEW k \in Active'
      PROVE  job'[k].op \notin {"move", "open"}
  <2>1. {job[j].op, job[k].op} \in crossed /\ job'[k] = job[k]
    BY <1>1, <1>2 DEF JobsKept
  <2> QED
    BY <1>1, <1>3, <2>1 DEF With
<1>7. \A k \in Active' : job'[k].op = "stage_delete" => ~inUse(job[k].to)'
  BY <1>1, <1>2, <1>3 DEF StagesKept, inUse, Live
<1> QED
  BY <1>5, <1>6, <1>7

LEMMA ArrivalStages ==
  ASSUME CasesTypeOK, StagesKept, NEW j \in Jobs, NEW q \in Job, CaseArrives(j, q)
  PROVE  StagesKept'
<1>1. /\ job'[j] = q /\ \A k \in Active : job'[k] = job[k]
      /\ Active' = Active \cup {j} /\ crossed \subseteq crossed' /\ stage' = stage /\ row' = row /\ Accepts(q)
  BY ArrivalEffect DEF CaseArrives
<1> SUFFICES ASSUME ~With("stage_delete", {"move", "open"})'
             PROVE  /\ \A c \in Cases : row'[c].is = "live" => stage'[row'[c].stage].is = "live"
                    /\ \A k \in Active' : job'[k].op \in {"move", "open"} => stage'[job'[k].to].is = "live"
                    /\ \A k \in Active' : job'[k].op = "stage_delete" => ~inUse(job[k].to)'
  BY DEF StagesKept, Live
<1>2. ~With("stage_delete", {"move", "open"})
  BY <1>1 DEF With
<1>3. q.op = "open" => q.to \in initialStage
  BY <1>1 DEF Accepts
<1>4. q.op \in {"move", "open"} => stage[q.to].is = "live"
  BY <1>1, <1>3 DEF Accepts, initialStage
<1>5. q.op = "stage_delete" => ~inUse(q.to)
  BY <1>1 DEF Accepts
<1>6. ASSUME NEW k \in Active', job'[k].op = "stage_delete"
      PROVE  ~inUse(job[k].to)'
  <2>1. CASE k = j
    BY <2>1, <1>1, <1>5, <1>6 DEF inUse, Live
  <2>2. CASE k \in Active
    <3>1. ~inUse(job[k].to) /\ job'[k] = job[k]
      BY <2>2, <1>1, <1>2, <1>6 DEF StagesKept
    <3> QED
      BY <3>1, <1>1 DEF inUse, Live
  <2> QED
    BY <2>1, <2>2, <1>1
<1> QED
  BY <1>1, <1>2, <1>4, <1>6 DEF StagesKept, Live

LEMMA StepStages ==
  ASSUME CasesTypeOK, NumbersKept, StagesKept, PipelineKept, JobsKept, NEW j \in Jobs, CaseStep(j)
  PROVE  StagesKept'
<1>1. Moves(j) /\ JobsCalm /\ j \in Active
  BY StepEffect, MovesAreCalm DEF Moves
<1>2. CASE insertOccurrenceWithProtocol(j)
  <2>1. job[j].op = "open" /\ stage' = stage
    BY <1>2 DEF insertOccurrenceWithProtocol, Leave
  <2>2. \A c \in Cases : row'[c].is = "live" /\ row'[c].stage # job[j].to => row[c].is = "live" /\ row'[c].stage = row[c].stage
    BY <1>2, InsertEffect
  <2> QED
    BY <1>1, <2>1, <2>2, EnterStage
<1>3. CASE ChangeOccurrenceStage(j)
  <2>1. job[j].op = "move" /\ stage' = stage
    BY <1>3 DEF ChangeOccurrenceStage, Leave
  <2>2. \A c \in Cases : row'[c].is = "live" /\ row'[c].stage # job[j].to => row[c].is = "live" /\ row'[c].stage = row[c].stage
    BY <1>3, ChangeStageEffect DEF Live
  <2> QED
    BY <1>1, <2>1, <2>2, EnterStage
<1>4. CASE DeleteOccurrenceStage(j)
  BY <1>1, <1>4, DeleteStageStages
<1>5. CASE CreateOccurrenceStage(j) \/ UpdateOccurrenceStage(j)
  <2>1. row' = row /\ job[j].op # "stage_delete" /\ (job[j].op = "stage_new" \/ job[j].op = "stage_edit")
    BY <1>5 DEF CreateOccurrenceStage, UpdateOccurrenceStage, Leave
  <2>2. \A s \in StageIds : stage[s].is = "live" => stage'[s].is = "live"
    BY <1>5, <2>1, StageEditEffect
  <2> QED
    BY <1>1, <2>1, <2>2, StagesFrame
<1>6. CASE ~(insertOccurrenceWithProtocol(j) \/ ChangeOccurrenceStage(j) \/ DeleteOccurrenceStage(j)
             \/ CreateOccurrenceStage(j) \/ UpdateOccurrenceStage(j))
  <2>1. stage' = stage
    BY <1>6 DEF CaseStep, Leave, TakeNumber, RollBack, LogMove,
     UpdateOccurrence, LogAssignment, CreateOccurrenceEvent, SendOccurrenceProtocol, LogOccurrenceProcessMessageUse,
     ReplyToOccurrence, AddEvent, StampFirstResponse, CreateOccurrenceDocument, DeleteOccurrenceDocument,
     removeOccurrenceAttachment, UploadOccurrenceDocumentAttachment, WritePath, DeleteOccurrence
  <2>2. CASE UpdateOccurrence(j) \/ StampFirstResponse(j)
    BY <2>1, <2>2, <1>1, EditsAreCalm, StagesFrame DEF RowsCalm
  <2>3. CASE CreateOccurrenceDocument(j) \/ DeleteOccurrenceDocument(j)
    <3>1. \A c \in Cases : row'[c].is = row[c].is /\ row'[c].stage = row[c].stage
      BY <2>3, DocumentRowsEffect
    <3> QED
      BY <2>1, <3>1, <1>1, StagesFrame
  <2>4. CASE DeleteOccurrence(j)
    <3>1. \A c \in Cases : row'[c].is = "live" => row[c].is = "live" /\ row'[c].stage = row[c].stage
      BY <2>4, DeleteCaseEffect
    <3> QED
      BY <2>1, <3>1, <1>1, StagesFrame
  <2>5. CASE row' = row
    BY <2>1, <2>5, <1>1, StagesFrame
  <2>6. row' = row \/ UpdateOccurrence(j) \/ StampFirstResponse(j)
          \/ CreateOccurrenceDocument(j) \/ DeleteOccurrenceDocument(j) \/ DeleteOccurrence(j)
    BY <1>6 DEF CaseStep, Leave, TakeNumber, RollBack, LogMove,
       LogAssignment, CreateOccurrenceEvent, SendOccurrenceProtocol, LogOccurrenceProcessMessageUse, ReplyToOccurrence,
       AddEvent, removeOccurrenceAttachment, UploadOccurrenceDocumentAttachment, WritePath
  <2> QED
    BY <2>2, <2>3, <2>4, <2>5, <2>6
<1> QED
  BY <1>2, <1>3, <1>4, <1>5, <1>6

-------------------------------------------------------------------------------
(* The timelines and the moves *)

LEMMA MovesFrame ==
  ASSUME CasesTypeOK, MovesKept,
         \A k \in Active : job[k].op = "move" /\ job[k].pc = "after" => k \in Active' /\ job'[k] = job[k],
         \A c \in Cases : row'[c].is = "live" =>
           /\ row[c].is = "live" /\ row'[c].stage = row[c].stage /\ row'[c].closed = row[c].closed
           /\ timeline[c] \subseteq timeline'[c]
  PROVE  MovesKept'
<1> SUFFICES ASSUME NEW c \in Cases, row'[c].is = "live"
             PROVE  /\ \/ row'[c].stage = 1
                       \/ \E e \in timeline'[c] : e.kind \in {"opened", "stage_change"} /\ e.to = row'[c].stage
                       \/ \E k \in Active' : job'[k].op = "move" /\ job'[k].pc = "after" /\ job'[k].of = c /\ job'[k].to = row'[c].stage
                    /\ row'[c].closed =>
                         \/ \E e \in timeline'[c] : e.kind = "closed"
                         \/ \E k \in Active' : job'[k].op = "move" /\ job'[k].pc = "after" /\ job'[k].of = c /\ job'[k].closing
  BY DEF MovesKept, Live
<1>1. row[c].is = "live" /\ row'[c].stage = row[c].stage /\ row'[c].closed = row[c].closed /\ timeline[c] \subseteq timeline'[c]
  OBVIOUS
<1>2. \/ row[c].stage = 1
      \/ \E e \in timeline[c] : e.kind \in {"opened", "stage_change"} /\ e.to = row[c].stage
      \/ \E k \in Active : job[k].op = "move" /\ job[k].pc = "after" /\ job[k].of = c /\ job[k].to = row[c].stage
  BY <1>1 DEF MovesKept, Live
<1>3. row[c].closed =>
         \/ \E e \in timeline[c] : e.kind = "closed"
         \/ \E k \in Active : job[k].op = "move" /\ job[k].pc = "after" /\ job[k].of = c /\ job[k].closing
  BY <1>1 DEF MovesKept, Live
<1> QED
  BY <1>1, <1>2, <1>3

LEMMA InsertMoves ==
  ASSUME CasesTypeOK, MovesKept, NEW j \in Jobs, Moves(j), insertOccurrenceWithProtocol(j)
  PROVE  MovesKept'
<1>0. PICK c0 \in Cases : c0 = job[j].of
  BY JobFields
<1>1. /\ \A c \in Cases : c # c0 => row'[c] = row[c] /\ timeline'[c] = timeline[c]
      /\ row'[c0].closed = FALSE /\ row'[c0].stage = job[j].to
      /\ timeline'[c0] = {[kind |-> "opened", to |-> job[j].to]}
  BY <1>0, InsertEffect
<1>2. job[j].op = "open" /\ \A k \in Jobs : k # j => job'[k] = job[k]
  BY DEF insertOccurrenceWithProtocol, Moves, OnlyJob
<1>3. \A k \in Active : job[k].op = "move" => k \in Active' /\ job'[k] = job[k]
  BY <1>2 DEF Active
<1> SUFFICES ASSUME NEW c \in Cases, row'[c].is = "live"
             PROVE  /\ \/ row'[c].stage = 1
                       \/ \E e \in timeline'[c] : e.kind \in {"opened", "stage_change"} /\ e.to = row'[c].stage
                       \/ \E k \in Active' : job'[k].op = "move" /\ job'[k].pc = "after" /\ job'[k].of = c /\ job'[k].to = row'[c].stage
                    /\ row'[c].closed =>
                         \/ \E e \in timeline'[c] : e.kind = "closed"
                         \/ \E k \in Active' : job'[k].op = "move" /\ job'[k].pc = "after" /\ job'[k].of = c /\ job'[k].closing
  BY DEF MovesKept, Live
<1>4. CASE c = c0
  <2> DEFINE e == [kind |-> "opened", to |-> job[j].to]
  <2>1. e \in timeline'[c] /\ e.kind = "opened" /\ e.to = row'[c].stage
    BY <1>1, <1>4
  <2> QED
    BY <2>1, <1>1, <1>4
<1>5. CASE c # c0
  BY <1>1, <1>3, <1>5 DEF MovesKept, Live
<1> QED
  BY <1>4, <1>5

LEMMA ChangeMoves ==
  ASSUME CasesTypeOK, MovesKept, NEW j \in Jobs, Moves(j), ChangeOccurrenceStage(j)
  PROVE  MovesKept'
<1>0. PICK c0 \in Cases : c0 = job[j].of
  BY JobFields
<1>1. /\ \A c \in Cases : c # c0 \/ row[c].is # "live" => row'[c] = row[c]
      /\ row[c0].is = "live" => row'[c0].stage = job[j].to /\ row'[c0].closed = job[j].closing
      /\ timeline' = timeline
  BY <1>0, ChangeStageEffect DEF Live, ChangeOccurrenceStage, Leave
<1>2. /\ job[j].op = "move" /\ job[j].pc = "read" /\ job'[j].pc = "after" /\ SameJob(j) /\ j \in Active'
      /\ \A k \in Jobs : k # j => job'[k] = job[k]
  BY ReachedEffect DEF ChangeOccurrenceStage, Moves, OnlyJob, JobMoves, Active
<1>3. \A k \in Active : job[k].op = "move" /\ job[k].pc = "after" => k \in Active' /\ job'[k] = job[k]
  BY <1>2 DEF Active
<1> SUFFICES ASSUME NEW c \in Cases, row'[c].is = "live"
             PROVE  /\ \/ row'[c].stage = 1
                       \/ \E e \in timeline'[c] : e.kind \in {"opened", "stage_change"} /\ e.to = row'[c].stage
                       \/ \E k \in Active' : job'[k].op = "move" /\ job'[k].pc = "after" /\ job'[k].of = c /\ job'[k].to = row'[c].stage
                    /\ row'[c].closed =>
                         \/ \E e \in timeline'[c] : e.kind = "closed"
                         \/ \E k \in Active' : job'[k].op = "move" /\ job'[k].pc = "after" /\ job'[k].of = c /\ job'[k].closing
  BY DEF MovesKept, Live
<1>4. CASE c = c0 /\ row[c0].is = "live"
  BY <1>0, <1>1, <1>2, <1>4 DEF SameJob
<1>5. CASE c # c0 \/ row[c0].is # "live"
  BY <1>1, <1>3, <1>5 DEF MovesKept, Live
<1> QED
  BY <1>4, <1>5

LEMMA LogMoves ==
  ASSUME CasesTypeOK, MovesKept, NEW j \in Jobs, Moves(j), LogMove(j)
  PROVE  MovesKept'
<1>0. PICK c0 \in Cases : c0 = job[j].of
  BY JobFields
<1>1. /\ timeline' = [timeline EXCEPT ![c0] = @ \cup MoveEvents(job[j])] /\ row' = row
      /\ \A k \in Jobs : k # j => job'[k] = job[k]
  BY <1>0 DEF LogMove, Leave, Moves, OnlyJob
<1>2. /\ [kind |-> "stage_change", to |-> job[j].to] \in timeline'[c0]
      /\ job[j].closing => [kind |-> "closed", to |-> job[j].to] \in timeline'[c0]
      /\ \A c \in Cases : timeline[c] \subseteq timeline'[c]
  BY <1>1 DEF MoveEvents, CasesTypeOK
<1>3. \A k \in Active : k # j => k \in Active' /\ job'[k] = job[k]
  BY <1>1 DEF Active
<1> SUFFICES ASSUME NEW c \in Cases, row[c].is = "live"
             PROVE  /\ \/ row[c].stage = 1
                       \/ \E e \in timeline'[c] : e.kind \in {"opened", "stage_change"} /\ e.to = row[c].stage
                       \/ \E k \in Active' : job'[k].op = "move" /\ job'[k].pc = "after" /\ job'[k].of = c /\ job'[k].to = row[c].stage
                    /\ row[c].closed =>
                         \/ \E e \in timeline'[c] : e.kind = "closed"
                         \/ \E k \in Active' : job'[k].op = "move" /\ job'[k].pc = "after" /\ job'[k].of = c /\ job'[k].closing
  BY <1>1 DEF MovesKept, Live
<1>4. ASSUME row[c].stage # 1
      PROVE  \/ \E e \in timeline'[c] : e.kind \in {"opened", "stage_change"} /\ e.to = row[c].stage
             \/ \E k \in Active' : job'[k].op = "move" /\ job'[k].pc = "after" /\ job'[k].of = c /\ job'[k].to = row[c].stage
  <2>1. CASE \E e \in timeline[c] : e.kind \in {"opened", "stage_change"} /\ e.to = row[c].stage
    BY <2>1, <1>2
  <2>2. CASE \E k \in Active : job[k].op = "move" /\ job[k].pc = "after" /\ job[k].of = c /\ job[k].to = row[c].stage
    <3>1. PICK k \in Active : job[k].op = "move" /\ job[k].pc = "after" /\ job[k].of = c /\ job[k].to = row[c].stage
      BY <2>2
    <3>2. CASE k = j
      <4> DEFINE e == [kind |-> "stage_change", to |-> job[j].to]
      <4>1. e \in timeline'[c] /\ e.kind = "stage_change" /\ e.to = row[c].stage
        BY <3>1, <3>2, <1>0, <1>2
      <4> QED
        BY <4>1
    <3>3. CASE k # j
      BY <3>1, <3>3, <1>3
    <3> QED
      BY <3>2, <3>3
  <2> QED
    BY <2>1, <2>2, <1>4 DEF MovesKept, Live
<1>5. ASSUME row[c].closed
      PROVE  \/ \E e \in timeline'[c] : e.kind = "closed"
             \/ \E k \in Active' : job'[k].op = "move" /\ job'[k].pc = "after" /\ job'[k].of = c /\ job'[k].closing
  <2>1. CASE \E e \in timeline[c] : e.kind = "closed"
    BY <2>1, <1>2
  <2>2. CASE \E k \in Active : job[k].op = "move" /\ job[k].pc = "after" /\ job[k].of = c /\ job[k].closing
    <3>1. PICK k \in Active : job[k].op = "move" /\ job[k].pc = "after" /\ job[k].of = c /\ job[k].closing
      BY <2>2
    <3>2. CASE k = j
      <4> DEFINE e == [kind |-> "closed", to |-> job[j].to]
      <4>1. e \in timeline'[c] /\ e.kind = "closed"
        BY <3>1, <3>2, <1>0, <1>2
      <4> QED
        BY <4>1
    <3>3. CASE k # j
      BY <3>1, <3>3, <1>3
    <3> QED
      BY <3>2, <3>3
  <2> QED
    BY <2>1, <2>2, <1>5 DEF MovesKept, Live
<1> QED
  BY <1>4, <1>5

LEMMA StepMoves ==
  ASSUME CasesTypeOK, NumbersKept, JobsKept, MovesKept, NEW j \in Jobs, CaseStep(j)
  PROVE  MovesKept'
<1>1. Moves(j)
  BY StepEffect
<1>2. CASE insertOccurrenceWithProtocol(j)
  BY <1>1, <1>2, InsertMoves
<1>3. CASE ChangeOccurrenceStage(j)
  BY <1>1, <1>3, ChangeMoves
<1>4. CASE LogMove(j)
  BY <1>1, <1>4, LogMoves
<1>5. CASE ~(insertOccurrenceWithProtocol(j) \/ ChangeOccurrenceStage(j) \/ LogMove(j))
  <2>1. ~(job[j].op = "move" /\ job[j].pc = "after")
    BY <1>5 DEF CaseStep, TakeNumber, RollBack, CreateOccurrenceStage, UpdateOccurrenceStage, DeleteOccurrenceStage,
       UpdateOccurrence, LogAssignment, CreateOccurrenceEvent, SendOccurrenceProtocol, LogOccurrenceProcessMessageUse,
       ReplyToOccurrence, AddEvent, StampFirstResponse, CreateOccurrenceDocument, DeleteOccurrenceDocument,
       removeOccurrenceAttachment, UploadOccurrenceDocumentAttachment, WritePath, DeleteOccurrence
  <2>2. \A k \in Active : job[k].op = "move" /\ job[k].pc = "after" => k \in Active' /\ job'[k] = job[k]
    BY <2>1, <1>1 DEF Moves, OnlyJob, Active
  <2>3. CASE UpdateOccurrence(j) \/ StampFirstResponse(j)
    <3>1. RowsCalm /\ timeline' = timeline
      BY <2>3, EditsAreCalm DEF UpdateOccurrence, StampFirstResponse, Leave
    <3> QED
      BY <3>1, <2>2, MovesFrame DEF RowsCalm
  <2>4. CASE CreateOccurrenceDocument(j) \/ DeleteOccurrenceDocument(j)
    <3>1. timeline' = timeline
      BY <2>4 DEF CreateOccurrenceDocument, DeleteOccurrenceDocument, Leave
    <3>2. \A c \in Cases : row'[c].is = row[c].is /\ row'[c].stage = row[c].stage /\ row'[c].closed = row[c].closed
      BY <2>4, DocumentRowsEffect
    <3> QED
      BY <3>1, <3>2, <2>2, MovesFrame
  <2>5. CASE DeleteOccurrence(j)
    <3>1. \A c \in Cases : row'[c].is = "live" => row'[c] = row[c] /\ timeline'[c] = timeline[c]
      BY <2>5, DeleteCaseEffect
    <3> QED
      BY <3>1, <2>2, MovesFrame
  <2>6. CASE row' = row /\ \A c \in Cases : timeline[c] \subseteq timeline'[c]
    BY <2>6, <2>2, MovesFrame
  <2>7. CASE LogAssignment(j) \/ CreateOccurrenceEvent(j) \/ SendOccurrenceProtocol(j)
               \/ LogOccurrenceProcessMessageUse(j) \/ ReplyToOccurrence(j)
    <3>1. row' = row
      BY <2>7 DEF LogAssignment, CreateOccurrenceEvent, SendOccurrenceProtocol, LogOccurrenceProcessMessageUse,
         ReplyToOccurrence, AddEvent, Leave
    <3>2. \E kind \in {"assignment", "note", "protocol_sent", "message_used", "reply"} :
            timeline' = [timeline EXCEPT ![job[j].of] = @ \cup {[kind |-> kind, to |-> 1]}]
      BY <2>7 DEF LogAssignment, CreateOccurrenceEvent, SendOccurrenceProtocol, LogOccurrenceProcessMessageUse,
         ReplyToOccurrence, AddEvent
    <3>3. \A c \in Cases : timeline[c] \subseteq timeline'[c]
      BY <3>2 DEF CasesTypeOK
    <3> QED
      BY <3>1, <3>3, <2>6
  <2>8. CASE row' = row /\ timeline' = timeline
    BY <2>8, <2>6
  <2>9. \/ UpdateOccurrence(j) \/ StampFirstResponse(j) \/ CreateOccurrenceDocument(j) \/ DeleteOccurrenceDocument(j)
        \/ DeleteOccurrence(j) \/ LogAssignment(j) \/ CreateOccurrenceEvent(j) \/ SendOccurrenceProtocol(j)
        \/ LogOccurrenceProcessMessageUse(j) \/ ReplyToOccurrence(j)
        \/ row' = row /\ timeline' = timeline
    BY <1>5 DEF CaseStep, Leave, TakeNumber, RollBack, CreateOccurrenceStage, UpdateOccurrenceStage, DeleteOccurrenceStage,
       removeOccurrenceAttachment, UploadOccurrenceDocumentAttachment, WritePath
  <2> QED
    BY <2>3, <2>4, <2>5, <2>7, <2>8, <2>9
<1> QED
  BY <1>2, <1>3, <1>4, <1>5

LEMMA ArrivalMoves ==
  ASSUME CasesTypeOK, MovesKept, NEW j \in Jobs, NEW q \in Job, CaseArrives(j, q)
  PROVE  MovesKept'
<1>1. \A k \in Active : k \in Active' /\ job'[k] = job[k]
  BY ArrivalEffect
<1>2. row' = row /\ timeline' = timeline
  BY DEF CaseArrives
<1> QED
  BY <1>1, <1>2, MovesFrame

-------------------------------------------------------------------------------
(* The documents and their files *)

LEMMA DocumentsFrame ==
  ASSUME DocumentsKept, document' = document, stored' = stored, crossed \subseteq crossed',
         Active' \subseteq Active,
         \A k \in Active : job[k].op \in {"upload", "doc_drop"} => k \in Active',
         \A k \in Active : job'[k].op = job[k].op /\ (job[k].op \in {"upload", "doc_drop"} => job'[k] = job[k])
  PROVE  DocumentsKept'
<1> SUFFICES ASSUME FilesApart'
             PROVE  DocumentsKept'
  BY DEF DocumentsKept
<1>1. FilesApart
  BY DEF FilesApart, With
<1>2. \A d \in Documents, e \in Exts : (Removing(d, e)' <=> Removing(d, e)) /\ (Writing(d)' <=> Writing(d))
                                       /\ (Named(d, e)' <=> Named(d, e))
  BY DEF Removing, Writing, Named
<1>3. /\ \A d \in Documents, e \in Exts : <<d, e>> \in stored' => Named(d, e)' \/ Removing(d, e)' \/ Writing(d)'
      /\ \A d \in Documents, e \in Exts : Named(d, e)' /\ ~Writing(d)' => <<d, e>> \in stored'
  BY <1>1, <1>2 DEF DocumentsKept
<1>4. ASSUME NEW k \in Active', job'[k].op = "upload"
      PROVE  /\ document'[job'[k].doc].is = "live" /\ document'[job'[k].doc].path = job'[k].path
             /\ job'[k].pc = "write" => \A e \in Exts : <<job'[k].doc, e>> \in stored' <=> e = job'[k].ext
  BY <1>1, <1>4 DEF DocumentsKept
<1>5. ASSUME NEW k \in Active', job'[k].op = "doc_drop"
      PROVE  /\ job'[k].pc = "read" => document'[job'[k].doc].path = job'[k].path /\ document'[job'[k].doc].is # "none"
             /\ job'[k].pc # "read" => document'[job'[k].doc].is = "gone"
  BY <1>1, <1>5 DEF DocumentsKept
<1> QED
  BY <1>3, <1>4, <1>5 DEF DocumentsKept

LEMMA ArrivalDocuments ==
  ASSUME CasesTypeOK, DocumentsKept, NEW j \in Jobs, NEW q \in Job, CaseArrives(j, q)
  PROVE  DocumentsKept'
<1>1. /\ job'[j] = q /\ \A k \in Active : job'[k] = job[k] /\ k # j
      /\ Active' = Active \cup {j} /\ crossed \subseteq crossed' /\ document' = document /\ stored' = stored
      /\ Accepts(q) /\ q.pc = "read" /\ q.path = document[q.doc].path
  BY ArrivalEffect DEF CaseArrives
<1> SUFFICES ASSUME FilesApart'
             PROVE  DocumentsKept'
  BY DEF DocumentsKept
<1>2. FilesApart
  BY <1>1 DEF FilesApart, With
<1>3. \A d \in Documents, e \in Exts : (Removing(d, e)' <=> Removing(d, e)) /\ (Writing(d)' <=> Writing(d))
                                       /\ (Named(d, e)' <=> Named(d, e))
  BY <1>1 DEF Removing, Writing, Named
<1>4. /\ \A d \in Documents, e \in Exts : <<d, e>> \in stored' => Named(d, e)' \/ Removing(d, e)' \/ Writing(d)'
      /\ \A d \in Documents, e \in Exts : Named(d, e)' /\ ~Writing(d)' => <<d, e>> \in stored'
  BY <1>1, <1>2, <1>3 DEF DocumentsKept
<1>5. q.op \in {"upload", "doc_drop"} => document[q.doc].is = "live"
  BY <1>1 DEF Accepts
<1>6. ASSUME NEW k \in Active', job'[k].op = "upload"
      PROVE  /\ document'[job'[k].doc].is = "live" /\ document'[job'[k].doc].path = job'[k].path
             /\ job'[k].pc = "write" => \A e \in Exts : <<job'[k].doc, e>> \in stored' <=> e = job'[k].ext
  <2>1. CASE k = j
    BY <2>1, <1>1, <1>5, <1>6
  <2>2. CASE k \in Active
    BY <2>2, <1>1, <1>2, <1>6 DEF DocumentsKept
  <2> QED
    BY <2>1, <2>2, <1>1
<1>7. ASSUME NEW k \in Active', job'[k].op = "doc_drop"
      PROVE  /\ job'[k].pc = "read" => document'[job'[k].doc].path = job'[k].path /\ document'[job'[k].doc].is # "none"
             /\ job'[k].pc # "read" => document'[job'[k].doc].is = "gone"
  <2>1. CASE k = j
    BY <2>1, <1>1, <1>5, <1>7
  <2>2. CASE k \in Active
    BY <2>2, <1>1, <1>2, <1>7 DEF DocumentsKept
  <2> QED
    BY <2>1, <2>2, <1>1
<1> QED
  BY <1>4, <1>6, <1>7 DEF DocumentsKept

LEMMA FilesAlone ==
  ASSUME JobsKept, FilesApart, NEW j \in Active
  PROVE  /\ job[j].op = "upload" => \A k \in Active : k # j => job[k].op \notin {"upload", "doc_drop", "delete"}
         /\ job[j].op = "doc_drop" => \A k \in Active : k # j => job[k].op \notin {"upload", "delete"}
         /\ job[j].op = "delete" => \A k \in Active : k # j => job[k].op \notin {"upload", "doc_drop"}
<1>1. ASSUME NEW k \in Active, k # j
      PROVE  /\ {job[j].op, job[k].op} \in crossed
             /\ job[j].op \in {job[j].op, job[k].op} /\ job[k].op \in {job[j].op, job[k].op}
  BY <1>1 DEF JobsKept
<1>2. \A p \in crossed : /\ "upload" \in p => "doc_drop" \notin p /\ "delete" \notin p
                         /\ "doc_drop" \in p => "delete" \notin p
  BY DEF FilesApart, With
<1>3. ASSUME NEW k \in Active, k # j, job[j].op = "upload", job[k].op = "upload"
      PROVE  FALSE
  <2>1. {job[j].op, job[k].op} \in crossed
    BY <1>1, <1>3
  <2>2. "upload" \in {job[j].op, job[k].op} /\ "upload" \in {job[j].op, job[k].op} \cap {"upload", "doc_drop", "delete"}
    BY <1>3
  <2> QED
    BY <2>1, <2>2 DEF FilesApart, With
<1>4. job[j].op = "upload" => \A k \in Active : k # j => job[k].op \notin {"upload", "doc_drop", "delete"}
  BY <1>1, <1>2, <1>3
<1>5. job[j].op = "doc_drop" => \A k \in Active : k # j => job[k].op \notin {"upload", "delete"}
  BY <1>1, <1>2
<1>6. job[j].op = "delete" => \A k \in Active : k # j => job[k].op \notin {"upload", "doc_drop"}
  BY <1>1, <1>2
<1> QED
  BY <1>4, <1>5, <1>6

LEMMA CreateDocumentDocuments ==
  ASSUME CasesTypeOK, DocumentsKept, NEW j \in Jobs, Moves(j), CreateOccurrenceDocument(j)
  PROVE  DocumentsKept'
<1>0. PICK d0 \in Documents : d0 = job[j].doc
  BY JobFields
<1>1. /\ document[d0].is = "none" /\ document'[d0].is = "live" /\ document'[d0].path = None
      /\ \A d \in Documents : d # d0 => document'[d] = document[d]
      /\ stored' = stored /\ job[j].op = "doc_add"
  BY <1>0 DEF CreateOccurrenceDocument, Leave, CasesTypeOK
<1>2. /\ \A k \in Active : job'[k].op = job[k].op /\ (job[k].op \in {"upload", "doc_drop"} => k \in Active' /\ job'[k] = job[k])
      /\ Active' \subseteq Active /\ crossed' = crossed
  BY <1>1 DEF Moves, OnlyJob, SameJob, Active
<1> SUFFICES ASSUME FilesApart'
             PROVE  DocumentsKept'
  BY DEF DocumentsKept
<1>3. FilesApart
  BY <1>2 DEF FilesApart, With
<1>4. None \notin Exts
  BY DEF None, Exts
<1>5. \A d \in Documents, e \in Exts : (Removing(d, e)' <=> Removing(d, e)) /\ (Writing(d)' <=> Writing(d))
  BY <1>2 DEF Removing, Writing
<1>6. \A d \in Documents, e \in Exts : Named(d, e)' <=> Named(d, e)
  BY <1>1, <1>4 DEF Named
<1>7. /\ \A d \in Documents, e \in Exts : <<d, e>> \in stored' => Named(d, e)' \/ Removing(d, e)' \/ Writing(d)'
      /\ \A d \in Documents, e \in Exts : Named(d, e)' /\ ~Writing(d)' => <<d, e>> \in stored'
  BY <1>1, <1>3, <1>5, <1>6 DEF DocumentsKept
<1>8. ASSUME NEW k \in Active', job'[k].op = "upload"
      PROVE  /\ document'[job'[k].doc].is = "live" /\ document'[job'[k].doc].path = job'[k].path
             /\ job'[k].pc = "write" => \A e \in Exts : <<job'[k].doc, e>> \in stored' <=> e = job'[k].ext
  <2>1. job'[k] = job[k] /\ k \in Active
    BY <1>2, <1>8
  <2>2. document[job[k].doc].is = "live"
    BY <2>1, <1>3, <1>8 DEF DocumentsKept
  <2>3. document'[job[k].doc] = document[job[k].doc]
    BY <2>1, <2>2, <1>1, JobFields DEF Active
  <2> QED
    BY <2>1, <2>2, <2>3, <1>1, <1>3, <1>8 DEF DocumentsKept
<1>9. ASSUME NEW k \in Active', job'[k].op = "doc_drop"
      PROVE  /\ job'[k].pc = "read" => document'[job'[k].doc].path = job'[k].path /\ document'[job'[k].doc].is # "none"
             /\ job'[k].pc # "read" => document'[job'[k].doc].is = "gone"
  <2>1. job'[k] = job[k] /\ k \in Active
    BY <1>2, <1>9
  <2>2. document[job[k].doc].is # "none"
    BY <2>1, <1>3, <1>9 DEF DocumentsKept
  <2>3. document'[job[k].doc] = document[job[k].doc]
    BY <2>1, <2>2, <1>1, JobFields DEF Active
  <2> QED
    BY <2>1, <2>2, <2>3, <1>1, <1>3, <1>9 DEF DocumentsKept
<1> QED
  BY <1>7, <1>8, <1>9 DEF DocumentsKept

LEMMA DeleteDocumentDocuments ==
  ASSUME CasesTypeOK, DocumentsKept, JobsKept, NEW j \in Jobs, Moves(j), DeleteOccurrenceDocument(j)
  PROVE  DocumentsKept'
<1>0. PICK d0 \in Documents : d0 = job[j].doc
  BY JobFields
<1>1. /\ document'[d0].is = "gone" /\ document'[d0].path = document[d0].path
      /\ \A d \in Documents : d # d0 => document'[d] = document[d]
      /\ stored' = stored /\ job[j].op = "doc_drop" /\ job[j].pc = "read" /\ job'[j].pc = "files" /\ SameJob(j)
  BY <1>0, ReachedEffect DEF DeleteOccurrenceDocument, Leave, CasesTypeOK, DocumentRow, JobMoves
<1>2. /\ \A k \in Active : k # j => k \in Active' /\ job'[k] = job[k]
      /\ j \in Active /\ j \in Active' /\ Active' \subseteq Active /\ crossed' = crossed
  BY <1>1 DEF Moves, OnlyJob, Active
<1> SUFFICES ASSUME FilesApart'
             PROVE  DocumentsKept'
  BY DEF DocumentsKept
<1>3. FilesApart
  BY <1>2 DEF FilesApart, With
<1>4. \A k \in Active : job[k].op # "upload"
  BY <1>1, <1>2, <1>3, FilesAlone
<1>5. \A k \in Active' : job'[k].op # "upload"
  BY <1>1, <1>2, <1>4 DEF SameJob
<1>6. document[d0].path = job[j].path
  BY <1>0, <1>1, <1>2, <1>3 DEF DocumentsKept
<1>7. \A d \in Documents : ~Writing(d) /\ ~Writing(d)'
  BY <1>4, <1>5 DEF Writing
<1>8. ASSUME NEW d \in Documents, NEW e \in Exts, <<d, e>> \in stored'
      PROVE  Named(d, e)' \/ Removing(d, e)' \/ Writing(d)'
  <2>1. Named(d, e) \/ Removing(d, e)
    BY <1>1, <1>3, <1>7, <1>8 DEF DocumentsKept
  <2>2. CASE Removing(d, e)
    BY <2>2, <1>1, <1>2 DEF Removing
  <2>3. CASE Named(d, e) /\ d # d0
    BY <2>3, <1>1 DEF Named
  <2>4. CASE Named(d, e) /\ d = d0
    <3>1. e = job[j].path
      BY <2>4, <1>6 DEF Named
    <3> QED
      BY <2>4, <3>1, <1>0, <1>1, <1>2 DEF Removing, SameJob
  <2> QED
    BY <2>1, <2>2, <2>3, <2>4
<1>9. \A d \in Documents, e \in Exts : Named(d, e)' /\ ~Writing(d)' => <<d, e>> \in stored'
  <2>1. \A d \in Documents, e \in Exts : Named(d, e)' => Named(d, e)
    BY <1>1 DEF Named
  <2> QED
    BY <2>1, <1>1, <1>3, <1>7 DEF DocumentsKept
<1>10. ASSUME NEW k \in Active', job'[k].op = "doc_drop"
       PROVE  /\ job'[k].pc = "read" => document'[job'[k].doc].path = job'[k].path /\ document'[job'[k].doc].is # "none"
              /\ job'[k].pc # "read" => document'[job'[k].doc].is = "gone"
  <2>1. CASE k = j
    BY <2>1, <1>0, <1>1 DEF SameJob
  <2>2. CASE k # j
    <3>1. job'[k] = job[k] /\ k \in Active /\ job[k].doc \in Documents
      BY <2>2, <1>2, JobFields DEF Active
    <3>2. /\ job[k].pc = "read" => document[job[k].doc].path = job[k].path /\ document[job[k].doc].is # "none"
          /\ job[k].pc # "read" => document[job[k].doc].is = "gone"
      BY <3>1, <1>3, <1>10 DEF DocumentsKept
    <3>3. CASE job[k].doc = d0
      BY <3>1, <3>2, <3>3, <1>1
    <3>4. CASE job[k].doc # d0
      BY <3>1, <3>2, <3>4, <1>1
    <3> QED
      BY <3>3, <3>4
  <2> QED
    BY <2>1, <2>2
<1> QED
  BY <1>5, <1>8, <1>9, <1>10 DEF DocumentsKept

LEMMA RemoveAttachmentDocuments ==
  ASSUME CasesTypeOK, DocumentsKept, JobsKept, NEW j \in Jobs, Moves(j), removeOccurrenceAttachment(j)
  PROVE  DocumentsKept'
<1>0. PICK d0 \in Documents : d0 = job[j].doc
  BY JobFields
<1>1. /\ document' = document /\ stored' = stored \ {<<d0, job[j].path>>}
      /\ job[j].op = "doc_drop" /\ job[j].pc = "files" /\ job'[j].pc = "done"
  BY <1>0, ReachedEffect DEF removeOccurrenceAttachment, Leave, JobMoves
<1>2. /\ \A k \in Active : k # j => k \in Active' /\ job'[k] = job[k]
      /\ j \in Active /\ j \notin Active' /\ Active' \subseteq Active /\ crossed' = crossed
  BY <1>1 DEF Moves, OnlyJob, Active
<1> SUFFICES ASSUME FilesApart'
             PROVE  DocumentsKept'
  BY DEF DocumentsKept
<1>3. FilesApart
  BY <1>2 DEF FilesApart, With
<1>4. \A k \in Active : job[k].op # "upload"
  BY <1>1, <1>2, <1>3, FilesAlone
<1>5. \A k \in Active' : job'[k].op # "upload" /\ k \in Active /\ job'[k] = job[k]
  BY <1>1, <1>2, <1>4
<1>6. document[d0].is = "gone"
  BY <1>0, <1>1, <1>2, <1>3 DEF DocumentsKept
<1>7. \A d \in Documents : ~Writing(d) /\ ~Writing(d)'
  BY <1>4, <1>5 DEF Writing
<1>8. ASSUME NEW d \in Documents, NEW e \in Exts, <<d, e>> \in stored'
      PROVE  Named(d, e)' \/ Removing(d, e)' \/ Writing(d)'
  <2>1. (Named(d, e) \/ Removing(d, e)) /\ <<d, e>> # <<d0, job[j].path>>
    BY <1>1, <1>3, <1>7, <1>8 DEF DocumentsKept
  <2>2. CASE Removing(d, e)
    <3>1. PICK k \in Active : job[k].op = "doc_drop" /\ job[k].pc = "files" /\ job[k].doc = d /\ job[k].path = e
      BY <2>2 DEF Removing
    <3>2. k # j
      BY <2>1, <3>1, <1>0
    <3> QED
      BY <3>1, <3>2, <1>2 DEF Removing
  <2>3. CASE Named(d, e)
    BY <2>3, <1>1 DEF Named
  <2> QED
    BY <2>1, <2>2, <2>3
<1>9. \A d \in Documents, e \in Exts : Named(d, e)' /\ ~Writing(d)' => <<d, e>> \in stored'
  <2>1. \A d \in Documents, e \in Exts : Named(d, e)' => Named(d, e) /\ d # d0
    BY <1>1, <1>6 DEF Named
  <2> QED
    BY <2>1, <1>1, <1>3, <1>7 DEF DocumentsKept
<1>10. ASSUME NEW k \in Active', job'[k].op = "doc_drop"
       PROVE  /\ job'[k].pc = "read" => document'[job'[k].doc].path = job'[k].path /\ document'[job'[k].doc].is # "none"
              /\ job'[k].pc # "read" => document'[job'[k].doc].is = "gone"
  BY <1>1, <1>3, <1>5, <1>10 DEF DocumentsKept
<1> QED
  BY <1>5, <1>8, <1>9, <1>10 DEF DocumentsKept

LEMMA UploadDocuments ==
  ASSUME CasesTypeOK, DocumentsKept, JobsKept, NEW j \in Jobs, Moves(j), UploadOccurrenceDocumentAttachment(j)
  PROVE  DocumentsKept'
<1>0. PICK d0 \in Documents, p \in Exts \cup {None}, x \in Exts : d0 = job[j].doc /\ p = job[j].path /\ x = job[j].ext
  BY JobFields DEF JobsKept, Moves, UploadOccurrenceDocumentAttachment
<1>1. /\ document' = document /\ stored' = (stored \cup {<<d0, x>>}) \ (IF p # x THEN {<<d0, p>>} ELSE {})
      /\ job[j].op = "upload" /\ job[j].pc = "read" /\ job'[j].pc = "write" /\ SameJob(j)
  BY <1>0, ReachedEffect DEF UploadOccurrenceDocumentAttachment, Replaced, Leave, JobMoves
<1>2. /\ \A k \in Active : k # j => k \in Active' /\ job'[k] = job[k]
      /\ j \in Active /\ j \in Active' /\ Active' \subseteq Active /\ crossed' = crossed
  BY <1>1 DEF Moves, OnlyJob, Active
<1> SUFFICES ASSUME FilesApart'
             PROVE  DocumentsKept'
  BY DEF DocumentsKept
<1>3. FilesApart
  BY <1>2 DEF FilesApart, With
<1>4. \A k \in Active : k # j => job[k].op \notin {"upload", "doc_drop"}
  BY <1>1, <1>2, <1>3, FilesAlone
<1>5. /\ \A d \in Documents, e \in Exts : ~Removing(d, e)
      /\ \A d \in Documents : ~Writing(d)
  BY <1>1, <1>4 DEF Removing, Writing
<1>6. document[d0].is = "live" /\ document[d0].path = p
  BY <1>0, <1>1, <1>2, <1>3 DEF DocumentsKept
<1>7. Writing(d0)'
  BY <1>0, <1>1, <1>2 DEF Writing, SameJob
<1>8. \A d \in Documents, e \in Exts : d # d0 => (<<d, e>> \in stored' <=> <<d, e>> \in stored)
  BY <1>1
<1>9. \A e \in Exts : <<d0, e>> \in stored => e = p
  BY <1>3, <1>5, <1>6 DEF DocumentsKept, Named
<1>10. \A e \in Exts : <<d0, e>> \in stored' <=> e = x
  BY <1>1, <1>9
<1>11. \A d \in Documents, e \in Exts : <<d, e>> \in stored' => Named(d, e)' \/ Removing(d, e)' \/ Writing(d)'
  <2>1. \A d \in Documents, e \in Exts : <<d, e>> \in stored => Named(d, e)
    BY <1>3, <1>5 DEF DocumentsKept
  <2>2. \A d \in Documents, e \in Exts : Named(d, e) => Named(d, e)'
    BY <1>1 DEF Named
  <2> QED
    BY <2>1, <2>2, <1>7, <1>8
<1>12. \A d \in Documents, e \in Exts : Named(d, e)' /\ ~Writing(d)' => <<d, e>> \in stored'
  <2>1. \A d \in Documents, e \in Exts : Named(d, e)' => <<d, e>> \in stored
    BY <1>1, <1>3, <1>5 DEF Named, DocumentsKept
  <2> QED
    BY <2>1, <1>7, <1>8
<1>13. ASSUME NEW k \in Active', job'[k].op = "upload"
       PROVE  /\ document'[job'[k].doc].is = "live" /\ document'[job'[k].doc].path = job'[k].path
              /\ job'[k].pc = "write" => \A e \in Exts : <<job'[k].doc, e>> \in stored' <=> e = job'[k].ext
  <2>1. k = j
    BY <1>2, <1>4, <1>13
  <2>2. job'[j].doc = d0 /\ job'[j].path = p /\ job'[j].ext = x
    BY <1>0, <1>1 DEF SameJob
  <2> QED
    BY <2>1, <2>2, <1>1, <1>6, <1>10
<1>14. \A k \in Active' : job'[k].op # "doc_drop"
  BY <1>1, <1>2, <1>4 DEF SameJob
<1> QED
  BY <1>11, <1>12, <1>13, <1>14 DEF DocumentsKept

LEMMA WritePathDocuments ==
  ASSUME CasesTypeOK, DocumentsKept, JobsKept, NEW j \in Jobs, Moves(j), WritePath(j)
  PROVE  DocumentsKept'
<1>0. PICK d0 \in Documents, x \in Exts : d0 = job[j].doc /\ x = job[j].ext
  BY JobFields DEF JobsKept, Moves, WritePath
<1>1. /\ document' = IF document[d0].is = "live" THEN [document EXCEPT ![d0].path = x] ELSE document
      /\ stored' = stored /\ job[j].op = "upload" /\ job[j].pc = "write" /\ job'[j].pc = "done"
  BY <1>0, ReachedEffect DEF WritePath, Leave, JobMoves
<1>2. /\ \A k \in Active' : k # j /\ k \in Active /\ job'[k] = job[k]
      /\ j \in Active /\ crossed' = crossed
  BY <1>1 DEF Moves, OnlyJob, Active
<1> SUFFICES ASSUME FilesApart'
             PROVE  DocumentsKept'
  BY DEF DocumentsKept
<1>3. FilesApart
  BY <1>2 DEF FilesApart, With
<1>4. \A k \in Active : k # j => job[k].op \notin {"upload", "doc_drop"}
  BY <1>1, <1>2, <1>3, FilesAlone
<1>5. \A d \in Documents, e \in Exts : ~Removing(d, e) /\ (d # d0 => ~Writing(d))
  BY <1>0, <1>1, <1>4 DEF Removing, Writing
<1>6. document[d0].is = "live" /\ \A e \in Exts : <<d0, e>> \in stored <=> e = x
  BY <1>0, <1>1, <1>2, <1>3 DEF DocumentsKept
<1>7. /\ document'[d0].is = "live" /\ document'[d0].path = x
      /\ \A d \in Documents : d # d0 => document'[d] = document[d]
  BY <1>1, <1>6 DEF CasesTypeOK, DocumentRow
<1>8. \A d \in Documents, e \in Exts : <<d, e>> \in stored' => Named(d, e)' \/ Removing(d, e)' \/ Writing(d)'
  <2>1. \A d \in Documents, e \in Exts : d # d0 /\ <<d, e>> \in stored => Named(d, e)
    BY <1>3, <1>5 DEF DocumentsKept
  <2> QED
    BY <2>1, <1>1, <1>6, <1>7 DEF Named
<1>9. \A d \in Documents, e \in Exts : Named(d, e)' => <<d, e>> \in stored'
  <2>1. \A d \in Documents, e \in Exts : d # d0 /\ Named(d, e) => <<d, e>> \in stored
    BY <1>3, <1>5 DEF DocumentsKept
  <2> QED
    BY <2>1, <1>1, <1>6, <1>7 DEF Named
<1>10. \A k \in Active' : job'[k].op \notin {"upload", "doc_drop"}
  BY <1>2, <1>4
<1> QED
  BY <1>8, <1>9, <1>10 DEF DocumentsKept

LEMMA DeleteCaseDocuments ==
  ASSUME CasesTypeOK, DocumentsKept, JobsKept, NEW j \in Jobs, Moves(j), DeleteOccurrence(j)
  PROVE  DocumentsKept'
<1>0. PICK c0 \in Cases : c0 = job[j].of
  BY JobFields
<1>1. /\ \A d \in Documents : IF document[d].is = "live" /\ document[d].of = c0
           THEN document'[d].is = "gone" ELSE document'[d] = document[d]
      /\ stored' = stored \ {<<d, document[d].path>> : d \in {e \in Documents : document[e].is = "live" /\ document[e].of = c0}}
      /\ job[j].op = "delete"
  BY <1>0, DeleteCaseEffect DEF DeleteOccurrence, Belonging
<1>2. /\ \A k \in Active' : k \in Active /\ job'[k].op = job[k].op
      /\ j \in Active /\ crossed' = crossed
  BY <1>1 DEF Moves, OnlyJob, SameJob, Active
<1> SUFFICES ASSUME FilesApart'
             PROVE  DocumentsKept'
  BY DEF DocumentsKept
<1>3. FilesApart
  BY <1>2 DEF FilesApart, With
<1>4. \A k \in Active : job[k].op \notin {"upload", "doc_drop"}
  BY <1>1, <1>2, <1>3, FilesAlone
<1>5. \A d \in Documents, e \in Exts : ~Removing(d, e) /\ ~Writing(d)
  BY <1>4 DEF Removing, Writing
<1>6. \A d \in Documents, e \in Exts : <<d, e>> \in stored <=> Named(d, e)
  BY <1>3, <1>5 DEF DocumentsKept
<1>7. ASSUME NEW d \in Documents, NEW e \in Exts
      PROVE  <<d, e>> \in stored' <=> Named(d, e)'
  <2>1. CASE document[d].is = "live" /\ document[d].of = c0
    <3>1. ~Named(d, e)'
      BY <2>1, <1>1 DEF Named
    <3>2. <<d, e>> \in stored => e = document[d].path
      BY <1>6 DEF Named
    <3> QED
      BY <2>1, <3>1, <3>2, <1>1
  <2>2. CASE ~(document[d].is = "live" /\ document[d].of = c0)
    <3>1. Named(d, e)' <=> Named(d, e)
      BY <2>2, <1>1 DEF Named
    <3>2. <<d, e>> \in stored' <=> <<d, e>> \in stored
      BY <2>2, <1>1
    <3> QED
      BY <3>1, <3>2, <1>6
  <2> QED
    BY <2>1, <2>2
<1>8. \A k \in Active' : job'[k].op \notin {"upload", "doc_drop"}
  BY <1>2, <1>4
<1> QED
  BY <1>7, <1>8 DEF DocumentsKept

LEMMA StepDocuments ==
  ASSUME CasesTypeOK, NumbersKept, DocumentsKept, JobsKept, NEW j \in Jobs, CaseStep(j)
  PROVE  DocumentsKept'
<1>1. Moves(j)
  BY StepEffect
<1>2. CASE CreateOccurrenceDocument(j)
  BY <1>1, <1>2, CreateDocumentDocuments
<1>3. CASE DeleteOccurrenceDocument(j)
  BY <1>1, <1>3, DeleteDocumentDocuments
<1>4. CASE removeOccurrenceAttachment(j)
  BY <1>1, <1>4, RemoveAttachmentDocuments
<1>5. CASE UploadOccurrenceDocumentAttachment(j)
  BY <1>1, <1>5, UploadDocuments
<1>6. CASE WritePath(j)
  BY <1>1, <1>6, WritePathDocuments
<1>7. CASE DeleteOccurrence(j)
  BY <1>1, <1>7, DeleteCaseDocuments
<1>8. CASE ~(CreateOccurrenceDocument(j) \/ DeleteOccurrenceDocument(j) \/ removeOccurrenceAttachment(j)
             \/ UploadOccurrenceDocumentAttachment(j) \/ WritePath(j) \/ DeleteOccurrence(j))
  <2>1. document' = document /\ stored' = stored /\ job[j].op \notin {"upload", "doc_drop"}
    BY <1>8 DEF CaseStep, Leave, TakeNumber, insertOccurrenceWithProtocol, RollBack, ChangeOccurrenceStage, LogMove,
       CreateOccurrenceStage, UpdateOccurrenceStage, DeleteOccurrenceStage, UpdateOccurrence, LogAssignment,
       CreateOccurrenceEvent, SendOccurrenceProtocol, LogOccurrenceProcessMessageUse, ReplyToOccurrence, AddEvent,
       StampFirstResponse
  <2>2. /\ Active' \subseteq Active /\ crossed \subseteq crossed'
        /\ \A k \in Active : job[k].op \in {"upload", "doc_drop"} => k \in Active'
        /\ \A k \in Active : job'[k].op = job[k].op /\ (job[k].op \in {"upload", "doc_drop"} => job'[k] = job[k])
    BY <2>1, <1>1 DEF Moves, OnlyJob, SameJob, Active
  <2> QED
    BY <2>1, <2>2, DocumentsFrame
<1> QED
  BY <1>2, <1>3, <1>4, <1>5, <1>6, <1>7, <1>8

-------------------------------------------------------------------------------
(* The summaries *)

LEMMA SummaryAlone ==
  ASSUME JobsKept, SummaryApart, NEW j \in Active, job[j].op \in DocumentOps
  PROVE  \A k \in Active : k # j => job[k].op \notin DocumentOps
BY DEF JobsKept, SummaryApart

LEMMA SummaryFrame ==
  ASSUME CasesTypeOK, SummaryKept, JobsCalm,
         \A c \in Cases : row'[c].is = row[c].is /\ row'[c].summary = row[c].summary,
         \A d \in Documents : document'[d].is = document[d].is /\ document'[d].of = document[d].of
  PROVE  SummaryKept'
<1>1. SummaryApart' => SummaryApart
  BY DEF SummaryApart, JobsCalm
<1>2. \A d \in Documents : document'[d].is = "live" => row'[document'[d].of].is # "none"
  BY DEF SummaryKept, CasesTypeOK, DocumentRow
<1>3. ASSUME SummaryApart', NEW c \in Cases, row'[c].is = "live"
      PROVE  row'[c].summary = Belonging(c)'
  <2>1. row[c].summary = Belonging(c)
    BY <1>1, <1>3 DEF SummaryKept, Live
  <2>2. Belonging(c)' = Belonging(c)
    BY DEF Belonging
  <2> QED
    BY <2>1, <2>2
<1>4. ASSUME SummaryApart', NEW k \in Active', job'[k].op \in {"doc_add", "doc_drop"}, job'[k].pc = "read"
      PROVE  /\ row'[job'[k].of].is = "live" => job'[k].saw.summary = row'[job'[k].of].summary
             /\ job'[k].op = "doc_drop" => document'[job'[k].doc].of = job'[k].of
  <2>1. k \in Active /\ SameJob(k) /\ job[k].pc = "read" /\ job[k].of \in Cases /\ job[k].doc \in Documents
    BY <1>4, JobFields DEF JobsCalm, Active
  <2>2. /\ Live(job[k].of) => job[k].saw.summary = row[job[k].of].summary
        /\ job[k].op = "doc_drop" => document[job[k].doc].of = job[k].of
    BY <2>1, <1>1, <1>4 DEF SummaryKept, SameJob
  <2> QED
    BY <2>1, <2>2 DEF SameJob, Live
<1> QED
  BY <1>2, <1>3, <1>4 DEF SummaryKept, Live

\* A request about documents that nobody overlaps leaves no other one in progress.
LEMMA SummaryFrom ==
  ASSUME CasesTypeOK, SummaryKept, JobsKept, NEW j \in Jobs, Moves(j),
         \A d \in Documents : document'[d].is = "live" => row'[document'[d].of].is # "none",
         job[j].op \in DocumentOps,
         SummaryApart => \A c \in Cases : row'[c].is = "live" => row'[c].summary = Belonging(c)'
  PROVE  SummaryKept'
<1>1. SummaryApart' => SummaryApart
  BY DEF SummaryApart, Moves
<1>2. /\ \A k \in Active' : k \in Active /\ (k # j => job'[k] = job[k])
      /\ job'[j].pc # "read" /\ j \in Active
  BY DEF Moves, OnlyJob, Active
<1>3. ASSUME SummaryApart', NEW k \in Active', job'[k].op \in {"doc_add", "doc_drop"}, job'[k].pc = "read"
      PROVE  FALSE
  BY <1>1, <1>2, <1>3, SummaryAlone DEF DocumentOps
<1> QED
  BY <1>1, <1>3 DEF SummaryKept, Live

LEMMA CreateDocumentSummary ==
  ASSUME CasesTypeOK, NumbersKept, SummaryKept, JobsKept, NEW j \in Jobs, Moves(j), CreateOccurrenceDocument(j)
  PROVE  SummaryKept'
<1>0. PICK c0 \in Cases, d0 \in Documents : c0 = job[j].of /\ d0 = job[j].doc
  BY JobFields
<1>1. /\ document[d0].is = "none" /\ document'[d0].is = "live" /\ document'[d0].of = c0
      /\ \A d \in Documents : d # d0 => document'[d] = document[d]
      /\ job[j].op = "doc_add" /\ job[j].pc = "read" /\ j \in Active
  BY <1>0 DEF CreateOccurrenceDocument, CasesTypeOK, Moves
<1>2. /\ \A c \in Cases : row'[c].is = row[c].is
      /\ \A c \in Cases : c # c0 => row'[c] = row[c]
      /\ row[c0].is = "live" => row'[c0].summary = job[j].saw.summary \cup {d0}
  BY <1>0, <1>1, DocumentRowsEffect DEF updateSummary, Live
<1>3. row[c0].is # "none"
  BY <1>0, <1>1 DEF NumbersKept, OnCase, CaseOps, Pipeline
<1>4. \A d \in Documents : document'[d].is = "live" => row'[document'[d].of].is # "none"
  BY <1>1, <1>2, <1>3 DEF SummaryKept, CasesTypeOK, DocumentRow
<1>5. ASSUME SummaryApart, NEW c \in Cases, row'[c].is = "live"
      PROVE  row'[c].summary = Belonging(c)'
  <2>1. row[c].is = "live" /\ row[c].summary = Belonging(c)
    BY <1>2, <1>5 DEF SummaryKept, Live
  <2>2. CASE c = c0
    <3>1. job[j].saw.summary = row[c0].summary
      BY <2>1, <2>2, <1>0, <1>1, <1>5 DEF SummaryKept, Live
    <3>2. Belonging(c)' = Belonging(c) \cup {d0}
      BY <2>2, <1>1 DEF Belonging
    <3> QED
      BY <2>1, <2>2, <3>1, <3>2, <1>2
  <2>3. CASE c # c0
    <3>1. Belonging(c)' = Belonging(c)
      BY <2>3, <1>1 DEF Belonging
    <3> QED
      BY <2>1, <2>3, <3>1, <1>2
  <2> QED
    BY <2>2, <2>3
<1> QED
  BY <1>1, <1>4, <1>5, SummaryFrom DEF DocumentOps

LEMMA DeleteDocumentSummary ==
  ASSUME CasesTypeOK, SummaryKept, JobsKept, NEW j \in Jobs, Moves(j), DeleteOccurrenceDocument(j)
  PROVE  SummaryKept'
<1>0. PICK c0 \in Cases, d0 \in Documents : c0 = job[j].of /\ d0 = job[j].doc
  BY JobFields
<1>1. /\ document'[d0].is = "gone" /\ document'[d0].of = document[d0].of
      /\ \A d \in Documents : d # d0 => document'[d] = document[d]
      /\ job[j].op = "doc_drop" /\ job[j].pc = "read" /\ j \in Active
  BY <1>0 DEF DeleteOccurrenceDocument, CasesTypeOK, DocumentRow, Moves
<1>2. /\ \A c \in Cases : row'[c].is = row[c].is
      /\ \A c \in Cases : c # c0 => row'[c] = row[c]
      /\ row[c0].is = "live" => row'[c0].summary = job[j].saw.summary \ {d0}
  BY <1>0, <1>1, DocumentRowsEffect DEF updateSummary, Live
<1>3. \A d \in Documents : document'[d].is = "live" => row'[document'[d].of].is # "none"
  BY <1>1, <1>2 DEF SummaryKept, CasesTypeOK, DocumentRow
<1>4. ASSUME SummaryApart, NEW c \in Cases, row'[c].is = "live"
      PROVE  row'[c].summary = Belonging(c)'
  <2>1. row[c].is = "live" /\ row[c].summary = Belonging(c)
    BY <1>2, <1>4 DEF SummaryKept, Live
  <2>2. document[d0].of = c0
    BY <1>0, <1>1, <1>4 DEF SummaryKept
  <2>3. CASE c = c0
    <3>1. job[j].saw.summary = row[c0].summary
      BY <2>1, <2>3, <1>0, <1>1, <1>4 DEF SummaryKept, Live
    <3>2. Belonging(c)' = Belonging(c) \ {d0}
      BY <2>2, <2>3, <1>1 DEF Belonging
    <3> QED
      BY <2>1, <2>3, <3>1, <3>2, <1>2
  <2>4. CASE c # c0
    <3>1. Belonging(c)' = Belonging(c)
      BY <2>2, <2>4, <1>1 DEF Belonging
    <3> QED
      BY <2>1, <2>4, <3>1, <1>2
  <2> QED
    BY <2>3, <2>4
<1> QED
  BY <1>1, <1>3, <1>4, SummaryFrom DEF DocumentOps

LEMMA DeleteCaseSummary ==
  ASSUME CasesTypeOK, SummaryKept, JobsKept, NEW j \in Jobs, Moves(j), DeleteOccurrence(j)
  PROVE  SummaryKept'
<1>0. PICK c0 \in Cases : c0 = job[j].of
  BY JobFields
<1>1. /\ \A d \in Documents : IF document[d].is = "live" /\ document[d].of = c0
           THEN document'[d].is = "gone" ELSE document'[d] = document[d]
      /\ \A c \in Cases : c # c0 => row'[c] = row[c]
      /\ row'[c0].is = "deleted" /\ job[j].op = "delete"
  <2>1. /\ \A d \in Documents : IF d \in Belonging(job[j].of)
             THEN document'[d].is = "gone" ELSE document'[d] = document[d]
        /\ \A c \in Cases : c # job[j].of => row'[c] = row[c]
        /\ row'[job[j].of].is = "deleted"
    BY DeleteCaseEffect
  <2>2. job[j].op = "delete"
    BY DEF DeleteOccurrence
  <2> QED
    BY <1>0, <2>1, <2>2 DEF Belonging
<1>2. \A d \in Documents : document'[d].is = "live" => row'[document'[d].of].is # "none"
  BY <1>1 DEF SummaryKept, CasesTypeOK, DocumentRow
<1>3. ASSUME SummaryApart, NEW c \in Cases, row'[c].is = "live"
      PROVE  row'[c].summary = Belonging(c)'
  <2>1. c # c0 /\ row'[c] = row[c]
    BY <1>1, <1>3
  <2>2. row[c].summary = Belonging(c)
    BY <2>1, <1>3 DEF SummaryKept, Live
  <2>3. Belonging(c)' = Belonging(c)
    BY <2>1, <1>1 DEF Belonging
  <2> QED
    BY <2>1, <2>2, <2>3
<1> QED
  BY <1>1, <1>2, <1>3, SummaryFrom DEF DocumentOps

LEMMA InsertSummary ==
  ASSUME CasesTypeOK, NumbersKept, SummaryKept, JobsKept, NEW j \in Jobs, Moves(j), insertOccurrenceWithProtocol(j)
  PROVE  SummaryKept'
<1>0. PICK c0 \in Cases : c0 = job[j].of
  BY JobFields
<1>1. /\ \A c \in Cases : c # c0 => row'[c] = row[c]
      /\ row'[c0].is = "live" /\ row'[c0].summary = {} /\ row[c0].is = "none"
      /\ document' = document /\ job[j].op = "open" /\ job'[j].pc = "done"
  BY <1>0, InsertEffect, ReachedEffect DEF insertOccurrenceWithProtocol, Leave, NumbersKept, Moves, JobMoves
<1>2. \A d \in Documents : document'[d].is = "live" => row'[document'[d].of].is # "none" /\ document[d].of # c0
  BY <1>1 DEF SummaryKept, CasesTypeOK, DocumentRow
<1>3. /\ \A k \in Active' : k \in Active /\ k # j /\ job'[k] = job[k] /\ job[k].of \in Cases
      /\ SummaryApart' => SummaryApart
  BY <1>1, JobFields DEF Moves, OnlyJob, Active, SummaryApart
<1>4. ASSUME SummaryApart', NEW c \in Cases, row'[c].is = "live"
      PROVE  row'[c].summary = Belonging(c)'
  <2>1. CASE c = c0
    BY <2>1, <1>1, <1>2 DEF Belonging
  <2>2. CASE c # c0
    BY <2>2, <1>1, <1>3, <1>4 DEF SummaryKept, Belonging, Live
  <2> QED
    BY <2>1, <2>2
<1>5. ASSUME SummaryApart', NEW k \in Active', job'[k].op \in {"doc_add", "doc_drop"}, job'[k].pc = "read"
      PROVE  /\ row'[job'[k].of].is = "live" => job'[k].saw.summary = row'[job'[k].of].summary
             /\ job'[k].op = "doc_drop" => document'[job'[k].doc].of = job'[k].of
  <2>1. job[k].op \in OnCase /\ k \in Active
    BY <1>3, <1>5 DEF OnCase, CaseOps, Pipeline
  <2>2. row[job[k].of].is # "none"
    BY <2>1 DEF NumbersKept
  <2>3. job[k].of # c0
    BY <2>2, <1>1
  <2>4. row'[job[k].of] = row[job[k].of]
    BY <2>3, <1>1, <1>3
  <2>5. /\ row[job[k].of].is = "live" => job[k].saw.summary = row[job[k].of].summary
        /\ job[k].op = "doc_drop" => document[job[k].doc].of = job[k].of
    BY <1>3, <1>5 DEF SummaryKept, Live
  <2> QED
    BY <2>4, <2>5, <1>1, <1>3
<1> QED
  BY <1>2, <1>4, <1>5 DEF SummaryKept, Live

LEMMA ArrivalSummary ==
  ASSUME CasesTypeOK, SummaryKept, NEW j \in Jobs, NEW q \in Job, CaseArrives(j, q)
  PROVE  SummaryKept'
<1>1. /\ job'[j] = q /\ \A k \in Active : job'[k] = job[k] /\ k # j
      /\ Active' = Active \cup {j} /\ crossed \subseteq crossed' /\ document' = document /\ row' = row
      /\ Accepts(q) /\ (q.op # "open" => q.saw = row[q.of])
  BY ArrivalEffect DEF CaseArrives
<1>2. SummaryApart' => SummaryApart
  BY <1>1 DEF SummaryApart
<1>3. q.op = "doc_drop" => document[q.doc].of = q.of
  BY <1>1 DEF Accepts
<1>4. ASSUME SummaryApart', NEW k \in Active', job'[k].op \in {"doc_add", "doc_drop"}, job'[k].pc = "read"
      PROVE  /\ row'[job'[k].of].is = "live" => job'[k].saw.summary = row'[job'[k].of].summary
             /\ job'[k].op = "doc_drop" => document'[job'[k].doc].of = job'[k].of
  <2>1. CASE k = j
    BY <2>1, <1>1, <1>3, <1>4
  <2>2. CASE k \in Active
    BY <2>2, <1>1, <1>2, <1>4 DEF SummaryKept, Live
  <2> QED
    BY <2>1, <2>2, <1>1
<1> QED
  BY <1>1, <1>2, <1>4 DEF SummaryKept, Belonging, Live

LEMMA StepSummary ==
  ASSUME CasesTypeOK, NumbersKept, SummaryKept, JobsKept, NEW j \in Jobs, CaseStep(j)
  PROVE  SummaryKept'
<1>1. Moves(j) /\ JobsCalm
  BY StepEffect, MovesAreCalm
<1>2. CASE CreateOccurrenceDocument(j)
  BY <1>1, <1>2, CreateDocumentSummary
<1>3. CASE DeleteOccurrenceDocument(j)
  BY <1>1, <1>3, DeleteDocumentSummary
<1>4. CASE DeleteOccurrence(j)
  BY <1>1, <1>4, DeleteCaseSummary
<1>5. CASE insertOccurrenceWithProtocol(j)
  BY <1>1, <1>5, InsertSummary
<1>6. CASE WritePath(j)
  <2>1. /\ row' = row
        /\ \A d \in Documents : document'[d].is = document[d].is /\ document'[d].of = document[d].of
    BY <1>6, JobFields DEF WritePath, Leave, CasesTypeOK, DocumentRow
  <2> QED
    BY <2>1, <1>1, SummaryFrame
<1>7. CASE ChangeOccurrenceStage(j)
  BY <1>1, <1>7, ChangeStageEffect, SummaryFrame DEF ChangeOccurrenceStage, Leave
<1>8. CASE UpdateOccurrence(j) \/ StampFirstResponse(j)
  BY <1>1, <1>8, EditsAreCalm, SummaryFrame DEF UpdateOccurrence, StampFirstResponse, RowsCalm, Leave
<1>9. CASE row' = row /\ document' = document
  BY <1>1, <1>9, SummaryFrame
<1>10. \/ CreateOccurrenceDocument(j) \/ DeleteOccurrenceDocument(j) \/ DeleteOccurrence(j) \/ WritePath(j)
       \/ insertOccurrenceWithProtocol(j) \/ ChangeOccurrenceStage(j) \/ UpdateOccurrence(j) \/ StampFirstResponse(j)
       \/ row' = row /\ document' = document
  BY DEF CaseStep, Leave, TakeNumber, RollBack, LogMove,
     CreateOccurrenceStage, UpdateOccurrenceStage, DeleteOccurrenceStage, LogAssignment, CreateOccurrenceEvent,
     SendOccurrenceProtocol, LogOccurrenceProcessMessageUse, ReplyToOccurrence, AddEvent,
     removeOccurrenceAttachment, UploadOccurrenceDocumentAttachment
<1> QED
  BY <1>2, <1>3, <1>4, <1>5, <1>6, <1>7, <1>8, <1>9, <1>10

-------------------------------------------------------------------------------
(* Deletions *)

\* What a step must leave alone for what is deleted to stay empty.
LEMMA DeletionsFrame ==
  ASSUME CasesTypeOK, DeletionsKept, crossed' = crossed, Active' \subseteq Active, \A k \in Active : SameJob(k),
         \A c \in Cases : row'[c].is = "deleted" => row[c].is = "deleted",
         \A c \in Cases : row[c].is = "live" => row'[c].is = "live",
         DeletionsApart => \A c \in Cases : row[c].is = "deleted" => timeline'[c] = timeline[c],
         DeletionsApart => \A d \in Documents : document'[d].is = "live" /\ row[document'[d].of].is = "deleted" =>
           document[d].is = "live" /\ document'[d].of = document[d].of
  PROVE  DeletionsKept'
<1> SUFFICES ASSUME DeletionsApart'
             PROVE  /\ \A c \in Cases : row'[c].is = "deleted" =>
                         timeline'[c] = {} /\ \A d \in Documents : document'[d].of = c => document'[d].is # "live"
                    /\ \A k \in Active' : job'[k].op \in OnCase => row'[job'[k].of].is = "live"
  BY DEF DeletionsKept, NothingLeftBehind, Live
<1>1. DeletionsApart
  BY DEF DeletionsApart
<1>2. /\ \A c \in Cases : row[c].is = "deleted" =>
           timeline[c] = {} /\ \A d \in Documents : document[d].of = c => document[d].is # "live"
      /\ \A k \in Active : job[k].op \in OnCase => row[job[k].of].is = "live"
  BY <1>1 DEF DeletionsKept, NothingLeftBehind, DeletionsApart, Live
<1>3. \A k \in Active' : job'[k].op \in OnCase => row'[job'[k].of].is = "live"
  BY <1>2, JobFields DEF SameJob, Active
<1>4. \A c \in Cases : row'[c].is = "deleted" =>
        timeline'[c] = {} /\ \A d \in Documents : document'[d].of = c => document'[d].is # "live"
  BY <1>1, <1>2
<1> QED
  BY <1>3, <1>4

\* The case of a request that is about a case is not deleted.
LEMMA CaseIsLive ==
  ASSUME DeletionsKept, DeletionsApart, NEW j \in Active, job[j].op \in OnCase
  PROVE  row[job[j].of].is = "live"
BY DEF DeletionsKept, DeletionsApart, Live

LEMMA DeleteCaseDeletions ==
  ASSUME CasesTypeOK, DeletionsKept, JobsKept, NEW j \in Jobs, Moves(j), DeleteOccurrence(j)
  PROVE  DeletionsKept'
<1>0. PICK c0 \in Cases : c0 = job[j].of
  BY JobFields
<1>1. /\ \A d \in Documents : IF d \in Belonging(job[j].of)
           THEN document'[d].is = "gone" ELSE document'[d] = document[d]
      /\ \A c \in Cases : c # job[j].of => row'[c] = row[c] /\ timeline'[c] = timeline[c]
      /\ timeline'[job[j].of] = {}
  BY DeleteCaseEffect
<1>2. /\ \A d \in Documents : IF document[d].is = "live" /\ document[d].of = c0
           THEN document'[d].is = "gone" ELSE document'[d] = document[d]
      /\ \A c \in Cases : c # c0 => row'[c] = row[c] /\ timeline'[c] = timeline[c]
      /\ timeline'[c0] = {}
  BY <1>0, <1>1 DEF Belonging
<1>3. job[j].op = "delete" /\ job'[j].pc = "done"
  BY ReachedEffect DEF DeleteOccurrence, JobMoves
<1>4. /\ \A k \in Active' : k \in Active /\ k # j
      /\ j \in Active /\ crossed' = crossed
  BY <1>3 DEF Moves, Active
<1> SUFFICES ASSUME DeletionsApart'
             PROVE  /\ \A c \in Cases : row'[c].is = "deleted" =>
                         timeline'[c] = {} /\ \A d \in Documents : document'[d].of = c => document'[d].is # "live"
                    /\ Active' = {}
  BY DEF DeletionsKept, NothingLeftBehind, Live
<1>5. DeletionsApart
  BY <1>4 DEF DeletionsApart
<1>6. Active' = {}
  <2>1. ASSUME NEW k \in Active' PROVE FALSE
    <3>1. {job[j].op, job[k].op} \in crossed
      BY <1>4 DEF JobsKept
    <3> QED
      BY <3>1, <1>3, <1>5 DEF DeletionsApart
  <2> QED
    BY <2>1
<1>7. ASSUME NEW c \in Cases, row'[c].is = "deleted"
      PROVE  timeline'[c] = {} /\ \A d \in Documents : document'[d].of = c => document'[d].is # "live"
  <2>1. CASE c = c0
    BY <2>1, <1>2
  <2>2. CASE c # c0
    <3>1. timeline[c] = {} /\ \A d \in Documents : document[d].of = c => document[d].is # "live"
      BY <2>2, <1>2, <1>5, <1>7 DEF DeletionsKept, NothingLeftBehind, DeletionsApart
    <3> QED
      BY <2>2, <3>1, <1>2
  <2> QED
    BY <2>1, <2>2
<1> QED
  BY <1>6, <1>7

LEMMA ArrivalDeletions ==
  ASSUME CasesTypeOK, DeletionsKept, NEW j \in Jobs, NEW q \in Job, CaseArrives(j, q)
  PROVE  DeletionsKept'
<1>1. /\ job'[j] = q /\ \A k \in Active : job'[k] = job[k]
      /\ Active' = Active \cup {j} /\ crossed \subseteq crossed' /\ Accepts(q)
      /\ document' = document /\ row' = row /\ timeline' = timeline
  BY ArrivalEffect DEF CaseArrives
<1> SUFFICES ASSUME DeletionsApart'
             PROVE  /\ \A c \in Cases : row'[c].is = "deleted" =>
                         timeline'[c] = {} /\ \A d \in Documents : document'[d].of = c => document'[d].is # "live"
                    /\ \A k \in Active' : job'[k].op \in OnCase => row'[job'[k].of].is = "live"
  BY DEF DeletionsKept, NothingLeftBehind, Live
<1>2. DeletionsApart
  BY <1>1 DEF DeletionsApart
<1>3. q.op \in OnCase => row[q.of].is = "live"
  BY <1>1 DEF Accepts, OnCase, CaseOps, Pipeline, Live
<1>4. /\ \A c \in Cases : row[c].is = "deleted" =>
           timeline[c] = {} /\ \A d \in Documents : document[d].of = c => document[d].is # "live"
      /\ \A k \in Active : job[k].op \in OnCase => row[job[k].of].is = "live"
  BY <1>2 DEF DeletionsKept, NothingLeftBehind, DeletionsApart, Live
<1> QED
  BY <1>1, <1>3, <1>4

LEMMA EventDeletions ==
  ASSUME CasesTypeOK, DeletionsKept, NEW j \in Jobs, Moves(j), job[j].op \in OnCase, row' = row, document' = document,
         NEW new, timeline' = [timeline EXCEPT ![job[j].of] = new]
  PROVE  DeletionsKept'
<1>1. /\ crossed' = crossed /\ Active' \subseteq Active /\ \A k \in Active : SameJob(k)
      /\ j \in Active
  BY MovesAreCalm DEF JobsCalm, Moves
<1>2. ASSUME DeletionsApart, NEW c \in Cases, row[c].is = "deleted"
      PROVE  timeline'[c] = timeline[c]
  <2>1. c # job[j].of
    BY <1>1, <1>2, CaseIsLive
  <2> QED
    BY <2>1 DEF CasesTypeOK
<1> QED
  BY <1>1, <1>2, DeletionsFrame

LEMMA StepDeletions ==
  ASSUME CasesTypeOK, NumbersKept, DeletionsKept, JobsKept, NEW j \in Jobs, CaseStep(j)
  PROVE  DeletionsKept'
<1>1. /\ Moves(j) /\ crossed' = crossed /\ Active' \subseteq Active /\ \A k \in Active : SameJob(k)
      /\ j \in Active
  BY StepEffect, MovesAreCalm DEF JobsCalm, Moves
<1>2. CASE DeleteOccurrence(j)
  BY <1>1, <1>2, DeleteCaseDeletions
<1>3. CASE insertOccurrenceWithProtocol(j)
  <2>1. /\ \A c \in Cases : c # job[j].of => row'[c] = row[c] /\ timeline'[c] = timeline[c]
        /\ row'[job[j].of].is = "live" /\ row[job[j].of].is = "none" /\ document' = document
    BY <1>1, <1>3, InsertEffect DEF insertOccurrenceWithProtocol, Leave, NumbersKept
  <2> QED
    BY <2>1, <1>1, DeletionsFrame
<1>4. CASE CreateOccurrenceDocument(j)
  <2>0. PICK c0 \in Cases, d0 \in Documents : c0 = job[j].of /\ d0 = job[j].doc
    BY JobFields
  <2>1. /\ document'[d0].of = c0 /\ \A d \in Documents : d # d0 => document'[d] = document[d]
        /\ timeline' = timeline /\ job[j].op = "doc_add"
    BY <2>0, <1>4 DEF CreateOccurrenceDocument, Leave, CasesTypeOK
  <2>2. \A c \in Cases : row'[c].is = row[c].is
    BY <1>4, DocumentRowsEffect
  <2>3. DeletionsApart => row[c0].is = "live"
    BY <2>0, <2>1, <1>1, CaseIsLive DEF OnCase, CaseOps, Pipeline
  <2>4. DeletionsApart => \A d \in Documents : document'[d].is = "live" /\ row[document'[d].of].is = "deleted" =>
           document[d].is = "live" /\ document'[d].of = document[d].of
    BY <2>1, <2>3
  <2> QED
    BY <2>1, <2>2, <2>4, <1>1, DeletionsFrame
<1>5. CASE DeleteOccurrenceDocument(j)
  <2>1. /\ \A d \in Documents : document'[d].is = "live" => document'[d] = document[d]
        /\ timeline' = timeline
    BY <1>5, JobFields DEF DeleteOccurrenceDocument, Leave, CasesTypeOK, DocumentRow
  <2>2. \A c \in Cases : row'[c].is = row[c].is
    BY <1>5, DocumentRowsEffect
  <2> QED
    BY <2>1, <2>2, <1>1, DeletionsFrame
<1>6. CASE WritePath(j)
  <2>1. /\ row' = row /\ timeline' = timeline
        /\ \A d \in Documents : document'[d].is = document[d].is /\ document'[d].of = document[d].of
    BY <1>6, JobFields DEF WritePath, Leave, CasesTypeOK, DocumentRow
  <2> QED
    BY <2>1, <1>1, DeletionsFrame
<1>7. CASE ChangeOccurrenceStage(j)
  <2>1. timeline' = timeline /\ document' = document
    BY <1>7 DEF ChangeOccurrenceStage, Leave
  <2>2. \A c \in Cases : row'[c].is = row[c].is
    BY <1>7, ChangeStageEffect
  <2> QED
    BY <2>1, <2>2, <1>1, DeletionsFrame
<1>8. CASE UpdateOccurrence(j) \/ StampFirstResponse(j)
  <2>1. timeline' = timeline /\ document' = document
    BY <1>8 DEF UpdateOccurrence, StampFirstResponse, Leave
  <2> QED
    BY <1>8, <2>1, <1>1, EditsAreCalm, DeletionsFrame DEF RowsCalm
<1>9. CASE row' = row /\ document' = document /\ timeline' = timeline
  BY <1>1, <1>9, DeletionsFrame
<1>10. CASE LogMove(j) \/ LogAssignment(j) \/ CreateOccurrenceEvent(j) \/ SendOccurrenceProtocol(j)
              \/ LogOccurrenceProcessMessageUse(j) \/ ReplyToOccurrence(j)
  <2>1. /\ row' = row /\ document' = document /\ job[j].op \in OnCase
        /\ \E new : timeline' = [timeline EXCEPT ![job[j].of] = new]
    BY <1>10 DEF LogMove, LogAssignment, CreateOccurrenceEvent, SendOccurrenceProtocol, LogOccurrenceProcessMessageUse,
       ReplyToOccurrence, AddEvent, Leave, OnCase, CaseOps, Pipeline
  <2> QED
    BY <2>1, <1>1, EventDeletions
<1>11. \/ CreateOccurrenceDocument(j) \/ DeleteOccurrenceDocument(j) \/ DeleteOccurrence(j) \/ WritePath(j)
       \/ insertOccurrenceWithProtocol(j) \/ ChangeOccurrenceStage(j) \/ UpdateOccurrence(j) \/ StampFirstResponse(j)
       \/ LogMove(j) \/ LogAssignment(j) \/ CreateOccurrenceEvent(j) \/ SendOccurrenceProtocol(j)
       \/ LogOccurrenceProcessMessageUse(j) \/ ReplyToOccurrence(j)
       \/ row' = row /\ document' = document /\ timeline' = timeline
  BY DEF CaseStep, Leave, TakeNumber, RollBack, CreateOccurrenceStage, UpdateOccurrenceStage, DeleteOccurrenceStage,
     removeOccurrenceAttachment, UploadOccurrenceDocumentAttachment
<1> QED
  BY <1>2, <1>3, <1>4, <1>5, <1>6, <1>7, <1>8, <1>9, <1>10, <1>11

-------------------------------------------------------------------------------
(* The invariant is inductive *)

LEMMA AsideKeeps ==
  ASSUME CasesInv, Aside, CasesTypeOK'
  PROVE  CasesInv'
<1> USE DEF CasesInv
<1>1. JobsCalm /\ Active' = Active
  BY AsideIsCalm
<1>2. /\ stage' = stage /\ counter' = counter /\ holder' = holder /\ timeline' = timeline /\ document' = document
      /\ stored' = stored /\ job' = job /\ crossed' = crossed /\ caseMenu' = caseMenu
      /\ \A c \in Cases : /\ row'[c].is = row[c].is /\ row'[c].number = row[c].number /\ row'[c].stage = row[c].stage
                          /\ row'[c].closed = row[c].closed /\ row'[c].summary = row[c].summary
  BY DEF Aside, RowsCalm
<1>3. NumbersKept'
  <2>1. \A k \in Jobs : job'[k].pc = "number" => holder' = k /\ job'[k].number = counter + 1
    BY <1>2 DEF NumbersKept
  <2> QED
    BY <2>1, <1>1, <1>2, NumbersFrame
<1>4. JobsKept' /\ PipelineKept' /\ CaseMenuOK'
  BY <1>1, <1>2, CalmJobs, PipelineFrame DEF CaseMenuOK
<1>5. StagesKept'
  BY <1>1, <1>2, StagesFrame
<1>6. MovesKept'
  BY <1>1, <1>2, MovesFrame
<1>7. DocumentsKept'
  BY <1>1, <1>2, DocumentsFrame
<1>8. SummaryKept'
  BY <1>1, <1>2, SummaryFrame
<1>9. DeletionsKept'
  BY <1>1, <1>2, DeletionsFrame DEF JobsCalm
<1> QED
  BY <1>3, <1>4, <1>5, <1>6, <1>7, <1>8, <1>9

LEMMA CasesStep ==
  ASSUME CasesInv, [CasesNext]_caseVars
  PROVE  CasesInv'
<1> USE DEF CasesInv
<1>1. ASSUME NEW j \in Jobs, Come(j)
      PROVE  CasesInv'
  <2>1. PICK q \in Job : CaseArrives(j, q)
    BY <1>1, ComeEffect
  <2>2. CaseMenuOK'
    BY <2>1 DEF CaseMenuOK, CaseArrives
  <2> QED
    BY <2>1, <2>2, ArrivalType, ArrivalNumbers, ArrivalJobs, ArrivalPipeline, ArrivalStages, ArrivalMoves,
       ArrivalDocuments, ArrivalSummary, ArrivalDeletions
<1>2. ASSUME NEW j \in Jobs, CaseStep(j)
      PROVE  CasesInv'
  <2>1. Moves(j) /\ JobsCalm
    BY <1>2, StepEffect, MovesAreCalm
  <2>2. CaseMenuOK' /\ JobsKept'
    BY <2>1, CalmJobs DEF CaseMenuOK, Moves
  <2> QED
    BY <1>2, <2>2, StepType, StepNumbers, StepPipeline, StepStages, StepMoves, StepDocuments, StepSummary, StepDeletions
<1>3. CASE (\E c \in Cases, d \in Deadlines : TimePasses(c, d)) \/ processOccurrenceSLA
  BY <1>3, AsideEffect, AsideKeeps
<1>4. CASE UNCHANGED caseVars
  <2>1. Aside /\ CasesTypeOK'
    BY <1>4 DEF caseVars, Aside, RowsCalm, CasesTypeOK
  <2> QED
    BY <2>1, AsideKeeps
<1> QED
  BY <1>1, <1>2, <1>3, <1>4 DEF CasesNext

GoodCases(m) ==
    /\ m.ops \subseteq CaseOps \ {"none"} /\ m.open \subseteq Cases /\ m.docs \subseteq Documents
    /\ \A c, d \in m.open : c = d
    /\ m.open = {} => m.docs = {}

LEMMA CasesStart ==
  ASSUME NEW menus, \A m \in menus : GoodCases(m), CasesSetUp(menus)
  PROVE  CasesInv
<1> DEFINE open == caseMenu.open
<1> DEFINE docs == caseMenu.docs
<1>1. /\ CaseMenuOK /\ open \subseteq Cases /\ docs \subseteq Documents
      /\ \A c, d \in open : c = d
      /\ open = {} => docs = {}
  BY DEF CasesSetUp, GoodCases, CaseMenuOK
<1>2. PICK u0 \in Staff, c0 \in Cases, d0 \in Documents, v0 \in Staff :
        First(Seeing) = u0 /\ First(Cases) = c0 /\ First(Documents) = d0 /\ First(Staff) = v0
  BY CasesAssumption DEF First
<1>3. PICK o \in Cases : First(IF open = {} THEN Cases ELSE open) = o /\ (open # {} => o \in open)
  BY <1>1, CasesAssumption DEF First
<1>4. /\ IsFiniteSet(Cases) /\ LastStage \in Nat /\ LastStage > 2
      /\ Cardinality(Cases) \in Nat /\ Cardinality(Cases) # 0
  BY CasesAssumption, FS_CardinalityType, FS_EmptySet
<1>5. /\ 0 \in 0 .. Cardinality(Cases) /\ 1 \in 0 .. Cardinality(Cases)
      /\ 1 \in StageIds /\ 3 \in StageIds /\ StageIds \subseteq Nat
  BY <1>4 DEF StageIds
<1>6. /\ counter = Cardinality(open) /\ holder = 0 /\ overdue = {} /\ crossed = {} /\ stored = docs \X {"pdf"}
      /\ stage = [s \in StageIds |-> [is |-> IF s <= 3 THEN "live" ELSE "none", initial |-> s = 1, closing |-> s = 3]]
      /\ timeline = [c \in Cases |-> IF c \in open THEN {[kind |-> "opened", to |-> 1]} ELSE {}]
  BY DEF CasesSetUp
<1>7. NoCase \in CaseRow /\ NoCase.is = "none"
  BY <1>5 DEF NoCase, CaseRow
<1>8. row \in [Cases -> CaseRow] /\
      \A c \in Cases : IF c \in open
        THEN row[c].is = "live" /\ row[c].number = 1 /\ row[c].stage = 1 /\ row[c].closed = FALSE /\ row[c].summary = docs
        ELSE row[c].is = "none"
  <2> DEFINE new == [NoCase EXCEPT !.is = "live", !.number = 1, !.assignee = u0, !.summary = docs]
  <2>1. new.is = "live" /\ new.number = 1 /\ new.stage = 1 /\ new.closed = FALSE /\ new.summary = docs
    BY DEF NoCase
  <2>2. new \in CaseRow
    BY <1>1, <1>5, <1>7 DEF CaseRow
  <2>3. row = [c \in Cases |-> IF c \in open THEN new ELSE NoCase]
    BY <1>2 DEF CasesSetUp
  <2> HIDE DEF new, open, docs
  <2> QED
    BY <2>1, <2>2, <2>3, <1>7
<1>9. document \in [Documents -> DocumentRow] /\
      \A d \in Documents : IF d \in docs THEN document[d].is = "live" /\ document[d].of = o /\ document[d].path = "pdf"
                                         ELSE document[d].is = "none" /\ document[d].path = None
  <2>1. document = [d \in Documents |-> [is |-> IF d \in docs THEN "live" ELSE None, of |-> o, path |-> IF d \in docs THEN "pdf" ELSE None]]
    BY <1>3 DEF CasesSetUp
  <2> HIDE DEF docs
  <2> QED
    BY <2>1 DEF DocumentRow, Exts, None
<1>10. job \in [Jobs -> Job] /\ Active = {} /\ \A j \in Jobs : job[j].pc = "new"
  <2> DEFINE r == [op |-> None, of |-> c0, by |-> v0, to |-> 1, initial |-> FALSE, closing |-> FALSE,
                   doc |-> d0, ext |-> None, user |-> None, saw |-> NoCase, path |-> None, number |-> 0, pc |-> "new"]
  <2>1. r \in Job /\ r.pc = "new"
    BY <1>5, <1>7 DEF Job, None, CaseOps
  <2>2. job = [j \in Jobs |-> r]
    BY <1>2 DEF CasesSetUp
  <2> HIDE DEF r
  <2> QED
    BY <2>1, <2>2 DEF Active
<1>11. counter \in 0 .. Cardinality(Cases)
  BY <1>1, <1>4, <1>6, FS_Subset, FS_CardinalityType
<1>12. CasesTypeOK
  <2>1. stage \in [StageIds -> StageRow]
    BY <1>6 DEF StageRow
  <2>2. timeline \in [Cases -> SUBSET Event]
    BY <1>5, <1>6 DEF Event
  <2>3. stored \subseteq Documents \X Exts
    BY <1>1, <1>6 DEF Exts
  <2> QED
    BY <2>1, <2>2, <2>3, <1>6, <1>8, <1>9, <1>10, <1>11 DEF CasesTypeOK
<1>13. NumbersKept
  <2>1. Given = open
    BY <1>1, <1>8 DEF Given
  <2>2. {row[c].number : c \in Given} = 1 .. counter
    <3>1. CASE open = {}
      BY <3>1, <2>1, <1>6, FS_EmptySet
    <3>2. CASE open # {}
      <4>1. PICK c \in open : open = {c}
        BY <3>2, <1>1
      <4>2. counter = 1
        BY <4>1, <1>6, FS_Singleton
      <4>3. row[c].number = 1
        BY <4>1, <1>1, <1>8
      <4> QED
        BY <2>1, <4>1, <4>2, <4>3
    <3> QED
      BY <3>1, <3>2
  <2> QED
    BY <2>1, <2>2, <1>6, <1>10 DEF NumbersKept
<1>14. JobsKept /\ StagesKept
  BY <1>5, <1>6, <1>8, <1>10 DEF JobsKept, StagesKept, Live
<1>15. PipelineKept
  <2>0. ASSUME NEW t \in StageIds
        PROVE  /\ stage[t].is = IF t <= 3 THEN "live" ELSE "none"
               /\ stage[t].initial <=> t = 1
               /\ stage[t].closing <=> t = 3
    <3>1. PICK ini \in BOOLEAN, clo \in BOOLEAN : (ini <=> t = 1) /\ (clo <=> t = 3)
      OBVIOUS
    <3>2. ini = (t = 1) /\ clo = (t = 3)
      BY <3>1
    <3>3. stage[t] = [is |-> IF t <= 3 THEN "live" ELSE "none", initial |-> t = 1, closing |-> t = 3]
      BY <1>6
    <3>4. stage[t] = [is |-> IF t <= 3 THEN "live" ELSE "none", initial |-> ini, closing |-> clo]
      BY <3>2, <3>3, Zenon
    <3> QED
      BY <3>1, <3>4
  <2>1. Opens(1) /\ \A t \in StageIds : Opens(t) => t = 1
    <3>1. stage[1].is = "live"
      BY <2>0, <1>5
    <3> QED
      BY <3>1, <2>0, <1>5 DEF Opens
  <2>2. stage[3].is = "live" /\ stage[3].closing
    BY <2>0, <1>5
  <2> QED
    BY <2>1, <2>2, <1>5, <1>10 DEF PipelineKept
<1>16. MovesKept
  BY <1>8 DEF MovesKept, Live
<1>17. DocumentsKept
  <2>1. \A d \in Documents, e \in Exts : <<d, e>> \in stored <=> Named(d, e)
    BY <1>1, <1>6, <1>9 DEF Named, Exts
  <2> QED
    BY <2>1, <1>10 DEF DocumentsKept
<1>18. SummaryKept
  <2>1. \A d \in Documents : document[d].is = "live" => d \in docs /\ o \in open /\ document[d].of = o
    BY <1>1, <1>3, <1>9
  <2>2. ASSUME NEW c \in Cases, Live(c)
        PROVE  row[c].summary = Belonging(c)
    <3>1. c \in open /\ row[c].summary = docs
      BY <2>2, <1>8 DEF Live
    <3>2. c = o
      BY <3>1, <1>1, <1>3
    <3> QED
      BY <3>1, <3>2, <2>1, <1>1, <1>9 DEF Belonging
  <2> QED
    BY <2>1, <2>2, <1>8, <1>10 DEF SummaryKept
<1>19. DeletionsKept
  BY <1>8, <1>10 DEF DeletionsKept, NothingLeftBehind
<1> QED
  BY <1>1, <1>12, <1>13, <1>14, <1>15, <1>16, <1>17, <1>18, <1>19 DEF CasesInv

LEMMA CasesAgree ==
  ASSUME CasesInv
  PROVE  CasesConsistent
<1> USE DEF CasesInv
<1>1. ProtocolsDense
  BY DEF ProtocolsDense, NumbersKept, Given
<1>2. PipelineUsable
  <2> SUFFICES ASSUME ~PipelineEdits
               PROVE  /\ Cardinality({s \in StageIds : Opens(s)}) = 1
                      /\ \E s \in StageIds : stage[s].is = "live" /\ stage[s].closing
    BY DEF PipelineUsable, Opens
  <2>1. PICK s \in StageIds : Opens(s) /\ \A t \in StageIds : Opens(t) => t = s
    BY DEF PipelineKept
  <2>2. {t \in StageIds : Opens(t)} = {s}
    BY <2>1
  <2>3. Cardinality({s}) = 1
    BY FS_Singleton
  <2> QED
    BY <2>2, <2>3 DEF PipelineKept
<1>3. StageOfCaseLives
  BY DEF StageOfCaseLives, StagesKept
<1>4. MovesAreLogged
  BY DEF MovesAreLogged, MovesKept, Quiet
<1>5. FilesMatchRows
  <2> SUFFICES ASSUME Active = {}, FilesApart
               PROVE  stored = {<<d, document[d].path>> : d \in {e \in Documents : document[e].is = "live" /\ document[e].path # None}}
    BY DEF FilesMatchRows, FilesApart, Quiet
  <2>1. \A d \in Documents, e \in Exts : <<d, e>> \in stored <=> Named(d, e)
    BY DEF DocumentsKept, Removing, Writing
  <2>2. \A d \in Documents : document[d].path \in Exts \/ document[d].path = None
    BY DEF CasesTypeOK, DocumentRow
  <2>3. None \notin Exts
    BY DEF None, Exts
  <2>4. stored \subseteq Documents \X Exts
    BY DEF CasesTypeOK
  <2> QED
    BY <2>1, <2>2, <2>3, <2>4 DEF Named
<1>6. SummaryTrue
  BY DEF SummaryTrue, SummaryKept, SummaryApart, DocumentOps
<1>7. NothingLeftBehind
  BY DEF NothingLeftBehind, DeletionsKept, DeletionsApart
<1> QED
  BY <1>1, <1>2, <1>3, <1>4, <1>5, <1>6, <1>7 DEF CasesConsistent

-------------------------------------------------------------------------------
(* The office *)

OfficeInv == TeamInv /\ CasesInv

LEMMA OfficeStart == OfficeInit => OfficeInv
<1> SUFFICES ASSUME OfficeInit
             PROVE  TeamInv /\ CasesInv
  BY DEF OfficeInv
<1>1. TeamInv
  <2>1. TeamInit \/ TeamEnded
    BY DEF OfficeInit
  <2>2. \A m \in Menus : m.ops \subseteq ChatOps \ {"none"} /\ m.by \subseteq ChatUsers
    BY ChatAssumption
  <2>3. \A m \in {[ops |-> {}, by |-> {}, calls |-> 0]} : m.ops \subseteq ChatOps \ {"none"} /\ m.by \subseteq ChatUsers
    OBVIOUS
  <2>4. CASE TeamInit
    BY <2>2, <2>4, TeamStart DEF TeamInit
  <2>5. CASE TeamEnded
    BY <2>3, <2>5, TeamStart DEF TeamEnded
  <2> QED
    BY <2>1, <2>4, <2>5
<1>2. CasesInv
  <2>1. CasesInit \/ CasesEnded
    BY DEF OfficeInit
  <2>2. \A m \in CaseMenus : GoodCases(m)
    BY CasesAssumption DEF GoodCases
  <2>3. \A m \in {[ops |-> {}, jobs |-> 0, open |-> {}, docs |-> {}, late |-> FALSE]} : GoodCases(m)
    BY DEF GoodCases
  <2>4. CASE CasesInit
    BY <2>2, <2>4, CasesStart DEF CasesInit
  <2>5. CASE CasesEnded
    BY <2>3, <2>5, CasesStart DEF CasesEnded
  <2> QED
    BY <2>1, <2>4, <2>5
<1> QED
  BY <1>1, <1>2

LEMMA OfficeStep == OfficeInv /\ [OfficeNext]_officeVars => OfficeInv'
<1> SUFFICES ASSUME OfficeInv, [OfficeNext]_officeVars
             PROVE  TeamInv' /\ CasesInv'
  BY DEF OfficeInv
<1>1. [TeamNext]_teamVars /\ [CasesNext]_caseVars
  BY DEF OfficeNext, officeVars
<1> QED
  BY <1>1, TeamStep, CasesStep DEF OfficeInv

LEMMA OfficeAlways == OfficeSpec => []OfficeInv
  BY OfficeStart, OfficeStep, PTL DEF OfficeSpec

\* For any people, files, reactions and requests: the limits on pending files and on
\* reactions hold, a file that may be downloaded is on disk, what is shown as read was
\* read, and rows and requests keep their types, however uploads, deletions, markings,
\* housekeeping and restarts interleave.
THEOREM ChatStaysConsistent == OfficeSpec => []TeamChatConsistent
<1>1. OfficeInv => TeamChatConsistent
  BY TeamConsistent DEF OfficeInv, TeamInv, CasesInv, TeamChatConsistent, OfficeTypeOK
<1> QED
  BY <1>1, OfficeAlways, PTL

\* For any number of cases, stages, documents and requests: protocol numbers have no gap
\* and no double, one initial and a closing stage remain, no case stands in a removed stage,
\* moves are in the timeline, files and summaries agree with the documents, and nothing is
\* left of a deleted case, under the non-overlap conditions each property names.
THEOREM CasesStayConsistent == OfficeSpec => []CasesConsistent
<1>1. OfficeInv => CasesConsistent
  BY CasesAgree DEF OfficeInv
<1> QED
  BY <1>1, OfficeAlways, PTL

\* A message, file or reaction is only committed while its author may use the channel and
\* the channel is open: the checks of the handlers are made under the lock they commit with.
THEOREM ChatOpenToMembers == OfficeSpec => OpenToMembers
<1>1. OfficeInv /\ [OfficeNext]_officeVars =>
        [\A c \in Calls : call[c].op \in {"send", "edit", "upload", "react", "unreact"} /\ call[c].ok
                          /\ call[c].pc \in {"in", "key"} /\ call'[c].pc = "done" /\ call'[c].ok
                          /\ (line' # line \/ upload' # upload \/ reaction' # reaction)
                          => canAccess(call[c].by) /\ ~channel.archived]_teamVars
  BY CommitsAreOpen DEF OfficeInv
<1> QED
  BY <1>1, OfficeAlways, PTL DEF OfficeSpec, OpenToMembers

\* The last owner of the channel only goes by what somebody else, who manages the chat, does
\* (removeChatMember and SetChatMemberRole refuse the last owner who leaves or steps down).
THEOREM ChatKeepsAnOwner == OfficeSpec => OwnerStays
<1>1. OfficeInv /\ [OfficeNext]_officeVars =>
        [Owners # {} /\ Owners' = {} =>
           \E c \in Calls : /\ call[c].op \in {"remove", "role_member"}
                            /\ call[c].by \in Managers /\ call[c].to # call[c].by /\ call'[c] # call[c]]_teamVars
  <2> SUFFICES ASSUME OfficeInv, [OfficeNext]_officeVars, teamVars' # teamVars, Owners # {}, Owners' = {}
               PROVE  \E c \in Calls : /\ call[c].op \in {"remove", "role_member"}
                                       /\ call[c].by \in Managers /\ call[c].to # call[c].by /\ call'[c] # call[c]
    OBVIOUS
  <2>1. TeamNext
    BY DEF OfficeNext, officeVars
  <2> QED
    BY <2>1, OwnersLeave DEF OfficeInv
<1> QED
  BY <1>1, OfficeAlways, PTL DEF OfficeSpec, OwnerStays

\* A read marker only moves back when two markings of the same person overlap.
THEOREM ChatMarkerForward == OfficeSpec => MarkerForward
<1>1. OfficeInv /\ [OfficeNext]_officeVars =>
        [\A u \in ChatUsers : marker'[u] < marker[u] =>
           \E c \in Calls : call[c].op = "mark" /\ call[c].by = u /\ call[c].pc # "done" /\ ~Alone(c)]_teamVars
  <2> SUFFICES ASSUME OfficeInv, [OfficeNext]_officeVars, teamVars' # teamVars, NEW u \in ChatUsers, marker'[u] < marker[u]
               PROVE  \E c \in Calls : call[c].op = "mark" /\ call[c].by = u /\ call[c].pc # "done" /\ ~Alone(c)
    OBVIOUS
  <2>1. TeamNext
    BY DEF OfficeNext, officeVars
  <2> QED
    BY <2>1, MarkersMove DEF OfficeInv
<1> QED
  BY <1>1, OfficeAlways, PTL DEF OfficeSpec, MarkerForward

===============================================================================
