----------------------------- MODULE MCMessaging -----------------------------
(* The contact book, the messages and the usage ledger, one of them at a time. *)
(* A menu gives what is there at the start and the requests, notifications and *)
(* sweeps of one behaviour, each of which starts whenever it likes.            *)
EXTENDS ContactBook, Messaging, UsageLedger, Sequences

CONSTANTS s1, s2
VARIABLE focus
messagingVars == <<focus, bookVars, msgVars, usageVars>>

(* The contact book *)
MCPermissions == [ana |-> {"contacts.write", "transfers.pickup", "contacts.delete", "contacts.export"}, rui |-> {"contacts.write", "conversations.view_team"},
                  sue |-> {"contacts.write", "contacts.read", "conversations.view_all"}]
MCMembers == {<<"ana", "t1">>, <<"rui", "t1">>, <<"rui", "t2">>}
Ph(ddi, nine) == [who |-> "p1", ddi |-> ddi, nine |-> nine, plus |-> FALSE]
Old(ph, is, owner, team, tags) == [NoRow EXCEPT !.phone = ph, !.is = is, !.owner = owner, !.team = team, !.tags = tags]
On(agent, team) == [on |-> TRUE, agent |-> agent, team |-> team]
BookMenu(ops, n, has, attends, strict) ==
    [ops |-> ops, jobs |-> n, has |-> has, attends |-> attends, tags |-> {"vip", "new"}, front |-> "t1", by |-> {"ana", "rui"},
     phones |-> {Ph(TRUE, TRUE), Ph(TRUE, FALSE)}, strict |-> strict, ownerWins |-> FALSE, pickup |-> TRUE, sameAgent |-> TRUE]
Local == Ph(FALSE, TRUE)
MCBookMenus ==
    {BookMenu({"inbound", "create", "import", "delete"}, 3, <<>>, <<>>, FALSE),
     [BookMenu({"inbound", "create"}, 2, <<>>, <<>>, TRUE) EXCEPT !.phones = {Local, Ph(TRUE, FALSE), [who |-> "p2", ddi |-> FALSE, nine |-> TRUE, plus |-> TRUE]}],
     [BookMenu({"claim", "create", "inbound", "delete"}, 3, <<Old(Local, "deleted", Nobody, Nobody, {})>>, <<>>, TRUE)
        EXCEPT !.phones = {Ph(TRUE, FALSE)}],
     BookMenu({"claim", "attend", "delete"}, 3, <<Old(Ph(TRUE, FALSE), "live", Nobody, "t1", {})>>, <<>>, TRUE),
     [BookMenu({"claim", "inbound"}, 3, <<Old(Local, "deleted", Nobody, Nobody, {})>>, <<On(Nobody, "t1")>>, TRUE) EXCEPT !.phones = {Ph(TRUE, FALSE)}],
     [BookMenu({"claim", "assign", "import_over"}, 2, <<Old(Ph(TRUE, TRUE), "live", "ana", Nobody, {})>>, <<On("rui", Nobody)>>, FALSE) EXCEPT !.ownerWins = TRUE],
     BookMenu({"merge", "inbound", "note", "renote", "unnote", "claim"}, 2, <<Old(Local, "live", Nobody, Nobody, {}), Old(Ph(TRUE, FALSE), "live", "ana", Nobody, {}),
                Old(Ph(TRUE, TRUE), "deleted", Nobody, Nobody, {})>>, <<>>, TRUE),
     BookMenu({"merge", "assign", "clear"}, 2, <<Old(Ph(TRUE, TRUE), "live", Nobody, Nobody, {}), Old(Ph(TRUE, FALSE), "live", "rui", "t2", {})>>, <<>>, TRUE),
     BookMenu({"tags", "tag_new", "tag_edit", "tag_drop"}, 3, <<Old(Ph(TRUE, TRUE), "live", "ana", Nobody, {"vip"})>>, <<>>, FALSE),
     BookMenu({"front", "look", "claim", "renote", "unnote"}, 2, <<Old(Ph(TRUE, TRUE), "live", Nobody, Nobody, {})>>, <<>>, TRUE),
     BookMenu({"front", "look", "assign"}, 3, <<Old(Ph(TRUE, TRUE), "live", Nobody, "t2", {})>>, <<On(Nobody, Nobody)>>, TRUE)}

(* Messages *)
Ask(op, w) == [op |-> op, w |-> w, who |-> "", kind |-> "text"]
Post(kind, w) == [op |-> "send", w |-> w, who |-> "", kind |-> kind]
React(w, who) == [op |-> "react", w |-> w, who |-> who, kind |-> "text"]
Had(out, w, status) == [NoMsg EXCEPT !.is = TRUE, !.out = out, !.wamid = w, !.status = status]
MsgMenu(plan, width, has) == [plan |-> plan, width |-> width, has |-> has, statuses |-> {"sent", "delivered", "read", "failed"}, bot |-> FALSE,
    receipts |-> TRUE, subscribed |-> {}]
Three == <<Had(FALSE, 5, "read"), Had(TRUE, 6, "read"), Had(FALSE, 7, "received")>>
Mailed == [i \in 1 .. 2 |-> [Had(TRUE, i, "sent") EXCEPT !.kind = "campaign"]]
MCMsgMenus ==
    {MsgMenu(<<Post("text", 1), Ask("status", 1), Ask("status", 1)>>, 2, <<>>),
     MsgMenu(<<Post("media", 1), Ask("status", 1), Ask("status", 1), Ask("status", 1)>>, 1, <<>>),
     MsgMenu(<<Post("bot", 1), Ask("inbound", 2), Ask("markRead", 0), Ask("inbound", 3)>>, 2, <<>>),
     [MsgMenu(<<Ask("inbound", 2), Post("bot", 1), Ask("inbound", 3), Ask("markRead", 0)>>, 2, <<>>) EXCEPT !.bot = TRUE],
     MsgMenu(<<Ask("inbound", 1), Ask("inbound", 1), Ask("echo", 2), Ask("echo", 2)>>, 2, <<>>),
     MsgMenu(<<Ask("browse", 0), Ask("older", 0), Ask("inbound", 1), Post("text", 2)>>, 2, Three),
     MsgMenu(<<React(5, "ana"), React(5, "rui"), React(5, "cus"), React(1, "ana"), Ask("inbound", 1)>>, 2, Three),
     MsgMenu(<<Post("marketing", 1), Ask("prefer", 0), Ask("templateStatus", 0), Post("marketing", 2)>>, 2, <<>>),
     MsgMenu(<<Ask("status", 1), Ask("status", 1), Ask("status", 2)>>, 2, Mailed),
     MsgMenu(<<Ask("status", 1), Ask("status", 1), Ask("recount", 0), Ask("status", 2)>>, 1, Mailed),
     MsgMenu(<<Ask("status", 1), Ask("recount", 0), Ask("status", 2)>>, 2, Mailed),
     [MsgMenu(<<Ask("dispatch", 0)>>, 1, <<>>) EXCEPT !.subscribed = {"h1", "h2", "h3"}]}

(* The ledger *)
Priced(wide, from, to, cost) == [is |-> TRUE, wide |-> wide, from |-> from, to |-> to, cost |-> cost]
Ev(m, status, at, p) == [m |-> m, status |-> status, at |-> at, price |-> p]
Do(op) == [op |-> op, m |-> 1, on |-> s1]
Elsewhere(op) == [op |-> op, m |-> 1, on |-> s2]
Other(op) == [op |-> op, m |-> 2, on |-> s1]
LedgerMenu(plan, width, events, rates, offers, cold, fails, foreign, ticks) ==
    [plan |-> plan, width |-> width, events |-> events, rates |-> rates, offers |-> offers, cold |-> cold, fails |-> fails,
     foreign |-> foreign, ticks |-> ticks]
MCUsageMenus ==
    {LedgerMenu(<<Do("send"), Do("event"), Do("event"), Do("event")>>, 3, {Ev(1, "sent", 0, "charged"), Ev(1, "delivered", 1, "none"), Ev(1, "failed", 1, "free")},
                <<Priced(TRUE, 0, 0, 2)>>, {}, FALSE, FALSE, FALSE, 1),
     LedgerMenu(<<Do("send"), Do("event"), Do("event"), Do("sweep")>>, 2, {Ev(1, "sent", 0, "none"), Ev(1, "delivered", 1, "charged")}, <<>>, {}, FALSE, TRUE, FALSE, 2),
     LedgerMenu(<<Other("receive"), Do("event"), Do("sweep"), Do("echo"), Do("sweep")>>, 1, {Ev(1, "sent", 0, "charged")}, <<Priced(FALSE, 0, 0, 3)>>, {}, FALSE, TRUE, TRUE, 2),
     LedgerMenu(<<Other("receive"), Do("send"), Do("sweep")>>, 2, {}, <<>>, {}, FALSE, TRUE, TRUE, 2),
     LedgerMenu(<<Other("receive"), Do("switch"), Do("send"), Do("switch"), Do("sweep")>>, 1, {}, <<>>, {}, TRUE, FALSE, FALSE, 2),
     LedgerMenu(<<Do("send"), Do("event"), Do("rateEdit"), Do("reprice")>>, 2, {Ev(1, "sent", 0, "charged")},
                <<Priced(TRUE, 0, 0, 2)>>, {Priced(FALSE, 0, 0, 3), Priced(TRUE, 0, 1, 2), Priced(TRUE, 1, 0, 5)}, FALSE, FALSE, FALSE, 1),
     LedgerMenu(<<Do("send"), Do("event"), Do("rateDrop"), Do("rateAdd"), Do("reprice")>>, 1, {Ev(1, "sent", 0, "charged")},
                <<Priced(TRUE, 0, 0, 2)>>, {Priced(FALSE, 0, 0, 3), Priced(TRUE, 1, 0, 5)}, FALSE, FALSE, FALSE, 1),
     LedgerMenu(<<Do("rateAdd"), Do("rateAdd"), Do("rateEdit"), Do("rateDrop")>>, 2, {},
                <<Priced(TRUE, 0, 0, 2)>>, {Priced(TRUE, 0, 1, 2), Priced(TRUE, 1, 0, 5), Priced(TRUE, 2, 2, 5)}, FALSE, FALSE, FALSE, 1),
     LedgerMenu(<<Do("send"), Do("event"), Elsewhere("switch"), Do("sweep")>>, 2, {Ev(1, "sent", 1, "charged")}, <<>>, {}, TRUE, FALSE, FALSE, 1),
     LedgerMenu(<<Do("send"), Do("switch"), Do("switch"), Do("event"), Do("sweep")>>, 2, {Ev(1, "sent", 2, "charged")}, <<>>, {}, TRUE, FALSE, FALSE, 2),
     LedgerMenu(<<Do("send"), Elsewhere("switch"), Do("reprice")>>, 2, {}, <<>>, {}, TRUE, FALSE, FALSE, 1)}

MessagingInit ==
    /\ focus \in {"book", "messages", "ledger"}
    /\ IF focus = "book" THEN BookInit ELSE BookEnded
    /\ IF focus = "messages" THEN MsgInit ELSE MsgEnded
    /\ IF focus = "ledger" THEN UsageInit ELSE UsageEnded
MessagingNext ==
    \/ focus = "book" /\ BookNext /\ UNCHANGED <<focus, msgVars, usageVars>>
    \/ focus = "messages" /\ MsgNext /\ UNCHANGED <<focus, bookVars, usageVars>>
    \/ focus = "ledger" /\ UsageNext /\ UNCHANGED <<focus, bookVars, msgVars>>
MessagingSpec == MessagingInit /\ [][MessagingNext]_messagingVars

\* What happened is not undone: a merge keeps the owner, another user's note stays, a
\* status only moves forward, and rows stay as they are while recording is off.
HistoryKept == MergeKeepsOwner /\ NotesStay /\ StatusForward /\ FrozenWhileOff
===============================================================================
