------------------------------- MODULE Messaging -------------------------------
(***************************************************************************)
(* The messages of one conversation and what WhatsApp says about them.  A  *)
(* message is written before it is sent and gets its identifier after;     *)
(* every notification of WhatsApp (an inbound message, an echo, a status)  *)
(* is handled by its own goroutine, is repeated and comes in any order,    *)
(* and finds the message by that identifier; agents page through the       *)
(* history, which marks it read, and react to messages; and events are     *)
(* handed to the subscribers of the organisation with retries.             *)
(***************************************************************************)
EXTENDS Naturals, Integers, FiniteSets, FiniteSetsExt, Functions

CONSTANTS
    MaxMsgs, Wamids,    \* rows, and the identifiers WhatsApp gives messages (positive numbers)
    Reactors,           \* who can react: agents and the customer
    Hooks,              \* the organisation's webhooks
    Errands,            \* bound: requests and notifications in one behaviour
    PageLimit, MaxConcurrentWebhooks, MaxRetries,
    MsgMenus

ASSUME MessagingAssumption ==
    /\ {MaxMsgs, PageLimit, MaxConcurrentWebhooks, MaxRetries} \subseteq Nat \ {0}
    /\ Wamids \subseteq Nat \ {0} /\ Errands \subseteq Nat

VARIABLES
    msgMenu,
    msg,        \* messages, in the order of created_at
    isRead,     \* is_read of the contact
    optOut,     \* marketing_opt_out of the contact
    template,   \* status of the template
    receipts,   \* identifiers whose read receipt was sent
    reported,   \* statuses handled so far, by identifier: history
    stat,       \* delivered_count, read_count and failed_count of a campaign
    recipient,  \* status of its recipients, by the message sent to them
    hook,       \* deliveries of one event
    errand,
    alongside   \* which kinds of errands were in progress together: history

msgVars == <<msgMenu, msg, isRead, optOut, template, receipts, reported, stat, recipient, hook, errand, alongside>>

MsgIds == 1 .. MaxMsgs
Statuses == {"pending", "sent", "delivered", "read", "failed", "received"}
NoMsg == [is |-> FALSE, out |-> FALSE, wamid |-> 0, status |-> "pending", reacts |-> {}, kind |-> "text", bot |-> FALSE]
NoStat == [delivered |-> 0, read |-> 0, failed |-> 0]
NoErrand == [op |-> "none", pc |-> "new", i |-> 0, w |-> 0, status |-> "pending", who |-> "", kind |-> "text", had |-> {}, list |-> {},
             total |-> 0, page |-> 0, shown |-> {}, twice |-> FALSE, reacts |-> {}, stat |-> NoStat, barred |-> FALSE, took |-> FALSE, told |-> ""]
NoHook == [pc |-> "idle", tries |-> 0, got |-> 0, lost |-> 0]

MsgTypeOK ==
    /\ \A i \in MsgIds : /\ msg[i].status \in Statuses /\ msg[i].wamid \in Wamids \cup {0} /\ msg[i].reacts \subseteq Reactors
                         /\ msg[i].is /\ msg[i].out => msg[i].status # "received"
                         /\ msg[i].is /\ ~msg[i].out => msg[i].status \in {"received", "read"} /\ msg[i].wamid # 0
    /\ {isRead, optOut} \subseteq BOOLEAN /\ template \in {"APPROVED", "PAUSED"}
    /\ receipts \subseteq Wamids
    /\ \A h \in Hooks : hook[h].tries \in 0 .. MaxRetries

MsgSetUp(menus) ==
    /\ msgMenu \in menus
    /\ msg = [i \in MsgIds |-> IF i \in DOMAIN msgMenu.has THEN msgMenu.has[i] ELSE NoMsg]
    /\ isRead = ~\E i \in DOMAIN msgMenu.has : ~msgMenu.has[i].out
    /\ optOut = FALSE /\ template = "APPROVED" /\ receipts = {m.wamid : m \in {n \in Range(msgMenu.has) : ~n.out /\ n.status = "read"}} /\ reported = [w \in Wamids |-> {}]
    /\ stat = NoStat /\ recipient = [i \in MsgIds |-> "sent"]
    /\ hook = [h \in Hooks |-> NoHook]
    /\ errand = [e \in Errands |-> NoErrand] /\ alongside = {}
MsgInit == MsgSetUp(MsgMenus)
MsgEnded == MsgSetUp({[plan |-> <<>>, width |-> 0, has |-> <<>>, statuses |-> {}, bot |-> FALSE, receipts |-> FALSE, subscribed |-> {}]})

Busy == {e \in Errands : errand[e].pc \notin {"new", "done"}}
Step(e, pc) == errand' = [errand EXCEPT ![e].pc = pc]
Close(e, told) == errand' = [errand EXCEPT ![e].pc = "done", ![e].told = told]
LastMsg == Cardinality({i \in MsgIds : msg[i].is})
Room == LastMsg < MaxMsgs
\* First by whats_app_message_id
ByWamid(w) == IF \E i \in MsgIds : msg[i].is /\ msg[i].wamid = w THEN Min({i \in MsgIds : msg[i].is /\ msg[i].wamid = w}) ELSE 0

-------------------------------------------------------------------------------
(* Sending *)

\* SendTemplateMessage: the template and the contact are read here, and the opt-out is judged by what was read.
SendTemplateMessage(e) ==
    /\ errand[e].op = "send" /\ errand[e].kind = "marketing" /\ errand[e].pc = "load"
    /\ IF template # "APPROVED" THEN Close(e, "not approved")
       ELSE IF optOut THEN Close(e, "opted out") ELSE Step(e, "create")
    /\ UNCHANGED <<msgMenu, alongside, msg, isRead, optOut, template, receipts, reported, stat, recipient, hook>>
\* SendMessage, and the chatbot: free text asks only for access to the conversation.
SendMessage(e) ==
    /\ errand[e].op = "send" /\ errand[e].kind \in {"text", "bot"} /\ errand[e].pc = "load"
    /\ Step(e, "create")
    /\ UNCHANGED <<msgMenu, alongside, msg, isRead, optOut, template, receipts, reported, stat, recipient, hook>>
\* SendMediaMessage: the file is kept on this server first, and kept whatever becomes of the message.
SendMediaMessage(e) ==
    /\ errand[e].op = "send" /\ errand[e].kind = "media" /\ errand[e].pc = "load"
    /\ \/ Step(e, "create")
       \/ Close(e, "not saved")
    /\ UNCHANGED <<msgMenu, alongside, msg, isRead, optOut, template, receipts, reported, stat, recipient, hook>>
\* SendOutgoingMessage: the row first, pending and without an identifier.
createOutgoingMessage(e) ==
    /\ errand[e].op = "send" /\ errand[e].pc = "create" /\ Room
    /\ msg' = [msg EXCEPT ![LastMsg + 1] = [NoMsg EXCEPT !.is = TRUE, !.out = TRUE, !.kind = errand[e].kind]]
    /\ errand' = [errand EXCEPT ![e].pc = "api", ![e].i = LastMsg + 1]
    /\ UNCHANGED <<msgMenu, alongside, isRead, optOut, template, receipts, reported, stat, recipient, hook>>
\* The call to WhatsApp: it accepts the message, the call fails, or its answer is lost (an error all the same).
CallWhatsApp(e) ==
    /\ errand[e].op = "send" /\ errand[e].pc = "api"
    /\ \E answer \in {"accepted", "refused", "lost"} :
        errand' = [errand EXCEPT ![e].pc = answer, ![e].took = answer # "refused"]
    /\ UNCHANGED <<msgMenu, alongside, msg, isRead, optOut, template, receipts, reported, stat, recipient, hook>>
\* The identifier and the status are written together, whatever the status is by now.
finalizeMessageSend(e) ==
    LET i == errand[e].i IN
    /\ errand[e].op = "send" /\ errand[e].pc \in {"accepted", "refused", "lost"}
    /\ msg' = IF errand[e].pc = "accepted" THEN [msg EXCEPT ![i].status = "sent", ![i].wamid = errand[e].w]
              ELSE [msg EXCEPT ![i].status = "failed"]
    /\ IF errand[e].pc = "accepted" /\ errand[e].kind = "bot" THEN Step(e, "unread") ELSE Close(e, errand[e].pc)
    /\ UNCHANGED <<msgMenu, alongside, isRead, optOut, template, receipts, reported, stat, recipient, hook>>

-------------------------------------------------------------------------------
(* Notifications *)

statusPriority(s) == CASE s = "pending" -> 0 [] s = "sent" -> 1 [] s = "delivered" -> 2 [] s = "read" -> 3 [] s = "failed" -> 4 [] OTHER -> -1
\* WhatsApp reports on messages it accepted, whether or not the sender has its answer yet.
Emitted(w) == \/ ByWamid(w) # 0
              \/ \E e \in Errands : errand[e].op = "send" /\ errand[e].w = w /\ errand[e].took
ReadStatus_AnyOrder(e) ==
    LET i == ByWamid(errand[e].w) IN
    /\ errand[e].op = "status" /\ errand[e].pc = "find" /\ Emitted(errand[e].w)
    /\ \E s \in msgMenu.statuses :
        /\ errand' = [errand EXCEPT ![e].pc = IF i = 0 THEN "done" ELSE "write", ![e].i = i, ![e].status = s]
        /\ reported' = IF i = 0 THEN reported ELSE [reported EXCEPT ![errand[e].w] = @ \cup {s}]
    /\ UNCHANGED <<msgMenu, alongside, msg, isRead, optOut, template, receipts, stat, recipient, hook>>
\* updateMessageStatus: find the message, give up when there is none or when it is no progress ...
ReadStatus(e) ==
    LET i == ByWamid(errand[e].w) IN
    /\ errand[e].op = "status" /\ errand[e].pc = "find" /\ Emitted(errand[e].w)
    /\ \E s \in msgMenu.statuses :
        /\ errand' = [errand EXCEPT ![e].i = i, ![e].status = s,
                ![e].pc = IF i = 0 \/ (statusPriority(s) <= statusPriority(msg[i].status) /\ s # "failed") THEN "done" ELSE "write"]
        /\ reported' = IF i = 0 THEN reported ELSE [reported EXCEPT ![errand[e].w] = @ \cup {s}]
    /\ UNCHANGED <<msgMenu, alongside, msg, isRead, optOut, template, receipts, stat, recipient, hook>>
\* ... and write it without comparing again.
WriteStatus(e) ==
    /\ errand[e].op = "status" /\ errand[e].pc = "write"
    /\ msg' = [msg EXCEPT ![errand[e].i].status = errand[e].status]
    /\ IF msg[errand[e].i].kind = "campaign" THEN Step(e, "count") ELSE Close(e, "ok")
    /\ UNCHANGED <<msgMenu, alongside, isRead, optOut, template, receipts, reported, stat, recipient, hook>>
\* A campaign's message: its counter in one UPDATE, sent being counted by the worker ...
incrementCampaignStat(e) ==
    /\ errand[e].op = "status" /\ errand[e].pc = "count"
    /\ stat' = IF errand[e].status \in DOMAIN stat THEN [stat EXCEPT ![errand[e].status] = @ + 1] ELSE stat
    /\ Step(e, "recipient")
    /\ UNCHANGED <<msgMenu, alongside, msg, isRead, optOut, template, receipts, reported, recipient, hook>>
\* ... and its recipient.
UpdateRecipient(e) ==
    /\ errand[e].op = "status" /\ errand[e].pc = "recipient"
    /\ recipient' = [recipient EXCEPT ![errand[e].i] = errand[e].status]
    /\ Close(e, "ok")
    /\ UNCHANGED <<msgMenu, alongside, msg, isRead, optOut, template, receipts, reported, stat, hook>>
\* recalculateCampaignStats: counts the messages by status ...
CountStatuses(e) ==
    LET of(statuses) == Cardinality({i \in MsgIds : msg[i].is /\ msg[i].kind = "campaign" /\ msg[i].status \in statuses}) IN
    /\ errand[e].op = "recount" /\ errand[e].pc = "find"
    /\ errand' = [errand EXCEPT ![e].pc = "write", ![e].stat = [delivered |-> of({"delivered", "read"}), read |-> of({"read"}), failed |-> of({"failed"})]]
    /\ UNCHANGED <<msgMenu, alongside, msg, isRead, optOut, template, receipts, reported, stat, recipient, hook>>
\* ... and overwrites the counters with what it counted.
recalculateCampaignStats(e) ==
    /\ errand[e].op = "recount" /\ errand[e].pc = "write"
    /\ stat' = errand[e].stat
    /\ Close(e, "ok")
    /\ UNCHANGED <<msgMenu, alongside, msg, isRead, optOut, template, receipts, reported, recipient, hook>>
\* processIncomingMessage and processMessageEcho: an identifier already there is skipped.
FindDuplicate_Never(e) ==
    /\ errand[e].op \in {"inbound", "echo"} /\ errand[e].pc = "find"
    /\ Step(e, "save")
    /\ UNCHANGED <<msgMenu, alongside, msg, isRead, optOut, template, receipts, reported, stat, recipient, hook>>
FindDuplicate(e) ==
    /\ errand[e].op \in {"inbound", "echo"} /\ errand[e].pc = "find"
    /\ IF ByWamid(errand[e].w) # 0 THEN Close(e, "duplicate") ELSE Step(e, "save")
    /\ UNCHANGED <<msgMenu, alongside, msg, isRead, optOut, template, receipts, reported, stat, recipient, hook>>
\* saveIncomingMessage: the row.
SaveMessage(e) ==
    /\ errand[e].op = "inbound" /\ errand[e].pc = "save" /\ Room
    /\ msg' = [msg EXCEPT ![LastMsg + 1] = [NoMsg EXCEPT !.is = TRUE, !.wamid = errand[e].w, !.status = "received"]]
    /\ errand' = [errand EXCEPT ![e].i = LastMsg + 1, ![e].pc = IF msgMenu.bot THEN "premark" ELSE "contact"]
    /\ UNCHANGED <<msgMenu, alongside, isRead, optOut, template, receipts, reported, stat, recipient, hook>>
\* What was sent from the phone is stored as sent.
processMessageEcho(e) ==
    /\ errand[e].op = "echo" /\ errand[e].pc = "save" /\ Room
    /\ msg' = [msg EXCEPT ![LastMsg + 1] = [NoMsg EXCEPT !.is = TRUE, !.out = TRUE, !.wamid = errand[e].w, !.status = "sent"]]
    /\ errand' = [errand EXCEPT ![e].i = LastMsg + 1, ![e].pc = "contact"]
    /\ UNCHANGED <<msgMenu, alongside, isRead, optOut, template, receipts, reported, stat, recipient, hook>>
\* What the chatbot will handle is marked read before its answer (willChatbotHandle).
PreMark(e) ==
    /\ errand[e].pc = "premark"
    /\ msg' = [msg EXCEPT ![errand[e].i].status = "read", ![errand[e].i].bot = TRUE]
    /\ Step(e, "contact")
    /\ UNCHANGED <<msgMenu, alongside, isRead, optOut, template, receipts, reported, stat, recipient, hook>>
\* The contact last: an inbound message makes the conversation unread, an echo makes it read.
TouchContact(e) ==
    /\ errand[e].op \in {"inbound", "echo"} /\ errand[e].pc = "contact"
    /\ isRead' = (errand[e].op = "echo")
    /\ Close(e, "ok")
    /\ UNCHANGED <<msgMenu, alongside, msg, optOut, template, receipts, reported, stat, recipient, hook>>
processMarketingPreference(e) ==
    /\ errand[e].op = "prefer" /\ errand[e].pc = "write"
    /\ \E stop \in BOOLEAN : optOut' = stop
    /\ Close(e, "ok")
    /\ UNCHANGED <<msgMenu, alongside, msg, isRead, template, receipts, reported, stat, recipient, hook>>
processTemplateStatusUpdate(e) ==
    /\ errand[e].op = "templateStatus" /\ errand[e].pc = "write"
    /\ template' = IF template = "APPROVED" THEN "PAUSED" ELSE "APPROVED"
    /\ Close(e, "ok")
    /\ UNCHANGED <<msgMenu, alongside, msg, isRead, optOut, receipts, reported, stat, recipient, hook>>

-------------------------------------------------------------------------------
(* Reading *)

\* The rows of a page, counted from the end: the last page is shorter.
Window(total, page) ==
    LET offset == total - page * PageLimit
    IN  IF offset < 0 THEN 1 .. (PageLimit + offset) ELSE offset + 1 .. offset + PageLimit
\* GetMessages: how many there are ...
CountMessages(e) ==
    /\ errand[e].op \in {"browse", "older"} /\ errand[e].pc = "count"
    /\ errand' = [errand EXCEPT ![e].pc = "fetch", ![e].total = LastMsg, ![e].page = @ + 1]
    /\ UNCHANGED <<msgMenu, alongside, msg, isRead, optOut, template, receipts, reported, stat, recipient, hook>>
\* ... then a page of them, after which the client asks for the next while has_more says so.
FetchPage(e) ==
    LET page == {i \in Window(errand[e].total, errand[e].page) : i <= LastMsg} IN
    /\ errand[e].op = "browse" /\ errand[e].pc = "fetch"
    /\ errand' = [errand EXCEPT ![e].pc = "unread", ![e].shown = @ \cup page, ![e].twice = @ \/ page \cap errand[e].shown # {}]
    /\ UNCHANGED <<msgMenu, alongside, msg, isRead, optOut, template, receipts, reported, stat, recipient, hook>>
\* before_id: the newest ones older than the oldest shown; nothing is marked.
FetchOlder(e) ==
    LET shown == errand[e].shown
        top   == IF shown = {} THEN LastMsg ELSE Min(shown) - 1
        page  == {i \in 1 .. top : i > top - PageLimit} IN
    /\ errand[e].op = "older" /\ errand[e].pc = "fetch"
    /\ errand' = [errand EXCEPT ![e].shown = @ \cup page, ![e].twice = @ \/ page \cap shown # {},
                                ![e].pc = IF Cardinality(page) = PageLimit THEN "count" ELSE "done"]
    /\ UNCHANGED <<msgMenu, alongside, msg, isRead, optOut, template, receipts, reported, stat, recipient, hook>>
\* markMessagesAsRead: list the unread ones ...
ListUnread(e) ==
    /\ errand[e].op \in {"browse", "markRead", "send"} /\ errand[e].pc = "unread"
    /\ errand' = [errand EXCEPT ![e].pc = "mark", ![e].list = {i \in MsgIds : msg[i].is /\ ~msg[i].out /\ msg[i].status # "read"}]
    /\ UNCHANGED <<msgMenu, alongside, msg, isRead, optOut, template, receipts, reported, stat, recipient, hook>>
\* ... mark every inbound one read ...
MarkRead(e) ==
    /\ errand[e].pc = "mark"
    /\ msg' = [i \in MsgIds |-> IF msg[i].is /\ ~msg[i].out THEN [msg[i] EXCEPT !.status = "read"] ELSE msg[i]]
    /\ Step(e, "flag")
    /\ UNCHANGED <<msgMenu, alongside, isRead, optOut, template, receipts, reported, stat, recipient, hook>>
\* ... then the contact ...
FlagRead(e) ==
    /\ errand[e].pc = "flag"
    /\ isRead' = TRUE
    /\ Step(e, "receipts")
    /\ UNCHANGED <<msgMenu, alongside, msg, optOut, template, receipts, reported, stat, recipient, hook>>
\* ... and tell WhatsApp, for the listed ones, when the account asks for it.
SendReceipts(e) ==
    /\ errand[e].pc = "receipts"
    /\ receipts' = IF msgMenu.receipts THEN receipts \cup {msg[i].wamid : i \in errand[e].list} ELSE receipts
    /\ IF errand[e].op = "browse" /\ errand[e].total > errand[e].page * PageLimit THEN Step(e, "count") ELSE Close(e, "ok")
    /\ UNCHANGED <<msgMenu, alongside, msg, isRead, optOut, template, reported, stat, recipient, hook>>

\* SendReaction and handleIncomingReaction: the reactions are read with the message ...
ReadReactions(e) ==
    LET i == ByWamid(errand[e].w) IN
    /\ errand[e].op = "react" /\ errand[e].pc = "find"
    /\ IF i = 0 THEN Close(e, "not found")
       ELSE errand' = [errand EXCEPT ![e].pc = "write", ![e].i = i, ![e].reacts = msg[i].reacts]
    /\ UNCHANGED <<msgMenu, alongside, msg, isRead, optOut, template, receipts, reported, stat, recipient, hook>>
\* ... and written back with this one's added, or replaced.
WriteReactions(e) ==
    /\ errand[e].op = "react" /\ errand[e].pc = "write"
    /\ msg' = [msg EXCEPT ![errand[e].i].reacts = errand[e].reacts \cup {errand[e].who}]
    /\ Close(e, "ok")
    /\ UNCHANGED <<msgMenu, alongside, isRead, optOut, template, receipts, reported, stat, recipient, hook>>

-------------------------------------------------------------------------------
(* Handing an event to the subscribers *)

Flying == {h \in Hooks : hook[h].pc \in {"try", "wait"}}
Waiting == {h \in Hooks : hook[h].pc = "idle" /\ h \in msgMenu.subscribed}
\* dispatchWebhookAsync: one goroutine each, as many at once as the semaphore allows.
AcquireSlot(e) ==
    /\ errand[e].op = "dispatch" /\ errand[e].pc = "run" /\ Cardinality(Flying) < MaxConcurrentWebhooks
    /\ \E h \in Waiting : hook' = [hook EXCEPT ![h].pc = "try"]
    /\ UNCHANGED <<msgMenu, alongside, msg, isRead, optOut, template, receipts, reported, stat, recipient, errand>>
\* sendWebhookRequest: answered, refused, or received and the answer lost.
sendWebhookRequest(h, r) ==
    [hook[h] EXCEPT !.tries = @ + 1, !.got = IF r = "refused" THEN @ ELSE @ + 1, !.lost = IF r = "lost" THEN @ + 1 ELSE @,
                    !.pc = IF r = "ok" \/ hook[h].tries + 1 = MaxRetries THEN "over" ELSE "wait"]
sendWebhook(e) ==
    /\ errand[e].op = "dispatch" /\ errand[e].pc \in {"run", "expired"}
    /\ \E h \in Flying :
        \/ /\ hook[h].pc = "try" /\ errand[e].pc = "run"
           /\ \E r \in {"ok", "refused", "lost"} : hook' = [hook EXCEPT ![h] = sendWebhookRequest(h, r)]
        \/ hook[h].pc = "wait" /\ errand[e].pc = "run" /\ hook' = [hook EXCEPT ![h].pc = "try"]     \* after the backoff
        \/ errand[e].pc = "expired" /\ hook' = [hook EXCEPT ![h].pc = "cancelled"]
    /\ UNCHANGED <<msgMenu, alongside, msg, isRead, optOut, template, receipts, reported, stat, recipient, errand>>
\* The two minutes of a dispatch pass.
DispatchExpires(e) ==
    /\ errand[e].op = "dispatch" /\ errand[e].pc = "run" /\ Step(e, "expired")
    /\ UNCHANGED <<msgMenu, alongside, msg, isRead, optOut, template, receipts, reported, stat, recipient, hook>>
DispatchEnds(e) ==
    /\ errand[e].op = "dispatch" /\ Flying = {}
    /\ \/ errand[e].pc = "run" /\ Waiting = {} /\ Close(e, "ok")
       \/ errand[e].pc = "expired" /\ Close(e, "expired")
    /\ UNCHANGED <<msgMenu, alongside, msg, isRead, optOut, template, receipts, reported, stat, recipient, hook>>

-------------------------------------------------------------------------------
Opening == [send |-> "load", status |-> "find", inbound |-> "find", echo |-> "find", prefer |-> "write", templateStatus |-> "write",
            browse |-> "count", older |-> "count", markRead |-> "unread", react |-> "find", recount |-> "find", dispatch |-> "run"]
\* A request or a notification arrives; at most `width` are in progress.
BeginErrand(e) ==
    LET plan == msgMenu.plan[e] IN
    /\ errand[e].pc = "new" /\ e \in DOMAIN msgMenu.plan /\ Cardinality(Busy) < msgMenu.width
    /\ \A f \in Errands : f < e /\ f \in DOMAIN msgMenu.plan /\ msgMenu.plan[f] = plan => errand[f].pc # "new"
    /\ plan.op = "status" => Emitted(plan.w)
    /\ errand' = [errand EXCEPT ![e].op = plan.op, ![e].pc = Opening[plan.op], ![e].w = plan.w, ![e].who = plan.who, ![e].kind = plan.kind,
                                ![e].had = 1 .. LastMsg, ![e].barred = optOut \/ template # "APPROVED"]
    /\ alongside' = alongside \cup {{plan.op, errand[f].op} : f \in Busy}
    /\ UNCHANGED <<msgMenu, msg, isRead, optOut, template, receipts, reported, stat, recipient, hook>>

MsgNext ==
    \E e \in Errands :
        \/ BeginErrand(e) \/ SendTemplateMessage(e) \/ SendMessage(e) \/ SendMediaMessage(e) \/ createOutgoingMessage(e) \/ CallWhatsApp(e) \/ finalizeMessageSend(e)
        \/ ReadStatus(e) \/ WriteStatus(e) \/ incrementCampaignStat(e) \/ UpdateRecipient(e) \/ CountStatuses(e) \/ recalculateCampaignStats(e)
        \/ FindDuplicate(e) \/ SaveMessage(e) \/ processMessageEcho(e) \/ PreMark(e) \/ TouchContact(e)
        \/ processMarketingPreference(e) \/ processTemplateStatusUpdate(e)
        \/ CountMessages(e) \/ FetchPage(e) \/ FetchOlder(e) \/ ListUnread(e) \/ MarkRead(e) \/ FlagRead(e) \/ SendReceipts(e)
        \/ ReadReactions(e) \/ WriteReactions(e)
        \/ AcquireSlot(e) \/ sendWebhook(e) \/ DispatchExpires(e) \/ DispatchEnds(e)

-------------------------------------------------------------------------------
(* Properties *)

\* The status of a sent message never goes back, in whatever order WhatsApp reports, unless two reports were handled
\* at once (updateMessageStatus reads before it writes).
StatusForward ==
    [][\A i \in MsgIds : msg[i].is /\ msg[i].out /\ statusPriority(msg'[i].status) < statusPriority(msg[i].status)
            => {"status"} \in alongside]_msgVars
\* When nothing is in progress a message shows the furthest status WhatsApp reported on it, unless two reports were handled at
\* once or one came before the sender knew the identifier.
StatusShown ==
    Busy = {} => \A i \in MsgIds : msg[i].is /\ msg[i].out /\ msg[i].wamid # 0 =>
        \/ {"status"} \in alongside \/ {"send", "status"} \in alongside
        \/ \A s \in reported[msg[i].wamid] : statusPriority(s) <= statusPriority(msg[i].status)
\* A recipient of a campaign shows what its message shows, and no message is counted twice as delivered or read, unless two
\* reports on it were handled at once or the counters were being counted again meanwhile (a repeated failure does count again).
CampaignCountsOnce ==
    \/ {"status"} \in alongside \/ {"status", "recount"} \in alongside
    \/ Busy = {} =>
        LET mailed == {i \in MsgIds : msg[i].is /\ msg[i].kind = "campaign"} IN
        /\ \A i \in mailed : recipient[i] = msg[i].status
        /\ \A s \in {"delivered", "read"} : stat[s] <= Cardinality({i \in mailed : reported[msg[i].wamid] \cap {s, "read"} # {}})
        /\ (\A e \in Errands : errand[e].op # "recount") =>
            \A s \in {"delivered", "read"} : stat[s] <= Cardinality({i \in mailed : s \in reported[msg[i].wamid]})
\* A message that WhatsApp took and answered for is found by its identifier once the send is over (finalizeMessageSend), so that
\* no later report on it is dropped; only a lost answer leaves it without, and then it is shown failed until the end.
AcceptedIsFound ==
    \A e \in Errands : errand[e].op = "send" /\ errand[e].pc = "done" /\ errand[e].i # 0 =>
        IF errand[e].took /\ errand[e].told # "lost" THEN ByWamid(errand[e].w) # 0 /\ msg[ByWamid(errand[e].w)].out
        ELSE msg[errand[e].i].wamid = 0 /\ msg[errand[e].i].status = "failed"
\* A message WhatsApp delivers again is not stored again, unless both deliveries were handled at once.
StoredOnce ==
    \A i, j \in MsgIds : i # j /\ msg[i].is /\ msg[j].is /\ msg[i].wamid = msg[j].wamid /\ msg[i].wamid # 0 =>
        \E pair \in alongside : pair \subseteq {"inbound", "echo"}
\* A marketing template is not sent to a contact that had opted out, nor one that is not approved, before the request came
\* (unless the preference or the approval was changing meanwhile).
MarketingAllowed ==
    \A e \in Errands : errand[e].op = "send" /\ errand[e].kind = "marketing" /\ errand[e].i # 0 /\ errand[e].barred => {"prefer", "send"} \in alongside \/ {"templateStatus", "send"} \in alongside
\* Who walks the history back, page by page while there is more, is shown all that was there at the start.
WalkShowsAll == \A e \in Errands : errand[e].op \in {"browse", "older"} /\ errand[e].pc = "done" => errand[e].had \subseteq errand[e].shown
\* and nothing twice, unless messages arrived meanwhile and the pages were counted from the end.
WalkShowsOnce ==
    \A e \in Errands : errand[e].twice => errand[e].op = "browse" /\ \E o \in {"send", "inbound", "echo"} : {"browse", o} \in alongside
\* When nothing is in progress, an unread message shows in the flag of the conversation, unless the reading met the
\* arrival or an echo came (which clears the flag and leaves the messages).
UnreadIsFlagged ==
    Busy = {} /\ (\E i \in MsgIds : msg[i].is /\ msg[i].status = "received") =>
        \/ ~isRead
        \/ \E o \in {"browse", "markRead", "send"} : {"inbound", o} \in alongside
        \/ \E e \in Errands : errand[e].op = "echo"
\* With read receipts on, WhatsApp is told of every message an agent's reading marked, and of no other, unless the reading met
\* the arrival or another reading (the receipts go to those listed before marking).
ReceiptsMatch ==
    /\ \A w \in receipts : \E i \in MsgIds : msg[i].wamid = w /\ msg[i].status = "read"
    /\ Busy = {} /\ msgMenu.receipts => \A i \in MsgIds : msg[i].is /\ ~msg[i].out /\ msg[i].status = "read" /\ ~msg[i].bot =>
        msg[i].wamid \in receipts \/ \E o \in {"browse", "markRead", "send"} : {"inbound", o} \in alongside
\* A reaction stays until the same person changes it, unless two were handled at once.
ReactionsStay ==
    \A e \in Errands : errand[e].op = "react" /\ errand[e].told = "ok" => errand[e].who \in msg[errand[e].i].reacts \/ {"react"} \in alongside
\* A subscriber is tried until it answers or three times, gets an event twice only when an answer was lost, and no more of
\* them are called at once than the semaphore allows.
HooksServed ==
    /\ Cardinality(Flying) <= MaxConcurrentWebhooks
    /\ \A h \in Hooks : hook[h].got <= hook[h].lost + 1 /\ (hook[h].got > 0 => h \in msgMenu.subscribed)
    /\ \A e \in Errands : errand[e].op = "dispatch" /\ errand[e].told = "ok" =>
        \A h \in msgMenu.subscribed : hook[h].got > 0 \/ hook[h].tries = MaxRetries

\* However deliveries, statuses, echoes, readings and reactions overlap: each message is
\* stored and accounted for once, every page walk shows all and nothing twice, and the
\* flags and receipts agree with the rows.
MessagesConsistent ==
    MsgTypeOK /\ StatusShown /\ AcceptedIsFound /\ StoredOnce /\ MarketingAllowed /\ WalkShowsAll
        /\ WalkShowsOnce /\ UnreadIsFlagged /\ ReceiptsMatch /\ ReactionsStay /\ HooksServed
        /\ CampaignCountsOnce
================================================================================
