------------------------------ MODULE UsageLedger ------------------------------
(***************************************************************************)
(* The ledger of what WhatsApp charges.  Every message has one row; the    *)
(* row is found by the message and, once the API accepted the send, by the *)
(* identifier WhatsApp gave it.  Status events arrive by that identifier,  *)
(* before or after it is known, repeated and out of order, and every one   *)
(* recomputes the row from all of them.  An integrity job completes what   *)
(* failed to be recorded, a switch stops the recording of an organisation, *)
(* and a table of prices, edited meanwhile, says what a message costs.     *)
(***************************************************************************)
EXTENDS Naturals, FiniteSets, FiniteSetsExt

CONSTANTS
    Posts,              \* messages; the identifier WhatsApp gives one is named after it
    RateIds,            \* prices
    Servers,            \* processes, each with its own cache of the switch
    Tasks, MaxTick,     \* bounds: requests in one behaviour, days
    IntegrityInterval, UnlinkedAfter, UndeliveredAfter, \* in days
    UsageMenus

Ticks == 0 .. MaxTick
Rate == [is : BOOLEAN, wide : BOOLEAN, from : Ticks, to : Ticks, cost : Nat]
\* parseRate: a price is open or ends on or after its first day.
Offered(p) == p \in Rate /\ p.is /\ (p.to = 0 \/ p.from <= p.to)
Meet(p, q) == p.wide = q.wide /\ p.from <= q.from /\ (p.to = 0 \/ p.to >= q.from)
\* The first step of each request.
FirstStep == [send |-> "create", receive |-> "create", echo |-> "create", event |-> "append", sweep |-> "sweep", reprice |-> "list",
              switch |-> "flip", rateAdd |-> "check", rateEdit |-> "check", rateDrop |-> "check"]
Posting == {"send", "receive", "echo"}

ASSUME UsageAssumption ==
    /\ {MaxTick, IntegrityInterval, UnlinkedAfter, UndeliveredAfter} \subseteq Nat
    /\ RateIds \subseteq Nat \ {0}
    /\ IsFiniteSet(Posts) /\ 0 \notin Posts /\ Servers # {}
    /\ \A u \in UsageMenus :
        /\ u.ticks \in Ticks
        /\ \A t \in DOMAIN u.plan :
            u.plan[t].op \in DOMAIN FirstStep /\ u.plan[t].on \in Servers /\ u.plan[t].m \in Posts
        \* A message is written once.
        /\ \A t, v \in DOMAIN u.plan : {u.plan[t].op, u.plan[v].op} \subseteq Posting /\ u.plan[t].m = u.plan[v].m => t = v
        /\ \A e \in u.events : e.m \in Posts /\ e.status \in {"sent", "delivered", "read", "failed"} /\ e.at \in Nat
                               /\ e.price \in {"none", "charged", "free"}
        \* WhatsApp reports on no identifier before the API gave it, and on none of a customer's message.
        /\ u.foreign => \A e \in u.events, t \in DOMAIN u.plan : u.plan[t].op \in {"send", "receive"} => u.plan[t].m # e.m
        /\ \A p \in u.offers : Offered(p)
        \* A behaviour begins with prices that are in force on different days.
        /\ \A i \in DOMAIN u.rates : Offered(u.rates[i])
        /\ \A i, j \in DOMAIN u.rates : i # j => ~Meet(u.rates[i], u.rates[j])

VARIABLES
    usageMenu, tick,
    post,       \* messages
    own,        \* message_usage rows of a message
    orphan,     \* message_usage rows of an identifier no message is known for
    told,       \* message_pricing_events
    price,      \* whatsapp_rates
    panel,      \* the switch in organizations.settings
    kept,       \* the switch as each server remembers it
    asked,      \* the value a server read and has not yet remembered
    task,
    coincided   \* which kinds of requests were in progress together: history

usageVars == <<usageMenu, tick, post, own, orphan, told, price, panel, kept, asked, task, coincided>>

BillingStates == {"pending", "priced", "no_rate", "awaiting_pricing", "unconfirmed", "failed", "not_billable", "send_failed"}
MessageUsage == [is : BOOLEAN, out : BOOLEAN, wamid : BOOLEAN, state : BillingStates, rate : RateIds \cup {0}, cost : Nat,
                 at : Ticks, born : Ticks]
NoUsage == [is |-> FALSE, out |-> TRUE, wamid |-> FALSE, state |-> "pending", rate |-> 0, cost |-> 0, at |-> 0, born |-> 0]
StatusEvent == [status : {"sent", "delivered", "read", "failed"}, at : Ticks, price : {"none", "charged", "free"}, recv : Ticks]
NoRate == [is |-> FALSE, wide |-> FALSE, from |-> 0, to |-> 0, cost |-> 0]
NoPost == [is |-> FALSE, out |-> TRUE, wamid |-> FALSE, status |-> "pending", at |-> 0, off |-> FALSE]
NoTask == [op |-> "none", on |-> CHOOSE s \in Servers : TRUE, m |-> 0, pc |-> "new", list |-> {}, cur |-> [m |-> 0], base |-> 0,
           due |-> {}, rate |-> NoRate, id |-> 0, saw |-> "", said |-> ""]

UsageTypeOK ==
    /\ tick \in Ticks
    /\ own \in [Posts -> MessageUsage] /\ orphan \in [Posts -> MessageUsage]
    /\ \A m \in Posts : post[m].at \in Ticks /\ told[m] \subseteq StatusEvent
    /\ price \in [RateIds -> Rate]
    /\ panel \in [on : BOOLEAN, at : Ticks]
    /\ kept \in [Servers -> {"cold", "on", "off"}] /\ asked \in [Servers -> {"no", "on", "off"}]
    /\ \A m \in Posts : ~(own[m].is /\ own[m].wamid /\ orphan[m].is)    \* idx_message_usage_org_wamid

UsageSetUp(menus) ==
    /\ usageMenu \in menus /\ tick = 0
    /\ post = [m \in Posts |-> NoPost] /\ own = [m \in Posts |-> NoUsage] /\ orphan = own
    /\ told = [m \in Posts |-> {}]
    /\ price = [i \in RateIds |-> IF i \in DOMAIN usageMenu.rates THEN usageMenu.rates[i] ELSE NoRate]
    /\ panel = [on |-> TRUE, at |-> 0]
    /\ kept = [s \in Servers |-> IF usageMenu.cold THEN "cold" ELSE "on"] /\ asked = [s \in Servers |-> "no"]
    /\ task = [t \in Tasks |-> NoTask] /\ coincided = {}
UsageInit == UsageSetUp(UsageMenus)
UsageEnded == UsageSetUp({[plan |-> <<>>, width |-> 0, events |-> {}, rates |-> <<>>, offers |-> {}, cold |-> FALSE, fails |-> FALSE, foreign |-> FALSE, ticks |-> 0]})

Going == {t \in Tasks : task[t].pc \notin {"new", "done"}}
Onto(t, pc) == task' = [task EXCEPT ![t].pc = pc]
Said(t, what) == task' = [task EXCEPT ![t].pc = "done", ![t].said = what]
Same(vs) == UNCHANGED vs /\ UNCHANGED <<usageMenu, tick, coincided, asked>>

\* The server switch is on; the panel switch is taken from the cache, which the caller fills first when it is cold.
EnabledFor(s) == kept[s] = "on"
Knows(s) == kept[s] # "cold"

-------------------------------------------------------------------------------
(* What a row is worth *)

\* The exact country before the fallback, the latest start first; two that tie are in no order.
LookupRate(day) ==
    LET valid == {i \in RateIds : price[i].is /\ price[i].from <= day /\ (price[i].to = 0 \/ price[i].to >= day)}
        near  == IF \E i \in valid : ~price[i].wide THEN {i \in valid : ~price[i].wide} ELSE valid
    IN  IF valid = {} THEN {0} ELSE {i \in near : \A j \in near : price[j].from <= price[i].from}

DeliveredIn(evs) == \E e \in evs : e.status \in {"delivered", "read"}
FailedIn(evs) == \E e \in evs : e.status = "failed"
\* pricingOf the most recent event that carried any
latestPricing(evs) ==
    LET with == {e \in evs : e.price # "none"}
    IN  IF with = {} THEN (IF FailedIn(evs) THEN "free" ELSE "unknown")
        ELSE (CHOOSE e \in with : \A f \in with : f.at <= e.at).price

Compute_LastWord(row, evs, r, now) ==
    [row EXCEPT !.state = IF FailedIn(evs) THEN "failed" ELSE IF DeliveredIn(evs) THEN "awaiting_pricing" ELSE "pending"]
Compute(row, evs, r, now) ==
    LET bill  == latestPricing(evs)
        state == IF FailedIn(evs) /\ bill # "charged" THEN "failed"
                 ELSE IF bill = "free" THEN "not_billable"
                 ELSE IF bill = "charged" THEN (IF r = 0 THEN "no_rate" ELSE "priced")
                 ELSE IF DeliveredIn(evs) THEN "awaiting_pricing"
                 ELSE IF now >= row.at + UndeliveredAfter THEN "unconfirmed" ELSE "pending"
    IN  IF row.state = "send_failed" THEN row
        ELSE IF ~row.out THEN [row EXCEPT !.state = "not_billable", !.rate = 0, !.cost = 0]
        ELSE [row EXCEPT !.state = state, !.rate = IF state = "priced" THEN r ELSE 0,
                         !.cost = IF state = "priced" THEN price[r].cost ELSE 0]

\* settleRow, with the row of the identifier locked
settleRow(m) ==
    /\ own[m].is /\ own[m].wamid =>
        \E r \in LookupRate(own[m].at) : own' = [own EXCEPT ![m] = Compute(@, told[m], r, tick)] /\ UNCHANGED orphan
    /\ orphan[m].is =>
        \E r \in LookupRate(orphan[m].at) : orphan' = [orphan EXCEPT ![m] = Compute(@, told[m], r, tick)] /\ UNCHANGED own
    /\ ~(own[m].is /\ own[m].wamid) /\ ~orphan[m].is => UNCHANGED <<own, orphan>>
Settle(s, m) == Knows(s) /\ IF EnabledFor(s) THEN settleRow(m) ELSE UNCHANGED <<own, orphan>>

-------------------------------------------------------------------------------
(* Recording a message *)

RowWith(out, wamid, at) == [is |-> TRUE, out |-> out, wamid |-> wamid, state |-> IF out THEN "pending" ELSE "not_billable",
                            rate |-> 0, cost |-> 0, at |-> at, born |-> tick]
\* Insert unless one of the unique keys is taken; an unlinked row of the identifier becomes the message's.
Record(s, m, out, wamid, at) ==
    /\ Knows(s)
    /\ own' = IF ~EnabledFor(s) \/ own[m].is THEN own
              ELSE IF wamid /\ orphan[m].is THEN [own EXCEPT ![m] = [orphan[m] EXCEPT !.out = out, !.at = at]]
              ELSE [own EXCEPT ![m] = RowWith(out, wamid, at)]
    /\ orphan' = IF EnabledFor(s) /\ ~own[m].is /\ wamid THEN [orphan EXCEPT ![m] = NoUsage] ELSE orphan
MarkSendFailed(s, m) ==
    /\ Knows(s)
    /\ own' = IF EnabledFor(s) /\ own[m].is /\ ~own[m].wamid THEN [own EXCEPT ![m].state = "send_failed"] ELSE own

OffEverywhere == ~panel.on /\ \A s \in Servers : kept[s] # "on" /\ asked[s] # "on"
\* SendOutgoingMessage, an inbound message and an echo of the business app: the row of the message comes first.
CreatePost(t) ==
    /\ task[t].op \in Posting /\ task[t].pc = "create"
    /\ post' = [post EXCEPT ![task[t].m] = [is |-> TRUE, out |-> task[t].op # "receive", wamid |-> task[t].op # "send",
                                            status |-> IF task[t].op = "send" THEN "pending" ELSE "sent", at |-> tick, off |-> OffEverywhere]]
    /\ Onto(t, "record")
    /\ Same(<<own, orphan, told, price, panel, kept>>)
\* recordMessageUsage is fail-open: an error is logged and the send goes on.
RecordUsage(t) ==
    LET m == task[t].m IN
    /\ task[t].pc = "record"
    /\ \/ Record(task[t].on, m, post[m].out, post[m].wamid, post[m].at)
       \/ usageMenu.fails /\ UNCHANGED <<own, orphan>>
    /\ CASE task[t].op = "send" -> Onto(t, "api") [] task[t].op = "echo" -> Onto(t, "attach") [] OTHER -> Said(t, "ok")
    /\ Same(<<post, told, price, panel, kept>>)
\* finalizeMessageSend: what the API answered.
FinalizeSend(t) ==
    LET m == task[t].m IN
    /\ task[t].pc = "api"
    /\ \/ post' = [post EXCEPT ![m].status = "sent", ![m].wamid = TRUE] /\ Onto(t, "attach")
       \/ post' = [post EXCEPT ![m].status = "failed"] /\ Onto(t, "refused")
    /\ Same(<<own, orphan, told, price, panel, kept>>)
SendRefused(t) ==
    /\ task[t].pc = "refused"
    /\ MarkSendFailed(task[t].on, task[t].m) /\ Said(t, "refused")
    /\ Same(<<post, orphan, told, price, panel, kept>>)
\* AttachWamid, a transaction: with no row of its own the message adopts the unlinked one ...
AttachRead(t) ==
    LET m == task[t].m
        s == task[t].on IN
    /\ task[t].pc = "attach" /\ Knows(s)
    /\ CASE ~EnabledFor(s) -> Said(t, "off") /\ UNCHANGED <<own, orphan>>
         [] EnabledFor(s) /\ ~own[m].is ->
                /\ own' = IF orphan[m].is THEN [own EXCEPT ![m] = orphan[m]] ELSE own
                /\ orphan' = [orphan EXCEPT ![m] = NoUsage]
                /\ Onto(t, "settle")
         [] EnabledFor(s) /\ own[m].is /\ own[m].wamid -> Onto(t, "settle") /\ UNCHANGED <<own, orphan>>
         [] OTHER -> task' = [task EXCEPT ![t].pc = "link", ![t].saw = IF orphan[m].is THEN "orphan" ELSE "none"] /\ UNCHANGED <<own, orphan>>
    /\ Same(<<post, told, price, panel, kept>>)
\* An error, or the server stopping, between the message and its ledger row: logged at most.
AttachLost(t) ==
    /\ task[t].pc = "attach" /\ usageMenu.fails /\ Said(t, "unattached")
    /\ Same(<<post, own, orphan, told, price, panel, kept>>)
\* ... else it deletes the unlinked one and takes the identifier; one inserted meanwhile makes the transaction fail.
AttachLink(t) ==
    LET m == task[t].m IN
    /\ task[t].pc = "link"
    /\ IF task[t].saw = "none" /\ orphan[m].is
       THEN Said(t, "conflict") /\ UNCHANGED <<own, orphan>>
       ELSE /\ own' = [own EXCEPT ![m].wamid = TRUE]
            /\ orphan' = [orphan EXCEPT ![m] = NoUsage]
            /\ Onto(t, "settle")
    /\ Same(<<post, told, price, panel, kept>>)
\* The last step of a send, an event and an inferred row; a server that stops here settles nothing.
SettleOne(t) ==
    /\ task[t].pc = "settle"
    /\ \/ Settle(task[t].on, task[t].m) /\ Said(t, "ok")
       \/ usageMenu.fails /\ UNCHANGED <<own, orphan>> /\ Said(t, "stopped")
    /\ Same(<<post, told, price, panel, kept>>)

\* WhatsApp reports on what it accepted, which it may have done although the answer was lost, and on what others sent.
Reported(m) == IF post[m].is THEN post[m].out /\ \A t \in Tasks : task[t].op = "send" /\ task[t].m = m => task[t].pc # "record"
               ELSE usageMenu.foreign
\* recordStatusUsage: append the event; the same one again changes nothing and is not settled.
RecordStatusEvent(t) ==
    /\ task[t].op = "event" /\ task[t].pc = "append" /\ Knows(task[t].on)
    /\ \E e \in usageMenu.events :
        /\ task[t].m = e.m /\ e.at <= tick /\ Reported(e.m)
        /\ IF EnabledFor(task[t].on) /\ ~\E f \in told[e.m] : f.status = e.status /\ f.at = e.at
           THEN /\ told' = [told EXCEPT ![e.m] = @ \cup {[status |-> e.status, at |-> e.at, price |-> e.price, recv |-> tick]}]
                /\ Onto(t, "settle")
           ELSE UNCHANGED told /\ Said(t, "ignored")
    /\ Same(<<post, own, orphan, price, panel, kept>>)

-------------------------------------------------------------------------------
(* The integrity job *)

HasWamidRow(m) == (own[m].is /\ own[m].wamid) \/ orphan[m].is
LedgerRows == {own[m] : m \in {x \in Posts : own[x].is}} \cup {orphan[m] : m \in {x \in Posts : orphan[x].is}}
\* The measurement starts with the oldest row, and again when the switch was last flipped.
baseline == Min({r.born : r \in LedgerRows})
Since(base) == Max({base, panel.at})

SweepStarts(t) ==
    /\ task[t].op = "sweep" /\ task[t].pc = "sweep"
    /\ IF LedgerRows = {} THEN Said(t, "no baseline") ELSE task' = [task EXCEPT ![t].pc = "missing", ![t].base = baseline]
    /\ Same(<<post, own, orphan, told, price, panel, kept>>)
\* sweepMissingRows: the messages without a row, as they are now.
SweepMissing(t) ==
    LET found == {m \in Posts : /\ panel.on /\ post[m].is /\ ~own[m].is
                                /\ post[m].at + IntegrityInterval <= tick /\ post[m].at >= Since(task[t].base)} IN
    /\ task[t].pc = "missing"
    /\ task' = [task EXCEPT ![t].pc = "infer", ![t].list = {[m |-> m, wamid |-> post[m].wamid, status |-> post[m].status] : m \in found},
                            ![t].due = found]
    /\ Same(<<post, own, orphan, told, price, panel, kept>>)
\* recordInferred: the row first ...
InferRow(t) ==
    /\ task[t].pc = "infer"
    /\ IF task[t].list = {} THEN Onto(t, "unlinked") /\ UNCHANGED <<own, orphan>>
       ELSE \E x \in task[t].list :
                /\ Record(task[t].on, x.m, post[x.m].out, x.wamid, post[x.m].at)
                /\ task' = [task EXCEPT ![t].pc = "inferred", ![t].list = @ \ {x}, ![t].cur = x]
    /\ Same(<<post, told, price, panel, kept>>)
\* ... then its state.
InferState(t) ==
    LET x == task[t].cur
        s == task[t].on IN
    /\ task[t].pc = "inferred"
    /\ IF post[x.m].out /\ ~x.wamid /\ x.status = "failed" THEN MarkSendFailed(s, x.m) /\ UNCHANGED orphan
       ELSE IF x.wamid THEN Settle(s, x.m)
       ELSE UNCHANGED <<own, orphan>>
    /\ Onto(t, "infer")
    /\ Same(<<post, told, price, panel, kept>>)
\* sweepUnlinked: identifiers reported on for long enough, whose sending was witnessed, without a row.
SweepUnlinked(t) ==
    LET since == Since(task[t].base)
        found == {m \in Posts : /\ panel.on /\ ~HasWamidRow(m)
                                /\ ~(post[m].is /\ post[m].wamid /\ post[m].at < since)
                                /\ \E e \in told[m] : e.status = "sent" /\ e.at >= since
                                /\ \E e \in told[m] : e.recv + UnlinkedAfter <= tick} IN
    /\ task[t].pc = "unlinked"
    /\ task' = [task EXCEPT ![t].pc = "adopt", ![t].list = {[m |-> m] : m \in found}]
    /\ Same(<<post, own, orphan, told, price, panel, kept>>)
InsertUnlinked(t) ==
    /\ task[t].pc = "adopt"
    /\ IF task[t].list = {} THEN Onto(t, "pending") /\ UNCHANGED orphan
       ELSE \E x \in task[t].list :
                IF HasWamidRow(x.m) THEN task' = [task EXCEPT ![t].list = @ \ {x}] /\ UNCHANGED orphan
                ELSE /\ orphan' = [orphan EXCEPT ![x.m] = RowWith(TRUE, TRUE, Min({e.at : e \in told[x.m]}))]
                     /\ task' = [task EXCEPT ![t].pc = "adopted", ![t].list = @ \ {x}, ![t].cur = x]
    /\ Same(<<post, own, told, price, panel, kept>>)
SettleUnlinked(t) ==
    /\ task[t].pc = "adopted"
    /\ Settle(task[t].on, task[t].cur.m) /\ Onto(t, "adopt")
    /\ Same(<<post, told, price, panel, kept>>)
\* sweepPending: pending rows past the deadline, or with an outcome nobody settled.
SweepPending(t) ==
    LET PendingRow(r, m) == /\ r.is /\ r.wamid /\ r.state = "pending"
                            /\ (r.at + UndeliveredAfter <= tick \/ DeliveredIn(told[m]) \/ FailedIn(told[m])) IN
    /\ task[t].pc = "pending"
    /\ task' = [task EXCEPT ![t].pc = "resettle", ![t].list =
                    {[m |-> m] : m \in {x \in Posts : panel.on /\ (PendingRow(own[x], x) \/ PendingRow(orphan[x], x))}}]
    /\ Same(<<post, own, orphan, told, price, panel, kept>>)
\* The pages of sweepPending and of Reprice; the latter asks only for the server switch.
Resettle(t) ==
    /\ task[t].pc = "resettle"
    /\ IF task[t].list = {} THEN Said(t, "ok") /\ UNCHANGED <<own, orphan>>
       ELSE \E x \in task[t].list :
                /\ IF task[t].op = "reprice" THEN settleRow(x.m) ELSE Settle(task[t].on, x.m)
                /\ task' = [task EXCEPT ![t].list = @ \ {x}]
    /\ Same(<<post, told, price, panel, kept>>)
Reprice(t) ==
    LET Waits(r) == r.is /\ r.wamid /\ r.state \in {"no_rate", "awaiting_pricing", "unconfirmed"} IN
    /\ task[t].op = "reprice" /\ task[t].pc = "list"
    /\ task' = [task EXCEPT ![t].pc = "resettle", ![t].list = {[m |-> m] : m \in {x \in Posts : Waits(own[x]) \/ Waits(orphan[x])}}]
    /\ Same(<<post, own, orphan, told, price, panel, kept>>)

-------------------------------------------------------------------------------
(* The switch *)

\* SetRecording: the database, then the cache of this server.
SwitchRecording(t) ==
    /\ task[t].op = "switch" /\ task[t].pc = "flip"
    /\ tick < MaxTick /\ tick' = tick + 1      \* changed_at is an instant of its own
    /\ panel' = [on |-> ~panel.on, at |-> tick + 1]
    /\ kept' = [kept EXCEPT ![task[t].on] = IF panel.on THEN "off" ELSE "on"]
    /\ Said(t, "ok")
    /\ UNCHANGED <<usageMenu, coincided, asked, post, own, orphan, told, price>>
\* EnabledFor on a cold cache reads the database ...
ReadSwitch(s) ==
    /\ kept[s] = "cold" /\ asked[s] = "no" /\ \E t \in Going : task[t].on = s /\ task[t].op # "switch"
    /\ asked' = [asked EXCEPT ![s] = IF panel.on THEN "on" ELSE "off"]
    /\ UNCHANGED <<usageMenu, tick, coincided, post, own, orphan, told, price, panel, kept, task>>
\* ... and then remembers it, whatever was remembered meanwhile.
RememberSwitch(s) ==
    /\ asked[s] # "no"
    /\ kept' = [kept EXCEPT ![s] = asked[s]] /\ asked' = [asked EXCEPT ![s] = "no"]
    /\ UNCHANGED <<usageMenu, tick, coincided, post, own, orphan, told, price, panel, task>>

-------------------------------------------------------------------------------
(* The prices *)

rateOverlaps(p, except) ==
    \E i \in RateIds \ {except} : /\ price[i].is /\ price[i].wide = p.wide
                                  /\ (price[i].to = 0 \/ price[i].to >= p.from) /\ (p.to = 0 \/ price[i].from <= p.to)
SameStart(p, except) == \E i \in RateIds \ {except} : price[i].is /\ price[i].wide = p.wide /\ price[i].from = p.from
PricedWith(i) == {r \in LedgerRows : r.rate = i}
CreateRate(t) ==
    /\ task[t].op = "rateAdd"
    /\ \/ /\ task[t].pc = "check"
          /\ \E p \in usageMenu.offers : IF rateOverlaps(p, 0) THEN Said(t, "overlap")
                                ELSE task' = [task EXCEPT ![t].pc = "save", ![t].rate = p]
          /\ UNCHANGED price
       \/ /\ task[t].pc = "save"
          /\ IF SameStart(task[t].rate, 0) \/ \A i \in RateIds : price[i].is THEN Said(t, "taken") /\ UNCHANGED price
             ELSE price' = [price EXCEPT ![CHOOSE i \in RateIds : ~price[i].is] = task[t].rate] /\ Said(t, "ok")
    /\ Same(<<post, own, orphan, told, panel, kept>>)
\* A price that messages used keeps all but its open end, which closes on or after the last of them.
mayEdit(i, p) ==
    PricedWith(i) # {} =>
        /\ p = [price[i] EXCEPT !.to = p.to]
        /\ \/ p.to = price[i].to
           \/ price[i].to = 0 /\ p.to >= Max({r.at : r \in PricedWith(i)})
UpdateRate(t) ==
    /\ task[t].op = "rateEdit"
    /\ \/ /\ task[t].pc = "check"
          /\ \E i \in RateIds, p \in usageMenu.offers :
                /\ price[i].is
                /\ IF ~mayEdit(i, p) THEN Said(t, "in use")
                   ELSE IF rateOverlaps(p, i) THEN Said(t, "overlap")
                   ELSE task' = [task EXCEPT ![t].pc = "save", ![t].id = i, ![t].rate = p]
          /\ UNCHANGED price
       \/ /\ task[t].pc = "save"
          /\ IF SameStart(task[t].rate, task[t].id) THEN Said(t, "taken") /\ UNCHANGED price
             ELSE price' = [price EXCEPT ![task[t].id] = task[t].rate] /\ Said(t, "ok")
    /\ Same(<<post, own, orphan, told, panel, kept>>)
DeleteRate(t) ==
    /\ task[t].op = "rateDrop"
    /\ \/ /\ task[t].pc = "check"
          /\ \E i \in RateIds :
                /\ price[i].is
                /\ IF PricedWith(i) # {} THEN Said(t, "in use") ELSE task' = [task EXCEPT ![t].pc = "save", ![t].id = i]
          /\ UNCHANGED price
       \/ task[t].pc = "save" /\ price' = [price EXCEPT ![task[t].id] = NoRate] /\ Said(t, "ok")
    /\ Same(<<post, own, orphan, told, panel, kept>>)

-------------------------------------------------------------------------------
\* A request, a webhook or a tick of the job begins; at most `width` are in progress.
BeginTask(t) ==
    /\ task[t].pc = "new" /\ t \in DOMAIN usageMenu.plan /\ Cardinality(Going) < usageMenu.width
    /\ \A u \in Tasks : u < t /\ u \in DOMAIN usageMenu.plan /\ usageMenu.plan[u] = usageMenu.plan[t] => task[u].pc # "new"
    /\ usageMenu.plan[t].op = "sweep" => \A u \in Going : task[u].op # "sweep"
    /\ task' = [task EXCEPT ![t].op = usageMenu.plan[t].op, ![t].on = usageMenu.plan[t].on, ![t].m = usageMenu.plan[t].m,
                            ![t].pc = FirstStep[usageMenu.plan[t].op]]
    /\ coincided' = coincided \cup {{usageMenu.plan[t].op, task[u].op} : u \in Going}
    /\ UNCHANGED <<usageMenu, tick, asked, post, own, orphan, told, price, panel, kept>>
\* Time passes; what a server remembers of the switch expires.
DayPasses ==
    /\ tick < usageMenu.ticks /\ tick' = tick + 1
    /\ kept' = IF usageMenu.cold THEN [s \in Servers |-> "cold"] ELSE kept
    /\ UNCHANGED <<usageMenu, coincided, asked, post, own, orphan, told, price, panel, task>>

UsageNext ==
    \/ \E t \in Tasks :
        \/ BeginTask(t) \/ CreatePost(t) \/ RecordUsage(t) \/ FinalizeSend(t) \/ SendRefused(t) \/ AttachRead(t) \/ AttachLost(t) \/ AttachLink(t)
        \/ SettleOne(t) \/ RecordStatusEvent(t) \/ SweepStarts(t) \/ SweepMissing(t) \/ InferRow(t) \/ InferState(t)
        \/ SweepUnlinked(t) \/ InsertUnlinked(t) \/ SettleUnlinked(t) \/ SweepPending(t) \/ Resettle(t) \/ Reprice(t)
        \/ SwitchRecording(t) \/ CreateRate(t) \/ UpdateRate(t) \/ DeleteRate(t)
    \/ \E s \in Servers : ReadSwitch(s) \/ RememberSwitch(s)
    \/ DayPasses

UsageSpec == UsageInit /\ [][UsageNext]_usageVars

-------------------------------------------------------------------------------
(* Properties *)

Flipped == panel.at > 0 \/ ~panel.on \/ \E t \in Tasks : task[t].op = "switch"
Verdict(evs) == IF FailedIn(evs) /\ latestPricing(evs) # "charged" THEN {"failed"}
                ELSE IF latestPricing(evs) = "free" THEN {"not_billable"}
                ELSE IF latestPricing(evs) = "charged" THEN {"priced", "no_rate"}
                ELSE IF DeliveredIn(evs) THEN {"awaiting_pricing"} ELSE {"pending", "unconfirmed"}
\* When nothing is in progress, no server stopped half-way and the switch was never touched, every row that has an
\* identifier says what all the events say, in whatever order, however often and however early they came (Compute, Settle).
EventsDecide ==
    Going = {} /\ ~Flipped /\ (\A t \in Tasks : task[t].said \notin {"stopped", "unattached"}) =>
        \A m \in Posts : \A r \in {own[m], orphan[m]} :
            r.is /\ r.wamid /\ r.out /\ r.state # "send_failed" => r.state \in Verdict(told[m])
\* A message whose identifier is known is not counted a second time by the row made for an identifier without a
\* message, unless the sending met the integrity job, failed to attach it or found the recording off by then.
CountedOnce ==
    \A m \in Posts : post[m].wamid /\ own[m].is /\ orphan[m].is =>
        \/ {"send", "sweep"} \in coincided
        \/ \E t \in Tasks : task[t].m = m /\ task[t].said \in {"unattached", "off"}
\* A row that its message has adopted, with another day, and that nobody has settled yet or ever will.
InForce(p, day) == p.from <= day /\ (p.to = 0 \/ p.to >= day)
Unsettled(m) ==
    \/ \E t \in Tasks : task[t].m = m /\ (task[t].pc \in {"attach", "settle"} \/ task[t].said \in {"unattached", "stopped"})
    \/ \E t \in Tasks : task[t].pc = "inferred" /\ task[t].cur.m = m /\ task[t].cur.wamid
\* A row with a price has it from a price that is still in the table, still the same and, once settled, in force on its
\* day, unless the table was changed while a row was being settled (rateUsage is checked before the change) or the
\* switch kept the row from being settled.
PriceHonest ==
    \A m \in Posts : \A r \in {own[m], orphan[m]} : r.is /\ r.state = "priced" =>
        \/ LET p == price[r.rate] IN p.is /\ p.cost = r.cost /\ (InForce(p, r.at) \/ Unsettled(m) \/ Flipped)
        \/ \E pair \in coincided : /\ pair \cap {"rateEdit", "rateDrop"} # {}
                                    /\ pair \cap {"send", "echo", "event", "sweep", "reprice"} # {}
\* Two prices of a country are never in force on the same day, unless two changes of the table met.
RatesDisjoint ==
    \A i, j \in RateIds : i # j /\ price[i].is /\ price[j].is /\ Meet(price[i], price[j]) =>
        \E pair \in coincided : pair \subseteq {"rateAdd", "rateEdit"}
\* What was sent while the switch was off is never counted, not even by the integrity job after it is on again, unless
\* the switch was turned while the message was being sent.
NeverReconstructed ==
    \A m \in Posts : post[m].off /\ own[m].is =>
        \E op \in Posting : {op, "switch"} \in coincided
\* A pass of the integrity job that ends leaves no message it found without a row, unless the switch was turned meanwhile.
SweepCompletes ==
    \A t \in Tasks : task[t].op = "sweep" /\ task[t].said = "ok" /\ ~Flipped => \A m \in task[t].due : own[m].is
\* While the switch is off everywhere no row is made or changed, except when somebody asks for new prices (Reprice)
\* and by a transaction or a list of the integrity job begun before.
FrozenWhileOff ==
    [][OffEverywhere /\ panel' = panel
       => (own' = own /\ orphan' = orphan) \/ \E t \in Going : task[t].op = "reprice" \/ task[t].pc \in {"adopt", "link"}]_usageVars

\* The ledger counts a message once, at the price its events and rates decide, and never
\* invents the past; a sweep completes what a crash left.
LedgerConsistent ==
    UsageTypeOK /\ EventsDecide /\ CountedOnce /\ PriceHonest /\ RatesDisjoint /\ NeverReconstructed /\ SweepCompletes
================================================================================
