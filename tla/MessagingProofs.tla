---------------------------- MODULE MessagingProofs ----------------------------
(***************************************************************************)
(* Proofs about UsageLedger, for any messages, prices, servers and plans:  *)
(* a message is counted once, at a price of its day, prices do not meet,   *)
(* what was sent while the recording was off stays uncounted, and a row    *)
(* that nobody is about to settle says what its events say.                *)
(***************************************************************************)
EXTENDS UsageLedger, FiniteSetTheorems, WellFoundedInduction, TLAPS

-------------------------------------------------------------------------------
(* Ledger: the inductive invariant *)

Listed == [m : Posts] \cup [m : Posts, wamid : BOOLEAN, status : {"pending", "sent", "failed"}]
AtStep(op, pc) ==
    \/ op = "send" /\ pc \in {"create", "record", "api", "refused", "attach", "link", "settle"}
    \/ op = "receive" /\ pc \in {"create", "record"}
    \/ op = "echo" /\ pc \in {"create", "record", "attach", "link", "settle"}
    \/ op = "event" /\ pc \in {"append", "settle"}
    \/ op = "sweep" /\ pc \in {"sweep", "missing", "infer", "inferred", "unlinked", "adopt", "adopted", "pending", "resettle"}
    \/ op = "reprice" /\ pc \in {"list", "resettle"}
    \/ op = "switch" /\ pc = "flip"
    \/ op \in {"rateAdd", "rateEdit", "rateDrop"} /\ pc \in {"check", "save"}
StepNames ==
    {"new", "done", "create", "record", "api", "refused", "attach", "link", "settle", "append", "sweep", "missing", "infer", "inferred",
     "unlinked", "adopt", "adopted", "pending", "resettle", "list", "flip", "check", "save"}
Answers ==
    {"", "ok", "refused", "off", "unattached", "conflict", "stopped", "ignored", "no baseline", "overlap", "taken", "in use"}
TaskRecord ==
    [op : DOMAIN FirstStep \cup {"none"}, on : Servers, m : Posts \cup {0}, pc : StepNames, list : SUBSET Listed,
     cur : Listed \cup {[m |-> 0]}, base : Ticks, due : SUBSET Posts, rate : Rate, id : RateIds \cup {0},
     saw : {"", "orphan", "none"}, said : Answers]
PostRecord == [is : BOOLEAN, out : BOOLEAN, wamid : BOOLEAN, status : {"pending", "sent", "failed"}, at : Ticks, off : BOOLEAN]

\* A request is the one its plan says, at a step of its handler; it has an answer when it is done.
GoodTask(t) ==
    /\ task[t].pc = "new" => task[t] = NoTask
    /\ task[t].pc # "new" =>
         /\ t \in DOMAIN usageMenu.plan /\ task[t].op = usageMenu.plan[t].op /\ task[t].m = usageMenu.plan[t].m
    /\ t \in Going => AtStep(task[t].op, task[t].pc) /\ task[t].said = ""
RowsTyped ==
    /\ own \in [Posts -> MessageUsage] /\ orphan \in [Posts -> MessageUsage]
    /\ \A m \in Posts : ~(own[m].is /\ own[m].wamid /\ orphan[m].is)
    /\ \A m \in Posts : IF orphan[m].is THEN orphan[m].wamid ELSE orphan[m] = NoUsage
RestTyped ==
    /\ usageMenu \in UsageMenus /\ tick \in Ticks
    /\ post \in [Posts -> PostRecord] /\ told \in [Posts -> SUBSET StatusEvent] /\ price \in [RateIds -> Rate]
    /\ panel \in [on : BOOLEAN, at : Ticks]
    /\ kept \in [Servers -> {"cold", "on", "off"}] /\ asked \in [Servers -> {"no", "on", "off"}]
TasksTyped == task \in [Tasks -> TaskRecord] /\ \A t \in Tasks : GoodTask(t)
Typed == RowsTyped /\ RestTyped /\ TasksTyped
\* Requests that are in progress together are on record.
MetKept == \A t, u \in Going : t # u => {task[t].op, task[u].op} \in coincided

\* A message is there once its request has written it.
Written(t) == task[t].pc \notin {"new", "create"}
\* What a pass of the integrity job has listed.
ListsFine(t) ==
    /\ task[t].pc \in {"infer", "inferred"} => \A x \in task[t].list : "wamid" \in DOMAIN x /\ post[x.m].is
    /\ task[t].pc \in {"adopt", "adopted"} => \A x \in task[t].list : told[x.m] # {}
    /\ task[t].pc = "inferred" => task[t].cur.m \in Posts /\ "wamid" \in DOMAIN task[t].cur
    /\ task[t].pc = "adopted" => task[t].cur.m \in Posts
PostsKept ==
    /\ \A t \in Tasks : t \in DOMAIN usageMenu.plan /\ usageMenu.plan[t].op \in Posting =>
         (post[usageMenu.plan[t].m].is <=> Written(t))
    /\ \A m \in Posts : post[m].is => \E t \in Tasks : task[t].op \in Posting /\ task[t].m = m
    /\ \A m \in Posts : ~post[m].is => ~own[m].is /\ ~post[m].wamid
    /\ \A t \in Tasks : task[t].op \in Posting /\ Written(t) =>
         post[task[t].m].out = (task[t].op # "receive")
    /\ \A t \in Tasks : ListsFine(t)
    /\ \A m \in Posts : orphan[m].is => told[m] # {}

\* The row of an identifier and the message's own row do not meet.
Sweeping == {"send", "sweep"} \in coincided
Excused(t) == Sweeping \/ task[t].said \in {"unattached", "off", "refused"}
GoodSend(t) ==
    LET m == task[t].m IN
    /\ post[m].wamid <=> task[t].pc \in {"attach", "link", "settle"} \/ (task[t].pc = "done" /\ task[t].said # "refused")
    /\ task[t].pc \in {"create", "record"} => told[m] = {}
    /\ task[t].pc = "link" => own[m].is
    /\ task[t].pc = "link" /\ task[t].saw = "none" /\ orphan[m].is => Sweeping
    /\ task[t].pc \in {"settle", "done"} /\ own[m].is => own[m].wamid \/ Excused(t)
    /\ own[m].is /\ orphan[m].is => Excused(t)
GoodEcho(t) ==
    LET m == task[t].m IN
    /\ own[m].is => own[m].wamid
    /\ post[m].wamid <=> Written(t)
    /\ task[t].pc # "link"
\* A pass that lists a message without its identifier has met the sending of it.
Foreseen(t) ==
    task[t].pc \in {"infer", "inferred"} => \A x \in task[t].list :
        x.wamid # post[x.m].wamid => Sweeping /\ \E u \in Tasks : task[u].op = "send" /\ task[u].m = x.m
LinksKept ==
    /\ \A t \in Tasks : task[t].op = "send" => GoodSend(t)
    /\ \A t \in Tasks : task[t].op \in {"receive", "echo"} => GoodEcho(t)
    /\ \A t \in Tasks : task[t].op = "receive" => told[task[t].m] = {}
    /\ \A t \in Tasks : t \in DOMAIN usageMenu.plan /\ usageMenu.plan[t].op \in {"send", "receive"} /\ task[t].pc = "new" =>
         told[usageMenu.plan[t].m] = {}
    /\ \A t \in Tasks : Foreseen(t)

\* What was sent while the switch was off.
Turned == \E op \in Posting : {op, "switch"} \in coincided
OffKept ==
    /\ panel.at <= tick /\ \A m \in Posts : post[m].at <= tick
    /\ \A m \in Posts : post[m].is /\ post[m].off => ~panel.on \/ post[m].at < panel.at
    /\ \A t \in Going : task[t].op \in Posting /\ Written(t) /\ post[task[t].m].off => OffEverywhere \/ Turned
    /\ \A t \in Tasks : task[t].pc \in {"infer", "inferred"} => \A x \in task[t].list : ~post[x.m].off
    /\ NeverReconstructed

\* A price and the rows it priced: a row made for an identifier keeps its day, one that its message adopted may not.
Settling == {"send", "echo", "event", "sweep", "reprice"}
TableApart == ~\E pair \in coincided : pair \cap {"rateEdit", "rateDrop"} # {} /\ pair \cap Settling # {}
HasPrice(r) == r.is /\ r.state = "priced"
Sound(r, p) == p.is /\ p.cost = r.cost /\ InForce(p, r.at)
Fair(m, r, p) == p.is /\ p.cost = r.cost /\ (InForce(p, r.at) \/ Unsettled(m) \/ Flipped)
PricedBy(m, i, p) ==
    /\ HasPrice(own[m]) /\ own[m].rate = i => Fair(m, own[m], p)
    /\ HasPrice(orphan[m]) /\ orphan[m].rate = i => Sound(orphan[m], p)
PricesKept ==
    /\ \A m \in Posts : HasPrice(own[m]) => own[m].rate \in RateIds /\ own[m].wamid
    /\ \A m \in Posts : HasPrice(orphan[m]) => orphan[m].rate \in RateIds
    /\ TableApart => \A m \in Posts, i \in RateIds : PricedBy(m, i, price[i])
    /\ TableApart => \A t \in Tasks, m \in Posts : task[t].pc = "save" =>
         /\ task[t].op = "rateEdit" => PricedBy(m, task[t].id, task[t].rate)
         /\ task[t].op = "rateDrop" => PricedBy(m, task[t].id, NoRate)

\* Two prices of a country and the days they are in force.
EditsApart == ~\E pair \in coincided : pair \subseteq {"rateAdd", "rateEdit"}
Ordered(p) == p.to = 0 \/ p.from <= p.to
Clear(p, except) == \A i \in RateIds \ {except} : price[i].is => ~Meet(price[i], p) /\ ~Meet(p, price[i])
RatesKept ==
    /\ \A i \in RateIds : price[i].is => Ordered(price[i])
    /\ \A t \in Tasks : task[t].op \in {"rateAdd", "rateEdit"} /\ task[t].pc = "save" =>
         Offered(task[t].rate) /\ (EditsApart => Clear(task[t].rate, task[t].id))
    /\ \A t \in Tasks : task[t].op = "rateAdd" => task[t].id = 0
    /\ \A t \in Tasks : task[t].op \in {"rateEdit", "rateDrop"} /\ task[t].pc = "save" => task[t].id \in RateIds
    /\ RatesDisjoint

\* While the switch is not touched: a pass records what it found, and a row that does not say
\* what its events say is about to be settled.
NoneOff == panel.on /\ \A s \in Servers : kept[s] # "off" /\ asked[s] # "off"
DueKept ==
    \A t \in Tasks : task[t].op = "sweep" =>
        /\ task[t].pc \in {"sweep", "missing"} => task[t].due = {}
        /\ task[t].pc \in {"infer", "inferred"} =>
             \A m \in task[t].due : own[m].is \/ \E x \in task[t].list : x.m = m
        /\ task[t].pc \in {"unlinked", "adopt", "adopted", "pending", "resettle", "done"} => \A m \in task[t].due : own[m].is
Awaited(m) ==
    \/ \E t \in Tasks : task[t].m = m /\ (task[t].pc = "settle" \/ task[t].said = "stopped")
    \/ \E t \in Tasks : task[t].pc = "adopted" /\ task[t].cur.m = m
Says(r, m, later) == r.is /\ r.wamid /\ r.out /\ r.state # "send_failed" => r.state \in Verdict(told[m]) \/ later
CalmKept ==
    ~Flipped => NoneOff /\ DueKept /\ \A m \in Posts : Says(own[m], m, Unsettled(m)) /\ Says(orphan[m], m, Awaited(m))

LedgerInv ==
    /\ Typed /\ MetKept /\ PostsKept /\ LinksKept /\ OffKept /\ PricesKept /\ RatesKept /\ CalmKept
-------------------------------------------------------------------------------
(* Ledger: numbers, prices and rows *)

LEMMA LedgerNumbers ==
         /\ MaxTick \in Nat /\ UnlinkedAfter \in Nat /\ UndeliveredAfter \in Nat /\ IntegrityInterval \in Nat
         /\ Ticks \subseteq Nat /\ 0 \in Ticks /\ RateIds \subseteq Nat /\ 0 \notin RateIds /\ 0 \notin Posts
  BY UsageAssumption DEF Ticks

\* The days have a first and a last.
Earlier == {ss \in Nat \X Nat : ss[1] < ss[2]}
LEMMA FirstNumber ==
  ASSUME NEW S \in SUBSET Nat, S # {}
  PROVE  \E x \in S : \A y \in S : x <= y
  <1>1. IsWellFoundedOn(Earlier, Nat)
    BY NatLessThanWellFounded DEF OpToRel, Earlier
  <1>2. PICK x \in S : \A y \in S : ~(<<y, x>> \in Earlier)
    BY <1>1, WFMin
  <1>3. \A y \in S : x <= y
    <2> TAKE y \in S
    <2>1. x \in Nat /\ y \in Nat /\ (y < x => <<y, x>> \in Earlier)
      BY DEF Earlier
    <2> QED BY <1>2, <2>1
  <1> QED BY <1>3

LEMMA LeastTick ==
  ASSUME NEW S \in SUBSET Ticks, S # {}
  PROVE  Min(S) \in S
  <1>1. S \subseteq Nat
    BY LedgerNumbers
  <1>3. \E x \in S : \A y \in S : x <= y
    BY <1>1, FirstNumber
  <1> QED BY <1>3 DEF Min

LEMMA GreatestTick ==
  ASSUME NEW S \in SUBSET Ticks, S # {}
  PROVE  Max(S) \in S /\ \A y \in S : y <= Max(S)
  <1> DEFINE U == {MaxTick - x : x \in S}
  <1>1. U \subseteq Nat /\ U # {}
    <2>1. \A x \in S : MaxTick - x \in Nat
      BY LedgerNumbers DEF Ticks
    <2> QED BY <2>1
  <1>3. PICK u \in U : \A v \in U : u <= v
    BY <1>1, FirstNumber
  <1>4. PICK x \in S : u = MaxTick - x
    OBVIOUS
  <1>5. \A y \in S : x >= y
    <2> TAKE y \in S
    <2>1. MaxTick - y \in U
      OBVIOUS
    <2> QED BY <1>3, <1>4, <2>1, LedgerNumbers DEF Ticks
  <1>6. Max(S) \in S /\ \A y \in S : Max(S) >= y
    BY <1>5 DEF Max
  <1> QED BY <1>6, LedgerNumbers

\* What lookupRate finds is in force on the day.
LEMMA FoundRate ==
  ASSUME NEW day, NEW r \in LookupRate(day)
  PROVE  r = 0 \/ (r \in RateIds /\ price[r].is /\ InForce(price[r], day))
  BY DEF LookupRate, InForce

\* Two rows that differ in what they cost only.
Alike(a, b) == b.is = a.is /\ b.out = a.out /\ b.wamid = a.wamid /\ b.at = a.at /\ b.born = a.born
Priced(b) == b.state = "priced" =>
    b.rate \in RateIds /\ price[b.rate].is /\ b.cost = price[b.rate].cost /\ InForce(price[b.rate], b.at)
Decided(b, evs) == b.out /\ b.state # "send_failed" => b.state \in Verdict(evs)

LEMMA WithMoney ==
  ASSUME NEW a \in MessageUsage, NEW b, NEW st \in BillingStates, NEW ra \in RateIds \cup {0}, NEW co \in Nat,
         b = [a EXCEPT !.state = st, !.rate = ra, !.cost = co]
  PROVE  b \in MessageUsage /\ Alike(a, b) /\ b.state = st /\ b.rate = ra /\ b.cost = co
  BY DEF MessageUsage, Alike

LEMMA ComputedRow ==
  ASSUME NEW a \in MessageUsage, NEW evs, NEW r \in LookupRate(a.at), NEW b, b = Compute(a, evs, r, tick), RestTyped
  PROVE  b \in MessageUsage /\ Alike(a, b) /\ Priced(b) /\ Decided(b, evs)
  <1> DEFINE bill == latestPricing(evs)
             state == IF FailedIn(evs) /\ bill # "charged" THEN "failed"
                      ELSE IF bill = "free" THEN "not_billable"
                      ELSE IF bill = "charged" THEN (IF r = 0 THEN "no_rate" ELSE "priced")
                      ELSE IF DeliveredIn(evs) THEN "awaiting_pricing"
                      ELSE IF tick >= a.at + UndeliveredAfter THEN "unconfirmed" ELSE "pending"
  <1>1. b = IF a.state = "send_failed" THEN a
            ELSE IF ~a.out THEN [a EXCEPT !.state = "not_billable", !.rate = 0, !.cost = 0]
            ELSE [a EXCEPT !.state = state, !.rate = IF state = "priced" THEN r ELSE 0,
                           !.cost = IF state = "priced" THEN price[r].cost ELSE 0]
    BY DEF Compute
  <1>2. state \in BillingStates
    BY DEF BillingStates
  <1>3. state \in Verdict(evs)
    BY DEF Verdict
  <1>4. state = "priced" => r # 0
    OBVIOUS
  <1>5. r = 0 \/ (r \in RateIds /\ price[r].is /\ InForce(price[r], a.at))
    BY FoundRate
  <1>6. r \in RateIds => price[r].cost \in Nat
    BY DEF RestTyped, Rate
  <1>a. /\ DOMAIN a = {"is", "out", "wamid", "state", "rate", "cost", "at", "born"}
        /\ a.is \in BOOLEAN /\ a.out \in BOOLEAN /\ a.wamid \in BOOLEAN /\ a.at \in Ticks /\ a.born \in Ticks
    BY DEF MessageUsage
  <1> HIDE DEF state
  <1>7. CASE a.state = "send_failed"
    <2>1. b = a
      BY <1>1, <1>7
    <2> QED BY <2>1, <1>7 DEF Alike, Priced, Decided
  <1>8. CASE a.state # "send_failed" /\ ~a.out
    <2>1. b = [a EXCEPT !.state = "not_billable", !.rate = 0, !.cost = 0]
      BY <1>1, <1>8
    <2>2. "not_billable" \in BillingStates /\ 0 \in RateIds \cup {0} /\ 0 \in Nat
      BY DEF BillingStates
    <2>3. b \in MessageUsage /\ Alike(a, b) /\ b.state = "not_billable"
      BY <2>1, <2>2, WithMoney
    <2> QED BY <2>3, <1>8 DEF Alike, Priced, Decided
  <1>9. CASE a.state # "send_failed" /\ a.out
    <2>1. b = [a EXCEPT !.state = state, !.rate = IF state = "priced" THEN r ELSE 0,
                        !.cost = IF state = "priced" THEN price[r].cost ELSE 0]
      BY <1>1, <1>9
    <2>2. CASE state = "priced"
      <3>1. b = [a EXCEPT !.state = state, !.rate = r, !.cost = price[r].cost]
        BY <2>1, <2>2
      <3>2. r \in RateIds
        BY <2>2, <1>4, <1>5
      <3>3. b \in MessageUsage /\ Alike(a, b) /\ b.state = state /\ b.rate = r /\ b.cost = price[r].cost
        <4>1. PICK co \in Nat : co = price[r].cost
          BY <3>2, <1>6
        <4>2. PICK st \in BillingStates, ra \in RateIds \cup {0} : st = state /\ ra = r
          BY <1>2, <3>2
        <4>3. b = [a EXCEPT !.state = st, !.rate = ra, !.cost = co]
          BY <3>1, <4>1, <4>2
        <4>4. b \in MessageUsage /\ Alike(a, b) /\ b.state = st /\ b.rate = ra /\ b.cost = co
          BY <4>3 DEF MessageUsage, Alike
        <4> QED BY <4>1, <4>2, <4>4
      <3>4. b.at = a.at
        BY <3>3 DEF Alike
      <3> QED BY <3>2, <3>3, <3>4, <1>3, <1>4, <1>5, <2>2 DEF Priced, Decided
    <2>3. CASE state # "priced"
      <3>1. b = [a EXCEPT !.state = state, !.rate = 0, !.cost = 0]
        BY <2>1, <2>3
      <3>2. 0 \in RateIds \cup {0} /\ 0 \in Nat
        OBVIOUS
      <3>3. b \in MessageUsage /\ Alike(a, b) /\ b.state = state
        BY <3>1, <3>2, <1>2, WithMoney
      <3> QED BY <3>3, <2>3, <1>3 DEF Priced, Decided
    <2> QED BY <2>2, <2>3
  <1> QED BY <1>7, <1>8, <1>9

\* The row of an identifier is settled; no other changes.
RowSettled(a, b, m) == b = a \/ (a.is /\ a.wamid /\ Alike(a, b) /\ Priced(b) /\ Decided(b, told[m]))
AllSettled(m) ==
    /\ RowSettled(own[m], own'[m], m) /\ RowSettled(orphan[m], orphan'[m], m)
    /\ \A x \in Posts : x # m => own'[x] = own[x] /\ orphan'[x] = orphan[x]
HasDecided(m) ==
    /\ own[m].is /\ own[m].wamid => Decided(own'[m], told[m]) /\ Priced(own'[m])
    /\ orphan[m].is => Decided(orphan'[m], told[m]) /\ Priced(orphan'[m])

LEMMA SettleEffect ==
  ASSUME NEW m \in Posts, RowsTyped, RestTyped, settleRow(m)
  PROVE  RowsTyped' /\ AllSettled(m) /\ HasDecided(m)
  <1>1. CASE own[m].is /\ own[m].wamid
    <2>1. PICK r \in LookupRate(own[m].at) : own' = [own EXCEPT ![m] = Compute(own[m], told[m], r, tick)] /\ orphan' = orphan
      BY <1>1 DEF settleRow
    <2> DEFINE b == Compute(own[m], told[m], r, tick)
    <2>2. b \in MessageUsage /\ Alike(own[m], b) /\ Priced(b) /\ Decided(b, told[m])
      BY ComputedRow DEF RowsTyped
    <2> HIDE DEF b
    <2>3. own'[m] = b /\ \A x \in Posts : x # m => own'[x] = own[x]
      BY <2>1 DEF RowsTyped, b
    <2>4. ~orphan[m].is
      BY <1>1 DEF RowsTyped
    <2>5. own' \in [Posts -> MessageUsage]
      BY <2>1, <2>2 DEF RowsTyped, b
    <2> QED BY <1>1, <2>1, <2>2, <2>3, <2>4, <2>5 DEF RowsTyped, AllSettled, HasDecided, RowSettled, Alike
  <1>2. CASE ~(own[m].is /\ own[m].wamid) /\ orphan[m].is
    <2>1. PICK r \in LookupRate(orphan[m].at) : orphan' = [orphan EXCEPT ![m] = Compute(orphan[m], told[m], r, tick)] /\ own' = own
      BY <1>2 DEF settleRow
    <2> DEFINE b == Compute(orphan[m], told[m], r, tick)
    <2>2. b \in MessageUsage /\ Alike(orphan[m], b) /\ Priced(b) /\ Decided(b, told[m])
      BY ComputedRow DEF RowsTyped
    <2> HIDE DEF b
    <2>3. orphan'[m] = b /\ \A x \in Posts : x # m => orphan'[x] = orphan[x]
      BY <2>1 DEF RowsTyped, b
    <2>4. orphan' \in [Posts -> MessageUsage]
      BY <2>1, <2>2 DEF RowsTyped, b
    <2> QED BY <1>2, <2>1, <2>2, <2>3, <2>4 DEF RowsTyped, AllSettled, HasDecided, RowSettled, Alike
  <1>3. CASE ~(own[m].is /\ own[m].wamid) /\ ~orphan[m].is
    <2>1. UNCHANGED <<own, orphan>>
      BY <1>3 DEF settleRow
    <2> QED BY <1>3, <2>1 DEF RowsTyped, AllSettled, HasDecided, RowSettled
  <1> QED BY <1>1, <1>2, <1>3

\* A message is recorded: it has a row of its own, new or the one of its identifier.
Fresh(b, out, wamid, at) ==
    b.is /\ b.out = out /\ b.wamid = wamid /\ b.at = at /\ b.state # "priced" /\ b.rate = 0 /\ (~out => b.state = "not_billable")
Adopts(m, out, at) ==
    /\ orphan[m].is /\ own'[m].is /\ own'[m].wamid = orphan[m].wamid /\ own'[m].out = out /\ own'[m].at = at
    /\ own'[m].state = orphan[m].state /\ own'[m].rate = orphan[m].rate /\ own'[m].cost = orphan[m].cost
Recorded(m, out, wamid, at) ==
    /\ \A x \in Posts : x # m => own'[x] = own[x] /\ orphan'[x] = orphan[x]
    /\ ~own[m].is
    /\ Fresh(own'[m], out, wamid, at) \/ (wamid /\ Adopts(m, out, at))
    /\ IF wamid THEN ~orphan'[m].is ELSE orphan'[m] = orphan[m]

LEMMA RecordEffect ==
  ASSUME NEW s \in Servers, NEW m \in Posts, NEW out \in BOOLEAN, NEW wamid \in BOOLEAN, NEW at \in Ticks,
         RowsTyped, RestTyped, Record(s, m, out, wamid, at)
  PROVE  /\ RowsTyped' /\ Knows(s)
         /\ (~EnabledFor(s) \/ own[m].is) => own' = own /\ orphan' = orphan
         /\ (EnabledFor(s) /\ ~own[m].is) => Recorded(m, out, wamid, at)
  <1>0. NoUsage \in MessageUsage /\ ~NoUsage.is /\ RowWith(out, wamid, at) \in MessageUsage
    BY LedgerNumbers DEF NoUsage, MessageUsage, BillingStates, RowWith, RestTyped
  <1>1. CASE ~EnabledFor(s) \/ own[m].is
    <2>1. own' = own /\ orphan' = orphan
      BY <1>1 DEF Record
    <2> QED BY <1>1, <2>1 DEF Record, RowsTyped
  <1>2. CASE EnabledFor(s) /\ ~own[m].is
    <2>1. Knows(s) /\ orphan' = IF wamid THEN [orphan EXCEPT ![m] = NoUsage] ELSE orphan
      BY <1>2 DEF Record
    <2>2. CASE wamid /\ orphan[m].is
      <3> DEFINE b == [orphan[m] EXCEPT !.out = out, !.at = at]
      <3>1. own' = [own EXCEPT ![m] = b]
        BY <1>2, <2>2 DEF Record
      <3>2. /\ b \in MessageUsage /\ b.is = orphan[m].is /\ b.wamid = orphan[m].wamid /\ b.out = out /\ b.at = at
            /\ b.state = orphan[m].state /\ b.rate = orphan[m].rate /\ b.cost = orphan[m].cost
        BY DEF RowsTyped, MessageUsage
      <3> HIDE DEF b
      <3>3. own'[m] = b /\ (\A x \in Posts : x # m => own'[x] = own[x]) /\ own' \in [Posts -> MessageUsage]
        BY <3>1, <3>2 DEF RowsTyped
      <3>4. ~orphan'[m].is /\ (\A x \in Posts : x # m => orphan'[x] = orphan[x]) /\ orphan' \in [Posts -> MessageUsage]
        BY <1>0, <2>1, <2>2 DEF RowsTyped
      <3> QED BY <1>2, <2>1, <2>2, <3>2, <3>3, <3>4 DEF RowsTyped, Recorded, Adopts
    <2>3. CASE ~(wamid /\ orphan[m].is)
      <3> DEFINE b == RowWith(out, wamid, at)
      <3>1. own' = [own EXCEPT ![m] = b]
        BY <1>2, <2>3 DEF Record
      <3>2. Fresh(b, out, wamid, at)
        BY DEF RowWith, Fresh
      <3>3. b.is /\ b.wamid = wamid
        BY DEF RowWith
      <3> HIDE DEF b
      <3>4. own'[m] = b /\ (\A x \in Posts : x # m => own'[x] = own[x]) /\ own' \in [Posts -> MessageUsage]
        BY <1>0, <3>1 DEF RowsTyped, b
      <3>5. /\ IF wamid THEN ~orphan'[m].is ELSE orphan'[m] = orphan[m]
            /\ (\A x \in Posts : x # m => orphan'[x] = orphan[x]) /\ orphan' \in [Posts -> MessageUsage]
        BY <1>0, <2>1 DEF RowsTyped
      <3> QED BY <1>2, <2>1, <2>3, <3>2, <3>3, <3>4, <3>5 DEF RowsTyped, Recorded
    <2> QED BY <2>2, <2>3
  <1> QED BY <1>1, <1>2

-------------------------------------------------------------------------------
(* Ledger: requests *)

\* Which request is at which step.
LEMMA OpOf ==
  ASSUME TasksTyped, NEW t \in Tasks, task[t].pc \notin {"new", "done"}
  PROVE  /\ task[t].op \in DOMAIN FirstStep /\ task[t].said = "" /\ AtStep(task[t].op, task[t].pc)
         /\ task[t].pc \in {"create", "record"} => task[t].op \in Posting
         /\ task[t].pc \in {"api", "refused"} => task[t].op = "send"
         /\ task[t].pc \in {"attach", "link"} => task[t].op \in {"send", "echo"}
         /\ task[t].pc = "settle" => task[t].op \in {"send", "echo", "event"}
         /\ task[t].pc \in {"missing", "infer", "inferred", "unlinked", "adopt", "adopted", "pending"} => task[t].op = "sweep"
         /\ task[t].pc = "resettle" => task[t].op \in {"sweep", "reprice"}
         /\ task[t].op \in {"rateAdd", "rateEdit", "rateDrop"} => task[t].pc \in {"check", "save"}
         /\ task[t].op \in {"switch"} => task[t].pc = "flip"
  <1>1. AtStep(task[t].op, task[t].pc) /\ task[t].said = ""
    BY DEF TasksTyped, GoodTask, Going
  <1>2. task[t].op \in DOMAIN FirstStep
    BY <1>1 DEF AtStep, FirstStep
  <1> QED BY <1>1, <1>2 DEF AtStep, Posting

\* A request that has begun is the one of its plan, and a message has one writer.
LEMMA Begun ==
  ASSUME TasksTyped, RestTyped, NEW t \in Tasks, task[t].pc # "new"
  PROVE  /\ t \in DOMAIN usageMenu.plan /\ task[t].op = usageMenu.plan[t].op /\ task[t].m = usageMenu.plan[t].m
         /\ task[t].m \in Posts /\ task[t].on \in Servers /\ task[t].op \in DOMAIN FirstStep
  <1>1. t \in DOMAIN usageMenu.plan /\ task[t].op = usageMenu.plan[t].op /\ task[t].m = usageMenu.plan[t].m
    BY DEF TasksTyped, GoodTask
  <1>2. usageMenu.plan[t].op \in DOMAIN FirstStep /\ usageMenu.plan[t].m \in Posts
    BY <1>1, UsageAssumption DEF RestTyped
  <1>3. task[t].on \in Servers
    BY DEF TasksTyped, TaskRecord
  <1> QED BY <1>1, <1>2, <1>3

LEMMA NotBegun ==
  ASSUME TasksTyped, NEW t \in Tasks, task[t].pc = "new"
  PROVE  /\ task[t].op = "none" /\ task[t].m = 0 /\ task[t].said = "" /\ task[t].list = {} /\ task[t].due = {} /\ task[t].id = 0
         /\ task[t].saw = "" /\ task[t].cur = [m |-> 0] /\ task[t].on \in Servers /\ task[t].base = 0 /\ task[t].rate = NoRate
  <1>1. task[t].on \in Servers
    BY DEF TasksTyped, TaskRecord
  <1>2. /\ NoTask.op = "none" /\ NoTask.m = 0 /\ NoTask.said = "" /\ NoTask.list = {} /\ NoTask.due = {} /\ NoTask.id = 0
        /\ NoTask.saw = "" /\ NoTask.cur = [m |-> 0] /\ NoTask.base = 0 /\ NoTask.rate = NoRate
    BY DEF NoTask
  <1>3. task[t] = NoTask
    BY DEF TasksTyped, GoodTask
  <1> QED BY <1>1, <1>2, <1>3

LEMMA OneWriter ==
  ASSUME TasksTyped, RestTyped, NEW t \in Tasks, NEW u \in Tasks, task[t].op \in Posting, task[u].op \in Posting,
         task[t].m = task[u].m
  PROVE  t = u
  <1>1. task[t].pc # "new" /\ task[u].pc # "new"
    BY NotBegun DEF Posting
  <1>2. /\ t \in DOMAIN usageMenu.plan /\ task[t].op = usageMenu.plan[t].op /\ task[t].m = usageMenu.plan[t].m
        /\ u \in DOMAIN usageMenu.plan /\ task[u].op = usageMenu.plan[u].op /\ task[u].m = usageMenu.plan[u].m
    BY <1>1, Begun
  <1>3. {usageMenu.plan[t].op, usageMenu.plan[u].op} \subseteq Posting
    BY <1>2
  <1> QED BY <1>2, <1>3, UsageAssumption DEF RestTyped

\* One request moves.
OnlyTask(t) == \A u \in Tasks : u # t => task'[u] = task[u]
SameRequest(t) == task'[t].op = task[t].op /\ task'[t].on = task[t].on /\ task'[t].m = task[t].m
Rest(t) ==
    /\ task'[t].list = task[t].list /\ task'[t].cur = task[t].cur /\ task'[t].base = task[t].base /\ task'[t].due = task[t].due
    /\ task'[t].rate = task[t].rate /\ task'[t].id = task[t].id /\ task'[t].saw = task[t].saw
Moves(t) == OnlyTask(t) /\ SameRequest(t) /\ task[t].pc \notin {"new", "done"} /\ task'[t].pc # "new"
Goes(t, pc) == Moves(t) /\ Rest(t) /\ task'[t].pc = pc /\ task'[t].said = task[t].said
Ends(t, what) == Moves(t) /\ Rest(t) /\ task'[t].pc = "done" /\ task'[t].said = what

LEMMA MoveEffect ==
  ASSUME TasksTyped, NEW t \in Tasks, task[t].pc \notin {"new", "done"}, usageMenu' = usageMenu,
         NEW r \in TaskRecord, task' = [task EXCEPT ![t] = r],
         r.op = task[t].op, r.on = task[t].on, r.m = task[t].m,
         r.pc = "done" \/ (AtStep(r.op, r.pc) /\ r.pc # "new" /\ r.said = "")
  PROVE  TasksTyped' /\ Moves(t) /\ task'[t] = r
  <1>1. task'[t] = r /\ OnlyTask(t) /\ task' \in [Tasks -> TaskRecord]
    BY DEF TasksTyped, OnlyTask
  <1>2. GoodTask(t)'
    BY <1>1 DEF TasksTyped, GoodTask, Going
  <1>3. ASSUME NEW u \in Tasks, u # t PROVE GoodTask(u)'
    <2>1. task'[u] = task[u] /\ (u \in Going' <=> u \in Going)
      BY <1>1, <1>3 DEF OnlyTask, Going
    <2>2. GoodTask(u)
      BY DEF TasksTyped
    <2> QED BY <2>1, <2>2 DEF GoodTask
  <1> QED BY <1>1, <1>2, <1>3 DEF TasksTyped, Moves, SameRequest

LEMMA GoesEffect ==
  ASSUME TasksTyped, NEW t \in Tasks, task[t].pc \notin {"new", "done"}, usageMenu' = usageMenu,
         NEW pc, AtStep(task[t].op, pc), pc # "new", Onto(t, pc)
  PROVE  TasksTyped' /\ Goes(t, pc)
  <1> DEFINE r == [task[t] EXCEPT !.pc = pc]
  <1>1. task[t] \in TaskRecord /\ task[t].said = ""
    BY OpOf DEF TasksTyped
  <1>2. r \in TaskRecord
    <2>1. pc \in StepNames
      BY DEF AtStep, StepNames
    <2> QED BY <1>1, <2>1 DEF TaskRecord
  <1>3. /\ r.op = task[t].op /\ r.on = task[t].on /\ r.m = task[t].m /\ r.pc = pc /\ r.said = task[t].said
        /\ r.list = task[t].list /\ r.cur = task[t].cur /\ r.base = task[t].base /\ r.due = task[t].due
        /\ r.rate = task[t].rate /\ r.id = task[t].id /\ r.saw = task[t].saw
    BY <1>1 DEF TaskRecord
  <1>4. task' = [task EXCEPT ![t] = r]
    BY DEF Onto
  <1> HIDE DEF r
  <1>5. TasksTyped' /\ Moves(t) /\ task'[t] = r
    BY <1>1, <1>2, <1>3, <1>4, MoveEffect
  <1> QED BY <1>3, <1>5 DEF Goes, Rest

LEMMA EndsEffect ==
  ASSUME TasksTyped, NEW t \in Tasks, task[t].pc \notin {"new", "done"}, usageMenu' = usageMenu,
         NEW what \in Answers, Said(t, what)
  PROVE  TasksTyped' /\ Ends(t, what)
  <1> DEFINE r == [task[t] EXCEPT !.pc = "done", !.said = what]
  <1>1. task[t] \in TaskRecord
    BY DEF TasksTyped
  <1>2. r \in TaskRecord
    BY <1>1 DEF TaskRecord, StepNames
  <1>3. /\ r.op = task[t].op /\ r.on = task[t].on /\ r.m = task[t].m /\ r.pc = "done" /\ r.said = what
        /\ r.list = task[t].list /\ r.cur = task[t].cur /\ r.base = task[t].base /\ r.due = task[t].due
        /\ r.rate = task[t].rate /\ r.id = task[t].id /\ r.saw = task[t].saw
    BY <1>1 DEF TaskRecord
  <1>4. task' = [task EXCEPT ![t] = r]
    BY DEF Said
  <1> HIDE DEF r
  <1>5. TasksTyped' /\ Moves(t) /\ task'[t] = r
    BY <1>1, <1>2, <1>3, <1>4, MoveEffect
  <1> QED BY <1>3, <1>5 DEF Ends, Rest

-------------------------------------------------------------------------------
(* Ledger: what each step does *)

RowsSame == own' = own /\ orphan' = orphan
Others(m) == \A x \in Posts : x # m => own'[x] = own[x] /\ orphan'[x] = orphan[x]
\* The row says that the API refused the message.
RefusedRow(m) ==
    /\ Others(m) /\ orphan'[m] = orphan[m] /\ own[m].is /\ ~own[m].wamid
    /\ own'[m].is /\ ~own'[m].wamid /\ own'[m].state = "send_failed" /\ own'[m].at = own[m].at
\* The message takes the row that was made for its identifier, or its row takes the identifier.
Adopted(m) ==
    /\ Others(m) /\ ~own[m].is /\ ~orphan'[m].is /\ own'[m] = orphan[m] /\ orphan[m].is
Linked(m) ==
    /\ Others(m) /\ ~orphan'[m].is /\ own[m].is /\ own'[m].is /\ own'[m].wamid /\ own'[m].out = own[m].out
    /\ own'[m].state = own[m].state /\ own'[m].rate = own[m].rate /\ own'[m].cost = own[m].cost /\ own'[m].at = own[m].at
\* A row for an identifier without one.
Inserted(m) ==
    /\ \A x \in Posts : own'[x] = own[x] /\ (x # m => orphan'[x] = orphan[x])
    /\ ~HasWamidRow(m) /\ orphan'[m].is /\ orphan'[m].wamid /\ orphan'[m].state = "pending"
World == <<usageMenu, tick, post, told, price, panel, kept, asked, coincided>>

LEMMA RestKept ==
  ASSUME RestTyped, UNCHANGED <<usageMenu, tick, post, told, price, panel, kept, asked>>
  PROVE  RestTyped'
  BY DEF RestTyped

LEMMA RowsKept ==
  ASSUME RowsTyped, RowsSame
  PROVE  RowsTyped'
  BY DEF RowsTyped, RowsSame

LEMMA BeginEffect ==
  ASSUME Typed, NEW t \in Tasks, BeginTask(t)
  PROVE  /\ Typed' /\ RowsSame /\ UNCHANGED <<usageMenu, tick, post, told, price, panel, kept, asked>>
         /\ task[t].pc = "new" /\ t \in DOMAIN usageMenu.plan /\ OnlyTask(t)
         /\ task'[t].op = usageMenu.plan[t].op /\ task'[t].m = usageMenu.plan[t].m /\ task'[t].op \in DOMAIN FirstStep
         /\ task'[t].pc = FirstStep[task'[t].op] /\ task'[t].pc \in {"create", "append", "sweep", "list", "flip", "check"}
         /\ (task'[t].op \in Posting => task'[t].pc = "create") /\ Rest(t) /\ task'[t].said = "" /\ AtStep(task'[t].op, task'[t].pc)
         /\ coincided' = coincided \cup {{task'[t].op, task[u].op} : u \in Going}
  <1> DEFINE p == usageMenu.plan[t]
             r == [task[t] EXCEPT !.op = p.op, !.on = p.on, !.m = p.m, !.pc = FirstStep[p.op]]
  <1>1. /\ task[t].pc = "new" /\ t \in DOMAIN usageMenu.plan /\ task' = [task EXCEPT ![t] = r]
        /\ UNCHANGED <<usageMenu, tick, post, told, price, panel, kept, asked, own, orphan>>
        /\ coincided' = coincided \cup {{p.op, task[u].op} : u \in Going}
    BY DEF BeginTask
  <1>2. p.op \in DOMAIN FirstStep /\ p.on \in Servers /\ p.m \in Posts
    BY <1>1, UsageAssumption DEF Typed, RestTyped
  <1>3. p.op \in {"send", "receive", "echo", "event", "sweep", "reprice", "switch", "rateAdd", "rateEdit", "rateDrop"}
    BY <1>2 DEF FirstStep
  <1>4. PICK first : first = FirstStep[p.op]
    OBVIOUS
  <1>5. /\ first \in {"create", "append", "sweep", "list", "flip", "check"} /\ AtStep(p.op, first)
        /\ (p.op \in Posting => first = "create")
    BY <1>3, <1>4 DEF FirstStep, AtStep, Posting
  <1>6. task[t] \in TaskRecord /\ task[t].said = ""
    BY <1>1, NotBegun DEF Typed, TasksTyped
  <1>7. first \in StepNames
    BY <1>5 DEF StepNames
  <1>8. /\ r \in TaskRecord /\ r.op = p.op /\ r.m = p.m /\ r.on = p.on /\ r.pc = first /\ r.said = "" /\ r.list = task[t].list
        /\ r.cur = task[t].cur /\ r.base = task[t].base /\ r.due = task[t].due /\ r.rate = task[t].rate /\ r.id = task[t].id
        /\ r.saw = task[t].saw
    BY <1>2, <1>4, <1>6, <1>7 DEF TaskRecord
  <1> HIDE DEF r
  <1>9. task'[t] = r /\ OnlyTask(t) /\ task' \in [Tasks -> TaskRecord]
    BY <1>1, <1>8 DEF Typed, TasksTyped, OnlyTask
  <1>10. GoodTask(t)'
    BY <1>1, <1>5, <1>8, <1>9 DEF GoodTask
  <1>11. ASSUME NEW u \in Tasks, u # t PROVE GoodTask(u)'
    <2>1. task'[u] = task[u] /\ (u \in Going' <=> u \in Going)
      BY <1>9, <1>11 DEF OnlyTask, Going
    <2>2. GoodTask(u)
      BY DEF Typed, TasksTyped
    <2> QED BY <1>1, <2>1, <2>2 DEF GoodTask
  <1>12. TasksTyped'
    BY <1>9, <1>10, <1>11 DEF TasksTyped
  <1>13. RowsSame /\ RowsTyped' /\ RestTyped'
    BY <1>1, RowsKept, RestKept DEF Typed, RowsSame
  <1> QED BY <1>1, <1>2, <1>4, <1>5, <1>8, <1>9, <1>12, <1>13 DEF Typed, Rest

LEMMA CreateEffect ==
  ASSUME Typed, NEW t \in Tasks, CreatePost(t)
  PROVE  /\ Typed' /\ RowsSame /\ UNCHANGED <<usageMenu, tick, told, price, panel, kept, asked, coincided>>
         /\ task[t].pc = "create" /\ task[t].op \in Posting /\ task[t].m \in Posts /\ Goes(t, "record")
         /\ \A x \in Posts : x # task[t].m => post'[x] = post[x]
         /\ post'[task[t].m].is /\ post'[task[t].m].out = (task[t].op # "receive") /\ post'[task[t].m].wamid = (task[t].op # "send")
         /\ post'[task[t].m].at = tick /\ post'[task[t].m].off = OffEverywhere
  <1> DEFINE m == task[t].m
             p == [is |-> TRUE, out |-> task[t].op # "receive", wamid |-> task[t].op # "send",
                   status |-> IF task[t].op = "send" THEN "pending" ELSE "sent", at |-> tick, off |-> OffEverywhere]
  <1>1. /\ task[t].pc = "create" /\ task[t].op \in Posting /\ post' = [post EXCEPT ![m] = p] /\ Onto(t, "record")
        /\ UNCHANGED <<usageMenu, tick, told, price, panel, kept, asked, coincided, own, orphan>>
    BY DEF CreatePost, Same
  <1>2. m \in Posts
    BY <1>1, Begun DEF Typed
  <1>3. OffEverywhere \in BOOLEAN
    BY DEF OffEverywhere
  <1>4. /\ p \in PostRecord /\ p.is /\ p.out = (task[t].op # "receive") /\ p.wamid = (task[t].op # "send")
        /\ p.at = tick /\ p.off = OffEverywhere
    BY <1>3 DEF PostRecord, Typed, RestTyped
  <1> HIDE DEF p
  <1>5. post'[m] = p /\ (\A x \in Posts : x # m => post'[x] = post[x]) /\ post' \in [Posts -> PostRecord]
    BY <1>1, <1>2, <1>4 DEF Typed, RestTyped
  <1>6. RestTyped'
    BY <1>1, <1>5 DEF Typed, RestTyped
  <1>7. TasksTyped' /\ Goes(t, "record")
    BY <1>1, GoesEffect DEF Typed, AtStep, Posting
  <1>8. RowsSame /\ RowsTyped'
    BY <1>1, RowsKept DEF Typed, RowsSame
  <1> QED BY <1>1, <1>2, <1>4, <1>5, <1>6, <1>7, <1>8 DEF Typed

LEMMA RecordUsageEffect ==
  ASSUME Typed, NEW t \in Tasks, RecordUsage(t)
  PROVE  /\ Typed' /\ UNCHANGED World /\ task[t].pc = "record" /\ task[t].op \in Posting /\ task[t].m \in Posts
         /\ \/ RowsSame
            \/ /\ EnabledFor(task[t].on)
               /\ Recorded(task[t].m, post[task[t].m].out, post[task[t].m].wamid, post[task[t].m].at)
         /\ task[t].op = "send" => Goes(t, "api")
         /\ task[t].op = "echo" => Goes(t, "attach")
         /\ task[t].op = "receive" => Ends(t, "ok")
  <1> DEFINE m == task[t].m
  <1>1. /\ task[t].pc = "record" /\ UNCHANGED World
        /\ \/ Record(task[t].on, m, post[m].out, post[m].wamid, post[m].at)
           \/ UNCHANGED <<own, orphan>>
    BY DEF RecordUsage, Same, World
  <1>2. m \in Posts /\ task[t].op \in Posting /\ task[t].on \in Servers
    BY <1>1, Begun, OpOf DEF Typed
  <1>3. post[m].out \in BOOLEAN /\ post[m].wamid \in BOOLEAN /\ post[m].at \in Ticks
    BY <1>2 DEF Typed, RestTyped, PostRecord
  <1> DEFINE Rows == RowsSame \/ (EnabledFor(task[t].on) /\ Recorded(m, post[m].out, post[m].wamid, post[m].at))
  <1>4. ASSUME Record(task[t].on, m, post[m].out, post[m].wamid, post[m].at) PROVE RowsTyped' /\ Rows
    <2>1. RowsTyped' /\ (~EnabledFor(task[t].on) \/ own[m].is => own' = own /\ orphan' = orphan)
          /\ (EnabledFor(task[t].on) /\ ~own[m].is => Recorded(m, post[m].out, post[m].wamid, post[m].at))
      BY <1>2, <1>3, <1>4, RecordEffect DEF Typed
    <2> QED BY <2>1 DEF RowsSame
  <1>5. ASSUME UNCHANGED <<own, orphan>> PROVE RowsTyped' /\ Rows
    BY <1>5, RowsKept DEF Typed, RowsSame
  <1>6. RestTyped'
    BY <1>1, RestKept DEF Typed, World
  <1>7. CASE task[t].op = "send"
    <2>1. Onto(t, "api")
      BY <1>7 DEF RecordUsage
    <2>2. TasksTyped' /\ Goes(t, "api")
      BY <1>1, <1>7, <2>1, GoesEffect DEF Typed, AtStep, World
    <2> QED BY <1>1, <1>2, <1>4, <1>5, <1>6, <1>7, <2>2 DEF Typed
  <1>8. CASE task[t].op = "echo"
    <2>1. Onto(t, "attach")
      BY <1>8 DEF RecordUsage
    <2>2. TasksTyped' /\ Goes(t, "attach")
      BY <1>1, <1>8, <2>1, GoesEffect DEF Typed, AtStep, World
    <2> QED BY <1>1, <1>2, <1>4, <1>5, <1>6, <1>8, <2>2 DEF Typed
  <1>9. CASE task[t].op = "receive"
    <2>1. Said(t, "ok")
      BY <1>9 DEF RecordUsage
    <2>2. TasksTyped' /\ Ends(t, "ok")
      BY <1>1, <1>9, <2>1, EndsEffect DEF Typed, Answers, World
    <2> QED BY <1>1, <1>2, <1>4, <1>5, <1>6, <1>9, <2>2 DEF Typed
  <1> QED BY <1>2, <1>7, <1>8, <1>9 DEF Posting

LEMMA FinalizeEffect ==
  ASSUME Typed, NEW t \in Tasks, FinalizeSend(t)
  PROVE  /\ Typed' /\ RowsSame /\ UNCHANGED <<usageMenu, tick, told, price, panel, kept, asked, coincided>>
         /\ task[t].pc = "api" /\ task[t].op = "send" /\ task[t].m \in Posts
         /\ \A x \in Posts : /\ x # task[t].m => post'[x] = post[x]
                             /\ post'[x].is = post[x].is /\ post'[x].out = post[x].out /\ post'[x].at = post[x].at /\ post'[x].off = post[x].off
         /\ \/ Goes(t, "attach") /\ post'[task[t].m].wamid
            \/ Goes(t, "refused") /\ post'[task[t].m].wamid = post[task[t].m].wamid
  <1> DEFINE m == task[t].m
  <1>1. /\ task[t].pc = "api"
        /\ UNCHANGED <<usageMenu, tick, told, price, panel, kept, asked, coincided, own, orphan>>
        /\ \/ post' = [post EXCEPT ![m].status = "sent", ![m].wamid = TRUE] /\ Onto(t, "attach")
           \/ post' = [post EXCEPT ![m].status = "failed"] /\ Onto(t, "refused")
    BY DEF FinalizeSend, Same
  <1>2. task[t].op = "send" /\ m \in Posts
    BY <1>1, OpOf, Begun DEF Typed
  <1>3. post \in [Posts -> PostRecord]
    BY DEF Typed, RestTyped
  <1>4. RowsSame /\ RowsTyped'
    BY <1>1, RowsKept DEF Typed, RowsSame
  <1>5. CASE post' = [post EXCEPT ![m].status = "sent", ![m].wamid = TRUE] /\ Onto(t, "attach")
    <2>1. /\ post' \in [Posts -> PostRecord] /\ post'[m].wamid
          /\ \A x \in Posts : /\ x # task[t].m => post'[x] = post[x]
                              /\ post'[x].is = post[x].is /\ post'[x].out = post[x].out /\ post'[x].at = post[x].at /\ post'[x].off = post[x].off
      BY <1>2, <1>3, <1>5 DEF PostRecord
    <2>2. RestTyped'
      BY <1>1, <2>1 DEF Typed, RestTyped
    <2>3. TasksTyped' /\ Goes(t, "attach")
      BY <1>1, <1>2, <1>5, GoesEffect DEF Typed, AtStep
    <2> QED BY <1>1, <1>2, <1>4, <2>1, <2>2, <2>3 DEF Typed
  <1>6. CASE post' = [post EXCEPT ![m].status = "failed"] /\ Onto(t, "refused")
    <2>1. /\ post' \in [Posts -> PostRecord] /\ post'[m].wamid = post[m].wamid
          /\ \A x \in Posts : /\ x # task[t].m => post'[x] = post[x]
                              /\ post'[x].is = post[x].is /\ post'[x].out = post[x].out /\ post'[x].at = post[x].at /\ post'[x].off = post[x].off
      BY <1>2, <1>3, <1>6 DEF PostRecord
    <2>2. RestTyped'
      BY <1>1, <2>1 DEF Typed, RestTyped
    <2>3. TasksTyped' /\ Goes(t, "refused")
      BY <1>1, <1>2, <1>6, GoesEffect DEF Typed, AtStep
    <2> QED BY <1>1, <1>2, <1>4, <2>1, <2>2, <2>3 DEF Typed
  <1> QED BY <1>1, <1>5, <1>6

LEMMA MarkEffect ==
  ASSUME RowsTyped, NEW s \in Servers, NEW m \in Posts, MarkSendFailed(s, m), orphan' = orphan
  PROVE  RowsTyped' /\ (RowsSame \/ (EnabledFor(s) /\ RefusedRow(m)))
  <1>1. CASE EnabledFor(s) /\ own[m].is /\ ~own[m].wamid
    <2> DEFINE b == [own[m] EXCEPT !.state = "send_failed"]
    <2>1. own' = [own EXCEPT ![m] = b]
      BY <1>1 DEF MarkSendFailed
    <2>2. /\ b \in MessageUsage /\ b.is = own[m].is /\ b.wamid = own[m].wamid /\ b.at = own[m].at
          /\ b.state = "send_failed"
      BY DEF RowsTyped, MessageUsage, BillingStates
    <2> HIDE DEF b
    <2>3. own'[m] = b /\ (\A x \in Posts : x # m => own'[x] = own[x]) /\ own' \in [Posts -> MessageUsage]
      BY <2>1, <2>2 DEF RowsTyped
    <2> QED BY <1>1, <2>2, <2>3 DEF RowsTyped, RefusedRow, Others
  <1>2. CASE ~(EnabledFor(s) /\ own[m].is /\ ~own[m].wamid)
    BY <1>2, RowsKept DEF MarkSendFailed, RowsSame
  <1> QED BY <1>1, <1>2

LEMMA SettledEffect ==
  ASSUME RowsTyped, RestTyped, NEW s \in Servers, NEW m \in Posts, Settle(s, m)
  PROVE  /\ RowsTyped' /\ kept[s] # "cold"
         /\ \/ ~EnabledFor(s) /\ RowsSame
            \/ EnabledFor(s) /\ AllSettled(m) /\ HasDecided(m)
  BY SettleEffect, RowsKept DEF Settle, Knows, RowsSame

LEMMA SendRefusedEffect ==
  ASSUME Typed, NEW t \in Tasks, SendRefused(t)
  PROVE  /\ Typed' /\ UNCHANGED World /\ task[t].pc = "refused" /\ task[t].op = "send" /\ task[t].m \in Posts
         /\ Ends(t, "refused") /\ (RowsSame \/ (EnabledFor(task[t].on) /\ RefusedRow(task[t].m)))
  <1>1. /\ task[t].pc = "refused" /\ UNCHANGED World /\ orphan' = orphan
        /\ MarkSendFailed(task[t].on, task[t].m) /\ Said(t, "refused")
    BY DEF SendRefused, Same, World
  <1>2. task[t].op = "send" /\ task[t].m \in Posts /\ task[t].on \in Servers
    BY <1>1, OpOf, Begun DEF Typed
  <1>3. RowsTyped' /\ (RowsSame \/ (EnabledFor(task[t].on) /\ RefusedRow(task[t].m)))
    BY <1>1, <1>2, MarkEffect DEF Typed
  <1>4. TasksTyped' /\ Ends(t, "refused")
    BY <1>1, EndsEffect DEF Typed, Answers, World
  <1>5. RestTyped'
    BY <1>1, RestKept DEF Typed, World
  <1> QED BY <1>1, <1>2, <1>3, <1>4, <1>5 DEF Typed

LEMMA AttachReadEffect ==
  ASSUME Typed, NEW t \in Tasks, AttachRead(t)
  PROVE  /\ Typed' /\ UNCHANGED World /\ task[t].pc = "attach" /\ task[t].op \in {"send", "echo"} /\ task[t].m \in Posts
         /\ task[t].on \in Servers
         /\ \/ ~EnabledFor(task[t].on) /\ kept[task[t].on] = "off" /\ RowsSame /\ Ends(t, "off")
            \/ EnabledFor(task[t].on) /\ ~own[task[t].m].is /\ ~orphan[task[t].m].is /\ RowsSame /\ Goes(t, "settle")
            \/ EnabledFor(task[t].on) /\ Adopted(task[t].m) /\ Goes(t, "settle")
            \/ EnabledFor(task[t].on) /\ own[task[t].m].is /\ own[task[t].m].wamid /\ RowsSame /\ Goes(t, "settle")
            \/ /\ EnabledFor(task[t].on) /\ own[task[t].m].is /\ ~own[task[t].m].wamid /\ RowsSame
               /\ Moves(t) /\ task'[t].pc = "link" /\ task'[t].said = "" /\ task'[t].list = task[t].list
               /\ task'[t].cur = task[t].cur /\ task'[t].due = task[t].due
               /\ task'[t].saw = IF orphan[task[t].m].is THEN "orphan" ELSE "none"
  <1> DEFINE m == task[t].m
             s == task[t].on
  <1>1. /\ task[t].pc = "attach" /\ Knows(s) /\ UNCHANGED World
        /\ CASE ~EnabledFor(s) -> Said(t, "off") /\ UNCHANGED <<own, orphan>>
             [] EnabledFor(s) /\ ~own[m].is ->
                    /\ own' = IF orphan[m].is THEN [own EXCEPT ![m] = orphan[m]] ELSE own
                    /\ orphan' = [orphan EXCEPT ![m] = NoUsage]
                    /\ Onto(t, "settle")
             [] EnabledFor(s) /\ own[m].is /\ own[m].wamid -> Onto(t, "settle") /\ UNCHANGED <<own, orphan>>
             [] OTHER -> task' = [task EXCEPT ![t].pc = "link", ![t].saw = IF orphan[m].is THEN "orphan" ELSE "none"] /\ UNCHANGED <<own, orphan>>
    BY DEF AttachRead, Same, World
  <1>2. task[t].op \in {"send", "echo"} /\ m \in Posts /\ s \in Servers
    BY <1>1, OpOf, Begun DEF Typed
  <1>3. RestTyped' /\ usageMenu' = usageMenu
    BY <1>1, RestKept DEF Typed, World
  <1>4. ASSUME Onto(t, "settle") PROVE TasksTyped' /\ Goes(t, "settle")
    BY <1>1, <1>2, <1>3, <1>4, GoesEffect DEF Typed, AtStep
  <1>5. ASSUME UNCHANGED <<own, orphan>> PROVE RowsSame /\ RowsTyped'
    BY <1>5, RowsKept DEF Typed, RowsSame
  <1>6. CASE ~EnabledFor(s)
    <2>1. Said(t, "off") /\ UNCHANGED <<own, orphan>>
      BY <1>1, <1>6
    <2>2. TasksTyped' /\ Ends(t, "off")
      BY <1>1, <1>3, <2>1, EndsEffect DEF Typed, Answers
    <2>3. kept[s] = "off"
      BY <1>1, <1>2, <1>6 DEF Knows, EnabledFor, Typed, RestTyped
    <2> QED BY <1>1, <1>2, <1>3, <1>5, <1>6, <2>1, <2>2, <2>3 DEF Typed
  <1>7. CASE EnabledFor(s) /\ ~own[m].is
    <2>1. /\ own' = IF orphan[m].is THEN [own EXCEPT ![m] = orphan[m]] ELSE own
          /\ orphan' = [orphan EXCEPT ![m] = NoUsage] /\ Onto(t, "settle")
      BY <1>1, <1>7
    <2>2. NoUsage \in MessageUsage /\ ~NoUsage.is
      BY LedgerNumbers DEF NoUsage, MessageUsage, BillingStates
    <2>3. /\ orphan' \in [Posts -> MessageUsage] /\ ~orphan'[m].is /\ orphan'[m] = NoUsage
          /\ \A x \in Posts : x # m => orphan'[x] = orphan[x]
      BY <1>2, <2>1, <2>2 DEF Typed, RowsTyped
    <2>4. CASE orphan[m].is
      <3>1. own' \in [Posts -> MessageUsage] /\ own'[m] = orphan[m] /\ \A x \in Posts : x # m => own'[x] = own[x]
        BY <1>2, <2>1, <2>4 DEF Typed, RowsTyped
      <3>2. RowsTyped'
        BY <2>3, <3>1 DEF Typed, RowsTyped
      <3>3. Adopted(m)
        BY <1>7, <2>3, <2>4, <3>1 DEF Adopted, Others
      <3> QED BY <1>1, <1>2, <1>3, <1>4, <1>7, <2>1, <3>2, <3>3 DEF Typed
    <2>5. CASE ~orphan[m].is
      <3>1. own' = own /\ orphan' = orphan
        BY <1>2, <2>1, <2>5 DEF Typed, RowsTyped
      <3>2. RowsTyped'
        BY <2>3, <3>1 DEF Typed, RowsTyped
      <3> QED BY <1>1, <1>2, <1>3, <1>4, <1>7, <2>1, <2>3, <2>5, <3>1, <3>2 DEF Typed, RowsSame
    <2> QED BY <2>4, <2>5
  <1>8. CASE EnabledFor(s) /\ own[m].is /\ own[m].wamid
    BY <1>1, <1>2, <1>3, <1>4, <1>5, <1>8 DEF Typed
  <1>9. CASE EnabledFor(s) /\ own[m].is /\ ~own[m].wamid
    <2> DEFINE seen == IF orphan[m].is THEN "orphan" ELSE "none"
               r == [task[t] EXCEPT !.pc = "link", !.saw = seen]
    <2>1. task' = [task EXCEPT ![t] = r] /\ UNCHANGED <<own, orphan>>
      BY <1>1, <1>9
    <2>2. task[t] \in TaskRecord /\ task[t].said = "" /\ task[t].pc = "attach"
      BY <1>1, OpOf DEF Typed, TasksTyped
    <2>3. /\ r \in TaskRecord /\ r.op = task[t].op /\ r.on = task[t].on /\ r.m = task[t].m /\ r.pc = "link" /\ r.said = ""
          /\ r.saw = seen /\ r.list = task[t].list /\ r.cur = task[t].cur /\ r.due = task[t].due
      BY <2>2 DEF TaskRecord, StepNames
    <2>4. AtStep(task[t].op, "link")
      BY <1>2 DEF AtStep
    <2> HIDE DEF r
    <2>5. TasksTyped' /\ Moves(t) /\ task'[t] = r
      BY <1>3, <2>1, <2>2, <2>3, <2>4, MoveEffect DEF Typed
    <2> QED BY <1>1, <1>2, <1>3, <1>5, <1>9, <2>1, <2>3, <2>5 DEF Typed
  <1> QED BY <1>6, <1>7, <1>8, <1>9

LEMMA AttachLostEffect ==
  ASSUME Typed, NEW t \in Tasks, AttachLost(t)
  PROVE  Typed' /\ UNCHANGED World /\ RowsSame /\ task[t].pc = "attach" /\ task[t].m \in Posts /\ Ends(t, "unattached")
  <1>1. task[t].pc = "attach" /\ UNCHANGED World /\ UNCHANGED <<own, orphan>> /\ Said(t, "unattached")
    BY DEF AttachLost, Same, World
  <1>2. TasksTyped' /\ Ends(t, "unattached")
    BY <1>1, EndsEffect DEF Typed, Answers, World
  <1>3. RestTyped' /\ RowsTyped' /\ RowsSame
    BY <1>1, RestKept, RowsKept DEF Typed, World, RowsSame
  <1> QED BY <1>1, <1>2, <1>3, Begun DEF Typed

LEMMA AttachLinkEffect ==
  ASSUME Typed, NEW t \in Tasks, AttachLink(t), own[task[t].m].is
  PROVE  /\ Typed' /\ UNCHANGED World /\ task[t].pc = "link" /\ task[t].op \in {"send", "echo"} /\ task[t].m \in Posts
         /\ \/ task[t].saw = "none" /\ orphan[task[t].m].is /\ RowsSame /\ Ends(t, "conflict")
            \/ Linked(task[t].m) /\ Goes(t, "settle")
  <1> DEFINE m == task[t].m
  <1>1. /\ task[t].pc = "link" /\ UNCHANGED World
        /\ IF task[t].saw = "none" /\ orphan[m].is
           THEN Said(t, "conflict") /\ UNCHANGED <<own, orphan>>
           ELSE /\ own' = [own EXCEPT ![m].wamid = TRUE]
                /\ orphan' = [orphan EXCEPT ![m] = NoUsage]
                /\ Onto(t, "settle")
    BY DEF AttachLink, Same, World
  <1>2. task[t].op \in {"send", "echo"} /\ m \in Posts
    BY <1>1, OpOf, Begun DEF Typed
  <1>3. RestTyped' /\ usageMenu' = usageMenu
    BY <1>1, RestKept DEF Typed, World
  <1>4. CASE task[t].saw = "none" /\ orphan[m].is
    <2>1. TasksTyped' /\ Ends(t, "conflict")
      BY <1>1, <1>3, <1>4, EndsEffect DEF Typed, Answers
    <2> QED BY <1>1, <1>2, <1>3, <1>4, <2>1, RowsKept DEF Typed, RowsSame
  <1>5. CASE ~(task[t].saw = "none" /\ orphan[m].is)
    <2> DEFINE b == [own[m] EXCEPT !.wamid = TRUE]
    <2>1. own' = [own EXCEPT ![m] = b] /\ orphan' = [orphan EXCEPT ![m] = NoUsage]
      BY <1>1, <1>5
    <2>2. NoUsage \in MessageUsage /\ ~NoUsage.is
      BY LedgerNumbers DEF NoUsage, MessageUsage, BillingStates
    <2>3. /\ b \in MessageUsage /\ b.is = own[m].is /\ b.wamid /\ b.out = own[m].out /\ b.state = own[m].state
          /\ b.rate = own[m].rate /\ b.cost = own[m].cost /\ b.at = own[m].at
      BY <1>2 DEF Typed, RowsTyped, MessageUsage
    <2> HIDE DEF b
    <2>4. own'[m] = b /\ own' \in [Posts -> MessageUsage] /\ \A x \in Posts : x # m => own'[x] = own[x]
      BY <1>2, <2>1, <2>3 DEF Typed, RowsTyped
    <2>5. /\ orphan' \in [Posts -> MessageUsage] /\ ~orphan'[m].is /\ orphan'[m] = NoUsage
          /\ \A x \in Posts : x # m => orphan'[x] = orphan[x]
      BY <1>2, <2>1, <2>2 DEF Typed, RowsTyped
    <2>6. RowsTyped'
      BY <2>4, <2>5 DEF Typed, RowsTyped
    <2>7. Linked(m)
      BY <2>3, <2>4, <2>5 DEF Linked, Others
    <2>8. TasksTyped' /\ Goes(t, "settle")
      BY <1>1, <1>2, <1>3, <1>5, GoesEffect DEF Typed, AtStep
    <2> QED BY <1>1, <1>2, <1>3, <2>6, <2>7, <2>8 DEF Typed
  <1> QED BY <1>4, <1>5

LEMMA SettleOneEffect ==
  ASSUME Typed, NEW t \in Tasks, SettleOne(t)
  PROVE  /\ Typed' /\ UNCHANGED World /\ task[t].pc = "settle" /\ task[t].op \in {"send", "echo", "event"} /\ task[t].m \in Posts
         /\ task[t].on \in Servers
         /\ \/ Ends(t, "ok") /\ EnabledFor(task[t].on) /\ AllSettled(task[t].m) /\ HasDecided(task[t].m)
            \/ Ends(t, "ok") /\ kept[task[t].on] = "off" /\ RowsSame
            \/ Ends(t, "stopped") /\ RowsSame
  <1>1. /\ task[t].pc = "settle" /\ UNCHANGED World
        /\ \/ Settle(task[t].on, task[t].m) /\ Said(t, "ok")
           \/ UNCHANGED <<own, orphan>> /\ Said(t, "stopped")
    BY DEF SettleOne, Same, World
  <1>2. task[t].op \in {"send", "echo", "event"} /\ task[t].m \in Posts /\ task[t].on \in Servers
    BY <1>1, OpOf, Begun DEF Typed
  <1>3. RestTyped' /\ usageMenu' = usageMenu
    BY <1>1, RestKept DEF Typed, World
  <1>4. CASE Settle(task[t].on, task[t].m) /\ Said(t, "ok")
    <2>1. TasksTyped' /\ Ends(t, "ok")
      BY <1>1, <1>3, <1>4, EndsEffect DEF Typed, Answers
    <2>2. /\ RowsTyped' /\ kept[task[t].on] # "cold"
          /\ \/ ~EnabledFor(task[t].on) /\ RowsSame
             \/ EnabledFor(task[t].on) /\ AllSettled(task[t].m) /\ HasDecided(task[t].m)
      BY <1>2, <1>4, SettledEffect DEF Typed
    <2>3. ~EnabledFor(task[t].on) => kept[task[t].on] = "off"
      BY <1>2, <2>2 DEF EnabledFor, Typed, RestTyped
    <2> QED BY <1>1, <1>2, <1>3, <2>1, <2>2, <2>3 DEF Typed
  <1>5. CASE UNCHANGED <<own, orphan>> /\ Said(t, "stopped")
    <2>1. TasksTyped' /\ Ends(t, "stopped")
      BY <1>1, <1>3, <1>5, EndsEffect DEF Typed, Answers
    <2> QED BY <1>1, <1>2, <1>3, <1>5, <2>1, RowsKept DEF Typed, RowsSame
  <1> QED BY <1>1, <1>4, <1>5

LEMMA EventEffect ==
  ASSUME Typed, NEW t \in Tasks, RecordStatusEvent(t)
  PROVE  /\ Typed' /\ RowsSame /\ UNCHANGED <<usageMenu, tick, post, price, panel, kept, asked, coincided>>
         /\ task[t].pc = "append" /\ task[t].op = "event" /\ task[t].m \in Posts
         /\ Reported(task[t].m) /\ \E e \in usageMenu.events : e.m = task[t].m
         /\ \A x \in Posts : told[x] \subseteq told'[x] /\ (x # task[t].m => told'[x] = told[x])
         /\ \/ Goes(t, "settle")
            \/ Ends(t, "ignored") /\ told' = told
  <1>1. PICK e \in usageMenu.events :
          /\ task[t].m = e.m /\ e.at <= tick /\ Reported(e.m)
          /\ \/ /\ told' = [told EXCEPT ![e.m] = @ \cup {[status |-> e.status, at |-> e.at, price |-> e.price, recv |-> tick]}]
                /\ Onto(t, "settle")
             \/ UNCHANGED told /\ Said(t, "ignored")
    BY DEF RecordStatusEvent
  <1>2. /\ task[t].pc = "append" /\ task[t].op = "event" /\ RowsSame
        /\ UNCHANGED <<usageMenu, tick, post, price, panel, kept, asked, coincided>>
    BY DEF RecordStatusEvent, Same, RowsSame
  <1>3. task[t].m \in Posts
    BY <1>2, Begun DEF Typed
  <1>4. e.status \in {"sent", "delivered", "read", "failed"} /\ e.at \in Nat /\ e.price \in {"none", "charged", "free"}
    BY UsageAssumption DEF Typed, RestTyped
  <1> DEFINE f == [status |-> e.status, at |-> e.at, price |-> e.price, recv |-> tick]
  <1>5. f \in StatusEvent
    BY <1>1, <1>4, LedgerNumbers DEF StatusEvent, Ticks, Typed, RestTyped
  <1> HIDE DEF f
  <1>6. CASE told' = [told EXCEPT ![e.m] = @ \cup {f}] /\ Onto(t, "settle")
    <2>1. /\ told' \in [Posts -> SUBSET StatusEvent]
          /\ \A x \in Posts : told[x] \subseteq told'[x] /\ (x # task[t].m => told'[x] = told[x])
      BY <1>1, <1>3, <1>5, <1>6 DEF Typed, RestTyped
    <2>2. RestTyped'
      BY <1>2, <2>1 DEF Typed, RestTyped
    <2>3. TasksTyped' /\ Goes(t, "settle")
      BY <1>2, <1>6, GoesEffect DEF Typed, AtStep
    <2> QED BY <1>1, <1>2, <1>3, <2>1, <2>2, <2>3, RowsKept DEF Typed
  <1>7. CASE UNCHANGED told /\ Said(t, "ignored")
    <2>1. TasksTyped' /\ Ends(t, "ignored")
      BY <1>2, <1>7, EndsEffect DEF Typed, Answers
    <2>2. RestTyped'
      BY <1>2, <1>7, RestKept DEF Typed
    <2> QED BY <1>1, <1>2, <1>3, <1>7, <2>1, <2>2, RowsKept DEF Typed
  <1> QED BY <1>1, <1>6, <1>7 DEF f

LEMMA SweepStartsEffect ==
  ASSUME Typed, NEW t \in Tasks, SweepStarts(t)
  PROVE  /\ Typed' /\ UNCHANGED World /\ RowsSame /\ task[t].pc = "sweep" /\ task[t].op = "sweep"
         /\ \/ Ends(t, "no baseline")
            \/ /\ Moves(t) /\ task'[t].pc = "missing" /\ task'[t].said = "" /\ task'[t].list = task[t].list
               /\ task'[t].cur = task[t].cur /\ task'[t].due = task[t].due
  <1>1. /\ task[t].pc = "sweep" /\ task[t].op = "sweep" /\ UNCHANGED World /\ UNCHANGED <<own, orphan>>
        /\ IF LedgerRows = {} THEN Said(t, "no baseline") ELSE task' = [task EXCEPT ![t].pc = "missing", ![t].base = baseline]
    BY DEF SweepStarts, Same, World
  <1>2. RestTyped' /\ RowsTyped' /\ RowsSame /\ usageMenu' = usageMenu
    BY <1>1, RestKept, RowsKept DEF Typed, World, RowsSame
  <1>3. CASE LedgerRows = {}
    <2>1. TasksTyped' /\ Ends(t, "no baseline")
      BY <1>1, <1>2, <1>3, EndsEffect DEF Typed, Answers
    <2> QED BY <1>1, <1>2, <2>1 DEF Typed
  <1>4. CASE LedgerRows # {}
    <2> DEFINE Days == {row.born : row \in LedgerRows}
    <2>1. Days \in SUBSET Ticks /\ Days # {}
      BY <1>4 DEF LedgerRows, Typed, RowsTyped, MessageUsage
    <2>2. baseline \in Ticks
      <3>1. Min(Days) \in Days
        BY <2>1, LeastTick
      <3> QED BY <2>1, <3>1 DEF baseline
    <2> DEFINE r == [task[t] EXCEPT !.pc = "missing", !.base = baseline]
    <2>3. task[t] \in TaskRecord /\ task[t].said = "" /\ task' = [task EXCEPT ![t] = r]
      BY <1>1, <1>4, OpOf DEF Typed, TasksTyped
    <2>4. /\ r \in TaskRecord /\ r.op = task[t].op /\ r.on = task[t].on /\ r.m = task[t].m /\ r.pc = "missing" /\ r.said = ""
          /\ r.list = task[t].list /\ r.cur = task[t].cur /\ r.due = task[t].due
      BY <2>2, <2>3 DEF TaskRecord, StepNames
    <2>5. AtStep(task[t].op, "missing")
      BY <1>1 DEF AtStep
    <2> HIDE DEF r
    <2>6. TasksTyped' /\ Moves(t) /\ task'[t] = r
      BY <1>1, <1>2, <2>3, <2>4, <2>5, MoveEffect DEF Typed
    <2> QED BY <1>1, <1>2, <2>4, <2>6 DEF Typed
  <1> QED BY <1>3, <1>4

\* A pass begins with the messages of its days that have no row.
Missed(t) ==
    /\ \A x \in task'[t].list :
         /\ x \in Listed /\ "wamid" \in DOMAIN x /\ x.m \in Posts /\ panel.on /\ post[x.m].is /\ ~own[x.m].is
         /\ post[x.m].at >= panel.at /\ x.wamid = post[x.m].wamid
    /\ \A m \in task'[t].due : \E x \in task'[t].list : x.m = m

LEMMA SweepMissingEffect ==
  ASSUME Typed, NEW t \in Tasks, SweepMissing(t)
  PROVE  /\ Typed' /\ UNCHANGED World /\ RowsSame /\ task[t].pc = "missing" /\ task[t].op = "sweep"
         /\ Moves(t) /\ task'[t].pc = "infer" /\ task'[t].said = "" /\ task'[t].cur = task[t].cur /\ Missed(t)
  <1> DEFINE since == Since(task[t].base)
             found == {m \in Posts : /\ panel.on /\ post[m].is /\ ~own[m].is
                                     /\ post[m].at + IntegrityInterval <= tick /\ post[m].at >= since}
             list == {[m |-> m, wamid |-> post[m].wamid, status |-> post[m].status] : m \in found}
             r == [task[t] EXCEPT !.pc = "infer", !.list = list, !.due = found]
  <1>1. task[t].pc = "missing" /\ UNCHANGED World /\ UNCHANGED <<own, orphan>> /\ task' = [task EXCEPT ![t] = r]
    BY DEF SweepMissing, Same, World
  <1>2. RestTyped' /\ RowsTyped' /\ RowsSame /\ usageMenu' = usageMenu
    BY <1>1, RestKept, RowsKept DEF Typed, World, RowsSame
  <1>3. task[t] \in TaskRecord /\ task[t].said = "" /\ task[t].op = "sweep"
    BY <1>1, OpOf DEF Typed, TasksTyped
  <1>4. found \subseteq Posts
    OBVIOUS
  <1>5. since \in Nat /\ panel.at \in Nat /\ since >= panel.at
    <2>1. task[t].base \in Ticks /\ panel.at \in Ticks
      BY <1>3 DEF TaskRecord, Typed, RestTyped
    <2> DEFINE S == {task[t].base, panel.at}
    <2>2. S \in SUBSET Ticks /\ S # {} /\ panel.at \in S
      BY <2>1
    <2>3. since = Max(S)
      BY DEF Since
    <2> HIDE DEF S
    <2>4. Max(S) \in S /\ \A y \in S : y <= Max(S)
      BY <2>2, GreatestTick
    <2>5. since \in Ticks /\ panel.at <= since
      BY <2>2, <2>3, <2>4
    <2> QED BY <2>1, <2>5, LedgerNumbers
  <1> HIDE DEF since
  <1>6. /\ list \subseteq Listed
        /\ \A x \in list : /\ "wamid" \in DOMAIN x /\ x.m \in Posts /\ panel.on /\ post[x.m].is /\ ~own[x.m].is
                           /\ post[x.m].at >= panel.at /\ x.wamid = post[x.m].wamid
    <2> SUFFICES ASSUME NEW m \in found
                 PROVE  LET x == [m |-> m, wamid |-> post[m].wamid, status |-> post[m].status] IN
                        /\ x \in Listed /\ "wamid" \in DOMAIN x /\ x.m \in Posts /\ panel.on /\ post[x.m].is /\ ~own[x.m].is
                        /\ post[x.m].at >= panel.at /\ x.wamid = post[x.m].wamid
      OBVIOUS
    <2>1. m \in Posts /\ panel.on /\ post[m].is /\ ~own[m].is /\ post[m].at >= since
      OBVIOUS
    <2>2. post[m].wamid \in BOOLEAN /\ post[m].status \in {"pending", "sent", "failed"} /\ post[m].at \in Ticks
      BY <2>1 DEF Typed, RestTyped, PostRecord
    <2>3. post[m].at >= panel.at
      <3>1. post[m].at \in Nat
        BY <2>2, LedgerNumbers
      <3> QED BY <3>1, <2>1, <1>5
    <2> QED BY <2>1, <2>2, <2>3 DEF Listed
  <1>7. \A m \in found : \E x \in list : x.m = m
    <2> TAKE m \in found
    <2> DEFINE y == [m |-> m, wamid |-> post[m].wamid, status |-> post[m].status]
    <2>1. y \in list /\ y.m = m
      OBVIOUS
    <2> QED BY <2>1
  <1> HIDE DEF list, found
  <1>8. r \in TaskRecord
    BY <1>3, <1>4, <1>6 DEF TaskRecord, StepNames
  <1>9. /\ r.op = task[t].op /\ r.on = task[t].on /\ r.m = task[t].m /\ r.pc = "infer" /\ r.said = ""
        /\ r.list = list /\ r.cur = task[t].cur /\ r.due = found
    BY <1>3 DEF TaskRecord
  <1>10. AtStep(task[t].op, "infer")
    BY <1>3 DEF AtStep
  <1> HIDE DEF r
  <1>11. TasksTyped' /\ Moves(t) /\ task'[t] = r
    BY <1>1, <1>2, <1>8, <1>9, <1>10, MoveEffect DEF Typed
  <1>12. Missed(t)
    BY <1>6, <1>7, <1>9, <1>11 DEF Missed
  <1> QED BY <1>1, <1>2, <1>3, <1>9, <1>11, <1>12 DEF Typed

\* An entry of a pass is taken up.
Takes(t, x, pc) ==
    /\ Moves(t) /\ x \in task[t].list /\ task'[t].pc = pc /\ task'[t].list = task[t].list \ {x} /\ task'[t].cur = x
    /\ task'[t].due = task[t].due /\ task'[t].said = ""

LEMMA TakesEffect ==
  ASSUME Typed, NEW t \in Tasks, NEW x \in task[t].list, NEW pc \in {"inferred", "adopted"}, usageMenu' = usageMenu,
         task[t].pc \notin {"new", "done"}, task[t].op = "sweep",
         task' = [task EXCEPT ![t].pc = pc, ![t].list = @ \ {x}, ![t].cur = x]
  PROVE  TasksTyped' /\ Takes(t, x, pc)
  <1> DEFINE r == [task[t] EXCEPT !.pc = pc, !.list = @ \ {x}, !.cur = x]
  <1>1. task[t] \in TaskRecord /\ task[t].said = "" /\ task' = [task EXCEPT ![t] = r]
    BY OpOf DEF Typed, TasksTyped
  <1>2. task[t].list \subseteq Listed /\ x \in Listed
    BY <1>1 DEF TaskRecord
  <1>3. /\ r.op = task[t].op /\ r.on = task[t].on /\ r.m = task[t].m /\ r.pc = pc /\ r.said = ""
        /\ r.list = task[t].list \ {x} /\ r.cur = x /\ r.due = task[t].due
    BY <1>1 DEF TaskRecord
  <1>4. r \in TaskRecord
    <2> DEFINE q == [task[t] EXCEPT !.pc = pc, !.list = task[t].list \ {x}]
    <2>1. q \in TaskRecord
      BY <1>1, <1>2 DEF TaskRecord, StepNames
    <2>2. r = [q EXCEPT !.cur = x]
      BY <1>1 DEF TaskRecord
    <2> HIDE DEF q, r
    <2> QED BY <1>2, <2>1, <2>2 DEF TaskRecord
  <1>5. AtStep(task[t].op, pc)
    BY DEF AtStep
  <1> HIDE DEF r
  <1>6. TasksTyped' /\ Moves(t) /\ task'[t] = r
    BY <1>1, <1>3, <1>4, <1>5, MoveEffect DEF Typed
  <1> QED BY <1>3, <1>6 DEF Takes

\* A list is made, or shortened by an entry.
Lists(t, pc, l) ==
    /\ Moves(t) /\ task'[t].pc = pc /\ task'[t].list = l /\ task'[t].cur = task[t].cur
    /\ task'[t].due = task[t].due /\ task'[t].said = ""

LEMMA ListsEffect ==
  ASSUME Typed, NEW t \in Tasks, NEW pc \in {"adopt", "resettle"}, NEW l \in SUBSET Listed, usageMenu' = usageMenu,
         task[t].pc \notin {"new", "done"}, AtStep(task[t].op, pc),
         task' = [task EXCEPT ![t].pc = pc, ![t].list = l]
  PROVE  TasksTyped' /\ Lists(t, pc, l)
  <1> DEFINE r == [task[t] EXCEPT !.pc = pc, !.list = l]
  <1>1. task[t] \in TaskRecord /\ task[t].said = "" /\ task' = [task EXCEPT ![t] = r]
    BY OpOf DEF Typed, TasksTyped
  <1>3. /\ r.op = task[t].op /\ r.on = task[t].on /\ r.m = task[t].m /\ r.pc = pc /\ r.said = ""
        /\ r.list = l /\ r.cur = task[t].cur /\ r.due = task[t].due
    BY <1>1 DEF TaskRecord
  <1>4. r \in TaskRecord
    BY <1>1 DEF TaskRecord, StepNames
  <1> HIDE DEF r
  <1>6. TasksTyped' /\ Moves(t) /\ task'[t] = r
    BY <1>1, <1>3, <1>4, MoveEffect DEF Typed
  <1> QED BY <1>3, <1>6 DEF Lists

\* The row of a message that a pass found.
LEMMA InferRowEffect ==
  ASSUME Typed, PostsKept, NEW t \in Tasks, InferRow(t)
  PROVE  /\ Typed' /\ UNCHANGED World /\ task[t].pc = "infer" /\ task[t].op = "sweep"
         /\ \/ task[t].list = {} /\ RowsSame /\ Goes(t, "unlinked")
            \/ \E x \in task[t].list :
                 /\ Takes(t, x, "inferred") /\ x.m \in Posts /\ x.wamid \in BOOLEAN /\ post[x.m].is
                 /\ \/ kept[task[t].on] = "off" /\ RowsSame
                    \/ own[x.m].is /\ RowsSame
                    \/ EnabledFor(task[t].on) /\ Recorded(x.m, post[x.m].out, x.wamid, post[x.m].at)
  <1>1. /\ task[t].pc = "infer" /\ UNCHANGED World
        /\ IF task[t].list = {} THEN Onto(t, "unlinked") /\ UNCHANGED <<own, orphan>>
           ELSE \E x \in task[t].list :
                  /\ Record(task[t].on, x.m, post[x.m].out, x.wamid, post[x.m].at)
                  /\ task' = [task EXCEPT ![t].pc = "inferred", ![t].list = @ \ {x}, ![t].cur = x]
    BY DEF InferRow, Same, World
  <1>2. RestTyped' /\ usageMenu' = usageMenu
    BY <1>1, RestKept DEF Typed, World
  <1>3. task[t].op = "sweep" /\ task[t].on \in Servers /\ task[t] \in TaskRecord
    BY <1>1, OpOf, Begun DEF Typed, TasksTyped
  <1>4. CASE task[t].list = {}
    <2>1. TasksTyped' /\ Goes(t, "unlinked")
      BY <1>1, <1>2, <1>3, <1>4, GoesEffect DEF Typed, AtStep
    <2> QED BY <1>1, <1>2, <1>3, <1>4, <2>1, RowsKept DEF Typed, RowsSame
  <1>5. CASE task[t].list # {}
    <2>1. PICK x \in task[t].list :
            /\ Record(task[t].on, x.m, post[x.m].out, x.wamid, post[x.m].at)
            /\ task' = [task EXCEPT ![t].pc = "inferred", ![t].list = @ \ {x}, ![t].cur = x]
      BY <1>1, <1>5
    <2>2. TasksTyped' /\ Takes(t, x, "inferred")
      BY <1>1, <1>2, <1>3, <2>1, TakesEffect
    <2>3. x \in Listed /\ "wamid" \in DOMAIN x /\ post[x.m].is
      BY <1>1, <1>3 DEF TaskRecord, PostsKept, ListsFine
    <2>4. x.m \in Posts /\ x.wamid \in BOOLEAN
      BY <2>3 DEF Listed
    <2>5. post[x.m].out \in BOOLEAN /\ post[x.m].at \in Ticks
      BY <2>4 DEF Typed, RestTyped, PostRecord
    <2>6. /\ RowsTyped' /\ Knows(task[t].on)
          /\ (~EnabledFor(task[t].on) \/ own[x.m].is) => own' = own /\ orphan' = orphan
          /\ (EnabledFor(task[t].on) /\ ~own[x.m].is) => Recorded(x.m, post[x.m].out, x.wamid, post[x.m].at)
      BY <1>3, <2>1, <2>4, <2>5, RecordEffect DEF Typed
    <2>7. ~EnabledFor(task[t].on) => kept[task[t].on] = "off"
      BY <1>3, <2>6 DEF Knows, EnabledFor, Typed, RestTyped
    <2> QED BY <1>1, <1>2, <1>3, <2>2, <2>3, <2>4, <2>6, <2>7 DEF Typed, RowsSame
  <1> QED BY <1>4, <1>5

LEMMA InferStateEffect ==
  ASSUME Typed, PostsKept, NEW t \in Tasks, InferState(t)
  PROVE  /\ Typed' /\ UNCHANGED World /\ task[t].pc = "inferred" /\ task[t].op = "sweep" /\ Goes(t, "infer")
         /\ task[t].cur.m \in Posts
         /\ \/ ~task[t].cur.wamid /\ RowsSame
            \/ ~task[t].cur.wamid /\ EnabledFor(task[t].on) /\ RefusedRow(task[t].cur.m)
            \/ task[t].cur.wamid /\ kept[task[t].on] = "off" /\ RowsSame
            \/ task[t].cur.wamid /\ EnabledFor(task[t].on) /\ AllSettled(task[t].cur.m) /\ HasDecided(task[t].cur.m)
  <1> DEFINE x == task[t].cur
             s == task[t].on
  <1>1. /\ task[t].pc = "inferred" /\ UNCHANGED World /\ Onto(t, "infer")
        /\ IF post[x.m].out /\ ~x.wamid /\ x.status = "failed" THEN MarkSendFailed(s, x.m) /\ UNCHANGED orphan
           ELSE IF x.wamid THEN Settle(s, x.m)
           ELSE UNCHANGED <<own, orphan>>
    BY DEF InferState, Same, World
  <1>2. RestTyped' /\ usageMenu' = usageMenu
    BY <1>1, RestKept DEF Typed, World
  <1>3. task[t].op = "sweep" /\ s \in Servers /\ x.m \in Posts
    BY <1>1, OpOf, Begun DEF Typed, PostsKept, ListsFine
  <1>4. TasksTyped' /\ Goes(t, "infer")
    BY <1>1, <1>2, <1>3, GoesEffect DEF Typed, AtStep
  <1>5. CASE ~x.wamid /\ MarkSendFailed(s, x.m) /\ UNCHANGED orphan
    BY <1>1, <1>2, <1>3, <1>4, <1>5, MarkEffect DEF Typed
  <1>6. CASE x.wamid /\ Settle(s, x.m)
    <2>1. /\ RowsTyped' /\ kept[s] # "cold"
          /\ \/ ~EnabledFor(s) /\ RowsSame
             \/ EnabledFor(s) /\ AllSettled(x.m) /\ HasDecided(x.m)
      BY <1>3, <1>6, SettledEffect DEF Typed
    <2>2. ~EnabledFor(s) => kept[s] = "off"
      BY <1>3, <2>1 DEF EnabledFor, Typed, RestTyped
    <2> QED BY <1>1, <1>2, <1>3, <1>4, <1>6, <2>1, <2>2 DEF Typed
  <1>7. CASE ~x.wamid /\ UNCHANGED <<own, orphan>>
    BY <1>1, <1>2, <1>3, <1>4, <1>7, RowsKept DEF Typed, RowsSame
  <1> QED BY <1>1, <1>5, <1>6, <1>7

LEMMA SweepUnlinkedEffect ==
  ASSUME Typed, NEW t \in Tasks, SweepUnlinked(t)
  PROVE  /\ Typed' /\ UNCHANGED World /\ RowsSame /\ task[t].pc = "unlinked" /\ task[t].op = "sweep"
         /\ \E l \in SUBSET Listed : Lists(t, "adopt", l) /\ \A x \in l : told[x.m] # {}
  <1> DEFINE found == {m \in Posts : /\ panel.on /\ ~HasWamidRow(m)
                                     /\ ~(post[m].is /\ post[m].wamid /\ post[m].at < Since(task[t].base))
                                     /\ \E e \in told[m] : e.status = "sent" /\ e.at >= Since(task[t].base)
                                     /\ \E e \in told[m] : e.recv + UnlinkedAfter <= tick}
             l == {[m |-> m] : m \in found}
  <1>1. task[t].pc = "unlinked" /\ UNCHANGED World /\ RowsSame /\ task' = [task EXCEPT ![t].pc = "adopt", ![t].list = l]
    BY DEF SweepUnlinked, Same, World, RowsSame
  <1>2. RestTyped' /\ RowsTyped' /\ usageMenu' = usageMenu
    BY <1>1, RestKept, RowsKept DEF Typed, World
  <1>3. task[t].op = "sweep"
    BY <1>1, OpOf DEF Typed
  <1>4. found \subseteq Posts /\ \A m \in found : told[m] # {}
    OBVIOUS
  <1> HIDE DEF found
  <1>5. l \in SUBSET Listed
    BY <1>4 DEF Listed
  <1>6. \A x \in l : told[x.m] # {}
    BY <1>4
  <1> HIDE DEF l
  <1>7. AtStep(task[t].op, "adopt")
    BY <1>3 DEF AtStep
  <1>8. TasksTyped' /\ Lists(t, "adopt", l)
    BY <1>1, <1>2, <1>5, <1>7, ListsEffect
  <1> QED BY <1>1, <1>2, <1>3, <1>5, <1>6, <1>8 DEF Typed

LEMMA InsertUnlinkedEffect ==
  ASSUME Typed, PostsKept, NEW t \in Tasks, InsertUnlinked(t)
  PROVE  /\ Typed' /\ UNCHANGED World /\ task[t].pc = "adopt" /\ task[t].op = "sweep"
         /\ \/ RowsSame /\ Goes(t, "pending")
            \/ RowsSame /\ \E x \in task[t].list : Lists(t, "adopt", task[t].list \ {x})
            \/ \E x \in task[t].list : x.m \in Posts /\ told[x.m] # {} /\ Takes(t, x, "adopted") /\ Inserted(x.m)
  <1>1. /\ task[t].pc = "adopt" /\ UNCHANGED World /\ own' = own
        /\ IF task[t].list = {} THEN Onto(t, "pending") /\ UNCHANGED orphan
           ELSE \E x \in task[t].list :
                   IF HasWamidRow(x.m) THEN task' = [task EXCEPT ![t].list = @ \ {x}] /\ UNCHANGED orphan
                   ELSE /\ orphan' = [orphan EXCEPT ![x.m] = RowWith(TRUE, TRUE, Min({e.at : e \in told[x.m]}))]
                        /\ task' = [task EXCEPT ![t].pc = "adopted", ![t].list = @ \ {x}, ![t].cur = x]
    BY DEF InsertUnlinked, Same, World
  <1>2. RestTyped' /\ usageMenu' = usageMenu
    BY <1>1, RestKept DEF Typed, World
  <1>3. task[t].op = "sweep" /\ task[t] \in TaskRecord
    BY <1>1, OpOf DEF Typed, TasksTyped
  <1>4. CASE Onto(t, "pending") /\ UNCHANGED orphan
    <2>1. TasksTyped' /\ Goes(t, "pending")
      BY <1>1, <1>2, <1>3, <1>4, GoesEffect DEF Typed, AtStep
    <2> QED BY <1>1, <1>2, <1>3, <1>4, <2>1, RowsKept DEF Typed, RowsSame
  <1>5. ASSUME NEW x \in task[t].list, task' = [task EXCEPT ![t].list = @ \ {x}] /\ UNCHANGED orphan
        PROVE  Typed' /\ RowsSame /\ Lists(t, "adopt", task[t].list \ {x})
    <2> DEFINE l == task[t].list \ {x}
    <2>1. l \in SUBSET Listed
      BY <1>3 DEF TaskRecord
    <2>2. task' = [task EXCEPT ![t].pc = "adopt", ![t].list = l]
      <3> DEFINE r == [task[t] EXCEPT !.list = l]
                 q == [task[t] EXCEPT !.pc = "adopt", !.list = l]
      <3>1. r = q
        BY <1>1, <1>3 DEF TaskRecord
      <3>2. task' = [task EXCEPT ![t] = r]
        BY <1>5
      <3> HIDE DEF r
      <3>3. task' = [task EXCEPT ![t] = q]
        BY <3>1, <3>2
      <3> QED BY <3>3
    <2>3. AtStep(task[t].op, "adopt")
      BY <1>3 DEF AtStep
    <2> HIDE DEF l
    <2>4. TasksTyped' /\ Lists(t, "adopt", l)
      BY <1>1, <1>2, <2>1, <2>2, <2>3, ListsEffect
    <2> QED BY <1>1, <1>2, <1>5, <2>4, RowsKept DEF Typed, RowsSame, l
  <1>6. ASSUME NEW x \in task[t].list, ~HasWamidRow(x.m),
               orphan' = [orphan EXCEPT ![x.m] = RowWith(TRUE, TRUE, Min({e.at : e \in told[x.m]}))],
               task' = [task EXCEPT ![t].pc = "adopted", ![t].list = @ \ {x}, ![t].cur = x]
        PROVE  Typed' /\ x.m \in Posts /\ told[x.m] # {} /\ Takes(t, x, "adopted") /\ Inserted(x.m)
    <2>1. TasksTyped' /\ Takes(t, x, "adopted")
      BY <1>1, <1>2, <1>3, <1>6, TakesEffect
    <2>2. x.m \in Posts /\ told[x.m] # {}
      BY <1>1, <1>3 DEF TaskRecord, Listed, PostsKept, ListsFine
    <2> DEFINE Days == {e.at : e \in told[x.m]}
               b == RowWith(TRUE, TRUE, Min(Days))
    <2>3. Days \in SUBSET Ticks /\ Days # {}
      BY <2>2 DEF Typed, RestTyped, StatusEvent
    <2>4. Min(Days) \in Ticks
      BY <2>3, LeastTick
    <2> HIDE DEF Days
    <2>5. b \in MessageUsage /\ b.is /\ b.wamid /\ b.state = "pending"
      BY <2>4, LedgerNumbers DEF RowWith, MessageUsage, BillingStates, Typed, RestTyped
    <2>6. orphan' = [orphan EXCEPT ![x.m] = b]
      BY <1>6 DEF Days
    <2> HIDE DEF b
    <2>7. /\ orphan'[x.m] = b /\ orphan' \in [Posts -> MessageUsage]
          /\ \A y \in Posts : y # x.m => orphan'[y] = orphan[y]
      BY <2>2, <2>5, <2>6 DEF Typed, RowsTyped
    <2>8. RowsTyped'
      BY <1>1, <1>6, <2>5, <2>7 DEF Typed, RowsTyped, HasWamidRow
    <2>9. Inserted(x.m)
      BY <1>1, <1>6, <2>5, <2>7 DEF Inserted
    <2> QED BY <1>2, <2>1, <2>2, <2>8, <2>9 DEF Typed
  <1> QED BY <1>1, <1>3, <1>4, <1>5, <1>6 DEF Typed

LEMMA SettleUnlinkedEffect ==
  ASSUME Typed, PostsKept, NEW t \in Tasks, SettleUnlinked(t)
  PROVE  /\ Typed' /\ UNCHANGED World /\ task[t].pc = "adopted" /\ task[t].op = "sweep" /\ Goes(t, "adopt") /\ task[t].cur.m \in Posts
         /\ \/ kept[task[t].on] = "off" /\ RowsSame
            \/ EnabledFor(task[t].on) /\ AllSettled(task[t].cur.m) /\ HasDecided(task[t].cur.m)
  <1>1. task[t].pc = "adopted" /\ UNCHANGED World /\ Onto(t, "adopt") /\ Settle(task[t].on, task[t].cur.m)
    BY DEF SettleUnlinked, Same, World
  <1>2. RestTyped' /\ usageMenu' = usageMenu
    BY <1>1, RestKept DEF Typed, World
  <1>3. task[t].op = "sweep" /\ task[t].on \in Servers /\ task[t].cur.m \in Posts
    BY <1>1, OpOf, Begun DEF Typed, PostsKept, ListsFine
  <1>4. TasksTyped' /\ Goes(t, "adopt")
    BY <1>1, <1>2, <1>3, GoesEffect DEF Typed, AtStep
  <1>5. /\ RowsTyped' /\ kept[task[t].on] # "cold"
        /\ \/ ~EnabledFor(task[t].on) /\ RowsSame
           \/ EnabledFor(task[t].on) /\ AllSettled(task[t].cur.m) /\ HasDecided(task[t].cur.m)
    BY <1>1, <1>3, SettledEffect DEF Typed
  <1>6. ~EnabledFor(task[t].on) => kept[task[t].on] = "off"
    BY <1>3, <1>5 DEF EnabledFor, Typed, RestTyped
  <1> QED BY <1>1, <1>2, <1>3, <1>4, <1>5, <1>6 DEF Typed

LEMMA SweepPendingEffect ==
  ASSUME Typed, NEW t \in Tasks, SweepPending(t)
  PROVE  /\ Typed' /\ UNCHANGED World /\ RowsSame /\ task[t].pc = "pending" /\ task[t].op = "sweep"
         /\ \E l \in SUBSET Listed : Lists(t, "resettle", l)
  <1>1. PICK S \in SUBSET Posts :
          /\ task[t].pc = "pending" /\ UNCHANGED World /\ RowsSame
          /\ task' = [task EXCEPT ![t].pc = "resettle", ![t].list = {[m |-> m] : m \in S}]
    BY DEF SweepPending, Same, World, RowsSame
  <1> DEFINE l == {[m |-> m] : m \in S}
  <1>2. l \in SUBSET Listed
    BY DEF Listed
  <1>3. RestTyped' /\ RowsTyped' /\ usageMenu' = usageMenu
    BY <1>1, RestKept, RowsKept DEF Typed, World
  <1>4. task[t].op = "sweep"
    BY <1>1, OpOf DEF Typed
  <1>5. AtStep(task[t].op, "resettle") /\ task' = [task EXCEPT ![t].pc = "resettle", ![t].list = l]
    BY <1>1, <1>4 DEF AtStep
  <1> HIDE DEF l
  <1>6. TasksTyped' /\ Lists(t, "resettle", l)
    BY <1>1, <1>2, <1>3, <1>5, ListsEffect
  <1> QED BY <1>1, <1>2, <1>3, <1>4, <1>6 DEF Typed

LEMMA RepriceEffect ==
  ASSUME Typed, NEW t \in Tasks, Reprice(t)
  PROVE  /\ Typed' /\ UNCHANGED World /\ RowsSame /\ task[t].pc = "list" /\ task[t].op = "reprice"
         /\ \E l \in SUBSET Listed : Lists(t, "resettle", l)
  <1>1. PICK S \in SUBSET Posts :
          /\ task[t].pc = "list" /\ task[t].op = "reprice" /\ UNCHANGED World /\ RowsSame
          /\ task' = [task EXCEPT ![t].pc = "resettle", ![t].list = {[m |-> m] : m \in S}]
    BY DEF Reprice, Same, World, RowsSame
  <1> DEFINE l == {[m |-> m] : m \in S}
  <1>2. l \in SUBSET Listed
    BY DEF Listed
  <1>3. RestTyped' /\ RowsTyped' /\ usageMenu' = usageMenu
    BY <1>1, RestKept, RowsKept DEF Typed, World
  <1>5. AtStep(task[t].op, "resettle") /\ task' = [task EXCEPT ![t].pc = "resettle", ![t].list = l]
    BY <1>1 DEF AtStep
  <1> HIDE DEF l
  <1>6. TasksTyped' /\ Lists(t, "resettle", l)
    BY <1>1, <1>2, <1>3, <1>5, ListsEffect
  <1> QED BY <1>1, <1>2, <1>3, <1>6 DEF Typed

LEMMA ResettleEffect ==
  ASSUME Typed, NEW t \in Tasks, Resettle(t)
  PROVE  /\ Typed' /\ UNCHANGED World /\ task[t].pc = "resettle" /\ task[t].op \in {"sweep", "reprice"}
         /\ \/ RowsSame /\ Ends(t, "ok")
            \/ /\ \E x \in task[t].list : x.m \in Posts /\ Lists(t, "resettle", task[t].list \ {x})
                                           /\ \/ kept[task[t].on] = "off" /\ RowsSame
                                              \/ AllSettled(x.m) /\ (EnabledFor(task[t].on) \/ task[t].op = "reprice")
  <1>1. /\ task[t].pc = "resettle" /\ UNCHANGED World
        /\ IF task[t].list = {} THEN Said(t, "ok") /\ UNCHANGED <<own, orphan>>
           ELSE \E x \in task[t].list :
                   /\ IF task[t].op = "reprice" THEN settleRow(x.m) ELSE Settle(task[t].on, x.m)
                   /\ task' = [task EXCEPT ![t].list = @ \ {x}]
    BY DEF Resettle, Same, World
  <1>2. RestTyped' /\ usageMenu' = usageMenu
    BY <1>1, RestKept DEF Typed, World
  <1>3. task[t].op \in {"sweep", "reprice"} /\ task[t].on \in Servers /\ task[t] \in TaskRecord
    BY <1>1, OpOf, Begun DEF Typed, TasksTyped
  <1>4. CASE Said(t, "ok") /\ UNCHANGED <<own, orphan>>
    <2>1. TasksTyped' /\ Ends(t, "ok")
      BY <1>1, <1>2, <1>4, EndsEffect DEF Typed, Answers
    <2> QED BY <1>1, <1>2, <1>3, <1>4, <2>1, RowsKept DEF Typed, RowsSame
  <1>5. ASSUME NEW x \in task[t].list, IF task[t].op = "reprice" THEN settleRow(x.m) ELSE Settle(task[t].on, x.m),
               task' = [task EXCEPT ![t].list = @ \ {x}]
        PROVE  /\ Typed' /\ x.m \in Posts /\ Lists(t, "resettle", task[t].list \ {x})
               /\ \/ kept[task[t].on] = "off" /\ RowsSame
                  \/ AllSettled(x.m) /\ (EnabledFor(task[t].on) \/ task[t].op = "reprice")
    <2> DEFINE l == task[t].list \ {x}
    <2>1. l \in SUBSET Listed /\ x.m \in Posts
      BY <1>3 DEF TaskRecord, Listed
    <2>2. task' = [task EXCEPT ![t].pc = "resettle", ![t].list = l]
      <3> DEFINE r == [task[t] EXCEPT !.list = l]
                 q == [task[t] EXCEPT !.pc = "resettle", !.list = l]
      <3>1. r = q
        BY <1>1, <1>3 DEF TaskRecord
      <3>2. task' = [task EXCEPT ![t] = r]
        BY <1>5
      <3> HIDE DEF r
      <3>3. task' = [task EXCEPT ![t] = q]
        BY <3>1, <3>2
      <3> QED BY <3>3
    <2>3. AtStep(task[t].op, "resettle")
      BY <1>3 DEF AtStep
    <2> HIDE DEF l
    <2>4. TasksTyped' /\ Lists(t, "resettle", l)
      BY <1>1, <1>2, <2>1, <2>2, <2>3, ListsEffect
    <2>5. CASE task[t].op = "reprice"
      <3>1. RowsTyped' /\ AllSettled(x.m)
        BY <1>5, <2>1, <2>5, SettleEffect DEF Typed
      <3> QED BY <1>2, <2>1, <2>4, <2>5, <3>1 DEF Typed, l
    <2>6. CASE task[t].op # "reprice"
      <3>1. /\ RowsTyped' /\ kept[task[t].on] # "cold"
            /\ \/ ~EnabledFor(task[t].on) /\ RowsSame
               \/ EnabledFor(task[t].on) /\ AllSettled(x.m)
        BY <1>3, <1>5, <2>1, <2>6, SettledEffect DEF Typed
      <3>2. ~EnabledFor(task[t].on) => kept[task[t].on] = "off"
        BY <1>3, <3>1 DEF EnabledFor, Typed, RestTyped
      <3> QED BY <1>2, <2>1, <2>4, <3>1, <3>2 DEF Typed, l
    <2> QED BY <2>5, <2>6
  <1> QED BY <1>1, <1>3, <1>4, <1>5

LEMMA SwitchEffect ==
  ASSUME Typed, NEW t \in Tasks, SwitchRecording(t)
  PROVE  /\ Typed' /\ RowsSame /\ UNCHANGED <<usageMenu, post, told, price, asked, coincided>>
         /\ task[t].pc = "flip" /\ task[t].op = "switch" /\ Ends(t, "ok")
         /\ tick' = tick + 1 /\ panel'.on = ~panel.on /\ panel'.at = tick + 1
  <1>1. /\ task[t].op = "switch" /\ task[t].pc = "flip" /\ tick < MaxTick /\ tick' = tick + 1
        /\ panel' = [on |-> ~panel.on, at |-> tick + 1]
        /\ kept' = [kept EXCEPT ![task[t].on] = IF panel.on THEN "off" ELSE "on"] /\ Said(t, "ok")
        /\ UNCHANGED <<usageMenu, post, told, price, asked, coincided, own, orphan>>
    BY DEF SwitchRecording
  <1>2. tick' \in Ticks
    BY <1>1, LedgerNumbers DEF Ticks, Typed, RestTyped
  <1>3. panel' \in [on : BOOLEAN, at : Ticks] /\ panel'.on = ~panel.on /\ panel'.at = tick + 1
    BY <1>1, <1>2
  <1>4. kept' \in [Servers -> {"cold", "on", "off"}]
    BY <1>1 DEF Typed, RestTyped
  <1>5. RestTyped'
    BY <1>1, <1>2, <1>3, <1>4 DEF Typed, RestTyped
  <1>6. TasksTyped' /\ Ends(t, "ok")
    BY <1>1, EndsEffect DEF Typed, Answers
  <1> QED BY <1>1, <1>3, <1>5, <1>6, RowsKept DEF Typed, RowsSame

LEMMA CacheEffect ==
  ASSUME Typed, NEW s \in Servers, ReadSwitch(s) \/ RememberSwitch(s)
  PROVE  /\ Typed' /\ RowsSame /\ UNCHANGED <<usageMenu, tick, post, told, price, panel, coincided, task>>
         /\ \A q \in Servers : (kept'[q] = kept[q] \/ kept'[q] = asked[q]) /\ (asked'[q] = "on" => asked[q] = "on" \/ panel.on)
                               /\ (asked'[q] = "off" => asked[q] = "off" \/ ~panel.on)
  <1>1. CASE ReadSwitch(s)
    <2>1. /\ asked' = [asked EXCEPT ![s] = IF panel.on THEN "on" ELSE "off"]
          /\ UNCHANGED <<usageMenu, tick, post, told, price, panel, kept, coincided, task, own, orphan>>
      BY <1>1 DEF ReadSwitch
    <2>2. RestTyped'
      BY <2>1 DEF Typed, RestTyped
    <2>3. TasksTyped'
      BY <2>1 DEF Typed, TasksTyped, GoodTask, Going
    <2>4. \A q \in Servers : (asked'[q] = "on" => asked[q] = "on" \/ panel.on) /\ (asked'[q] = "off" => asked[q] = "off" \/ ~panel.on)
      BY <2>1 DEF Typed, RestTyped
    <2> QED BY <2>1, <2>2, <2>3, <2>4, RowsKept DEF Typed, RowsSame
  <1>2. CASE RememberSwitch(s)
    <2>1. /\ asked[s] # "no" /\ kept' = [kept EXCEPT ![s] = asked[s]] /\ asked' = [asked EXCEPT ![s] = "no"]
          /\ UNCHANGED <<usageMenu, tick, post, told, price, panel, coincided, task, own, orphan>>
      BY <1>2 DEF RememberSwitch
    <2>2. RestTyped'
      BY <2>1 DEF Typed, RestTyped
    <2>3. TasksTyped'
      BY <2>1 DEF Typed, TasksTyped, GoodTask, Going
    <2>4. \A q \in Servers : (kept'[q] = kept[q] \/ kept'[q] = asked[q]) /\ (asked'[q] = "on" => asked[q] = "on" \/ panel.on)
                             /\ (asked'[q] = "off" => asked[q] = "off" \/ ~panel.on)
      BY <2>1 DEF Typed, RestTyped
    <2> QED BY <2>1, <2>2, <2>3, <2>4, RowsKept DEF Typed, RowsSame
  <1> QED BY <1>1, <1>2

LEMMA DayEffect ==
  ASSUME Typed, DayPasses
  PROVE  /\ Typed' /\ RowsSame /\ UNCHANGED <<usageMenu, post, told, price, panel, asked, coincided, task>> /\ tick' = tick + 1
         /\ \A q \in Servers : kept'[q] \in {kept[q], "cold"}
  <1>1. /\ tick < usageMenu.ticks /\ tick' = tick + 1 /\ kept' = IF usageMenu.cold THEN [s \in Servers |-> "cold"] ELSE kept
        /\ UNCHANGED <<usageMenu, post, told, price, panel, asked, coincided, task, own, orphan>>
    BY DEF DayPasses
  <1>2. usageMenu.ticks \in Ticks
    BY UsageAssumption DEF Typed, RestTyped
  <1>3. tick' \in Ticks
    BY <1>1, <1>2, LedgerNumbers DEF Ticks, Typed, RestTyped
  <1>4. kept' \in [Servers -> {"cold", "on", "off"}] /\ \A q \in Servers : kept'[q] \in {kept[q], "cold"}
    BY <1>1 DEF Typed, RestTyped
  <1>5. RestTyped'
    BY <1>1, <1>3, <1>4 DEF Typed, RestTyped
  <1>6. TasksTyped'
    BY <1>1 DEF Typed, TasksTyped, GoodTask, Going
  <1> QED BY <1>1, <1>4, <1>5, <1>6, RowsKept DEF Typed, RowsSame

\* A change of the table is checked, and then saved.
Saves(t, p, i) ==
    /\ Moves(t) /\ task'[t].pc = "save" /\ task'[t].rate = p /\ task'[t].id = i /\ task'[t].said = ""
    /\ task'[t].list = task[t].list /\ task'[t].cur = task[t].cur /\ task'[t].due = task[t].due
PriceSet(j, p) == price'[j] = p /\ \A i \in RateIds : i # j => price'[i] = price[i]
AllButPrices == <<usageMenu, tick, post, told, panel, kept, asked, coincided>>

LEMMA SavesEffect ==
  ASSUME Typed, NEW t \in Tasks, NEW p \in Rate, NEW i \in RateIds \cup {0}, usageMenu' = usageMenu,
         task[t].pc \notin {"new", "done"}, AtStep(task[t].op, "save"),
         task' = [task EXCEPT ![t].pc = "save", ![t].id = i, ![t].rate = p]
  PROVE  TasksTyped' /\ Saves(t, p, i)
  <1> DEFINE r == [task[t] EXCEPT !.pc = "save", !.id = i, !.rate = p]
  <1>1. task[t] \in TaskRecord /\ task[t].said = "" /\ task' = [task EXCEPT ![t] = r]
    BY OpOf DEF Typed, TasksTyped
  <1>3. /\ r.op = task[t].op /\ r.on = task[t].on /\ r.m = task[t].m /\ r.pc = "save" /\ r.said = ""
        /\ r.list = task[t].list /\ r.cur = task[t].cur /\ r.due = task[t].due /\ r.rate = p /\ r.id = i
    BY <1>1 DEF TaskRecord
  <1>4. r \in TaskRecord
    <2> DEFINE q == [task[t] EXCEPT !.pc = "save", !.id = i]
    <2>1. q \in TaskRecord
      BY <1>1 DEF TaskRecord, StepNames
    <2>2. r = [q EXCEPT !.rate = p]
      BY <1>1 DEF TaskRecord
    <2> HIDE DEF q, r
    <2> QED BY <2>1, <2>2 DEF TaskRecord
  <1> HIDE DEF r
  <1>6. TasksTyped' /\ Moves(t) /\ task'[t] = r
    BY <1>1, <1>3, <1>4, MoveEffect DEF Typed
  <1> QED BY <1>3, <1>6 DEF Saves

LEMMA PriceSaved ==
  ASSUME RestTyped, NEW j \in RateIds, NEW p \in Rate, price' = [price EXCEPT ![j] = p], UNCHANGED AllButPrices
  PROVE  RestTyped' /\ PriceSet(j, p)
  <1>1. price' \in [RateIds -> Rate] /\ PriceSet(j, p)
    BY DEF RestTyped, PriceSet
  <1> QED BY <1>1 DEF RestTyped, AllButPrices

LEMMA CreateRateEffect ==
  ASSUME Typed, NEW t \in Tasks, CreateRate(t)
  PROVE  /\ Typed' /\ RowsSame /\ UNCHANGED AllButPrices /\ task[t].op = "rateAdd" /\ task[t].pc \in {"check", "save"}
         /\ \/ price' = price /\ \E w \in Answers : Ends(t, w)
            \/ task[t].pc = "check" /\ price' = price
               /\ \E p \in Rate : p \in usageMenu.offers /\ Offered(p) /\ ~rateOverlaps(p, 0) /\ Saves(t, p, task[t].id)
            \/ task[t].pc = "save" /\ Ends(t, "ok") /\ \E j \in RateIds : ~price[j].is /\ PriceSet(j, task[t].rate)
  <1>1. /\ task[t].op = "rateAdd" /\ RowsSame /\ UNCHANGED AllButPrices /\ task[t].pc \in {"check", "save"}
        /\ \/ /\ task[t].pc = "check" /\ price' = price
              /\ \E p \in usageMenu.offers : IF rateOverlaps(p, 0) THEN Said(t, "overlap")
                                    ELSE task' = [task EXCEPT ![t].pc = "save", ![t].rate = p]
           \/ /\ task[t].pc = "save"
              /\ IF SameStart(task[t].rate, 0) \/ \A i \in RateIds : price[i].is THEN Said(t, "taken") /\ UNCHANGED price
                 ELSE price' = [price EXCEPT ![CHOOSE i \in RateIds : ~price[i].is] = task[t].rate] /\ Said(t, "ok")
    BY DEF CreateRate, Same, RowsSame, AllButPrices
  <1>2. usageMenu' = usageMenu /\ RowsTyped' /\ task[t] \in TaskRecord
    BY <1>1, RowsKept DEF AllButPrices, Typed, TasksTyped
  <1>3. ASSUME price' = price PROVE RestTyped'
    BY <1>1, <1>3, RestKept DEF AllButPrices, Typed
  <1>4. ASSUME NEW w \in Answers, Said(t, w) PROVE TasksTyped' /\ Ends(t, w)
    BY <1>1, <1>2, <1>4, EndsEffect DEF Typed
  <1>5. CASE price' = price /\ \E w \in Answers : Said(t, w)
    BY <1>1, <1>2, <1>3, <1>4, <1>5 DEF Typed
  <1>6. ASSUME task[t].pc = "check", price' = price, NEW p \in usageMenu.offers, ~rateOverlaps(p, 0),
               task' = [task EXCEPT ![t].pc = "save", ![t].rate = p]
        PROVE  Typed' /\ p \in Rate /\ Offered(p) /\ Saves(t, p, task[t].id)
    <2>1. Offered(p) /\ p \in Rate
      BY UsageAssumption DEF Typed, RestTyped, Offered
    <2>2. task' = [task EXCEPT ![t].pc = "save", ![t].id = task[t].id, ![t].rate = p]
      <3> DEFINE r == [task[t] EXCEPT !.pc = "save", !.rate = p]
                 q == [task[t] EXCEPT !.pc = "save", !.id = task[t].id, !.rate = p]
      <3>1. r = q
        BY <1>2 DEF TaskRecord
      <3>2. task' = [task EXCEPT ![t] = r]
        BY <1>6
      <3> HIDE DEF r
      <3>3. task' = [task EXCEPT ![t] = q]
        BY <3>1, <3>2
      <3> QED BY <3>3
    <2>3. AtStep(task[t].op, "save") /\ task[t].id \in RateIds \cup {0}
      BY <1>1, <1>2 DEF AtStep, TaskRecord
    <2>4. TasksTyped' /\ Saves(t, p, task[t].id)
      BY <1>2, <1>6, <2>1, <2>2, <2>3, SavesEffect
    <2> QED BY <1>2, <1>3, <1>6, <2>1, <2>4 DEF Typed
  <1>7. ASSUME task[t].pc = "save", ~\A i \in RateIds : price[i].is, Said(t, "ok"),
               price' = [price EXCEPT ![CHOOSE i \in RateIds : ~price[i].is] = task[t].rate]
        PROVE  Typed' /\ Ends(t, "ok") /\ \E j \in RateIds : ~price[j].is /\ PriceSet(j, task[t].rate)
    <2> DEFINE j == CHOOSE i \in RateIds : ~price[i].is
    <2>1. j \in RateIds /\ ~price[j].is
      BY <1>7
    <2>2. task[t].rate \in Rate
      BY <1>2 DEF TaskRecord
    <2>3. price' = [price EXCEPT ![j] = task[t].rate]
      BY <1>7
    <2> HIDE DEF j
    <2>4. RestTyped' /\ PriceSet(j, task[t].rate)
      BY <1>1, <2>1, <2>2, <2>3, PriceSaved DEF Typed
    <2>5. TasksTyped' /\ Ends(t, "ok")
      BY <1>4, <1>7 DEF Answers
    <2> QED BY <1>2, <2>1, <2>4, <2>5 DEF Typed
  <1>8. CASE task[t].pc = "check"
    <2>1. price' = price
      BY <1>1, <1>8
    <2>2. PICK p \in usageMenu.offers : IF rateOverlaps(p, 0) THEN Said(t, "overlap")
                                        ELSE task' = [task EXCEPT ![t].pc = "save", ![t].rate = p]
      BY <1>1, <1>8
    <2>3. CASE rateOverlaps(p, 0)
      BY <1>5, <2>1, <2>2, <2>3 DEF Answers
    <2>4. CASE ~rateOverlaps(p, 0)
      BY <1>1, <1>6, <1>8, <2>1, <2>2, <2>4
    <2> QED BY <2>3, <2>4
  <1>9. CASE task[t].pc = "save"
    <2>1. CASE SameStart(task[t].rate, 0) \/ \A i \in RateIds : price[i].is
      BY <1>1, <1>5, <1>9, <2>1 DEF Answers
    <2>2. CASE ~(SameStart(task[t].rate, 0) \/ \A i \in RateIds : price[i].is)
      BY <1>1, <1>7, <1>9, <2>2
    <2> QED BY <2>1, <2>2
  <1> QED BY <1>1, <1>8, <1>9

LEMMA UpdateRateEffect ==
  ASSUME Typed, NEW t \in Tasks, UpdateRate(t), task[t].pc = "save" => task[t].id \in RateIds
  PROVE  /\ Typed' /\ RowsSame /\ UNCHANGED AllButPrices /\ task[t].op = "rateEdit" /\ task[t].pc \in {"check", "save"}
         /\ \/ price' = price /\ \E w \in Answers : Ends(t, w)
            \/ task[t].pc = "check" /\ price' = price
               /\ \E i \in RateIds, p \in Rate : /\ price[i].is /\ Offered(p) /\ mayEdit(i, p) /\ ~rateOverlaps(p, i)
                                                 /\ Saves(t, p, i)
            \/ task[t].pc = "save" /\ Ends(t, "ok") /\ PriceSet(task[t].id, task[t].rate)
  <1>1. /\ task[t].op = "rateEdit" /\ RowsSame /\ UNCHANGED AllButPrices /\ task[t].pc \in {"check", "save"}
        /\ \/ /\ task[t].pc = "check" /\ price' = price
              /\ \E i \in RateIds, p \in usageMenu.offers :
                    /\ price[i].is
                    /\ IF ~mayEdit(i, p) THEN Said(t, "in use")
                       ELSE IF rateOverlaps(p, i) THEN Said(t, "overlap")
                       ELSE task' = [task EXCEPT ![t].pc = "save", ![t].id = i, ![t].rate = p]
           \/ /\ task[t].pc = "save"
              /\ IF SameStart(task[t].rate, task[t].id) THEN Said(t, "taken") /\ UNCHANGED price
                 ELSE price' = [price EXCEPT ![task[t].id] = task[t].rate] /\ Said(t, "ok")
    BY DEF UpdateRate, Same, RowsSame, AllButPrices
  <1>2. usageMenu' = usageMenu /\ RowsTyped' /\ task[t] \in TaskRecord
    BY <1>1, RowsKept DEF AllButPrices, Typed, TasksTyped
  <1>3. ASSUME price' = price PROVE RestTyped'
    BY <1>1, <1>3, RestKept DEF AllButPrices, Typed
  <1>4. ASSUME NEW w \in Answers, Said(t, w) PROVE TasksTyped' /\ Ends(t, w)
    BY <1>1, <1>2, <1>4, EndsEffect DEF Typed
  <1>5. CASE price' = price /\ \E w \in Answers : Said(t, w)
    BY <1>1, <1>2, <1>3, <1>4, <1>5 DEF Typed
  <1>8. CASE task[t].pc = "check"
    <2>1. price' = price
      BY <1>1, <1>8
    <2>2. PICK i \in RateIds, p \in usageMenu.offers :
            /\ price[i].is
            /\ IF ~mayEdit(i, p) THEN Said(t, "in use")
               ELSE IF rateOverlaps(p, i) THEN Said(t, "overlap")
               ELSE task' = [task EXCEPT ![t].pc = "save", ![t].id = i, ![t].rate = p]
      BY <1>1, <1>8
    <2>3. CASE ~mayEdit(i, p) \/ rateOverlaps(p, i)
      BY <1>5, <2>1, <2>2, <2>3 DEF Answers
    <2>4. CASE mayEdit(i, p) /\ ~rateOverlaps(p, i)
      <3>1. Offered(p) /\ p \in Rate
        BY UsageAssumption DEF Typed, RestTyped, Offered
      <3>2. AtStep(task[t].op, "save")
        BY <1>1 DEF AtStep
      <3>3. task' = [task EXCEPT ![t].pc = "save", ![t].id = i, ![t].rate = p]
        BY <2>2, <2>4
      <3>4. TasksTyped' /\ Saves(t, p, i)
        BY <1>2, <1>8, <3>1, <3>2, <3>3, SavesEffect
      <3> QED BY <1>1, <1>2, <1>3, <1>8, <2>1, <2>2, <2>4, <3>1, <3>4 DEF Typed
    <2> QED BY <2>3, <2>4
  <1>9. CASE task[t].pc = "save"
    <2>1. CASE SameStart(task[t].rate, task[t].id)
      BY <1>1, <1>5, <1>9, <2>1 DEF Answers
    <2>2. CASE ~SameStart(task[t].rate, task[t].id)
      <3>1. price' = [price EXCEPT ![task[t].id] = task[t].rate] /\ Said(t, "ok")
        BY <1>1, <1>9, <2>2
      <3>2. task[t].id \in RateIds /\ task[t].rate \in Rate
        BY <1>2, <1>9 DEF TaskRecord
      <3>3. RestTyped' /\ PriceSet(task[t].id, task[t].rate)
        BY <1>1, <3>1, <3>2, PriceSaved DEF Typed
      <3>4. TasksTyped' /\ Ends(t, "ok")
        BY <1>4, <3>1 DEF Answers
      <3> QED BY <1>1, <1>2, <1>9, <3>3, <3>4 DEF Typed
    <2> QED BY <2>1, <2>2
  <1> QED BY <1>1, <1>8, <1>9

LEMMA DeleteRateEffect ==
  ASSUME Typed, NEW t \in Tasks, DeleteRate(t), task[t].pc = "save" => task[t].id \in RateIds
  PROVE  /\ Typed' /\ RowsSame /\ UNCHANGED AllButPrices /\ task[t].op = "rateDrop" /\ task[t].pc \in {"check", "save"}
         /\ \/ price' = price /\ \E w \in Answers : Ends(t, w)
            \/ task[t].pc = "check" /\ price' = price /\ \E i \in RateIds : PricedWith(i) = {} /\ Saves(t, task[t].rate, i)
            \/ task[t].pc = "save" /\ Ends(t, "ok") /\ PriceSet(task[t].id, NoRate)
  <1>1. /\ task[t].op = "rateDrop" /\ RowsSame /\ UNCHANGED AllButPrices /\ task[t].pc \in {"check", "save"}
        /\ \/ /\ task[t].pc = "check" /\ price' = price
              /\ \E i \in RateIds :
                    IF PricedWith(i) # {} THEN Said(t, "in use") ELSE task' = [task EXCEPT ![t].pc = "save", ![t].id = i]
           \/ task[t].pc = "save" /\ price' = [price EXCEPT ![task[t].id] = NoRate] /\ Said(t, "ok")
    BY DEF DeleteRate, Same, RowsSame, AllButPrices
  <1>2. usageMenu' = usageMenu /\ RowsTyped' /\ task[t] \in TaskRecord
    BY <1>1, RowsKept DEF AllButPrices, Typed, TasksTyped
  <1>3. ASSUME price' = price PROVE RestTyped'
    BY <1>1, <1>3, RestKept DEF AllButPrices, Typed
  <1>4. ASSUME NEW w \in Answers, Said(t, w) PROVE TasksTyped' /\ Ends(t, w)
    BY <1>1, <1>2, <1>4, EndsEffect DEF Typed
  <1>8. CASE task[t].pc = "check"
    <2>1. price' = price
      BY <1>1, <1>8
    <2>2. PICK i \in RateIds :
            IF PricedWith(i) # {} THEN Said(t, "in use") ELSE task' = [task EXCEPT ![t].pc = "save", ![t].id = i]
      BY <1>1, <1>8
    <2>3. CASE PricedWith(i) # {}
      <3>1. TasksTyped' /\ Ends(t, "in use") /\ "in use" \in Answers
        BY <1>4, <2>2, <2>3 DEF Answers
      <3> QED BY <1>1, <1>2, <1>3, <2>1, <3>1 DEF Typed
    <2>4. CASE PricedWith(i) = {}
      <3>1. task[t].rate \in Rate /\ AtStep(task[t].op, "save")
        BY <1>1, <1>2 DEF AtStep, TaskRecord
      <3>2. task' = [task EXCEPT ![t].pc = "save", ![t].id = i]
        BY <2>2, <2>4
      <3>3. task' = [task EXCEPT ![t].pc = "save", ![t].id = i, ![t].rate = task[t].rate]
        <4> DEFINE r == [task[t] EXCEPT !.pc = "save", !.id = i]
                   q == [task[t] EXCEPT !.pc = "save", !.id = i, !.rate = task[t].rate]
        <4>1. r = q
          BY <1>2 DEF TaskRecord
        <4>2. task' = [task EXCEPT ![t] = r]
          BY <3>2
        <4> HIDE DEF r
        <4>3. task' = [task EXCEPT ![t] = q]
          BY <4>1, <4>2
        <4> QED BY <4>3
      <3>4. TasksTyped' /\ Saves(t, task[t].rate, i)
        BY <1>2, <1>8, <3>1, <3>3, SavesEffect
      <3> QED BY <1>1, <1>2, <1>3, <1>8, <2>1, <2>4, <3>4 DEF Typed
    <2> QED BY <2>3, <2>4
  <1>9. CASE task[t].pc = "save"
    <2>1. price' = [price EXCEPT ![task[t].id] = NoRate] /\ Said(t, "ok")
      BY <1>1, <1>9
    <2>2. task[t].id \in RateIds /\ NoRate \in Rate
      BY <1>9, LedgerNumbers DEF Rate, NoRate
    <2>3. RestTyped' /\ PriceSet(task[t].id, NoRate)
      BY <1>1, <2>1, <2>2, PriceSaved DEF Typed
    <2>4. TasksTyped' /\ Ends(t, "ok")
      BY <1>4, <2>1 DEF Answers
    <2> QED BY <1>1, <1>2, <1>9, <2>3, <2>4 DEF Typed
  <1> QED BY <1>1, <1>8, <1>9

-------------------------------------------------------------------------------
(* Ledger: what every step keeps *)

\* A request begins.
Begins(t) ==
    /\ task[t].pc = "new" /\ t \in DOMAIN usageMenu.plan /\ OnlyTask(t)
    /\ task'[t].op = usageMenu.plan[t].op /\ task'[t].m = usageMenu.plan[t].m /\ task'[t].op \in DOMAIN FirstStep
    /\ task'[t].pc \in {"create", "append", "sweep", "list", "flip", "check"} /\ (task'[t].op \in Posting => task'[t].pc = "create")
    /\ Rest(t) /\ task'[t].said = "" /\ AtStep(task'[t].op, task'[t].pc)
    /\ coincided' = coincided \cup {{task'[t].op, task[u].op} : u \in Going}
Progress == (task' = task /\ coincided' = coincided) \/ \E t \in Tasks : (Moves(t) /\ coincided' = coincided) \/ Begins(t)

\* A row is there for the message that is about to take the identifier.
LEMMA LinkedOwn ==
  ASSUME LedgerInv, NEW t \in Tasks, task[t].pc = "link"
  PROVE  own[task[t].m].is
  <1>1. task[t].op \in {"send", "echo"}
    BY OpOf DEF LedgerInv, Typed
  <1> QED BY <1>1 DEF LedgerInv, LinksKept, GoodSend, GoodEcho

LEMMA SavedId ==
  ASSUME LedgerInv, NEW t \in Tasks, task[t].op \in {"rateEdit", "rateDrop"}, task[t].pc = "save"
  PROVE  task[t].id \in RateIds
  BY DEF LedgerInv, RatesKept

LEMMA EveryStep ==
  ASSUME LedgerInv, UsageNext
  PROVE  Typed' /\ usageMenu' = usageMenu /\ Progress /\ (panel' = panel \/ panel'.at > 0)
  <1> DEFINE Kept == Typed' /\ usageMenu' = usageMenu /\ Progress /\ (panel' = panel \/ panel'.at > 0)
  <1> USE DEF Progress
  <1>0. Typed /\ PostsKept
    BY DEF LedgerInv
  <1>1. ASSUME NEW t \in Tasks, BeginTask(t) PROVE Kept
    BY <1>0, <1>1, BeginEffect DEF Begins
  <1>2. ASSUME NEW t \in Tasks, CreatePost(t) PROVE Kept
    BY <1>0, <1>2, CreateEffect DEF Goes
  <1>3. ASSUME NEW t \in Tasks, RecordUsage(t) PROVE Kept
    BY <1>0, <1>3, RecordUsageEffect DEF Goes, Ends, World, Posting
  <1>4. ASSUME NEW t \in Tasks, FinalizeSend(t) PROVE Kept
    BY <1>0, <1>4, FinalizeEffect DEF Goes
  <1>5. ASSUME NEW t \in Tasks, SendRefused(t) PROVE Kept
    BY <1>0, <1>5, SendRefusedEffect DEF Ends, World
  <1>6. ASSUME NEW t \in Tasks, AttachRead(t) PROVE Kept
    BY <1>0, <1>6, AttachReadEffect DEF Goes, Ends, World
  <1>7. ASSUME NEW t \in Tasks, AttachLost(t) PROVE Kept
    BY <1>0, <1>7, AttachLostEffect DEF Ends, World
  <1>8. ASSUME NEW t \in Tasks, AttachLink(t) PROVE Kept
    <2>1. task[t].pc = "link"
      BY <1>8 DEF AttachLink
    <2> QED BY <1>0, <1>8, <2>1, AttachLinkEffect, LinkedOwn DEF Goes, Ends, World
  <1>9. ASSUME NEW t \in Tasks, SettleOne(t) PROVE Kept
    BY <1>0, <1>9, SettleOneEffect DEF Ends, World
  <1>10. ASSUME NEW t \in Tasks, RecordStatusEvent(t) PROVE Kept
    BY <1>0, <1>10, EventEffect DEF Goes, Ends
  <1>11. ASSUME NEW t \in Tasks, SweepStarts(t) PROVE Kept
    BY <1>0, <1>11, SweepStartsEffect DEF Ends, World
  <1>12. ASSUME NEW t \in Tasks, SweepMissing(t) PROVE Kept
    BY <1>0, <1>12, SweepMissingEffect DEF World
  <1>13. ASSUME NEW t \in Tasks, InferRow(t) PROVE Kept
    BY <1>0, <1>13, InferRowEffect DEF Goes, Takes, World
  <1>14. ASSUME NEW t \in Tasks, InferState(t) PROVE Kept
    BY <1>0, <1>14, InferStateEffect DEF Goes, World
  <1>15. ASSUME NEW t \in Tasks, SweepUnlinked(t) PROVE Kept
    BY <1>0, <1>15, SweepUnlinkedEffect DEF Lists, World
  <1>16. ASSUME NEW t \in Tasks, InsertUnlinked(t) PROVE Kept
    BY <1>0, <1>16, InsertUnlinkedEffect DEF Goes, Lists, Takes, World
  <1>17. ASSUME NEW t \in Tasks, SettleUnlinked(t) PROVE Kept
    BY <1>0, <1>17, SettleUnlinkedEffect DEF Goes, World
  <1>18. ASSUME NEW t \in Tasks, SweepPending(t) PROVE Kept
    BY <1>0, <1>18, SweepPendingEffect DEF Lists, World
  <1>19. ASSUME NEW t \in Tasks, Resettle(t) PROVE Kept
    BY <1>0, <1>19, ResettleEffect DEF Ends, Lists, World
  <1>20. ASSUME NEW t \in Tasks, Reprice(t) PROVE Kept
    BY <1>0, <1>20, RepriceEffect DEF Lists, World
  <1>21. ASSUME NEW t \in Tasks, SwitchRecording(t) PROVE Kept
    <2>1. tick \in Nat
      BY <1>0, LedgerNumbers DEF Typed, RestTyped
    <2> QED BY <1>0, <1>21, <2>1, SwitchEffect DEF Ends
  <1>22. ASSUME NEW t \in Tasks, CreateRate(t) PROVE Kept
    BY <1>0, <1>22, CreateRateEffect DEF Ends, Saves, AllButPrices
  <1>23. ASSUME NEW t \in Tasks, UpdateRate(t) PROVE Kept
    <2>1. task[t].op = "rateEdit"
      BY <1>23 DEF UpdateRate
    <2> QED BY <1>0, <1>23, <2>1, UpdateRateEffect, SavedId DEF Ends, Saves, AllButPrices
  <1>24. ASSUME NEW t \in Tasks, DeleteRate(t) PROVE Kept
    <2>1. task[t].op = "rateDrop"
      BY <1>24 DEF DeleteRate
    <2> QED BY <1>0, <1>24, <2>1, DeleteRateEffect, SavedId DEF Ends, Saves, AllButPrices
  <1>25. ASSUME NEW s \in Servers, ReadSwitch(s) \/ RememberSwitch(s) PROVE Kept
    BY <1>0, <1>25, CacheEffect
  <1>26. ASSUME DayPasses PROVE Kept
    BY <1>0, <1>26, DayEffect
  <1> HIDE DEF Kept, Progress
  <1>27. ASSUME NEW t \in Tasks,
                \/ BeginTask(t) \/ CreatePost(t) \/ RecordUsage(t) \/ FinalizeSend(t) \/ SendRefused(t) \/ AttachRead(t) \/ AttachLost(t)
                \/ AttachLink(t) \/ SettleOne(t) \/ RecordStatusEvent(t) \/ SweepStarts(t) \/ SweepMissing(t) \/ InferRow(t)
                \/ InferState(t) \/ SweepUnlinked(t) \/ InsertUnlinked(t) \/ SettleUnlinked(t) \/ SweepPending(t) \/ Resettle(t)
                \/ Reprice(t) \/ SwitchRecording(t) \/ CreateRate(t) \/ UpdateRate(t) \/ DeleteRate(t)
         PROVE  Kept
    BY <1>1, <1>2, <1>3, <1>4, <1>5, <1>6, <1>7, <1>8, <1>9, <1>10, <1>11, <1>12, <1>13, <1>14, <1>15, <1>16, <1>17, <1>18,
       <1>19, <1>20, <1>21, <1>22, <1>23, <1>24, <1>27
  <1>28. Kept
    BY <1>25, <1>26, <1>27 DEF UsageNext
  <1> QED BY <1>28 DEF Kept

\* Once the switch was touched it stays so, and what was on record stays on record.
LEMMA StaysFlipped ==
  ASSUME Typed, Progress, panel' = panel \/ panel'.at > 0, Flipped
  PROVE  Flipped'
  <1>1. ASSUME NEW q \in Tasks, task[q].op = "switch" PROVE task'[q].op = "switch"
    <2>1. task[q].pc # "new"
      BY <1>1, NotBegun DEF Typed
    <2> QED BY <1>1, <2>1 DEF Progress, Moves, SameRequest, OnlyTask, Begins
  <1> QED BY <1>1 DEF Flipped

LEMMA Together ==
  ASSUME MetKept, NEW t \in Going, NEW u \in Going, t # u
  PROVE  {task[t].op, task[u].op} \in coincided
  BY DEF MetKept

LEMMA MetNext ==
  ASSUME LedgerInv, UsageNext
  PROVE  MetKept'
  <1>1. Progress /\ MetKept
    BY EveryStep DEF LedgerInv
  <1>2. CASE task' = task /\ coincided' = coincided
    BY <1>1, <1>2 DEF MetKept, Going
  <1>3. ASSUME NEW t \in Tasks, Moves(t), coincided' = coincided PROVE MetKept'
    <2>1. Going' \subseteq Going /\ \A u \in Tasks : task'[u].op = task[u].op
      BY <1>3 DEF Moves, OnlyTask, SameRequest, Going
    <2> QED BY <1>1, <1>3, <2>1 DEF MetKept, Going
  <1>4. ASSUME NEW t \in Tasks, Begins(t) PROVE MetKept'
    <2>1. Going' \subseteq Going \cup {t} /\ (\A u \in Tasks : u # t => task'[u] = task[u]) /\ t \notin Going
      BY <1>4 DEF Begins, OnlyTask, Going
    <2>2. /\ coincided \subseteq coincided'
          /\ \A u \in Going : {task'[t].op, task[u].op} \in coincided' /\ {task[u].op, task'[t].op} = {task'[t].op, task[u].op}
      BY <1>4 DEF Begins
    <2>3. ASSUME NEW v \in Going', NEW u \in Going', v # u PROVE {task'[v].op, task'[u].op} \in coincided'
      <3>1. CASE v = t
        <4>1. u \in Going /\ task'[u] = task[u]
          BY <2>1, <2>3, <3>1 DEF Going
        <4> QED BY <2>2, <3>1, <4>1
      <3>2. CASE u = t
        <4>1. v \in Going /\ task'[v] = task[v]
          BY <2>1, <2>3, <3>2 DEF Going
        <4> QED BY <2>2, <3>2, <4>1
      <3>3. CASE v # t /\ u # t
        <4>1. v \in Going /\ u \in Going /\ task'[v] = task[v] /\ task'[u] = task[u]
          BY <2>1, <2>3, <3>3 DEF Going
        <4> QED BY <1>1, <2>2, <2>3, <4>1 DEF MetKept
      <3> QED BY <3>1, <3>2, <3>3
    <2> QED BY <2>3 DEF MetKept
  <1> QED BY <1>1, <1>2, <1>3, <1>4 DEF Progress

-------------------------------------------------------------------------------
(* Ledger: a message is there once it was written *)

LEMMA PostsFrame ==
  ASSUME Typed, Typed', PostsKept, usageMenu' = usageMenu, NEW t \in Tasks, Moves(t), Written(t)' <=> Written(t),
         \A x \in Posts : /\ post'[x].is = post[x].is /\ post'[x].out = post[x].out /\ told[x] \subseteq told'[x]
                          /\ (post'[x].wamid => post[x].wamid \/ post[x].is)
                          /\ (own'[x].is => own[x].is \/ post[x].is)
                          /\ (orphan'[x].is => orphan[x].is \/ told[x] # {}),
         ListsFine(t)'
  PROVE  PostsKept'
  <1>1. \A q \in Tasks : task'[q].op = task[q].op /\ task'[q].m = task[q].m /\ (Written(q)' <=> Written(q))
    BY DEF Moves, OnlyTask, SameRequest, Written
  <1>2. ASSUME NEW q \in Tasks, q \in DOMAIN usageMenu'.plan, usageMenu'.plan[q].op \in Posting
        PROVE  post'[usageMenu'.plan[q].m].is <=> Written(q)'
    <2>1. usageMenu.plan[q].m \in Posts
      BY <1>2, UsageAssumption DEF Typed, RestTyped
    <2> QED BY <1>1, <1>2, <2>1 DEF PostsKept
  <1>3. ASSUME NEW m \in Posts, post'[m].is PROVE \E q \in Tasks : task'[q].op \in Posting /\ task'[q].m = m
    BY <1>1, <1>3 DEF PostsKept
  <1>4. ASSUME NEW m \in Posts, ~post'[m].is PROVE ~own'[m].is /\ ~post'[m].wamid
    BY <1>4 DEF PostsKept
  <1>5. ASSUME NEW q \in Tasks, task'[q].op \in Posting, Written(q)' PROVE post'[task'[q].m].out = (task'[q].op # "receive")
    <2>1. task[q].pc # "new"
      BY <1>1, <1>5, NotBegun DEF Typed, Posting
    <2>2. task[q].m \in Posts
      BY <2>1, Begun DEF Typed
    <2> QED BY <1>1, <1>5, <2>2 DEF PostsKept
  <1>6. ASSUME NEW q \in Tasks PROVE ListsFine(q)'
    <2>1. CASE q = t
      BY <2>1
    <2>2. CASE q # t
      <3>1. task'[q] = task[q] /\ task[q].list \subseteq Listed
        BY <2>2 DEF Moves, OnlyTask, Typed, TasksTyped, TaskRecord
      <3>2. \A x \in task[q].list : x.m \in Posts
        BY <3>1 DEF Listed
      <3> QED BY <3>1, <3>2 DEF PostsKept, ListsFine
    <2> QED BY <2>1, <2>2
  <1>7. ASSUME NEW m \in Posts, orphan'[m].is PROVE told'[m] # {}
    BY <1>7 DEF PostsKept
  <1> QED BY <1>2, <1>3, <1>4, <1>5, <1>6, <1>7 DEF PostsKept

\* Rows and messages stay where they are.
Placed == \A x \in Posts : (own'[x].is => own[x].is \/ post[x].is) /\ (orphan'[x].is => orphan[x].is \/ told[x] # {})
LEMMA PostsMoves ==
  ASSUME Typed, Typed', PostsKept, UNCHANGED <<usageMenu, post, told>>, NEW t \in Tasks, Moves(t), Placed,
         task[t].pc # "create", task'[t].pc # "create", ListsFine(t)'
  PROVE  PostsKept'
  <1>1. Written(t)' <=> Written(t)
    BY DEF Moves, Written
  <1> QED BY <1>1, PostsFrame DEF Placed

LEMMA SamePlaced ==
  ASSUME RowsSame
  PROVE  Placed
  BY DEF RowsSame, Placed
LEMMA SettledPlaced ==
  ASSUME NEW m \in Posts, AllSettled(m)
  PROVE  Placed /\ \A x \in Posts : /\ own'[x].is = own[x].is /\ own'[x].wamid = own[x].wamid /\ own'[x].at = own[x].at
                                     /\ own'[x].out = own[x].out
                                     /\ orphan'[x].is = orphan[x].is /\ orphan'[x].wamid = orphan[x].wamid
  BY DEF Placed, AllSettled, RowSettled, Alike
LEMMA RecordedPlaced ==
  ASSUME NEW m \in Posts, NEW out, NEW wamid \in BOOLEAN, NEW at, post[m].is, Recorded(m, out, wamid, at)
  PROVE  Placed
  BY DEF Placed, Recorded
LEMMA RefusedPlaced ==
  ASSUME NEW m \in Posts, RefusedRow(m)
  PROVE  Placed
  BY DEF Placed, RefusedRow, Others

LEMMA PostsNext ==
  ASSUME LedgerInv, UsageNext
  PROVE  PostsKept'
  <1>0. Typed /\ PostsKept /\ Typed' /\ usageMenu' = usageMenu
    BY EveryStep DEF LedgerInv
  <1>a. \A q \in Tasks : ListsFine(q)
    BY <1>0 DEF PostsKept
  \* The message is there when its request has written it.
  <1>b. \A q \in Tasks : task[q].op \in Posting /\ task[q].pc \notin {"new", "create"} => post[task[q].m].is
    <2> TAKE q \in Tasks
    <2> HAVE task[q].op \in Posting /\ task[q].pc \notin {"new", "create"}
    <2>1. q \in DOMAIN usageMenu.plan /\ task[q].op = usageMenu.plan[q].op /\ task[q].m = usageMenu.plan[q].m
      BY <1>0, Begun DEF Typed
    <2> QED BY <1>0, <2>1 DEF PostsKept, Written
  <1>1. ASSUME NEW t \in Tasks, BeginTask(t) PROVE PostsKept'
    <2>1. Begins(t) /\ RowsSame /\ UNCHANGED <<post, told>>
      BY <1>0, <1>1, BeginEffect DEF Begins
    <2>2. ~Written(t) /\ ~(task'[t].op \in Posting /\ Written(t)') /\ task[t].op = "none"
      BY <1>0, <2>1, NotBegun DEF Begins, Written, Typed
    <2>3. \A q \in Tasks : ListsFine(q)'
      <3> TAKE q \in Tasks
      <3>1. CASE q = t
        BY <2>1, <3>1 DEF Begins, ListsFine
      <3>2. CASE q # t
        BY <1>a, <2>1, <3>2 DEF Begins, OnlyTask, ListsFine
      <3> QED BY <3>1, <3>2
    <2>4. \A q \in Tasks : q # t => task'[q] = task[q]
      BY <2>1 DEF Begins, OnlyTask
    <2>5. ASSUME NEW q \in Tasks, q \in DOMAIN usageMenu'.plan, usageMenu'.plan[q].op \in Posting
          PROVE  post'[usageMenu'.plan[q].m].is <=> Written(q)'
      <3>1. CASE q = t
        <4>1. ~Written(t)' /\ ~Written(t)
          BY <1>0, <2>1, <2>2, <2>5, <3>1 DEF Begins
        <4> QED BY <1>0, <2>1, <2>5, <3>1, <4>1 DEF PostsKept
      <3>2. CASE q # t
        BY <1>0, <2>1, <2>4, <2>5, <3>2 DEF PostsKept, Written
      <3> QED BY <3>1, <3>2
    <2>6. ASSUME NEW m \in Posts, post'[m].is PROVE \E q \in Tasks : task'[q].op \in Posting /\ task'[q].m = m
      <3>1. PICK q \in Tasks : task[q].op \in Posting /\ task[q].m = m
        BY <1>0, <2>1, <2>6 DEF PostsKept
      <3>2. q # t
        BY <2>2, <3>1 DEF Posting
      <3> QED BY <2>4, <3>1, <3>2
    <2>7. ASSUME NEW q \in Tasks, task'[q].op \in Posting, Written(q)' PROVE post'[task'[q].m].out = (task'[q].op # "receive")
      <3>1. q # t
        BY <2>2, <2>7
      <3> QED BY <1>0, <2>1, <2>4, <2>7, <3>1 DEF PostsKept, Written
    <2>8. \A m \in Posts : (~post'[m].is => ~own'[m].is /\ ~post'[m].wamid) /\ (orphan'[m].is => told'[m] # {})
      BY <1>0, <2>1 DEF PostsKept, RowsSame
    <2> QED BY <2>3, <2>5, <2>6, <2>7, <2>8 DEF PostsKept
  <1>2. ASSUME NEW t \in Tasks, CreatePost(t) PROVE PostsKept'
    <2> DEFINE m == task[t].m
    <2>1. /\ RowsSame /\ told' = told /\ task[t].pc = "create" /\ task[t].op \in Posting /\ m \in Posts /\ Goes(t, "record")
          /\ \A x \in Posts : x # m => post'[x] = post[x]
          /\ post'[m].is /\ post'[m].out = (task[t].op # "receive")
      BY <1>0, <1>2, CreateEffect
    <2>2. \A q \in Tasks : task'[q].op = task[q].op /\ task'[q].m = task[q].m /\ (q # t => task'[q] = task[q])
      BY <2>1 DEF Goes, Moves, OnlyTask, SameRequest
    <2>3. Written(t)' /\ ~Written(t)
      BY <2>1 DEF Goes, Written
    <2>4. ASSUME NEW q \in Tasks, q \in DOMAIN usageMenu'.plan, usageMenu'.plan[q].op \in Posting
          PROVE  post'[usageMenu'.plan[q].m].is <=> Written(q)'
      <3>0. usageMenu.plan[q].m \in Posts /\ t \in DOMAIN usageMenu.plan /\ task[t].op = usageMenu.plan[t].op /\ m = usageMenu.plan[t].m
        BY <1>0, <2>1, <2>4, Begun, UsageAssumption DEF Typed, RestTyped
      <3>1. CASE q = t
        BY <1>0, <2>1, <2>3, <3>0, <3>1
      <3>2. CASE q # t
        <4>1. {usageMenu.plan[t].op, usageMenu.plan[q].op} \subseteq Posting
          BY <1>0, <2>1, <2>4, <3>0
        <4>2. usageMenu.plan[q].m # m
          BY <1>0, <2>4, <3>0, <3>2, <4>1, UsageAssumption DEF Typed, RestTyped
        <4> QED BY <1>0, <2>1, <2>2, <2>4, <3>0, <3>2, <4>2 DEF PostsKept, Written
      <3> QED BY <3>1, <3>2
    <2>5. ASSUME NEW x \in Posts, post'[x].is PROVE \E q \in Tasks : task'[q].op \in Posting /\ task'[q].m = x
      BY <1>0, <2>1, <2>2, <2>5 DEF PostsKept
    <2>6. ASSUME NEW x \in Posts, ~post'[x].is PROVE ~own'[x].is /\ ~post'[x].wamid
      BY <1>0, <2>1, <2>6 DEF PostsKept, RowsSame
    <2>7. ASSUME NEW q \in Tasks, task'[q].op \in Posting, Written(q)' PROVE post'[task'[q].m].out = (task'[q].op # "receive")
      <3>1. CASE q = t
        BY <2>1, <2>2, <3>1
      <3>2. CASE q # t
        <4>1. task[q].m # m
          BY <1>0, <2>1, <2>2, <2>7, <3>2, OneWriter DEF Typed
        <4>2. task[q].pc # "new"
          BY <2>2, <2>7, <3>2 DEF Written
        <4>3. task[q].m \in Posts
          BY <1>0, <4>2, Begun DEF Typed
        <4> QED BY <1>0, <2>1, <2>2, <2>7, <3>2, <4>1, <4>3 DEF PostsKept, Written
      <3> QED BY <3>1, <3>2
    <2>8. \A q \in Tasks : ListsFine(q)'
      <3> TAKE q \in Tasks
      <3>1. CASE q = t
        BY <2>1, <3>1 DEF Goes, ListsFine
      <3>2. CASE q # t
        <4>1. task'[q] = task[q] /\ task[q].list \subseteq Listed
          BY <1>0, <2>2, <3>2 DEF Typed, TasksTyped, TaskRecord
        <4>2. \A x \in task[q].list : x.m \in Posts
          BY <4>1 DEF Listed
        <4> QED BY <1>a, <2>1, <4>1, <4>2 DEF ListsFine
      <3> QED BY <3>1, <3>2
    <2>9. \A x \in Posts : orphan'[x].is => told'[x] # {}
      BY <1>0, <2>1 DEF PostsKept, RowsSame
    <2> QED BY <2>4, <2>5, <2>6, <2>7, <2>8, <2>9 DEF PostsKept
  <1>3. ASSUME NEW t \in Tasks, RecordUsage(t) PROVE PostsKept'
    <2> DEFINE m == task[t].m
    <2>1. /\ UNCHANGED <<usageMenu, post, told>> /\ task[t].pc = "record" /\ task[t].op \in Posting /\ m \in Posts
          /\ RowsSame \/ Recorded(m, post[m].out, post[m].wamid, post[m].at)
          /\ Moves(t) /\ task'[t].pc \in {"api", "attach", "done"}
      BY <1>0, <1>3, RecordUsageEffect DEF World, Goes, Ends, Posting
    <2>2. Placed
      <3>1. post[m].is /\ post[m].wamid \in BOOLEAN
        BY <1>0, <1>b, <2>1 DEF Typed, RestTyped, PostRecord
      <3> QED BY <2>1, <3>1, SamePlaced, RecordedPlaced
    <2>3. ListsFine(t)'
      BY <2>1 DEF ListsFine
    <2> QED BY <1>0, <2>1, <2>2, <2>3, PostsMoves
  <1>4. ASSUME NEW t \in Tasks, FinalizeSend(t) PROVE PostsKept'
    <2> DEFINE m == task[t].m
    <2>1. /\ RowsSame /\ told' = told /\ Moves(t) /\ task[t].pc = "api" /\ task'[t].pc \in {"attach", "refused"} /\ m \in Posts
          /\ task[t].op = "send"
          /\ \A x \in Posts : (x # m => post'[x] = post[x]) /\ post'[x].is = post[x].is /\ post'[x].out = post[x].out
      BY <1>0, <1>4, FinalizeEffect DEF Goes
    <2>2. post[m].is
      BY <1>b, <2>1 DEF Posting
    <2>3. (Written(t)' <=> Written(t)) /\ ListsFine(t)'
      BY <2>1 DEF Written, ListsFine
    <2> QED BY <1>0, <2>1, <2>2, <2>3, PostsFrame DEF RowsSame
  <1>5. ASSUME NEW t \in Tasks, SendRefused(t) PROVE PostsKept'
    <2>1. /\ UNCHANGED <<usageMenu, post, told>> /\ task[t].pc = "refused" /\ task[t].m \in Posts /\ Moves(t) /\ task'[t].pc = "done"
          /\ RowsSame \/ RefusedRow(task[t].m)
      BY <1>0, <1>5, SendRefusedEffect DEF World, Ends
    <2>2. ListsFine(t)'
      BY <2>1 DEF ListsFine
    <2> QED BY <1>0, <2>1, <2>2, PostsMoves, SamePlaced, RefusedPlaced
  <1>6. ASSUME NEW t \in Tasks, AttachRead(t) PROVE PostsKept'
    <2>1. /\ UNCHANGED <<usageMenu, post, told>> /\ task[t].pc = "attach" /\ task[t].op \in Posting /\ task[t].m \in Posts /\ Moves(t)
          /\ task'[t].pc \in {"done", "settle", "link"} /\ (RowsSame \/ Adopted(task[t].m))
      BY <1>0, <1>6, AttachReadEffect DEF World, Ends, Goes, Posting
    <2>2. post[task[t].m].is
      BY <1>b, <2>1
    <2>3. Placed
      BY <2>1, <2>2 DEF RowsSame, Adopted, Others, Placed
    <2>4. ListsFine(t)'
      BY <2>1 DEF ListsFine
    <2> QED BY <1>0, <2>1, <2>3, <2>4, PostsMoves
  <1>7. ASSUME NEW t \in Tasks, AttachLost(t) PROVE PostsKept'
    <2>1. UNCHANGED <<usageMenu, post, told>> /\ RowsSame /\ task[t].pc = "attach" /\ Moves(t) /\ task'[t].pc = "done"
      BY <1>0, <1>7, AttachLostEffect DEF World, Ends
    <2>2. ListsFine(t)'
      BY <2>1 DEF ListsFine
    <2> QED BY <1>0, <2>1, <2>2, PostsMoves, SamePlaced
  <1>8. ASSUME NEW t \in Tasks, AttachLink(t) PROVE PostsKept'
    <2>0. own[task[t].m].is
      BY <1>8, LinkedOwn DEF AttachLink
    <2>1. /\ UNCHANGED <<usageMenu, post, told>> /\ task[t].pc = "link" /\ task[t].m \in Posts /\ Moves(t)
          /\ task'[t].pc \in {"done", "settle"} /\ (RowsSame \/ Linked(task[t].m))
      BY <1>0, <1>8, <2>0, AttachLinkEffect DEF World, Ends, Goes
    <2>2. Placed
      BY <2>1 DEF RowsSame, Linked, Others, Placed
    <2>3. ListsFine(t)'
      BY <2>1 DEF ListsFine
    <2> QED BY <1>0, <2>1, <2>2, <2>3, PostsMoves
  <1>9. ASSUME NEW t \in Tasks, SettleOne(t) PROVE PostsKept'
    <2>1. /\ UNCHANGED <<usageMenu, post, told>> /\ task[t].pc = "settle" /\ task[t].m \in Posts /\ Moves(t) /\ task'[t].pc = "done"
          /\ RowsSame \/ AllSettled(task[t].m)
      BY <1>0, <1>9, SettleOneEffect DEF World, Ends
    <2>2. ListsFine(t)'
      BY <2>1 DEF ListsFine
    <2> QED BY <1>0, <2>1, <2>2, PostsMoves, SamePlaced, SettledPlaced
  <1>10. ASSUME NEW t \in Tasks, RecordStatusEvent(t) PROVE PostsKept'
    <2>1. /\ RowsSame /\ post' = post /\ task[t].pc = "append" /\ Moves(t) /\ task'[t].pc \in {"settle", "done"}
          /\ \A x \in Posts : told[x] \subseteq told'[x]
      BY <1>0, <1>10, EventEffect DEF Goes, Ends
    <2>2. (Written(t)' <=> Written(t)) /\ ListsFine(t)'
      BY <2>1 DEF ListsFine, Written
    <2> QED BY <1>0, <2>1, <2>2, PostsFrame DEF RowsSame
  <1>11. ASSUME NEW t \in Tasks, SweepStarts(t) PROVE PostsKept'
    <2>1. UNCHANGED <<usageMenu, post, told>> /\ RowsSame /\ task[t].pc = "sweep" /\ Moves(t) /\ task'[t].pc \in {"done", "missing"}
      BY <1>0, <1>11, SweepStartsEffect DEF World, Ends
    <2>2. ListsFine(t)'
      BY <2>1 DEF ListsFine
    <2> QED BY <1>0, <2>1, <2>2, PostsMoves, SamePlaced
  <1>12. ASSUME NEW t \in Tasks, SweepMissing(t) PROVE PostsKept'
    <2>1. UNCHANGED <<usageMenu, post, told>> /\ RowsSame /\ task[t].pc = "missing" /\ Moves(t) /\ task'[t].pc = "infer" /\ Missed(t)
      BY <1>0, <1>12, SweepMissingEffect DEF World
    <2>2. ListsFine(t)'
      BY <2>1 DEF ListsFine, Missed
    <2> QED BY <1>0, <2>1, <2>2, PostsMoves, SamePlaced
  <1>13. ASSUME NEW t \in Tasks, InferRow(t) PROVE PostsKept'
    <2>1. /\ UNCHANGED <<usageMenu, post, told>> /\ task[t].pc = "infer"
          /\ \/ RowsSame /\ Goes(t, "unlinked")
             \/ \E x \in task[t].list : /\ Takes(t, x, "inferred") /\ x.m \in Posts /\ x.wamid \in BOOLEAN /\ post[x.m].is
                                        /\ RowsSame \/ Recorded(x.m, post[x.m].out, x.wamid, post[x.m].at)
      BY <1>0, <1>13, InferRowEffect DEF World
    <2>2. CASE RowsSame /\ Goes(t, "unlinked")
      <3>1. ListsFine(t)'
        BY <2>2 DEF ListsFine, Goes
      <3> QED BY <1>0, <2>1, <2>2, <3>1, PostsMoves, SamePlaced DEF Goes
    <2>3. ASSUME NEW x \in task[t].list, Takes(t, x, "inferred"), x.m \in Posts, x.wamid \in BOOLEAN, post[x.m].is,
                 RowsSame \/ Recorded(x.m, post[x.m].out, x.wamid, post[x.m].at)
          PROVE  PostsKept'
      <3>1. ListsFine(t)'
        BY <1>a, <2>1, <2>3 DEF ListsFine, Takes
      <3>2. Placed
        BY <2>3, SamePlaced, RecordedPlaced
      <3> QED BY <1>0, <2>1, <2>3, <3>1, <3>2, PostsMoves DEF Takes
    <2> QED BY <2>1, <2>2, <2>3
  <1>14. ASSUME NEW t \in Tasks, InferState(t) PROVE PostsKept'
    <2>1. /\ UNCHANGED <<usageMenu, post, told>> /\ task[t].pc = "inferred" /\ Goes(t, "infer") /\ task[t].cur.m \in Posts
          /\ RowsSame \/ RefusedRow(task[t].cur.m) \/ AllSettled(task[t].cur.m)
      BY <1>0, <1>14, InferStateEffect DEF World
    <2>2. ListsFine(t)'
      BY <1>a, <2>1 DEF ListsFine, Goes, Rest
    <2> QED BY <1>0, <2>1, <2>2, PostsMoves, SamePlaced, RefusedPlaced, SettledPlaced DEF Goes
  <1>15. ASSUME NEW t \in Tasks, SweepUnlinked(t) PROVE PostsKept'
    <2>1. /\ UNCHANGED <<usageMenu, post, told>> /\ RowsSame /\ task[t].pc = "unlinked" /\ Moves(t) /\ task'[t].pc = "adopt"
          /\ \A x \in task'[t].list : told[x.m] # {}
      BY <1>0, <1>15, SweepUnlinkedEffect DEF World, Lists
    <2>2. ListsFine(t)'
      BY <2>1 DEF ListsFine
    <2> QED BY <1>0, <2>1, <2>2, PostsMoves, SamePlaced
  <1>16. ASSUME NEW t \in Tasks, InsertUnlinked(t) PROVE PostsKept'
    <2>1. /\ UNCHANGED <<usageMenu, post, told>> /\ task[t].pc = "adopt"
          /\ \/ RowsSame /\ Goes(t, "pending")
             \/ RowsSame /\ Moves(t) /\ task'[t].pc = "adopt" /\ task'[t].list \subseteq task[t].list
             \/ \E x \in task[t].list : x.m \in Posts /\ told[x.m] # {} /\ Takes(t, x, "adopted") /\ Inserted(x.m)
      BY <1>0, <1>16, InsertUnlinkedEffect DEF World, Lists
    <2>2. CASE RowsSame /\ Goes(t, "pending")
      <3>1. ListsFine(t)'
        BY <2>2 DEF ListsFine, Goes
      <3> QED BY <1>0, <2>1, <2>2, <3>1, PostsMoves, SamePlaced DEF Goes
    <2>3. CASE RowsSame /\ Moves(t) /\ task'[t].pc = "adopt" /\ task'[t].list \subseteq task[t].list
      <3>1. ListsFine(t)'
        BY <1>a, <2>1, <2>3 DEF ListsFine
      <3> QED BY <1>0, <2>1, <2>3, <3>1, PostsMoves, SamePlaced
    <2>4. ASSUME NEW x \in task[t].list, x.m \in Posts, told[x.m] # {}, Takes(t, x, "adopted"), Inserted(x.m) PROVE PostsKept'
      <3>1. ListsFine(t)'
        BY <1>a, <2>1, <2>4 DEF ListsFine, Takes
      <3>2. Placed
        BY <2>4 DEF Inserted, Placed
      <3> QED BY <1>0, <2>1, <2>4, <3>1, <3>2, PostsMoves DEF Takes
    <2> QED BY <2>1, <2>2, <2>3, <2>4
  <1>17. ASSUME NEW t \in Tasks, SettleUnlinked(t) PROVE PostsKept'
    <2>1. /\ UNCHANGED <<usageMenu, post, told>> /\ task[t].pc = "adopted" /\ Goes(t, "adopt") /\ task[t].cur.m \in Posts
          /\ RowsSame \/ AllSettled(task[t].cur.m)
      BY <1>0, <1>17, SettleUnlinkedEffect DEF World
    <2>2. ListsFine(t)'
      BY <1>a, <2>1 DEF ListsFine, Goes, Rest
    <2> QED BY <1>0, <2>1, <2>2, PostsMoves, SamePlaced, SettledPlaced DEF Goes
  <1>18. ASSUME NEW t \in Tasks, SweepPending(t) \/ Reprice(t) PROVE PostsKept'
    <2>1. UNCHANGED <<usageMenu, post, told>> /\ RowsSame /\ task[t].pc \in {"pending", "list"} /\ Moves(t) /\ task'[t].pc = "resettle"
      BY <1>0, <1>18, SweepPendingEffect, RepriceEffect DEF World, Lists
    <2>2. ListsFine(t)'
      BY <2>1 DEF ListsFine
    <2> QED BY <1>0, <2>1, <2>2, PostsMoves, SamePlaced
  <1>19. ASSUME NEW t \in Tasks, Resettle(t) PROVE PostsKept'
    <2>1. /\ UNCHANGED <<usageMenu, post, told>> /\ task[t].pc = "resettle" /\ Moves(t) /\ task'[t].pc \in {"done", "resettle"}
          /\ RowsSame \/ \E m \in Posts : AllSettled(m)
      BY <1>0, <1>19, ResettleEffect DEF World, Ends, Lists
    <2>2. ListsFine(t)'
      BY <2>1 DEF ListsFine
    <2> QED BY <1>0, <2>1, <2>2, PostsMoves, SamePlaced, SettledPlaced
  <1>20. ASSUME NEW t \in Tasks, SwitchRecording(t) PROVE PostsKept'
    <2>1. UNCHANGED <<usageMenu, post, told>> /\ RowsSame /\ task[t].pc = "flip" /\ Moves(t) /\ task'[t].pc = "done"
      BY <1>0, <1>20, SwitchEffect DEF Ends
    <2>2. ListsFine(t)'
      BY <2>1 DEF ListsFine
    <2> QED BY <1>0, <2>1, <2>2, PostsMoves, SamePlaced
  <1>21. ASSUME NEW t \in Tasks, CreateRate(t) \/ UpdateRate(t) \/ DeleteRate(t) PROVE PostsKept'
    <2>0. task[t].op \in {"rateEdit", "rateDrop"} /\ task[t].pc = "save" => task[t].id \in RateIds
      BY SavedId
    <2>1. UNCHANGED <<usageMenu, post, told>> /\ RowsSame /\ task[t].pc \in {"check", "save"} /\ Moves(t) /\ task'[t].pc \in {"done", "save"}
      <3>1. CASE CreateRate(t)
        BY <1>0, <3>1, CreateRateEffect DEF AllButPrices, Ends, Saves
      <3>2. CASE UpdateRate(t)
        <4>1. task[t].op = "rateEdit"
          BY <3>2 DEF UpdateRate
        <4> QED BY <1>0, <2>0, <3>2, <4>1, UpdateRateEffect DEF AllButPrices, Ends, Saves
      <3>3. CASE DeleteRate(t)
        <4>1. task[t].op = "rateDrop"
          BY <3>3 DEF DeleteRate
        <4> QED BY <1>0, <2>0, <3>3, <4>1, DeleteRateEffect DEF AllButPrices, Ends, Saves
      <3> QED BY <1>21, <3>1, <3>2, <3>3
    <2>2. ListsFine(t)'
      BY <2>1 DEF ListsFine
    <2> QED BY <1>0, <2>1, <2>2, PostsMoves, SamePlaced
  <1>22. ASSUME task' = task, UNCHANGED <<usageMenu, post, told>>, RowsSame PROVE PostsKept'
    BY <1>0, <1>22 DEF PostsKept, ListsFine, Written, RowsSame
  <1>23. ASSUME NEW s \in Servers, ReadSwitch(s) \/ RememberSwitch(s) PROVE PostsKept'
    BY <1>0, <1>22, <1>23, CacheEffect
  <1>24. ASSUME DayPasses PROVE PostsKept'
    BY <1>0, <1>22, <1>24, DayEffect
  <1>25. ASSUME NEW t \in Tasks,
                \/ BeginTask(t) \/ CreatePost(t) \/ RecordUsage(t) \/ FinalizeSend(t) \/ SendRefused(t) \/ AttachRead(t) \/ AttachLost(t)
                \/ AttachLink(t) \/ SettleOne(t) \/ RecordStatusEvent(t) \/ SweepStarts(t) \/ SweepMissing(t) \/ InferRow(t)
                \/ InferState(t) \/ SweepUnlinked(t) \/ InsertUnlinked(t) \/ SettleUnlinked(t) \/ SweepPending(t) \/ Resettle(t)
                \/ Reprice(t) \/ SwitchRecording(t) \/ CreateRate(t) \/ UpdateRate(t) \/ DeleteRate(t)
         PROVE  PostsKept'
    BY <1>1, <1>2, <1>3, <1>4, <1>5, <1>6, <1>7, <1>8, <1>9, <1>10, <1>11, <1>12, <1>13, <1>14, <1>15, <1>16, <1>17, <1>18,
       <1>19, <1>20, <1>21, <1>25
  <1> QED BY <1>23, <1>24, <1>25 DEF UsageNext

-------------------------------------------------------------------------------
(* Ledger: the row of an identifier and the message's own row *)

SameLink(m) ==
    /\ own'[m].is = own[m].is /\ own'[m].wamid = own[m].wamid /\ orphan'[m].is = orphan[m].is
    /\ post'[m].wamid = post[m].wamid

LEMMA SendStays ==
  ASSUME NEW u \in Tasks, GoodSend(u), task'[u] = task[u], coincided \subseteq coincided', SameLink(task[u].m),
         told'[task[u].m] = told[task[u].m] \/ task[u].pc \notin {"create", "record"}
  PROVE  GoodSend(u)'
  <1>1. (Sweeping => Sweeping') /\ (Excused(u) => Excused(u)')
    BY DEF Sweeping, Excused
  <1> QED BY <1>1 DEF GoodSend, SameLink

LEMMA EchoStays ==
  ASSUME NEW u \in Tasks, GoodEcho(u), task'[u] = task[u], SameLink(task[u].m)
  PROVE  GoodEcho(u)'
  BY DEF GoodEcho, SameLink, Written

LEMMA ForeseenStays ==
  ASSUME NEW u \in Tasks, Foreseen(u), task'[u].pc \in {"infer", "inferred"} => task[u].pc \in {"infer", "inferred"} /\ task'[u].list \subseteq task[u].list,
         \A q \in Tasks : task[q].op = "send" => task'[q].op = "send" /\ task'[q].m = task[q].m,
         coincided \subseteq coincided', post' = post
  PROVE  Foreseen(u)'
  BY DEF Foreseen, Sweeping

\* A request that writes no message moves, or one begins: the rows keep their identifiers.
LEMMA LinksMove ==
  ASSUME Typed, LinksKept, UNCHANGED <<usageMenu, post, told>>, coincided \subseteq coincided', NEW t \in Tasks, Moves(t),
         task[t].op \notin Posting, \A x \in Posts : SameLink(x), Foreseen(t)'
  PROVE  LinksKept'
  <1>1. \A q \in Tasks : task'[q].op = task[q].op /\ task'[q].m = task[q].m /\ (q # t => task'[q] = task[q])
    BY DEF Moves, OnlyTask, SameRequest
  <1>2. \A q \in Tasks : task[q].op \in Posting => q # t /\ task[q].m \in Posts
    BY NotBegun, Begun DEF Typed, Posting
  <1>3. ASSUME NEW q \in Tasks, task'[q].op = "send" PROVE GoodSend(q)'
    BY <1>1, <1>2, <1>3, SendStays DEF LinksKept, Posting
  <1>4. ASSUME NEW q \in Tasks, task'[q].op \in {"receive", "echo"} PROVE GoodEcho(q)'
    BY <1>1, <1>2, <1>4, EchoStays DEF LinksKept, Posting
  <1>5. ASSUME NEW q \in Tasks PROVE Foreseen(q)'
    BY <1>1, ForeseenStays DEF LinksKept
  <1>6. \A q \in Tasks : task'[q].pc = "new" => task[q].pc = "new"
    BY <1>1 DEF Moves
  <1> QED BY <1>1, <1>3, <1>4, <1>5, <1>6 DEF LinksKept

\* A request that writes a message moves: only the rows of that message change.
LEMMA LinksPost ==
  ASSUME Typed, LinksKept, UNCHANGED <<usageMenu, told>>, coincided \subseteq coincided', NEW t \in Tasks, Moves(t),
         task[t].op \in Posting, \A x \in Posts : x # task[t].m => SameLink(x), \A q \in Tasks : Foreseen(q)',
         task[t].op = "send" => GoodSend(t)', task[t].op \in {"receive", "echo"} => GoodEcho(t)'
  PROVE  LinksKept'
  <1>1. \A q \in Tasks : task'[q].op = task[q].op /\ task'[q].m = task[q].m /\ (q # t => task'[q] = task[q])
    BY DEF Moves, OnlyTask, SameRequest
  <1>2. \A q \in Tasks : task[q].op \in Posting => task[q].m \in Posts /\ (q # t => task[q].m # task[t].m)
    BY NotBegun, Begun, OneWriter DEF Typed, Posting
  <1>3. ASSUME NEW q \in Tasks, task'[q].op = "send" PROVE GoodSend(q)'
    BY <1>1, <1>2, <1>3, SendStays DEF LinksKept, Posting
  <1>4. ASSUME NEW q \in Tasks, task'[q].op \in {"receive", "echo"} PROVE GoodEcho(q)'
    BY <1>1, <1>2, <1>4, EchoStays DEF LinksKept, Posting
  <1>6. \A q \in Tasks : task'[q].pc = "new" => task[q].pc = "new"
    BY <1>1 DEF Moves
  <1> QED BY <1>1, <1>3, <1>4, <1>6 DEF LinksKept

\* A pass changes the rows of one message: its writer must not mind.
LEMMA LinksRow ==
  ASSUME Typed, LinksKept, UNCHANGED <<usageMenu, post, told>>, coincided \subseteq coincided', NEW t \in Tasks, Moves(t),
         task[t].op \notin Posting, NEW m \in Posts, \A x \in Posts : x # m => SameLink(x), Foreseen(t)',
         \A u \in Tasks : task[u].op = "send" /\ task[u].m = m => GoodSend(u)',
         \A u \in Tasks : task[u].op \in {"receive", "echo"} /\ task[u].m = m => GoodEcho(u)'
  PROVE  LinksKept'
  <1>1. \A q \in Tasks : task'[q].op = task[q].op /\ task'[q].m = task[q].m /\ (q # t => task'[q] = task[q])
    BY DEF Moves, OnlyTask, SameRequest
  <1>2. \A q \in Tasks : task[q].op \in Posting => q # t /\ task[q].m \in Posts
    BY NotBegun, Begun DEF Typed, Posting
  <1>3. ASSUME NEW q \in Tasks, task'[q].op = "send" PROVE GoodSend(q)'
    BY <1>1, <1>2, <1>3, SendStays DEF LinksKept, Posting
  <1>4. ASSUME NEW q \in Tasks, task'[q].op \in {"receive", "echo"} PROVE GoodEcho(q)'
    BY <1>1, <1>2, <1>4, EchoStays DEF LinksKept, Posting
  <1>5. ASSUME NEW q \in Tasks PROVE Foreseen(q)'
    BY <1>1, ForeseenStays DEF LinksKept
  <1>6. \A q \in Tasks : task'[q].pc = "new" => task[q].pc = "new"
    BY <1>1 DEF Moves
  <1> QED BY <1>1, <1>3, <1>4, <1>5, <1>6 DEF LinksKept

LEMMA SameLinked ==
  ASSUME post' = post
  PROVE  /\ RowsSame => \A x \in Posts : SameLink(x)
         /\ \A m \in Posts : AllSettled(m) => \A x \in Posts : SameLink(x)
         /\ \A m \in Posts : RefusedRow(m) => \A x \in Posts : x # m => SameLink(x)
  BY SettledPlaced DEF RowsSame, SameLink, RefusedRow, Others

\* The message of a request that has not written it is not there, and nobody reports on it.
LEMMA Unwritten ==
  ASSUME Typed, PostsKept, NEW t \in Tasks, t \in DOMAIN usageMenu.plan, usageMenu.plan[t].op \in Posting, ~Written(t)
  PROVE  LET m == usageMenu.plan[t].m IN m \in Posts /\ ~post[m].is /\ ~post[m].wamid /\ ~own[m].is
  <1>1. usageMenu.plan[t].m \in Posts
    BY UsageAssumption DEF Typed, RestTyped
  <1> QED BY <1>1 DEF PostsKept

LEMMA LinksBegin ==
  ASSUME LedgerInv, Typed', NEW t \in Tasks, BeginTask(t)
  PROVE  LinksKept'
  <1>0. Typed /\ PostsKept /\ LinksKept
    BY DEF LedgerInv
  <1>1. Begins(t) /\ RowsSame /\ UNCHANGED <<usageMenu, post, told>> /\ coincided \subseteq coincided'
    BY <1>0, BeginEffect DEF Begins
  <1>2. (\A q \in Tasks : q # t => task'[q] = task[q]) /\ task[t].op = "none"
    BY <1>0, <1>1, NotBegun DEF Begins, OnlyTask, Typed
  <1>3. \A x \in Posts : SameLink(x)
    BY <1>1, SameLinked
  <1>4. \A q \in Tasks : task[q].op \in Posting => q # t /\ task[q].m \in Posts
    BY <1>0, <1>2, NotBegun, Begun DEF Typed, Posting
  <1>5. ASSUME task'[t].op \in Posting
        PROVE  LET m == task'[t].m IN ~post'[m].wamid /\ ~own'[m].is /\ task'[t].pc = "create" /\ m = usageMenu.plan[t].m
    <2>1. ~Written(t) /\ t \in DOMAIN usageMenu.plan /\ usageMenu.plan[t].op \in Posting /\ task'[t].pc = "create"
          /\ task'[t].m = usageMenu.plan[t].m
      BY <1>1, <1>5 DEF Begins, Written
    <2> QED BY <1>0, <1>1, <2>1, Unwritten DEF RowsSame
  <1>6. task'[t].op \in {"send", "receive"} => told'[task'[t].m] = {}
    BY <1>0, <1>1 DEF Begins, LinksKept
  <1>7. ASSUME NEW q \in Tasks, task'[q].op = "send" PROVE GoodSend(q)'
    <2>1. CASE q = t
      <3>1. /\ ~post'[task'[t].m].wamid /\ ~own'[task'[t].m].is /\ task'[t].pc = "create" /\ told'[task'[t].m] = {}
        BY <1>5, <1>6, <1>7, <2>1 DEF Posting
      <3> QED BY <2>1, <3>1 DEF GoodSend
    <2>2. CASE q # t
      BY <1>0, <1>1, <1>2, <1>3, <1>4, <1>7, <2>2, SendStays DEF LinksKept, Posting
    <2> QED BY <2>1, <2>2
  <1>8. ASSUME NEW q \in Tasks, task'[q].op \in {"receive", "echo"} PROVE GoodEcho(q)'
    <2>1. CASE q = t
      <3>1. /\ ~post'[task'[t].m].wamid /\ ~own'[task'[t].m].is /\ task'[t].pc = "create"
        BY <1>5, <1>8, <2>1 DEF Posting
      <3> QED BY <2>1, <3>1 DEF GoodEcho, Written
    <2>2. CASE q # t
      BY <1>0, <1>1, <1>2, <1>3, <1>4, <1>8, <2>2, EchoStays DEF LinksKept, Posting
    <2> QED BY <2>1, <2>2
  <1>9. ASSUME NEW q \in Tasks PROVE Foreseen(q)'
    <2>1. task'[q].pc \in {"infer", "inferred"} => q # t
      BY <1>1 DEF Begins
    <2>2. \A u \in Tasks : task[u].op = "send" => task'[u].op = "send" /\ task'[u].m = task[u].m
      BY <1>2, <1>4 DEF Posting
    <2> QED BY <1>0, <1>1, <1>2, <2>1, <2>2, ForeseenStays DEF LinksKept
  <1>10. ASSUME NEW q \in Tasks, task'[q].op = "receive" PROVE told'[task'[q].m] = {}
    BY <1>0, <1>1, <1>2, <1>6, <1>10 DEF LinksKept
  <1>11. \A q \in Tasks : task'[q].pc = "new" => task[q].pc = "new"
    BY <1>1, <1>2 DEF Begins
  <1> QED BY <1>0, <1>1, <1>7, <1>8, <1>9, <1>10, <1>11 DEF LinksKept

LEMMA ForeseenPost ==
  ASSUME Typed, NEW u \in Tasks, Foreseen(u), ListsFine(u), task'[u] = task[u],
         \A q \in Tasks : task'[q].op = task[q].op /\ task'[q].m = task[q].m, coincided \subseteq coincided',
         task[u].pc \in {"infer", "inferred"} => \A x \in Posts : post[x].is =>
            post'[x].wamid = post[x].wamid \/ (Sweeping /\ \E v \in Tasks : task[v].op = "send" /\ task[v].m = x)
  PROVE  Foreseen(u)'
  <1>1. task[u].list \subseteq Listed /\ \A x \in Listed : x.m \in Posts
    BY DEF Typed, TasksTyped, TaskRecord, Listed
  <1>2. Sweeping => Sweeping'
    BY DEF Sweeping
  <1>3. ASSUME task'[u].pc \in {"infer", "inferred"}, NEW x \in task'[u].list, x.wamid # post'[x.m].wamid
        PROVE  Sweeping /\ \E v \in Tasks : task[v].op = "send" /\ task[v].m = x.m
    <2>1. task[u].pc \in {"infer", "inferred"} /\ x \in task[u].list /\ x.m \in Posts /\ post[x.m].is
      BY <1>1, <1>3 DEF ListsFine
    <2> QED BY <1>3, <2>1 DEF Foreseen
  <1> QED BY <1>2, <1>3 DEF Foreseen

\* What is kept of a message that its own request has written.
LEMMA WrittenThen ==
  ASSUME Typed, PostsKept, NEW u \in Tasks, task[u].op \in Posting
  PROVE  task[u].m \in Posts /\ (post[task[u].m].is <=> Written(u)) /\ u \in DOMAIN usageMenu.plan
         /\ usageMenu.plan[u].op = task[u].op /\ usageMenu.plan[u].m = task[u].m /\ task[u].pc # "new"
  <1>1. task[u].pc # "new"
    BY NotBegun DEF Typed, Posting
  <1>2. u \in DOMAIN usageMenu.plan /\ task[u].op = usageMenu.plan[u].op /\ task[u].m = usageMenu.plan[u].m /\ task[u].m \in Posts
    BY <1>1, Begun DEF Typed
  <1> QED BY <1>1, <1>2 DEF PostsKept

\* A pass and a sending that are both in progress have met.
LEMMA SweepMeets ==
  ASSUME MetKept, NEW t \in Tasks, NEW u \in Tasks, task[t].op = "sweep", task[t].pc \notin {"new", "done"},
         task[u].op = "send", task[u].pc \notin {"new", "done"}
  PROVE  Sweeping
  <1>1. t # u /\ t \in Going /\ u \in Going
    BY DEF Going
  <1>2. {"send", "sweep"} \in coincided
    <2>1. {task[t].op, task[u].op} \in coincided
      BY <1>1, Together
    <2>2. {task[t].op, task[u].op} = {"send", "sweep"}
      OBVIOUS
    <2> QED BY <2>1, <2>2
  <1> QED BY <1>2 DEF Sweeping

LEMMA LinksCreate ==
  ASSUME LedgerInv, Typed', NEW t \in Tasks, CreatePost(t)
  PROVE  LinksKept'
  <1> DEFINE m == task[t].m
  <1>0. Typed /\ PostsKept /\ LinksKept
    BY DEF LedgerInv
  <1>1. /\ RowsSame /\ UNCHANGED <<usageMenu, told, coincided>> /\ task[t].pc = "create" /\ task[t].op \in Posting /\ m \in Posts
        /\ Goes(t, "record") /\ \A x \in Posts : x # m => post'[x] = post[x]
        /\ post'[m].wamid = (task[t].op # "send")
    BY <1>0, CreateEffect
  <1>2. Moves(t) /\ task'[t].op = task[t].op /\ task'[t].m = m /\ task'[t].pc = "record" /\ \A q \in Tasks : q # t => task'[q] = task[q]
    BY <1>1 DEF Goes, Moves, OnlyTask, SameRequest
  <1>3. ~post[m].is /\ ~own[m].is
    BY <1>0, <1>1, WrittenThen DEF Written, PostsKept
  <1>4. \A x \in Posts : x # m => SameLink(x)
    BY <1>1 DEF RowsSame, SameLink
  <1>5. \A q \in Tasks : Foreseen(q)'
    <2> TAKE q \in Tasks
    <2>1. CASE q = t
      BY <1>2, <2>1 DEF Foreseen
    <2>2. CASE q # t
      <3>1. Foreseen(q) /\ ListsFine(q)
        BY <1>0 DEF LinksKept, PostsKept
      <3> QED BY <1>0, <1>1, <1>2, <1>3, <2>2, <3>1, ForeseenPost
    <2> QED BY <2>1, <2>2
  <1>6. ASSUME task[t].op = "send" PROVE GoodSend(t)'
    <2>1. told[m] = {}
      BY <1>0, <1>1, <1>6 DEF LinksKept, GoodSend
    <2> QED BY <1>1, <1>2, <1>3, <1>6, <2>1 DEF GoodSend, RowsSame
  <1>7. ASSUME task[t].op \in {"receive", "echo"} PROVE GoodEcho(t)'
    BY <1>1, <1>2, <1>3, <1>7 DEF GoodEcho, RowsSame, Written
  <1> QED BY <1>0, <1>1, <1>2, <1>4, <1>5, <1>6, <1>7, LinksPost

\* What a pass has listed is not disturbed by a request that leaves the messages alone.
LEMMA AllForeseen ==
  ASSUME LinksKept, UNCHANGED <<post, coincided>>, NEW t \in Tasks, Moves(t), task'[t].pc \notin {"infer", "inferred"}
  PROVE  \A q \in Tasks : Foreseen(q)'
  <1>1. \A q \in Tasks : task'[q].op = task[q].op /\ task'[q].m = task[q].m /\ (q # t => task'[q] = task[q])
    BY DEF Moves, OnlyTask, SameRequest
  <1> TAKE q \in Tasks
  <1>2. CASE q = t
    BY <1>2 DEF Foreseen
  <1>3. CASE q # t
    BY <1>1, <1>3, ForeseenStays DEF LinksKept
  <1> QED BY <1>2, <1>3

LEMMA LinksRecord ==
  ASSUME LedgerInv, Typed', NEW t \in Tasks, RecordUsage(t)
  PROVE  LinksKept'
  <1> DEFINE m == task[t].m
  <1>0. Typed /\ PostsKept /\ LinksKept
    BY DEF LedgerInv
  <1>1. /\ UNCHANGED World /\ task[t].pc = "record" /\ task[t].op \in Posting /\ m \in Posts
        /\ RowsSame \/ Recorded(m, post[m].out, post[m].wamid, post[m].at)
        /\ Moves(t) /\ (task[t].op = "send" => Goes(t, "api")) /\ task'[t].pc \in {"api", "attach", "done"}
    BY <1>0, RecordUsageEffect DEF Goes, Ends, Posting
  <1>2. task'[t].op = task[t].op /\ task'[t].m = m /\ UNCHANGED <<usageMenu, post, told, coincided>>
    BY <1>1 DEF Moves, SameRequest, World
  <1>3. \A x \in Posts : x # m => SameLink(x)
    BY <1>1, <1>2 DEF RowsSame, SameLink, Recorded
  <1>4. \A q \in Tasks : Foreseen(q)'
    BY <1>0, <1>1, <1>2, AllForeseen
  <1>5. ASSUME task[t].op = "send" PROVE GoodSend(t)'
    <2>1. GoodSend(t) /\ told[m] = {} /\ ~post[m].wamid
      BY <1>0, <1>1, <1>5 DEF LinksKept, GoodSend
    <2>2. ~orphan[m].is
      BY <1>0, <1>1, <2>1 DEF PostsKept
    <2>3. orphan'[m] = orphan[m]
      BY <1>1, <2>1 DEF RowsSame, Recorded
    <2>4. task'[t].pc = "api"
      BY <1>1, <1>5 DEF Goes
    <2> QED BY <1>2, <2>1, <2>2, <2>3, <2>4 DEF GoodSend
  <1>6. ASSUME task[t].op \in {"receive", "echo"} PROVE GoodEcho(t)'
    <2>1. GoodEcho(t) /\ post[m].wamid
      BY <1>0, <1>1, <1>6 DEF LinksKept, GoodEcho, Written
    <2>2. own'[m].is => own'[m].wamid
      <3>1. orphan[m].is => orphan[m].wamid
        BY <1>0, <1>1 DEF Typed, RowsTyped
      <3> QED BY <1>1, <2>1, <3>1 DEF RowsSame, Recorded, Fresh, Adopts, GoodEcho
    <2> QED BY <1>1, <1>2, <2>1, <2>2 DEF GoodEcho, Written
  <1> QED BY <1>0, <1>1, <1>2, <1>3, <1>4, <1>5, <1>6, LinksPost

LEMMA LinksFinalize ==
  ASSUME LedgerInv, Typed', NEW t \in Tasks, FinalizeSend(t)
  PROVE  LinksKept'
  <1> DEFINE m == task[t].m
  <1>0. Typed /\ PostsKept /\ LinksKept /\ MetKept
    BY DEF LedgerInv
  <1>1. /\ RowsSame /\ UNCHANGED <<usageMenu, told, coincided>> /\ task[t].pc = "api" /\ task[t].op = "send" /\ m \in Posts
        /\ \A x \in Posts : x # m => post'[x] = post[x]
        /\ \/ Goes(t, "attach") /\ post'[m].wamid
           \/ Goes(t, "refused") /\ post'[m].wamid = post[m].wamid
    BY <1>0, FinalizeEffect
  <1>2. /\ Moves(t) /\ task'[t].op = task[t].op /\ task'[t].m = m /\ task'[t].pc \in {"attach", "refused"} /\ task'[t].said = task[t].said
        /\ \A q \in Tasks : task'[q].op = task[q].op /\ task'[q].m = task[q].m /\ (q # t => task'[q] = task[q])
    BY <1>1 DEF Goes, Moves, OnlyTask, SameRequest
  <1>4. \A x \in Posts : x # m => SameLink(x)
    BY <1>1 DEF RowsSame, SameLink
  <1>5. \A q \in Tasks : Foreseen(q)'
    <2> TAKE q \in Tasks
    <2>1. CASE q = t
      BY <1>2, <2>1 DEF Foreseen
    <2>2. CASE q # t
      <3>1. Foreseen(q) /\ ListsFine(q)
        BY <1>0 DEF LinksKept, PostsKept
      <3>2. ASSUME task[q].pc \in {"infer", "inferred"} PROVE Sweeping
        <4>1. task[q].op = "sweep"
          BY <1>0, <3>2, OpOf DEF Typed
        <4> QED BY <1>0, <1>1, <3>2, <4>1, SweepMeets
      <3> QED BY <1>0, <1>1, <1>2, <2>2, <3>1, <3>2, ForeseenPost
    <2> QED BY <2>1, <2>2
  <1>6. GoodSend(t)'
    <2>1. GoodSend(t)
      BY <1>0, <1>1 DEF LinksKept
    <2>2. ~post[m].wamid
      BY <1>1, <2>1 DEF GoodSend
    <2>3. Excused(t) => Excused(t)'
      BY <1>1, <1>2 DEF Excused, Sweeping
    <2>4. \/ task'[t].pc = "attach" /\ post'[m].wamid
          \/ task'[t].pc = "refused" /\ ~post'[m].wamid
      BY <1>1, <2>2 DEF Goes
    <2> QED BY <1>1, <1>2, <2>1, <2>3, <2>4 DEF GoodSend, RowsSame
  <1> QED BY <1>0, <1>1, <1>2, <1>4, <1>5, <1>6, LinksPost DEF Posting

LEMMA RefusedLinked ==
  ASSUME Typed, Typed', post' = post, NEW m \in Posts, RefusedRow(m)
  PROVE  \A x \in Posts : SameLink(x)
  <1> TAKE x \in Posts
  <1>1. CASE x = m
    <2>1. own[m].is \in BOOLEAN /\ own[m].wamid \in BOOLEAN /\ own'[m].is \in BOOLEAN /\ own'[m].wamid \in BOOLEAN
      BY DEF Typed, RowsTyped, MessageUsage
    <2> QED BY <1>1, <2>1 DEF RefusedRow, SameLink
  <1>2. CASE x # m
    BY <1>2 DEF RefusedRow, Others, SameLink
  <1> QED BY <1>1, <1>2

LEMMA LinksRefused ==
  ASSUME LedgerInv, Typed', NEW t \in Tasks, SendRefused(t)
  PROVE  LinksKept'
  <1> DEFINE m == task[t].m
  <1>0. Typed /\ PostsKept /\ LinksKept
    BY DEF LedgerInv
  <1>1. /\ UNCHANGED World /\ task[t].pc = "refused" /\ task[t].op = "send" /\ m \in Posts /\ Ends(t, "refused")
        /\ RowsSame \/ RefusedRow(m)
    BY <1>0, SendRefusedEffect
  <1>2. UNCHANGED <<usageMenu, post, told, coincided>> /\ Moves(t) /\ task'[t].op = "send" /\ task'[t].m = m /\ task'[t].pc = "done"
        /\ task'[t].said = "refused"
    BY <1>1 DEF World, Ends, Moves, SameRequest
  <1>3. \A x \in Posts : SameLink(x)
    BY <1>0, <1>1, <1>2, RefusedLinked, SameLinked
  <1>4. \A q \in Tasks : Foreseen(q)'
    BY <1>0, <1>2, AllForeseen
  <1>5. GoodSend(t)'
    <2>1. ~post[m].wamid
      BY <1>0, <1>1 DEF LinksKept, GoodSend
    <2>2. Excused(t)'
      BY <1>2 DEF Excused
    <2> QED BY <1>2, <2>1, <2>2 DEF GoodSend
  <1> QED BY <1>0, <1>1, <1>2, <1>3, <1>4, <1>5, LinksPost DEF Posting

LEMMA LinksAttachRead ==
  ASSUME LedgerInv, Typed', NEW t \in Tasks, AttachRead(t)
  PROVE  LinksKept'
  <1> DEFINE m == task[t].m
  <1>0. Typed /\ PostsKept /\ LinksKept
    BY DEF LedgerInv
  <1>1. /\ UNCHANGED World /\ task[t].pc = "attach" /\ task[t].op \in {"send", "echo"} /\ m \in Posts
        /\ \/ RowsSame /\ Ends(t, "off")
           \/ ~own[m].is /\ RowsSame /\ Goes(t, "settle")
           \/ Adopted(m) /\ Goes(t, "settle")
           \/ own[m].is /\ own[m].wamid /\ RowsSame /\ Goes(t, "settle")
           \/ /\ own[m].is /\ ~own[m].wamid /\ RowsSame /\ Moves(t) /\ task'[t].pc = "link" /\ task'[t].said = ""
              /\ task'[t].saw = IF orphan[m].is THEN "orphan" ELSE "none"
    BY <1>0, AttachReadEffect
  <1>2. UNCHANGED <<usageMenu, post, told, coincided>> /\ Moves(t) /\ task'[t].op = task[t].op /\ task'[t].m = m
        /\ task'[t].pc \in {"done", "settle", "link"} /\ task[t].said = ""
    BY <1>0, <1>1, OpOf DEF World, Ends, Goes, Moves, SameRequest, Typed
  <1>3. \A x \in Posts : x # m => SameLink(x)
    BY <1>1, <1>2 DEF RowsSame, SameLink, Adopted, Others
  <1>4. \A q \in Tasks : Foreseen(q)'
    BY <1>0, <1>2, AllForeseen
  <1>5. ASSUME task[t].op = "send" PROVE GoodSend(t)'
    <2>1. GoodSend(t) /\ post[m].wamid
      BY <1>0, <1>1, <1>5 DEF LinksKept, GoodSend
    <2>2. (Sweeping => Sweeping') /\ (Excused(t) => Sweeping)
      BY <1>2 DEF Excused, Sweeping
    <2>3. own[m].is /\ orphan[m].is => Sweeping'
      BY <2>1, <2>2 DEF GoodSend
    <2>4. Sweeping' => Excused(t)'
      BY DEF Excused
    <2>5. CASE RowsSame /\ Ends(t, "off")
      <3>1. Excused(t)' /\ task'[t].pc = "done" /\ task'[t].said = "off"
        BY <2>5 DEF Ends, Excused
      <3> QED BY <1>2, <2>1, <3>1 DEF GoodSend
    <2>6. CASE ~own[m].is /\ RowsSame /\ Goes(t, "settle")
      BY <1>2, <2>1, <2>6 DEF GoodSend, RowsSame, Goes
    <2>7. CASE Adopted(m) /\ Goes(t, "settle")
      <3>1. own'[m].wamid
        BY <1>0, <1>1, <2>7 DEF Adopted, Typed, RowsTyped
      <3> QED BY <1>2, <2>1, <2>7, <3>1 DEF GoodSend, Adopted, Goes
    <2>8. CASE own[m].is /\ own[m].wamid /\ RowsSame /\ Goes(t, "settle")
      BY <1>2, <2>1, <2>3, <2>4, <2>8 DEF GoodSend, RowsSame, Goes
    <2>9. CASE /\ own[m].is /\ ~own[m].wamid /\ RowsSame /\ Moves(t) /\ task'[t].pc = "link" /\ task'[t].said = ""
               /\ task'[t].saw = IF orphan[m].is THEN "orphan" ELSE "none"
      BY <1>2, <2>1, <2>3, <2>4, <2>9 DEF GoodSend, RowsSame
    <2> QED BY <1>1, <2>5, <2>6, <2>7, <2>8, <2>9
  <1>6. ASSUME task[t].op \in {"receive", "echo"} PROVE GoodEcho(t)'
    <2>1. GoodEcho(t)
      BY <1>0, <1>6 DEF LinksKept
    <2>2. own'[m].is => own'[m].wamid
      BY <1>0, <1>1, <2>1 DEF GoodEcho, RowsSame, Adopted, Typed, RowsTyped
    <2>3. task'[t].pc # "link"
      BY <1>1, <2>1 DEF GoodEcho, Goes, Ends
    <2> QED BY <1>1, <1>2, <2>1, <2>2, <2>3 DEF GoodEcho, Written
  <1> QED BY <1>0, <1>1, <1>2, <1>3, <1>4, <1>5, <1>6, LinksPost DEF Posting

LEMMA LinksAttachLost ==
  ASSUME LedgerInv, Typed', NEW t \in Tasks, AttachLost(t)
  PROVE  LinksKept'
  <1> DEFINE m == task[t].m
  <1>0. Typed /\ PostsKept /\ LinksKept
    BY DEF LedgerInv
  <1>1. UNCHANGED World /\ RowsSame /\ task[t].pc = "attach" /\ m \in Posts /\ Ends(t, "unattached")
    BY <1>0, AttachLostEffect
  <1>2. /\ UNCHANGED <<usageMenu, post, told, coincided>> /\ Moves(t) /\ task'[t].op = task[t].op /\ task'[t].m = m
        /\ task'[t].pc = "done" /\ task'[t].said = "unattached" /\ task[t].op \in {"send", "echo"}
    BY <1>0, <1>1, OpOf DEF World, Ends, Moves, SameRequest, Typed
  <1>3. \A x \in Posts : SameLink(x)
    BY <1>1, <1>2, SameLinked
  <1>4. \A q \in Tasks : Foreseen(q)'
    BY <1>0, <1>2, AllForeseen
  <1>5. ASSUME task[t].op = "send" PROVE GoodSend(t)'
    <2>1. GoodSend(t) /\ post[m].wamid /\ Excused(t)'
      BY <1>0, <1>1, <1>2, <1>5 DEF LinksKept, GoodSend, Excused
    <2> QED BY <1>2, <2>1 DEF GoodSend
  <1>6. ASSUME task[t].op \in {"receive", "echo"} PROVE GoodEcho(t)'
    BY <1>0, <1>1, <1>2, <1>6 DEF LinksKept, GoodEcho, RowsSame, Written
  <1> QED BY <1>0, <1>2, <1>3, <1>4, <1>5, <1>6, LinksPost DEF Posting

LEMMA LinksAttachLink ==
  ASSUME LedgerInv, Typed', NEW t \in Tasks, AttachLink(t)
  PROVE  LinksKept'
  <1> DEFINE m == task[t].m
  <1>0. Typed /\ PostsKept /\ LinksKept /\ own[m].is
    BY LinkedOwn DEF LedgerInv, AttachLink
  <1>1. /\ UNCHANGED World /\ task[t].pc = "link" /\ task[t].op \in {"send", "echo"} /\ m \in Posts
        /\ \/ task[t].saw = "none" /\ orphan[m].is /\ RowsSame /\ Ends(t, "conflict")
           \/ Linked(m) /\ Goes(t, "settle")
    BY <1>0, AttachLinkEffect
  <1>2. UNCHANGED <<usageMenu, post, told, coincided>> /\ Moves(t) /\ task'[t].op = task[t].op /\ task'[t].m = m
        /\ task'[t].pc \in {"done", "settle"}
    BY <1>0, <1>1, OpOf DEF World, Ends, Goes, Moves, SameRequest, Typed
  <1>3. \A x \in Posts : x # m => SameLink(x)
    BY <1>1, <1>2 DEF RowsSame, SameLink, Linked, Others
  <1>4. \A q \in Tasks : Foreseen(q)'
    BY <1>0, <1>2, AllForeseen
  <1>5. ASSUME task[t].op = "send" PROVE GoodSend(t)'
    <2>1. GoodSend(t) /\ post[m].wamid
      BY <1>0, <1>1, <1>5 DEF LinksKept, GoodSend
    <2>2. CASE task[t].saw = "none" /\ orphan[m].is /\ RowsSame /\ Ends(t, "conflict")
      <3>1. Excused(t)' /\ task'[t].pc = "done" /\ task'[t].said = "conflict"
        BY <1>1, <1>2, <2>1, <2>2 DEF GoodSend, Excused, Sweeping, Ends
      <3> QED BY <1>2, <2>1, <3>1 DEF GoodSend
    <2>3. CASE Linked(m) /\ Goes(t, "settle")
      BY <1>2, <2>1, <2>3 DEF GoodSend, Linked, Goes
    <2> QED BY <1>1, <2>2, <2>3
  <1>6. task[t].op \notin {"receive", "echo"}
    BY <1>0, <1>1 DEF LinksKept, GoodEcho
  <1> QED BY <1>0, <1>1, <1>2, <1>3, <1>4, <1>5, <1>6, LinksPost DEF Posting

LEMMA LinksSettleOne ==
  ASSUME LedgerInv, Typed', NEW t \in Tasks, SettleOne(t)
  PROVE  LinksKept'
  <1> DEFINE m == task[t].m
  <1>0. Typed /\ PostsKept /\ LinksKept
    BY DEF LedgerInv
  <1>1. /\ UNCHANGED World /\ task[t].pc = "settle" /\ task[t].op \in {"send", "echo", "event"} /\ m \in Posts
        /\ RowsSame \/ AllSettled(m)
        /\ Ends(t, "ok") \/ Ends(t, "stopped")
    BY <1>0, SettleOneEffect
  <1>2. /\ UNCHANGED <<usageMenu, post, told, coincided>> /\ Moves(t) /\ task'[t].op = task[t].op /\ task'[t].m = m
        /\ task'[t].pc = "done" /\ task'[t].said # "refused" /\ task[t].said = ""
    BY <1>0, <1>1, OpOf DEF World, Ends, Moves, SameRequest, Typed
  <1>3. \A x \in Posts : SameLink(x)
    BY <1>1, <1>2, SameLinked
  <1>4. \A q \in Tasks : Foreseen(q)'
    BY <1>0, <1>2, AllForeseen
  <1>5. ASSUME task[t].op = "send" PROVE GoodSend(t)'
    <2>1. GoodSend(t) /\ post[m].wamid
      BY <1>0, <1>1, <1>5 DEF LinksKept, GoodSend
    <2>2. Excused(t) => Excused(t)'
      BY <1>2 DEF Excused, Sweeping
    <2> QED BY <1>1, <1>2, <1>3, <2>1, <2>2 DEF GoodSend, SameLink
  <1>6. ASSUME task[t].op \in {"receive", "echo"} PROVE GoodEcho(t)'
    BY <1>0, <1>1, <1>2, <1>3, <1>6 DEF LinksKept, GoodEcho, SameLink, Written
  <1>7. CASE task[t].op = "event"
    BY <1>0, <1>2, <1>3, <1>4, <1>7, LinksMove DEF Posting
  <1>8. CASE task[t].op \in {"send", "echo"}
    BY <1>0, <1>2, <1>3, <1>4, <1>5, <1>6, <1>8, LinksPost DEF Posting
  <1> QED BY <1>1, <1>7, <1>8

\* Nobody reports on a message before its request has it accepted, nor on a customer's.
LEMMA Untold ==
  ASSUME LedgerInv, NEW t \in Tasks, RecordStatusEvent(t), NEW u \in Tasks, u \in DOMAIN usageMenu.plan,
         usageMenu.plan[u].op \in {"send", "receive"}, usageMenu.plan[u].m = task[t].m,
         task[u].pc \in {"new", "create", "record"} \/ usageMenu.plan[u].op = "receive"
  PROVE  FALSE
  <1> DEFINE m == task[t].m
  <1>0. Typed /\ PostsKept
    BY DEF LedgerInv
  <1>1. m \in Posts /\ Reported(m) /\ \E e \in usageMenu.events : e.m = m
    BY <1>0, EventEffect
  <1>2. CASE ~post[m].is
    BY <1>0, <1>1, <1>2, UsageAssumption DEF Reported, Typed, RestTyped
  <1>3. CASE post[m].is
    <2>1. task[u].pc \notin {"new", "create"}
      BY <1>0, <1>3 DEF PostsKept, Written, Posting
    <2>2. task[u].op = usageMenu.plan[u].op /\ task[u].m = m
      BY <1>0, <2>1, Begun DEF Typed
    <2>3. post[m].out = (task[u].op # "receive")
      BY <1>0, <2>1, <2>2 DEF PostsKept, Written, Posting
    <2> QED BY <1>1, <1>3, <2>1, <2>2, <2>3 DEF Reported
  <1> QED BY <1>2, <1>3

LEMMA LinksEvent ==
  ASSUME LedgerInv, Typed', NEW t \in Tasks, RecordStatusEvent(t)
  PROVE  LinksKept'
  <1> DEFINE m == task[t].m
  <1>0. Typed /\ PostsKept /\ LinksKept
    BY DEF LedgerInv
  <1>1. /\ RowsSame /\ UNCHANGED <<usageMenu, post, coincided>> /\ task[t].pc = "append" /\ task[t].op = "event" /\ m \in Posts
        /\ Moves(t) /\ task'[t].pc \in {"settle", "done"}
        /\ \A x \in Posts : x # m => told'[x] = told[x]
    BY <1>0, EventEffect DEF Goes, Ends
  <1>2. \A q \in Tasks : task'[q].op = task[q].op /\ task'[q].m = task[q].m /\ (q # t => task'[q] = task[q])
    BY <1>1 DEF Moves, OnlyTask, SameRequest
  <1>3. \A x \in Posts : SameLink(x)
    BY <1>1, SameLinked
  <1>4. \A q \in Tasks : Foreseen(q)'
    BY <1>0, <1>1, AllForeseen
  \* The events of a message whose request is not that far are as they were.
  <1>5. \A u \in Tasks : u \in DOMAIN usageMenu.plan /\ usageMenu.plan[u].op \in {"send", "receive"}
                         /\ (task[u].pc \in {"new", "create", "record"} \/ usageMenu.plan[u].op = "receive")
                         => told'[usageMenu.plan[u].m] = told[usageMenu.plan[u].m]
    <2> TAKE u \in Tasks
    <2> HAVE u \in DOMAIN usageMenu.plan /\ usageMenu.plan[u].op \in {"send", "receive"}
             /\ (task[u].pc \in {"new", "create", "record"} \/ usageMenu.plan[u].op = "receive")
    <2>1. usageMenu.plan[u].m # m
      BY Untold
    <2>2. usageMenu.plan[u].m \in Posts
      BY <1>0, UsageAssumption DEF Typed, RestTyped
    <2> QED BY <1>1, <2>1, <2>2
  <1>6. ASSUME NEW q \in Tasks, task'[q].op = "send" PROVE GoodSend(q)'
    <2>1. q # t /\ task[q].op = "send" /\ task'[q] = task[q] /\ GoodSend(q)
      BY <1>0, <1>1, <1>2, <1>6 DEF LinksKept
    <2>2. task[q].m \in Posts /\ q \in DOMAIN usageMenu.plan /\ usageMenu.plan[q].op = "send" /\ usageMenu.plan[q].m = task[q].m
      BY <1>0, <2>1, WrittenThen DEF Posting
    <2>3. told'[task[q].m] = told[task[q].m] \/ task[q].pc \notin {"create", "record"}
      BY <1>5, <2>2
    <2> QED BY <1>1, <1>3, <2>1, <2>2, <2>3, SendStays
  <1>7. ASSUME NEW q \in Tasks, task'[q].op \in {"receive", "echo"} PROVE GoodEcho(q)'
    <2>1. q # t /\ task[q].op \in Posting /\ task'[q] = task[q] /\ GoodEcho(q)
      BY <1>0, <1>1, <1>2, <1>7 DEF LinksKept, Posting
    <2>2. task[q].m \in Posts
      BY <1>0, <2>1, WrittenThen
    <2> QED BY <1>3, <2>1, <2>2, EchoStays
  <1>8. ASSUME NEW q \in Tasks, task'[q].op = "receive" PROVE told'[task'[q].m] = {}
    <2>1. q # t /\ task[q].op = "receive" /\ task'[q] = task[q] /\ told[task[q].m] = {}
      BY <1>0, <1>1, <1>2, <1>8 DEF LinksKept
    <2>2. q \in DOMAIN usageMenu.plan /\ usageMenu.plan[q].op = "receive" /\ usageMenu.plan[q].m = task[q].m
      BY <1>0, <2>1, WrittenThen DEF Posting
    <2> QED BY <1>5, <2>1, <2>2
  <1>9. ASSUME NEW q \in Tasks, q \in DOMAIN usageMenu'.plan, usageMenu'.plan[q].op \in {"send", "receive"}, task'[q].pc = "new"
        PROVE  told'[usageMenu'.plan[q].m] = {}
    <2>1. q # t /\ task[q].pc = "new"
      BY <1>1, <1>2, <1>9
    <2> QED BY <1>0, <1>1, <1>5, <1>9, <2>1 DEF LinksKept
  <1> QED BY <1>4, <1>6, <1>7, <1>8, <1>9 DEF LinksKept

LEMMA LinksMissing ==
  ASSUME LedgerInv, Typed', NEW t \in Tasks, SweepMissing(t)
  PROVE  LinksKept'
  <1>0. Typed /\ LinksKept
    BY DEF LedgerInv
  <1>1. /\ UNCHANGED <<usageMenu, post, told, coincided>> /\ RowsSame /\ task[t].op = "sweep" /\ Moves(t) /\ Missed(t)
    BY <1>0, SweepMissingEffect DEF World
  <1>2. Foreseen(t)'
    BY <1>1 DEF Foreseen, Missed
  <1> QED BY <1>0, <1>1, <1>2, SameLinked, LinksMove DEF Posting

LEMMA LinksInferRow ==
  ASSUME LedgerInv, Typed', NEW t \in Tasks, InferRow(t)
  PROVE  LinksKept'
  <1>0. Typed /\ PostsKept /\ LinksKept /\ MetKept
    BY DEF LedgerInv
  <1>1. /\ UNCHANGED <<usageMenu, post, told, coincided>> /\ task[t].pc = "infer" /\ task[t].op = "sweep" /\ task[t].op \notin Posting
        /\ \/ RowsSame /\ Goes(t, "unlinked")
           \/ \E x \in task[t].list :
                 /\ Takes(t, x, "inferred") /\ x.m \in Posts /\ x.wamid \in BOOLEAN /\ post[x.m].is
                 /\ RowsSame \/ Recorded(x.m, post[x.m].out, x.wamid, post[x.m].at)
    BY <1>0, InferRowEffect DEF World, Posting
  <1>2. CASE RowsSame /\ Goes(t, "unlinked")
    <2>1. Foreseen(t)'
      BY <1>2 DEF Goes, Foreseen
    <2> QED BY <1>0, <1>1, <1>2, <2>1, SameLinked, LinksMove DEF Goes
  <1>3. ASSUME NEW x \in task[t].list, Takes(t, x, "inferred"), x.m \in Posts, x.wamid \in BOOLEAN, post[x.m].is,
               RowsSame \/ Recorded(x.m, post[x.m].out, x.wamid, post[x.m].at)
        PROVE  LinksKept'
    <2> DEFINE m == x.m
    <2>1. Moves(t) /\ task'[t].list \subseteq task[t].list /\ \A q \in Tasks : q # t => task'[q] = task[q]
      BY <1>3 DEF Takes, Moves, OnlyTask
    <2>2. \A q \in Tasks : task'[q].op = task[q].op /\ task'[q].m = task[q].m
      BY <2>1 DEF Moves, OnlyTask, SameRequest
    <2>3. Foreseen(t)'
      <3>1. Foreseen(t)
        BY <1>0 DEF LinksKept
      <3> QED BY <1>1, <2>1, <2>2, <3>1, ForeseenStays
    <2>4. CASE RowsSame
      BY <1>0, <1>1, <2>1, <2>3, <2>4, SameLinked, LinksMove
    <2>5. CASE Recorded(m, post[m].out, x.wamid, post[m].at)
      <3>1. /\ ~own[m].is /\ own'[m].is /\ own'[m].wamid = x.wamid /\ (IF x.wamid THEN ~orphan'[m].is ELSE orphan'[m] = orphan[m])
            /\ \A y \in Posts : y # m => SameLink(y)
        <4>1. orphan[m].is => orphan[m].wamid = TRUE
          BY <1>0, <1>3 DEF Typed, RowsTyped, MessageUsage
        <4> QED BY <1>1, <1>3, <2>5, <4>1 DEF Recorded, Fresh, Adopts, SameLink
      \* A list that lacks the identifier was made before the sending ended.
      <3>2. x.wamid # post[m].wamid => Sweeping /\ \E v \in Tasks : task[v].op = "send" /\ task[v].m = m
        BY <1>0, <1>1, <1>3 DEF LinksKept, Foreseen
      <3>3. ASSUME NEW u \in Tasks, task[u].op = "send", task[u].m = m PROVE GoodSend(u)'
        <4>1. u # t /\ task'[u] = task[u] /\ GoodSend(u) /\ task[u].pc # "new"
          BY <1>0, <1>1, <2>1, <3>3, WrittenThen DEF LinksKept, Posting
        <4>2. task[u].pc # "done" => Sweeping
          BY <1>0, <1>1, <3>3, <4>1, SweepMeets
        <4>3. (Sweeping <=> Sweeping') /\ (Excused(u) <=> Excused(u)')
          BY <1>1, <4>1 DEF Sweeping, Excused
        <4>4. ~x.wamid /\ task[u].pc = "done" => Excused(u)
          BY <3>2, <4>1, <3>3 DEF GoodSend, Excused
        <4>5. Sweeping => Excused(u)
          BY DEF Excused
        <4> QED BY <1>1, <3>1, <3>3, <4>1, <4>2, <4>3, <4>4, <4>5 DEF GoodSend
      <3>4. ASSUME NEW u \in Tasks, task[u].op \in {"receive", "echo"}, task[u].m = m PROVE GoodEcho(u)'
        <4>1. u # t /\ task'[u] = task[u] /\ GoodEcho(u) /\ Written(u)
          BY <1>0, <1>1, <1>3, <2>1, <3>4, WrittenThen DEF LinksKept, Posting
        <4>2. x.wamid
          <5>1. ASSUME NEW v \in Tasks, task[v].op = "send", task[v].m = m PROVE FALSE
            BY <1>0, <3>4, <5>1, OneWriter DEF Typed, Posting
          <5>2. post[m].wamid
            BY <3>4, <4>1 DEF GoodEcho
          <5>3. post[m].wamid = TRUE
            BY <1>0, <1>3, <5>2 DEF Typed, RestTyped, PostRecord
          <5> QED BY <1>3, <3>2, <5>1, <5>3
        <4> QED BY <1>1, <3>1, <3>4, <4>1, <4>2 DEF GoodEcho, Written
      <3> QED BY <1>0, <1>1, <1>3, <2>1, <2>3, <3>1, <3>3, <3>4, LinksRow
    <2> QED BY <1>3, <2>4, <2>5
  <1> QED BY <1>1, <1>2, <1>3

LEMMA LinksInferState ==
  ASSUME LedgerInv, Typed', NEW t \in Tasks, InferState(t)
  PROVE  LinksKept'
  <1>0. Typed /\ PostsKept /\ LinksKept
    BY DEF LedgerInv
  <1>1. /\ UNCHANGED <<usageMenu, post, told, coincided>> /\ task[t].pc = "inferred" /\ task[t].op = "sweep" /\ Goes(t, "infer")
        /\ task[t].cur.m \in Posts /\ (RowsSame \/ RefusedRow(task[t].cur.m) \/ AllSettled(task[t].cur.m))
    BY <1>0, InferStateEffect DEF World
  <1>2. Moves(t) /\ task'[t].list = task[t].list /\ \A q \in Tasks : task'[q].op = task[q].op /\ task'[q].m = task[q].m
    BY <1>1 DEF Goes, Rest, Moves, OnlyTask, SameRequest
  <1>3. \A x \in Posts : SameLink(x)
    BY <1>0, <1>1, RefusedLinked, SameLinked
  <1>4. Foreseen(t)'
    <2>1. Foreseen(t)
      BY <1>0 DEF LinksKept
    <2> QED BY <1>1, <1>2, <2>1, ForeseenStays
  <1> QED BY <1>0, <1>1, <1>2, <1>3, <1>4, LinksMove DEF Posting

LEMMA LinksInsert ==
  ASSUME LedgerInv, Typed', NEW t \in Tasks, InsertUnlinked(t)
  PROVE  LinksKept'
  <1>0. Typed /\ PostsKept /\ LinksKept /\ MetKept
    BY DEF LedgerInv
  <1>1. /\ UNCHANGED <<usageMenu, post, told, coincided>> /\ task[t].pc = "adopt" /\ task[t].op = "sweep" /\ task[t].op \notin Posting
        /\ Moves(t) /\ task'[t].pc \in {"pending", "adopt", "adopted"}
        /\ RowsSame \/ \E m \in Posts : Inserted(m)
    BY <1>0, InsertUnlinkedEffect DEF World, Posting, Goes, Lists, Takes
  <1>2. Foreseen(t)'
    BY <1>1 DEF Foreseen
  <1>3. CASE RowsSame
    BY <1>0, <1>1, <1>2, <1>3, SameLinked, LinksMove
  <1>4. ASSUME NEW m \in Posts, Inserted(m) PROVE LinksKept'
    <2>1. \A q \in Tasks : q # t => task'[q] = task[q]
      BY <1>1 DEF Moves, OnlyTask
    <2>2. ASSUME NEW u \in Tasks, task[u].op = "send", task[u].m = m PROVE GoodSend(u)'
      <3>1. u # t /\ task'[u] = task[u] /\ GoodSend(u) /\ task[u].pc # "new"
        BY <1>0, <1>1, <2>1, <2>2, WrittenThen DEF LinksKept, Posting
      <3>2. task[u].pc # "done" => Sweeping
        BY <1>0, <1>1, <2>2, <3>1, SweepMeets
      <3>3. (Sweeping <=> Sweeping') /\ (Excused(u) <=> Excused(u)')
        BY <1>1, <3>1 DEF Sweeping, Excused
      <3>4. own'[m] = own[m] /\ (own[m].is => ~own[m].wamid)
        BY <1>4 DEF Inserted, HasWamidRow
      <3>5. Sweeping => Excused(u)
        BY DEF Excused
      <3> QED BY <1>1, <2>2, <3>1, <3>2, <3>3, <3>4, <3>5 DEF GoodSend
    <2>3. ASSUME NEW u \in Tasks, task[u].op \in {"receive", "echo"}, task[u].m = m PROVE GoodEcho(u)'
      <3>1. u # t /\ task'[u] = task[u] /\ GoodEcho(u) /\ own'[m] = own[m]
        BY <1>0, <1>1, <1>4, <2>1, <2>3 DEF LinksKept, Posting, Inserted
      <3> QED BY <1>1, <2>3, <3>1 DEF GoodEcho, Written
    <2>4. \A x \in Posts : x # m => SameLink(x)
      BY <1>1, <1>4 DEF Inserted, SameLink
    <2> QED BY <1>0, <1>1, <1>2, <1>4, <2>2, <2>3, <2>4, LinksRow
  <1> QED BY <1>1, <1>3, <1>4

\* The other steps of the integrity job, the switch and the prices.
LEMMA LinksQuiet ==
  ASSUME LedgerInv, Typed', NEW t \in Tasks,
         \/ SweepStarts(t) \/ SweepUnlinked(t) \/ SettleUnlinked(t) \/ SweepPending(t) \/ Resettle(t) \/ Reprice(t)
         \/ SwitchRecording(t) \/ CreateRate(t) \/ UpdateRate(t) \/ DeleteRate(t)
  PROVE  LinksKept'
  <1> DEFINE Quiet == /\ UNCHANGED <<usageMenu, post, told, coincided>> /\ task[t].op \notin Posting /\ Moves(t)
                      /\ task'[t].pc \notin {"infer", "inferred"} /\ (RowsSame \/ \E m \in Posts : AllSettled(m))
  <1>0. Typed /\ PostsKept /\ LinksKept
    BY DEF LedgerInv
  <1>1. ASSUME SweepStarts(t) PROVE Quiet
    BY <1>0, <1>1, SweepStartsEffect DEF World, Ends, Posting
  <1>2. ASSUME SweepUnlinked(t) PROVE Quiet
    BY <1>0, <1>2, SweepUnlinkedEffect DEF World, Lists, Posting
  <1>3. ASSUME SettleUnlinked(t) PROVE Quiet
    BY <1>0, <1>3, SettleUnlinkedEffect DEF World, Goes, Posting
  <1>4. ASSUME SweepPending(t) \/ Reprice(t) PROVE Quiet
    BY <1>0, <1>4, SweepPendingEffect, RepriceEffect DEF World, Lists, Posting
  <1>5. ASSUME Resettle(t) PROVE Quiet
    BY <1>0, <1>5, ResettleEffect DEF World, Lists, Ends, Posting
  <1>6. ASSUME SwitchRecording(t) PROVE Quiet
    BY <1>0, <1>6, SwitchEffect DEF Ends, Posting
  <1>7. ASSUME CreateRate(t) PROVE Quiet
    BY <1>0, <1>7, CreateRateEffect DEF AllButPrices, Ends, Saves, Posting
  <1>8. ASSUME UpdateRate(t) PROVE Quiet
    <2>1. task[t].op = "rateEdit"
      BY <1>8 DEF UpdateRate
    <2> QED BY <1>0, <1>8, <2>1, UpdateRateEffect, SavedId DEF AllButPrices, Ends, Saves, Posting
  <1>9. ASSUME DeleteRate(t) PROVE Quiet
    <2>1. task[t].op = "rateDrop"
      BY <1>9 DEF DeleteRate
    <2> QED BY <1>0, <1>9, <2>1, DeleteRateEffect, SavedId DEF AllButPrices, Ends, Saves, Posting
  <1>10. Quiet
    BY <1>1, <1>2, <1>3, <1>4, <1>5, <1>6, <1>7, <1>8, <1>9
  <1>11. Foreseen(t)'
    BY <1>10 DEF Foreseen
  <1>12. \A x \in Posts : SameLink(x)
    BY <1>10, SameLinked
  <1> QED BY <1>0, <1>10, <1>11, <1>12, LinksMove

LEMMA LinksNext ==
  ASSUME LedgerInv, UsageNext
  PROVE  LinksKept'
  <1>0. Typed /\ LinksKept /\ Typed'
    BY EveryStep DEF LedgerInv
  <1>1. ASSUME task' = task, UNCHANGED <<usageMenu, post, told, coincided>>, RowsSame PROVE LinksKept'
    BY <1>0, <1>1 DEF LinksKept, GoodSend, GoodEcho, Foreseen, Excused, Sweeping, Written, RowsSame
  <1>2. ASSUME NEW s \in Servers, ReadSwitch(s) \/ RememberSwitch(s) PROVE LinksKept'
    BY <1>0, <1>1, <1>2, CacheEffect
  <1>3. ASSUME DayPasses PROVE LinksKept'
    BY <1>0, <1>1, <1>3, DayEffect
  <1>4. ASSUME NEW t \in Tasks,
               \/ BeginTask(t) \/ CreatePost(t) \/ RecordUsage(t) \/ FinalizeSend(t) \/ SendRefused(t) \/ AttachRead(t) \/ AttachLost(t)
               \/ AttachLink(t) \/ SettleOne(t) \/ RecordStatusEvent(t) \/ SweepStarts(t) \/ SweepMissing(t) \/ InferRow(t)
               \/ InferState(t) \/ SweepUnlinked(t) \/ InsertUnlinked(t) \/ SettleUnlinked(t) \/ SweepPending(t) \/ Resettle(t)
               \/ Reprice(t) \/ SwitchRecording(t) \/ CreateRate(t) \/ UpdateRate(t) \/ DeleteRate(t)
        PROVE  LinksKept'
    BY <1>0, <1>4, LinksBegin, LinksCreate, LinksRecord, LinksFinalize, LinksRefused, LinksAttachRead, LinksAttachLost, LinksAttachLink,
       LinksSettleOne, LinksEvent, LinksMissing, LinksInferRow, LinksInferState, LinksInsert, LinksQuiet
  <1> QED BY <1>2, <1>3, <1>4 DEF UsageNext

-------------------------------------------------------------------------------
(* Ledger: what was sent while the recording was off *)

\* What a pass has listed was not sent while the switch was off.
ListedOn(t) == task[t].pc \in {"infer", "inferred"} => \A x \in task[t].list : ~post[x.m].off
\* No request begins to have a message.
NoneWrites ==
    \A q \in Tasks : q \in Going' /\ task'[q].op \in Posting /\ Written(q)' =>
        q \in Going /\ task[q].op \in Posting /\ Written(q) /\ task'[q].m = task[q].m
SamePosts == \A x \in Posts : post'[x].at = post[x].at /\ post'[x].off = post[x].off /\ post'[x].is = post[x].is

LEMMA OffFrame ==
  ASSUME Typed, Typed', OffKept, UNCHANGED panel, tick' = tick \/ tick' = tick + 1, coincided \subseteq coincided', SamePosts,
         OffEverywhere => OffEverywhere', NoneWrites, \A q \in Tasks : ListedOn(q)',
         \A x \in Posts : own'[x].is /\ post[x].off => own[x].is \/ Turned
  PROVE  OffKept'
  <1>0. tick \in Nat /\ panel.at \in Nat /\ \A x \in Posts : post[x].at \in Nat
    BY LedgerNumbers DEF Typed, RestTyped, PostRecord
  <1>1. panel'.at <= tick' /\ \A m \in Posts : post'[m].at <= tick'
    BY <1>0 DEF OffKept, SamePosts
  <1>2. \A m \in Posts : post'[m].is /\ post'[m].off => ~panel'.on \/ post'[m].at < panel'.at
    BY DEF OffKept, SamePosts
  <1>3. Turned => Turned'
    BY DEF Turned
  <1>4. ASSUME NEW q \in Going', task'[q].op \in Posting, Written(q)', post'[task'[q].m].off PROVE (OffEverywhere \/ Turned)'
    <2>1. q \in Going /\ task[q].op \in Posting /\ Written(q) /\ task'[q].m = task[q].m
      BY <1>4 DEF NoneWrites, Going
    <2>2. task[q].m \in Posts
      BY <2>1, Begun DEF Typed, Going
    <2>3. post[task[q].m].off
      BY <1>4, <2>1, <2>2 DEF SamePosts
    <2> QED BY <1>3, <2>1, <2>3 DEF OffKept
  <1>5. \A q \in Tasks : task'[q].pc \in {"infer", "inferred"} => \A x \in task'[q].list : ~post'[x.m].off
    BY DEF ListedOn
  <1>6. NeverReconstructed'
    <2>1. \A m \in Posts : post'[m].off /\ own'[m].is => Turned'
      BY <1>3 DEF OffKept, NeverReconstructed, SamePosts, Turned
    <2> QED BY <2>1 DEF NeverReconstructed, Turned
  <1> QED BY <1>1, <1>2, <1>4, <1>5, <1>6 DEF OffKept

\* A request moves, or begins, with the messages and the switch as they are.
LEMMA OffMoves ==
  ASSUME LedgerInv, Typed', UNCHANGED <<usageMenu, tick, panel, kept, asked>>, SamePosts, NEW t \in Tasks,
         (Moves(t) /\ coincided' = coincided /\ task[t].pc # "create") \/ Begins(t), ListedOn(t)',
         \A x \in Posts : own'[x].is /\ post[x].off => own[x].is \/ Turned
  PROVE  OffKept'
  <1>0. Typed /\ PostsKept /\ OffKept
    BY DEF LedgerInv
  <1>1. coincided \subseteq coincided' /\ (OffEverywhere => OffEverywhere') /\ \A q \in Tasks : q # t => task'[q] = task[q]
    BY DEF OffEverywhere, Begins, Moves, OnlyTask
  <1>2. NoneWrites
    <2>1. ASSUME NEW q \in Tasks, q \in Going', task'[q].op \in Posting, Written(q)'
          PROVE  q \in Going /\ task[q].op \in Posting /\ Written(q) /\ task'[q].m = task[q].m
      <3>1. CASE q # t
        BY <1>1, <2>1, <3>1 DEF Going, Written
      <3>2. CASE q = t
        BY <2>1, <3>2 DEF Begins, Moves, SameRequest, Going, Written
      <3> QED BY <3>1, <3>2
    <2> QED BY <2>1 DEF NoneWrites
  <1>3. \A q \in Tasks : ListedOn(q)'
    <2> TAKE q \in Tasks
    <2>1. CASE q # t
      <3>1. task'[q] = task[q] /\ task[q].list \subseteq Listed /\ \A x \in Listed : x.m \in Posts
        BY <1>0, <1>1, <2>1 DEF Typed, TasksTyped, TaskRecord, Listed
      <3> QED BY <1>0, <3>1 DEF ListedOn, OffKept, SamePosts
    <2>2. CASE q = t
      BY <2>2
    <2> QED BY <2>1, <2>2
  <1> QED BY <1>0, <1>1, <1>2, <1>3, OffFrame

\* A message whose request may record is not one that was sent while the switch was off, unless it was turned.
LEMMA RecordsTurned ==
  ASSUME LedgerInv, NEW t \in Tasks, task[t].op \in Posting, task[t].pc \notin {"new", "create", "done"}, EnabledFor(task[t].on),
         post[task[t].m].off
  PROVE  Turned
  <1>0. Typed /\ OffKept
    BY DEF LedgerInv
  <1>1. task[t].on \in Servers
    BY <1>0 DEF Typed, TasksTyped, TaskRecord
  <1>2. ~OffEverywhere
    BY <1>1 DEF OffEverywhere, EnabledFor
  <1> QED BY <1>0, <1>2 DEF OffKept, Going, Written

LEMMA OffCreate ==
  ASSUME LedgerInv, Typed', NEW t \in Tasks, CreatePost(t)
  PROVE  OffKept'
  <1> DEFINE m == task[t].m
  <1>0. Typed /\ PostsKept /\ OffKept
    BY DEF LedgerInv
  <1>1. /\ RowsSame /\ UNCHANGED <<usageMenu, tick, panel, kept, asked, coincided>> /\ task[t].pc = "create" /\ task[t].op \in Posting
        /\ m \in Posts /\ Goes(t, "record") /\ \A x \in Posts : x # m => post'[x] = post[x]
        /\ post'[m].at = tick /\ post'[m].off = OffEverywhere
    BY <1>0, CreateEffect
  <1>2. /\ task'[t].op = task[t].op /\ task'[t].m = m /\ task'[t].pc = "record" /\ \A q \in Tasks : q # t => task'[q] = task[q]
    BY <1>1 DEF Goes, Moves, OnlyTask, SameRequest
  <1>3. ~post[m].is /\ ~own[m].is
    BY <1>0, <1>1, WrittenThen DEF Written, PostsKept
  <1>4. tick \in Nat /\ (OffEverywhere <=> OffEverywhere') /\ (Turned <=> Turned')
    BY <1>0, <1>1, LedgerNumbers DEF Typed, RestTyped, OffEverywhere, Turned
  <1>5. panel'.at <= tick' /\ \A x \in Posts : post'[x].at <= tick'
    BY <1>0, <1>1, <1>4 DEF OffKept
  <1>6. ASSUME NEW x \in Posts, post'[x].is, post'[x].off PROVE ~panel'.on \/ post'[x].at < panel'.at
    <2>1. CASE x = m
      BY <1>1, <1>6, <2>1 DEF OffEverywhere
    <2>2. CASE x # m
      BY <1>0, <1>1, <1>6, <2>2 DEF OffKept
    <2> QED BY <2>1, <2>2
  <1>7. ASSUME NEW q \in Going', task'[q].op \in Posting, Written(q)', post'[task'[q].m].off PROVE (OffEverywhere \/ Turned)'
    <2>1. CASE q = t
      BY <1>1, <1>2, <1>4, <1>7, <2>1
    <2>2. CASE q # t
      <3>1. q \in Tasks /\ q \in Going /\ task'[q] = task[q] /\ Written(q)
        BY <1>2, <1>7, <2>2 DEF Going, Written
      <3>2. task[q].m \in Posts /\ task[q].m # m
        BY <1>0, <1>1, <1>7, <2>2, <3>1, Begun, OneWriter DEF Typed, Going
      <3> QED BY <1>0, <1>1, <1>4, <1>7, <3>1, <3>2 DEF OffKept
    <2> QED BY <2>1, <2>2
  <1>8. ASSUME NEW q \in Tasks, task'[q].pc \in {"infer", "inferred"}, NEW x \in task'[q].list PROVE ~post'[x.m].off
    <2>1. q # t /\ task'[q] = task[q]
      BY <1>2, <1>8
    <2>2. post[x.m].is /\ x.m \in Posts
      <3>1. ListsFine(q) /\ task[q].list \subseteq Listed /\ \A y \in Listed : y.m \in Posts
        BY <1>0 DEF PostsKept, Typed, TasksTyped, TaskRecord, Listed
      <3> QED BY <1>8, <2>1, <3>1 DEF ListsFine
    <2> QED BY <1>0, <1>1, <1>3, <1>8, <2>1, <2>2 DEF OffKept
  <1>9. NeverReconstructed'
    BY <1>0, <1>1, <1>3 DEF OffKept, NeverReconstructed, RowsSame
  <1> QED BY <1>5, <1>6, <1>7, <1>8, <1>9 DEF OffKept

LEMMA OffSwitch ==
  ASSUME LedgerInv, Typed', NEW t \in Tasks, SwitchRecording(t)
  PROVE  OffKept'
  <1>0. Typed /\ PostsKept /\ OffKept /\ MetKept
    BY DEF LedgerInv
  <1>1. /\ RowsSame /\ UNCHANGED <<usageMenu, post, coincided>> /\ task[t].pc = "flip" /\ task[t].op = "switch" /\ Ends(t, "ok")
        /\ tick' = tick + 1 /\ panel'.at = tick + 1
    BY <1>0, SwitchEffect
  <1>2. task'[t].op = "switch" /\ task'[t].pc = "done" /\ \A q \in Tasks : q # t => task'[q] = task[q]
    BY <1>1 DEF Ends, Moves, OnlyTask, SameRequest
  <1>3. tick \in Nat /\ \A x \in Posts : post[x].at \in Nat
    BY <1>0, LedgerNumbers DEF Typed, RestTyped, PostRecord
  <1>4. panel'.at <= tick' /\ \A x \in Posts : post'[x].at <= tick' /\ post'[x].at < panel'.at
    BY <1>0, <1>1, <1>3 DEF OffKept
  <1>5. ASSUME NEW q \in Going', task'[q].op \in Posting PROVE Turned'
    <2>1. q \in Tasks /\ q # t /\ q \in Going /\ t \in Going /\ task'[q] = task[q]
      BY <1>1, <1>2, <1>5 DEF Going, Posting
    <2>2. {task[q].op, "switch"} \in coincided'
      BY <1>0, <1>1, <2>1, Together
    <2> QED BY <1>5, <2>1, <2>2 DEF Turned
  <1>6. \A q \in Tasks : task'[q].pc \in {"infer", "inferred"} => \A x \in task'[q].list : ~post'[x.m].off
    BY <1>0, <1>1, <1>2 DEF OffKept
  <1>7. NeverReconstructed'
    BY <1>0, <1>1 DEF OffKept, NeverReconstructed, RowsSame
  <1> QED BY <1>4, <1>5, <1>6, <1>7 DEF OffKept

LEMMA OffMissing ==
  ASSUME LedgerInv, Typed', NEW t \in Tasks, SweepMissing(t)
  PROVE  OffKept'
  <1>0. Typed /\ OffKept
    BY DEF LedgerInv
  <1>1. UNCHANGED World /\ RowsSame /\ task[t].pc = "missing" /\ Moves(t) /\ Missed(t)
    BY <1>0, SweepMissingEffect
  <1>2. UNCHANGED <<usageMenu, tick, panel, kept, asked, post, coincided>>
    BY <1>1 DEF World
  <1>3. ListedOn(t)'
    <2>1. ASSUME NEW x \in task'[t].list PROVE ~post[x.m].off
      <3>1. x.m \in Posts /\ panel.on /\ post[x.m].is /\ post[x.m].at >= panel.at
        BY <1>1 DEF Missed
      <3>2. post[x.m].at \in Nat /\ panel.at \in Nat
        BY <1>0, <3>1, LedgerNumbers DEF Typed, RestTyped, PostRecord
      <3> QED BY <1>0, <3>1, <3>2 DEF OffKept
    <2> QED BY <1>2, <2>1 DEF ListedOn
  <1> QED BY <1>1, <1>2, <1>3, OffMoves DEF RowsSame, SamePosts

\* A row that a request or a pass makes is of a message that was sent while the switch was on.
LEMMA OffRecorded ==
  ASSUME LedgerInv, Typed', NEW t \in Tasks, RecordUsage(t) \/ AttachRead(t) \/ InferRow(t)
  PROVE  OffKept'
  <1> DEFINE Within == /\ UNCHANGED <<usageMenu, tick, panel, kept, asked, post, coincided>> /\ Moves(t) /\ task[t].pc # "create" /\ ListedOn(t)'
                       /\ \A x \in Posts : own'[x].is /\ post[x].off => own[x].is \/ Turned
  <1>0. Typed /\ PostsKept /\ OffKept
    BY DEF LedgerInv
  <1>1. ASSUME RecordUsage(t) PROVE Within
    <2> DEFINE m == task[t].m
    <2>1. /\ UNCHANGED World /\ task[t].pc = "record" /\ task[t].op \in Posting /\ m \in Posts
          /\ RowsSame \/ (EnabledFor(task[t].on) /\ Recorded(m, post[m].out, post[m].wamid, post[m].at))
          /\ Moves(t) /\ task'[t].pc \in {"api", "attach", "done"}
      BY <1>0, <1>1, RecordUsageEffect DEF Goes, Ends, Posting
    <2>2. \A x \in Posts : own'[x].is /\ post[x].off => own[x].is \/ Turned
      BY <2>1, RecordsTurned DEF RowsSame, Recorded
    <2> QED BY <2>1, <2>2 DEF World, ListedOn
  <1>2. ASSUME AttachRead(t) PROVE Within
    <2> DEFINE m == task[t].m
    <2>1. /\ UNCHANGED World /\ task[t].pc = "attach" /\ task[t].op \in Posting /\ m \in Posts
          /\ RowsSame \/ (EnabledFor(task[t].on) /\ Adopted(m))
          /\ Moves(t) /\ task'[t].pc \in {"settle", "link", "done"}
      BY <1>0, <1>2, AttachReadEffect DEF Goes, Ends, Posting
    <2>2. \A x \in Posts : own'[x].is /\ post[x].off => own[x].is \/ Turned
      BY <2>1, RecordsTurned DEF RowsSame, Adopted, Others
    <2> QED BY <2>1, <2>2 DEF World, ListedOn
  <1>3. ASSUME InferRow(t) PROVE Within
    <2>1. /\ UNCHANGED World /\ task[t].pc = "infer"
          /\ \/ RowsSame /\ Goes(t, "unlinked")
             \/ \E x \in task[t].list : /\ Takes(t, x, "inferred") /\ x.m \in Posts
                                        /\ RowsSame \/ Recorded(x.m, post[x.m].out, x.wamid, post[x.m].at)
      BY <1>0, <1>3, InferRowEffect
    <2>2. CASE RowsSame /\ Goes(t, "unlinked")
      BY <2>1, <2>2 DEF World, ListedOn, Goes, RowsSame
    <2>3. ASSUME NEW x \in task[t].list, Takes(t, x, "inferred"), x.m \in Posts,
                 RowsSame \/ Recorded(x.m, post[x.m].out, x.wamid, post[x.m].at)
          PROVE  Within
      <3>1. \A y \in task[t].list : ~post[y.m].off
        BY <1>0, <2>1 DEF OffKept
      <3>2. \A y \in Posts : own'[y].is /\ post[y].off => own[y].is \/ Turned
        BY <2>3, <3>1 DEF RowsSame, Recorded
      <3>3. ListedOn(t)'
        BY <2>1, <2>3, <3>1 DEF ListedOn, Takes, World
      <3> QED BY <2>1, <2>3, <3>2, <3>3 DEF World, Takes
    <2> QED BY <2>1, <2>2, <2>3
  <1>4. Within
    BY <1>1, <1>2, <1>3
  <1> QED BY <1>4, OffMoves DEF SamePosts

\* The steps that make no row of a message.
LEMMA OffQuiet ==
  ASSUME LedgerInv, Typed', NEW t \in Tasks,
         \/ BeginTask(t) \/ FinalizeSend(t) \/ SendRefused(t) \/ AttachLost(t) \/ AttachLink(t) \/ SettleOne(t) \/ RecordStatusEvent(t)
         \/ SweepStarts(t) \/ InferState(t) \/ SweepUnlinked(t) \/ InsertUnlinked(t) \/ SettleUnlinked(t) \/ SweepPending(t) \/ Resettle(t)
         \/ Reprice(t) \/ CreateRate(t) \/ UpdateRate(t) \/ DeleteRate(t)
  PROVE  OffKept'
  <1> DEFINE Steps == (Moves(t) /\ coincided' = coincided /\ task[t].pc # "create") \/ Begins(t)
             Quiet == /\ UNCHANGED <<usageMenu, tick, panel, kept, asked>> /\ SamePosts /\ Steps
                      /\ ListedOn(t)' /\ \A x \in Posts : own'[x].is => own[x].is
  <1>0. Typed /\ PostsKept /\ OffKept
    BY DEF LedgerInv
  <1>a. (\A m \in Posts : AllSettled(m) => \A x \in Posts : own'[x].is => own[x].is)
        /\ (\A m \in Posts : RefusedRow(m) \/ Linked(m) => \A x \in Posts : own'[x].is => own[x].is)
        /\ (RowsSame => \A x \in Posts : own'[x].is => own[x].is)
        /\ (post' = post => SamePosts)
    BY SettledPlaced DEF RefusedRow, Linked, Others, RowsSame, SamePosts
  <1>b. ASSUME task'[t].pc \notin {"infer", "inferred"} PROVE ListedOn(t)'
    BY <1>b DEF ListedOn
  <1>1. ASSUME BeginTask(t) PROVE Quiet
    <2>1. Begins(t) /\ RowsSame /\ UNCHANGED <<usageMenu, tick, post, panel, kept, asked>>
      BY <1>0, <1>1, BeginEffect DEF Begins
    <2> QED BY <1>a, <1>b, <2>1 DEF Begins
  <1>2. ASSUME FinalizeSend(t) PROVE Quiet
    <2>1. SamePosts
      BY <1>0, <1>2, FinalizeEffect DEF SamePosts
    <2> QED BY <1>0, <1>2, <1>a, <1>b, <2>1, FinalizeEffect DEF Goes
  <1>3. ASSUME SendRefused(t) PROVE Quiet
    BY <1>0, <1>3, <1>a, <1>b, SendRefusedEffect DEF World, Ends
  <1>4. ASSUME AttachLost(t) PROVE Quiet
    BY <1>0, <1>4, <1>a, <1>b, AttachLostEffect DEF World, Ends
  <1>5. ASSUME AttachLink(t) PROVE Quiet
    <2>1. own[task[t].m].is
      BY <1>5, LinkedOwn DEF AttachLink
    <2> QED BY <1>0, <1>5, <1>a, <1>b, <2>1, AttachLinkEffect DEF World, Ends, Goes
  <1>6. ASSUME SettleOne(t) PROVE Quiet
    BY <1>0, <1>6, <1>a, <1>b, SettleOneEffect DEF World, Ends
  <1>7. ASSUME RecordStatusEvent(t) PROVE Quiet
    BY <1>0, <1>7, <1>a, <1>b, EventEffect DEF Ends, Goes
  <1>8. ASSUME SweepStarts(t) PROVE Quiet
    BY <1>0, <1>8, <1>a, <1>b, SweepStartsEffect DEF World, Ends
  <1>9. ASSUME InferState(t) PROVE Quiet
    <2>1. /\ UNCHANGED World /\ task[t].pc = "inferred" /\ Moves(t) /\ task'[t].list = task[t].list /\ task[t].cur.m \in Posts
          /\ RowsSame \/ RefusedRow(task[t].cur.m) \/ AllSettled(task[t].cur.m)
      BY <1>0, <1>9, InferStateEffect DEF Goes, Rest
    <2>2. ListedOn(t)'
      BY <1>0, <2>1 DEF ListedOn, OffKept, World
    <2> QED BY <1>a, <2>1, <2>2 DEF World
  <1>10. ASSUME SweepUnlinked(t) PROVE Quiet
    BY <1>0, <1>10, <1>a, <1>b, SweepUnlinkedEffect DEF World, Lists
  <1>11. ASSUME InsertUnlinked(t) PROVE Quiet
    <2>1. /\ UNCHANGED World /\ task[t].pc = "adopt" /\ Moves(t) /\ task'[t].pc \in {"pending", "adopt", "adopted"}
          /\ RowsSame \/ \E m \in Posts : Inserted(m)
      BY <1>0, <1>11, InsertUnlinkedEffect DEF Goes, Lists, Takes
    <2> QED BY <1>a, <1>b, <2>1 DEF World, Inserted
  <1>12. ASSUME SettleUnlinked(t) PROVE Quiet
    BY <1>0, <1>12, <1>a, <1>b, SettleUnlinkedEffect DEF World, Goes
  <1>13. ASSUME SweepPending(t) \/ Reprice(t) PROVE Quiet
    BY <1>0, <1>13, <1>a, <1>b, SweepPendingEffect, RepriceEffect DEF World, Lists
  <1>14. ASSUME Resettle(t) PROVE Quiet
    BY <1>0, <1>14, <1>a, <1>b, ResettleEffect DEF World, Lists, Ends
  <1>15. ASSUME CreateRate(t) PROVE Quiet
    BY <1>0, <1>15, <1>a, <1>b, CreateRateEffect DEF AllButPrices, Ends, Saves
  <1>16. ASSUME UpdateRate(t) PROVE Quiet
    <2>1. task[t].op = "rateEdit"
      BY <1>16 DEF UpdateRate
    <2> QED BY <1>0, <1>16, <1>a, <1>b, <2>1, UpdateRateEffect, SavedId DEF AllButPrices, Ends, Saves
  <1>17. ASSUME DeleteRate(t) PROVE Quiet
    <2>1. task[t].op = "rateDrop"
      BY <1>17 DEF DeleteRate
    <2> QED BY <1>0, <1>17, <1>a, <1>b, <2>1, DeleteRateEffect, SavedId DEF AllButPrices, Ends, Saves
  <1>18. Quiet
    BY <1>1, <1>2, <1>3, <1>4, <1>5, <1>6, <1>7, <1>8, <1>9, <1>10, <1>11, <1>12, <1>13, <1>14, <1>15, <1>16, <1>17
  <1> QED BY <1>18, OffMoves

LEMMA OffNext ==
  ASSUME LedgerInv, UsageNext
  PROVE  OffKept'
  <1>0. Typed /\ Typed' /\ OffKept
    BY EveryStep DEF LedgerInv
  <1>1. ASSUME task' = task, UNCHANGED <<usageMenu, post, panel, coincided>>, RowsSame, tick' = tick \/ tick' = tick + 1,
               OffEverywhere => OffEverywhere'
        PROVE  OffKept'
    <2>1. NoneWrites /\ (\A q \in Tasks : ListedOn(q)') /\ SamePosts
      BY <1>0, <1>1 DEF NoneWrites, ListedOn, OffKept, Going, Written, SamePosts
    <2> QED BY <1>0, <1>1, <2>1, OffFrame DEF RowsSame
  <1>2. ASSUME NEW s \in Servers, ReadSwitch(s) \/ RememberSwitch(s) PROVE OffKept'
    <2>1. /\ UNCHANGED <<usageMenu, tick, post, panel, coincided, task>> /\ RowsSame
          /\ \A q \in Servers : (kept'[q] = kept[q] \/ kept'[q] = asked[q]) /\ (asked'[q] = "on" => asked[q] = "on" \/ panel.on)
      BY <1>0, <1>2, CacheEffect
    <2>2. OffEverywhere => OffEverywhere'
      BY <2>1 DEF OffEverywhere
    <2> QED BY <1>1, <2>1, <2>2
  <1>3. ASSUME DayPasses PROVE OffKept'
    <2>1. /\ UNCHANGED <<usageMenu, post, panel, asked, coincided, task>> /\ RowsSame /\ tick' = tick + 1
          /\ \A q \in Servers : kept'[q] \in {kept[q], "cold"}
      BY <1>0, <1>3, DayEffect
    <2>2. OffEverywhere => OffEverywhere'
      BY <2>1 DEF OffEverywhere
    <2> QED BY <1>1, <2>1, <2>2
  <1>4. ASSUME NEW t \in Tasks,
               \/ BeginTask(t) \/ CreatePost(t) \/ RecordUsage(t) \/ FinalizeSend(t) \/ SendRefused(t) \/ AttachRead(t) \/ AttachLost(t)
               \/ AttachLink(t) \/ SettleOne(t) \/ RecordStatusEvent(t) \/ SweepStarts(t) \/ SweepMissing(t) \/ InferRow(t)
               \/ InferState(t) \/ SweepUnlinked(t) \/ InsertUnlinked(t) \/ SettleUnlinked(t) \/ SweepPending(t) \/ Resettle(t)
               \/ Reprice(t) \/ SwitchRecording(t) \/ CreateRate(t) \/ UpdateRate(t) \/ DeleteRate(t)
        PROVE  OffKept'
    BY <1>0, <1>4, OffCreate, OffSwitch, OffMissing, OffRecorded, OffQuiet
  <1> QED BY <1>2, <1>3, <1>4 DEF UsageNext

-------------------------------------------------------------------------------
(* Ledger: a row's price is in the table *)

\* A row keeps its price, or takes the one of the row it adopts and waits to be settled.
KeptOwn(m) ==
    \/ /\ HasPrice(own[m]) /\ own'[m].rate = own[m].rate /\ own'[m].cost = own[m].cost /\ (own[m].wamid => own'[m].wamid)
       /\ (own'[m].at = own[m].at /\ (Unsettled(m) => Unsettled(m)')) \/ Unsettled(m)' \/ Flipped'
    \/ /\ HasPrice(orphan[m]) /\ own'[m].rate = orphan[m].rate /\ own'[m].cost = orphan[m].cost /\ own'[m].wamid
       /\ Unsettled(m)'
KeptOrphan(m) ==
    HasPrice(orphan[m]) /\ orphan'[m].rate = orphan[m].rate /\ orphan'[m].cost = orphan[m].cost /\ orphan'[m].at = orphan[m].at
KeptBoth(m) == (HasPrice(own'[m]) => KeptOwn(m)) /\ (HasPrice(orphan'[m]) => KeptOrphan(m))
\* ... or it has just been settled.
KeptOrSettled(m) ==
    /\ HasPrice(own'[m]) => KeptOwn(m) \/ (Priced(own'[m]) /\ own'[m].wamid)
    /\ HasPrice(orphan'[m]) => KeptOrphan(m) \/ Priced(orphan'[m])
\* A request stops to be the one that settles the row.
Leaves(t, m) ==
    \/ task[t].m = m /\ task[t].pc \in {"attach", "settle"}
    \/ task[t].pc = "inferred" /\ task[t].cur.m = m /\ task[t].cur.wamid
\* A change of the table that is checked and not saved.
Saving(t) == task[t].pc = "save" /\ task[t].op \in {"rateEdit", "rateDrop"}

LEMMA PricedStays ==
  ASSUME NEW m \in Posts, NEW i, NEW p, PricedBy(m, i, p), Flipped => Flipped', KeptBoth(m)
  PROVE  PricedBy(m, i, p)'
  BY DEF PricedBy, Fair, Sound, KeptBoth, KeptOwn, KeptOrphan

LEMMA UnsettledStays ==
  ASSUME Typed, NEW t \in Tasks, Moves(t), NEW m, ~Leaves(t, m), Unsettled(m)
  PROVE  Unsettled(m)'
  <1>1. task[t].said = "" /\ \A q \in Tasks : q # t => task'[q] = task[q]
    BY OpOf DEF Typed, Moves, OnlyTask
  <1> QED BY <1>1 DEF Unsettled, Leaves

LEMMA UnsettledBegins ==
  ASSUME Typed, NEW t \in Tasks, Begins(t), NEW m, Unsettled(m)
  PROVE  Unsettled(m)'
  <1>1. task[t].said = "" /\ task[t].pc = "new" /\ \A q \in Tasks : q # t => task'[q] = task[q]
    BY NotBegun DEF Typed, Begins, OnlyTask
  <1> QED BY <1>1 DEF Unsettled

LEMMA KeptSame ==
  ASSUME NEW m \in Posts, own'[m] = own[m], orphan'[m] = orphan[m], Unsettled(m) => Unsettled(m)'
  PROVE  KeptBoth(m)
  BY DEF KeptBoth, KeptOwn, KeptOrphan

LEMMA BothKept ==
  ASSUME NEW m, KeptBoth(m)
  PROVE  KeptOrSettled(m)
  BY DEF KeptBoth, KeptOrSettled

\* The rows change, the table does not.
LEMMA PricesFrame ==
  ASSUME PricesKept, price' = price, coincided \subseteq coincided', Flipped => Flipped', \A m \in Posts : KeptOrSettled(m),
         \A q \in Tasks : Saving(q)' => Saving(q) /\ task'[q].op = task[q].op /\ task'[q].id = task[q].id /\ task'[q].rate = task[q].rate,
         TableApart => (\A m \in Posts : KeptBoth(m)) \/ (\A q \in Tasks : ~Saving(q)')
  PROVE  PricesKept'
  <1>1. TableApart' => TableApart
    BY DEF TableApart
  <1>2. \A m \in Posts : HasPrice(own'[m]) => own'[m].rate \in RateIds /\ own'[m].wamid
    BY DEF PricesKept, KeptOrSettled, KeptOwn, Priced, HasPrice
  <1>3. \A m \in Posts : HasPrice(orphan'[m]) => orphan'[m].rate \in RateIds
    BY DEF PricesKept, KeptOrSettled, KeptOrphan, Priced, HasPrice
  <1>4. ASSUME TableApart, NEW m \in Posts, NEW i \in RateIds PROVE PricedBy(m, i, price[i])'
    <2>0. PricedBy(m, i, price[i])
      BY <1>4 DEF PricesKept
    <2>1. ASSUME HasPrice(own'[m]), own'[m].rate = i PROVE Fair(m, own[m], price[i])'
      <3>1. CASE KeptOwn(m)
        BY <2>0, <2>1, <3>1 DEF PricedBy, Fair, Sound, KeptOwn
      <3>2. CASE Priced(own'[m])
        BY <2>1, <3>2 DEF Priced, Fair, HasPrice
      <3> QED BY <2>1, <3>1, <3>2 DEF KeptOrSettled
    <2>2. ASSUME HasPrice(orphan'[m]), orphan'[m].rate = i PROVE Sound(orphan[m], price[i])'
      <3>1. CASE KeptOrphan(m)
        BY <2>0, <2>2, <3>1 DEF PricedBy, Sound, KeptOrphan
      <3>2. CASE Priced(orphan'[m])
        BY <2>2, <3>2 DEF Priced, Sound, HasPrice
      <3> QED BY <2>2, <3>1, <3>2 DEF KeptOrSettled
    <2> QED BY <2>1, <2>2 DEF PricedBy
  <1>5. ASSUME TableApart, NEW q \in Tasks, NEW m \in Posts, Saving(q)'
        PROVE  /\ task'[q].op = "rateEdit" => PricedBy(m, task[q].id, task[q].rate)'
               /\ task'[q].op = "rateDrop" => PricedBy(m, task[q].id, NoRate)'
    <2>1. KeptBoth(m) /\ Saving(q) /\ task'[q].op = task[q].op /\ task'[q].id = task[q].id /\ task'[q].rate = task[q].rate
      BY <1>5
    <2>2. /\ task[q].op = "rateEdit" => PricedBy(m, task[q].id, task[q].rate)
          /\ task[q].op = "rateDrop" => PricedBy(m, task[q].id, NoRate)
      BY <1>5, <2>1 DEF PricesKept, Saving
    <2>3. PICK i, p : i = task[q].id /\ p = task[q].rate
      OBVIOUS
    <2>4. ASSUME task[q].op = "rateEdit" PROVE PricedBy(m, i, p)'
      BY <2>1, <2>2, <2>3, <2>4, PricedStays
    <2>5. ASSUME task[q].op = "rateDrop" PROVE PricedBy(m, i, NoRate)'
      BY <2>1, <2>2, <2>3, <2>5, PricedStays
    <2> QED BY <2>1, <2>3, <2>4, <2>5 DEF PricedBy, Fair, Sound
  <1> QED BY <1>1, <1>2, <1>3, <1>4, <1>5 DEF PricesKept, Saving

\* While a row is being settled no change of the table waits to be saved, unless the two have met.
LEMMA SettlesApart ==
  ASSUME MetKept, TableApart, NEW t \in Tasks, task[t].pc \notin {"new", "done"}, task[t].op \in Settling, NEW q \in Tasks, Saving(q)
  PROVE  FALSE
  <1>1. t # q /\ t \in Going /\ q \in Going /\ task[q].op \in {"rateEdit", "rateDrop"}
    BY DEF Going, Saving, Settling
  <1>2. {task[t].op, task[q].op} \in coincided
    BY <1>1, Together
  <1> QED BY <1>1, <1>2 DEF TableApart

\* A request of the messages or of the integrity job moves.
LEMMA PricesMove ==
  ASSUME LedgerInv, UsageNext, NEW t \in Tasks, Moves(t), price' = price, task[t].op \notin {"rateEdit", "rateDrop"},
         coincided' = coincided, \A m \in Posts : KeptOrSettled(m),
         (\A m \in Posts : KeptBoth(m)) \/ task[t].op \in Settling
  PROVE  PricesKept'
  <1>0. Typed /\ PricesKept /\ MetKept
    BY DEF LedgerInv
  <1>1. Flipped => Flipped'
    BY <1>0, EveryStep, StaysFlipped
  <1>2. \A q \in Tasks : task'[q].op = task[q].op /\ (q # t => task'[q] = task[q])
    BY DEF Moves, OnlyTask, SameRequest
  <1>3. \A q \in Tasks : Saving(q)' => q # t /\ Saving(q)
    BY <1>2 DEF Saving
  <1>4. TableApart /\ task[t].op \in Settling => \A q \in Tasks : ~Saving(q)'
    BY <1>0, <1>3, SettlesApart DEF Moves
  <1> QED BY <1>0, <1>1, <1>2, <1>3, <1>4, PricesFrame

\* The rows of all messages but one are as they were.
LEMMA OthersKept ==
  ASSUME Typed, NEW t \in Tasks, Moves(t), NEW m \in Posts, Others(m), \A x \in Posts : x # m => ~Leaves(t, x), KeptOrSettled(m)
  PROVE  \A x \in Posts : KeptOrSettled(x) /\ (KeptBoth(m) => KeptBoth(x))
  <1>1. \A x \in Posts : x # m => own'[x] = own[x] /\ orphan'[x] = orphan[x] /\ (Unsettled(x) => Unsettled(x)')
    BY UnsettledStays DEF Others
  <1> QED BY <1>1, KeptSame, BothKept

LEMMA SettledPrices ==
  ASSUME Typed, PricesKept, NEW m \in Posts, AllSettled(m), HasDecided(m)
  PROVE  Others(m) /\ KeptOrSettled(m)
  <1>1. Others(m)
    BY DEF AllSettled, Others
  <1>2. ASSUME HasPrice(own'[m]) PROVE Priced(own'[m]) /\ own'[m].wamid
    <2>1. own[m].is /\ own[m].wamid
      BY <1>2 DEF AllSettled, RowSettled, Alike, HasPrice, PricesKept
    <2> QED BY <2>1 DEF AllSettled, RowSettled, Alike, HasDecided
  <1>3. ASSUME HasPrice(orphan'[m]) PROVE Priced(orphan'[m])
    BY <1>3 DEF AllSettled, RowSettled, Alike, HasDecided, HasPrice
  <1> QED BY <1>1, <1>2, <1>3 DEF KeptOrSettled
\* ... also when one of the two rows may be as it was.
LEMMA SettledOrSame ==
  ASSUME Typed, NEW m \in Posts, AllSettled(m), Unsettled(m) => Unsettled(m)'
  PROVE  Others(m) /\ KeptOrSettled(m)
  <1>1. Others(m)
    BY DEF AllSettled, Others
  <1>2. HasPrice(own'[m]) => KeptOwn(m) \/ (Priced(own'[m]) /\ own'[m].wamid)
    BY DEF AllSettled, RowSettled, Alike, HasPrice, KeptOwn
  <1>3. HasPrice(orphan'[m]) => KeptOrphan(m) \/ Priced(orphan'[m])
    BY DEF AllSettled, RowSettled, Alike, HasPrice, KeptOrphan
  <1> QED BY <1>1, <1>2, <1>3 DEF KeptOrSettled

LEMMA OffFlipped ==
  ASSUME LedgerInv, NEW s \in Servers, kept[s] = "off"
  PROVE  Flipped
  BY DEF LedgerInv, CalmKept, NoneOff

LEMMA SameRowsKept ==
  ASSUME Typed, RowsSame, NEW t \in Tasks, Moves(t), \A x \in Posts : ~Leaves(t, x)
  PROVE  \A x \in Posts : KeptBoth(x)
  BY KeptSame, UnsettledStays DEF RowsSame

LEMMA PricesRecord ==
  ASSUME LedgerInv, UsageNext, NEW t \in Tasks, RecordUsage(t)
  PROVE  PricesKept'
  <1> DEFINE m == task[t].m
  <1>0. Typed /\ PostsKept /\ LinksKept
    BY DEF LedgerInv
  <1>1. /\ UNCHANGED World /\ task[t].pc = "record" /\ task[t].op \in Posting /\ m \in Posts /\ Moves(t)
        /\ RowsSame \/ Recorded(m, post[m].out, post[m].wamid, post[m].at)
        /\ task[t].op = "echo" => task'[t].pc = "attach"
    BY <1>0, RecordUsageEffect DEF Goes, Ends, Posting
  <1>2. \A x \in Posts : ~Leaves(t, x)
    BY <1>1 DEF Leaves
  <1>3. CASE RowsSame
    <2>1. \A x \in Posts : KeptBoth(x)
      BY <1>0, <1>1, <1>2, <1>3, SameRowsKept
    <2> QED BY <1>1, <2>1, BothKept, PricesMove DEF World, Posting
  <1>4. CASE Recorded(m, post[m].out, post[m].wamid, post[m].at)
    <2>1. HasPrice(orphan'[m]) => KeptOrphan(m)
      BY <1>4 DEF Recorded, HasPrice, KeptOrphan
    <2>2. ASSUME HasPrice(own'[m]) PROVE KeptOwn(m)
      <3>1. post[m].wamid /\ Adopts(m, post[m].out, post[m].at)
        BY <1>4, <2>2 DEF Recorded, Fresh, HasPrice
      <3>2. orphan[m].is /\ orphan[m].wamid /\ told[m] # {}
        BY <1>0, <1>1, <3>1 DEF Adopts, Typed, RowsTyped, PostsKept
      <3>3. task[t].op # "send"
        BY <1>0, <1>1, <3>1 DEF LinksKept, GoodSend
      <3>4. task[t].op # "receive"
        BY <1>0, <1>1, <3>2 DEF LinksKept
      <3>5. Unsettled(m)'
        BY <1>1, <3>3, <3>4 DEF Unsettled, Moves, SameRequest, Posting
      <3>6. HasPrice(orphan[m])
        BY <2>2, <3>1, <3>2 DEF Adopts, HasPrice
      <3> QED BY <3>1, <3>2, <3>5, <3>6 DEF Adopts, KeptOwn
    <2>3. Others(m) /\ KeptBoth(m)
      BY <1>4, <2>1, <2>2 DEF Recorded, Others, KeptBoth
    <2>4. \A x \in Posts : KeptBoth(x) /\ KeptOrSettled(x)
      BY <1>0, <1>1, <1>2, <2>3, BothKept, OthersKept
    <2> QED BY <1>1, <2>4, PricesMove DEF World, Posting
  <1> QED BY <1>1, <1>3, <1>4

LEMMA PricesAttach ==
  ASSUME LedgerInv, UsageNext, NEW t \in Tasks, AttachRead(t)
  PROVE  PricesKept'
  <1> DEFINE m == task[t].m
  <1>0. Typed /\ PricesKept
    BY DEF LedgerInv
  <1>1. /\ UNCHANGED World /\ task[t].pc = "attach" /\ task[t].op \in {"send", "echo"} /\ m \in Posts /\ task[t].on \in Servers
        /\ \/ kept[task[t].on] = "off" /\ RowsSame /\ Ends(t, "off")
           \/ RowsSame /\ Goes(t, "settle")
           \/ Adopted(m) /\ Goes(t, "settle")
           \/ own[m].is /\ ~own[m].wamid /\ RowsSame /\ Moves(t)
    BY <1>0, AttachReadEffect
  <1>2. Moves(t) /\ \A x \in Posts : x # m => ~Leaves(t, x)
    BY <1>1 DEF Leaves, Ends, Goes
  <1>3. Goes(t, "settle") => Unsettled(m)'
    BY DEF Goes, Moves, SameRequest, Unsettled
  <1>4. Others(m) /\ KeptBoth(m)
    <2>1. CASE kept[task[t].on] = "off" /\ RowsSame
      <3>1. Flipped'
        BY <1>0, <1>1, <2>1, EveryStep, StaysFlipped, OffFlipped
      <3> QED BY <2>1, <3>1 DEF RowsSame, Others, KeptBoth, KeptOwn, KeptOrphan
    <2>2. CASE RowsSame /\ Goes(t, "settle")
      BY <1>3, <2>2 DEF RowsSame, Others, KeptBoth, KeptOwn, KeptOrphan
    <2>3. CASE Adopted(m) /\ Goes(t, "settle")
      <3>1. own'[m].wamid
        BY <1>0, <1>1, <2>3 DEF Adopted, Typed, RowsTyped
      <3> QED BY <1>3, <2>3, <3>1 DEF Adopted, KeptBoth, KeptOwn, KeptOrphan, HasPrice
    <2>4. CASE own[m].is /\ ~own[m].wamid /\ RowsSame
      BY <1>0, <1>1, <2>4 DEF RowsSame, Others, KeptBoth, KeptOwn, KeptOrphan, PricesKept
    <2> QED BY <1>1, <2>1, <2>2, <2>3, <2>4
  <1>5. \A x \in Posts : KeptBoth(x) /\ KeptOrSettled(x)
    BY <1>0, <1>1, <1>2, <1>4, BothKept, OthersKept
  <1> QED BY <1>1, <1>2, <1>5, PricesMove DEF World

LEMMA PricesSettleOne ==
  ASSUME LedgerInv, UsageNext, NEW t \in Tasks, SettleOne(t)
  PROVE  PricesKept'
  <1> DEFINE m == task[t].m
  <1>0. Typed /\ PricesKept
    BY DEF LedgerInv
  <1>1. /\ UNCHANGED World /\ task[t].pc = "settle" /\ task[t].op \in {"send", "echo", "event"} /\ m \in Posts /\ task[t].on \in Servers
        /\ Moves(t)
        /\ \/ AllSettled(m) /\ HasDecided(m)
           \/ kept[task[t].on] = "off" /\ RowsSame
           \/ task'[t].said = "stopped" /\ RowsSame
    BY <1>0, SettleOneEffect DEF Ends
  <1>2. \A x \in Posts : x # m => ~Leaves(t, x)
    BY <1>1 DEF Leaves
  <1>3. Others(m) /\ KeptOrSettled(m)
    <2>1. CASE AllSettled(m) /\ HasDecided(m)
      BY <1>0, <1>1, <2>1, SettledPrices
    <2>2. CASE kept[task[t].on] = "off" /\ RowsSame
      <3>1. Flipped'
        BY <1>0, <1>1, <2>2, EveryStep, StaysFlipped, OffFlipped
      <3> QED BY <2>2, <3>1 DEF RowsSame, Others, KeptOrSettled, KeptOwn, KeptOrphan
    <2>3. CASE task'[t].said = "stopped" /\ RowsSame
      <3>1. Unsettled(m)'
        BY <1>1, <2>3 DEF Unsettled, Moves, SameRequest
      <3> QED BY <2>3, <3>1 DEF RowsSame, Others, KeptOrSettled, KeptOwn, KeptOrphan
    <2> QED BY <1>1, <2>1, <2>2, <2>3
  <1>4. \A x \in Posts : KeptOrSettled(x)
    BY <1>0, <1>1, <1>2, <1>3, OthersKept
  <1> QED BY <1>1, <1>4, PricesMove DEF World, Settling

\* The other steps of a sending.
LEMMA PricesSend ==
  ASSUME LedgerInv, UsageNext, NEW t \in Tasks,
         CreatePost(t) \/ FinalizeSend(t) \/ SendRefused(t) \/ AttachLost(t) \/ AttachLink(t) \/ RecordStatusEvent(t)
  PROVE  PricesKept'
  <1> DEFINE Kept == /\ price' = price /\ task[t].op \notin {"rateEdit", "rateDrop"} /\ coincided' = coincided /\ Moves(t)
                     /\ \A x \in Posts : KeptBoth(x)
  <1>0. Typed
    BY DEF LedgerInv
  <1>1. ASSUME CreatePost(t) PROVE Kept
    <2>1. RowsSame /\ UNCHANGED <<price, coincided>> /\ task[t].pc = "create" /\ task[t].op \in Posting /\ Moves(t)
      BY <1>0, <1>1, CreateEffect DEF Goes
    <2> QED BY <1>0, <2>1, SameRowsKept DEF Leaves, Posting
  <1>2. ASSUME FinalizeSend(t) PROVE Kept
    <2>1. RowsSame /\ UNCHANGED <<price, coincided>> /\ task[t].pc = "api" /\ task[t].op = "send" /\ Moves(t)
      BY <1>0, <1>2, FinalizeEffect DEF Goes
    <2> QED BY <1>0, <2>1, SameRowsKept DEF Leaves
  <1>3. ASSUME SendRefused(t) PROVE Kept
    <2> DEFINE m == task[t].m
    <2>1. /\ UNCHANGED World /\ task[t].pc = "refused" /\ task[t].op = "send" /\ m \in Posts /\ Moves(t) /\ (RowsSame \/ RefusedRow(m))
      BY <1>0, <1>3, SendRefusedEffect DEF Ends
    <2>2. \A x \in Posts : ~Leaves(t, x)
      BY <2>1 DEF Leaves
    <2>3. CASE RowsSame
      BY <1>0, <2>1, <2>2, <2>3, SameRowsKept DEF World
    <2>4. CASE RefusedRow(m)
      <3>1. Others(m) /\ KeptBoth(m)
        BY <2>4 DEF RefusedRow, KeptBoth, HasPrice, KeptOrphan
      <3>2. \A x \in Posts : KeptBoth(x)
        BY <1>0, <2>1, <2>2, <3>1, BothKept, OthersKept
      <3> QED BY <2>1, <3>2 DEF World
    <2> QED BY <2>1, <2>3, <2>4
  <1>4. ASSUME AttachLost(t) PROVE Kept
    <2> DEFINE m == task[t].m
    <2>1. /\ UNCHANGED World /\ task[t].pc = "attach" /\ m \in Posts /\ Moves(t) /\ RowsSame /\ task'[t].said = "unattached"
      BY <1>0, <1>4, AttachLostEffect DEF Ends
    <2>2. task[t].op \in {"send", "echo"} /\ (\A x \in Posts : x # m => ~Leaves(t, x)) /\ Others(m)
      BY <1>0, <2>1, OpOf DEF Typed, Leaves, RowsSame, Others
    <2>3. KeptBoth(m)
      <3>1. Unsettled(m)'
        BY <2>1 DEF Unsettled, Moves, SameRequest
      <3> QED BY <2>1, <3>1 DEF RowsSame, KeptBoth, KeptOwn, KeptOrphan
    <2>4. \A x \in Posts : KeptBoth(x)
      BY <1>0, <2>1, <2>2, <2>3, BothKept, OthersKept
    <2> QED BY <2>1, <2>2, <2>4 DEF World
  <1>5. ASSUME AttachLink(t) PROVE Kept
    <2> DEFINE m == task[t].m
    <2>0. own[m].is
      BY <1>5, LinkedOwn DEF AttachLink
    <2>1. /\ UNCHANGED World /\ task[t].pc = "link" /\ task[t].op \in {"send", "echo"} /\ m \in Posts /\ Moves(t)
          /\ RowsSame \/ Linked(m)
      BY <1>0, <1>5, <2>0, AttachLinkEffect DEF Ends, Goes
    <2>2. \A x \in Posts : ~Leaves(t, x) /\ (Unsettled(x) => Unsettled(x)')
      BY <1>0, <2>1, UnsettledStays DEF Leaves
    <2>3. CASE RowsSame
      BY <1>0, <2>1, <2>2, <2>3, SameRowsKept DEF World
    <2>4. CASE Linked(m)
      <3>1. Unsettled(m) => Unsettled(m)'
        BY <2>1, <2>2 DEF Moves, SameRequest
      <3>2. Others(m) /\ KeptBoth(m)
        BY <2>4, <3>1 DEF Linked, KeptBoth, HasPrice, KeptOwn, KeptOrphan
      <3>3. \A x \in Posts : KeptBoth(x)
        BY <1>0, <2>1, <2>2, <3>2, BothKept, OthersKept
      <3> QED BY <2>1, <3>3 DEF World
    <2> QED BY <2>1, <2>3, <2>4
  <1>6. ASSUME RecordStatusEvent(t) PROVE Kept
    <2>1. RowsSame /\ UNCHANGED <<price, coincided>> /\ task[t].pc = "append" /\ task[t].op = "event" /\ Moves(t)
      BY <1>0, <1>6, EventEffect DEF Goes, Ends
    <2> QED BY <1>0, <2>1, SameRowsKept DEF Leaves
  <1>7. Kept
    BY <1>1, <1>2, <1>3, <1>4, <1>5, <1>6
  <1> QED BY <1>7, BothKept, PricesMove

LEMMA PricesInfer ==
  ASSUME LedgerInv, UsageNext, NEW t \in Tasks, InferRow(t) \/ InferState(t)
  PROVE  PricesKept'
  <1> DEFINE Kept == /\ price' = price /\ task[t].op = "sweep" /\ coincided' = coincided /\ Moves(t)
                     /\ \A x \in Posts : KeptOrSettled(x)
  <1>0. Typed /\ PostsKept /\ PricesKept
    BY DEF LedgerInv
  <1>1. ASSUME InferRow(t) PROVE Kept
    <2>1. /\ UNCHANGED World /\ task[t].pc = "infer" /\ task[t].op = "sweep"
          /\ \/ RowsSame /\ Goes(t, "unlinked")
             \/ \E x \in task[t].list : /\ Takes(t, x, "inferred") /\ x.m \in Posts
                                        /\ RowsSame \/ Recorded(x.m, post[x.m].out, x.wamid, post[x.m].at)
      BY <1>0, <1>1, InferRowEffect
    <2>2. Moves(t) /\ \A x \in Posts : ~Leaves(t, x)
      <3>1. task[t].pc \notin {"attach", "settle", "inferred"}
        BY <2>1
      <3> QED BY <2>1, <3>1 DEF Leaves, Goes, Takes
    <2>3. CASE RowsSame
      BY <1>0, <2>1, <2>2, <2>3, SameRowsKept, BothKept DEF World
    <2>4. ASSUME NEW x \in task[t].list, Takes(t, x, "inferred"), x.m \in Posts, Recorded(x.m, post[x.m].out, x.wamid, post[x.m].at)
          PROVE  Kept
      <3> DEFINE m == x.m
      <3>1. HasPrice(orphan'[m]) => KeptOrphan(m)
        BY <2>4 DEF Recorded, HasPrice, KeptOrphan
      <3>2. ASSUME HasPrice(own'[m]) PROVE KeptOwn(m)
        <4>1. x.wamid /\ Adopts(m, post[m].out, post[m].at)
          BY <2>4, <3>2 DEF Recorded, Fresh, HasPrice
        <4>2. orphan[m].is /\ orphan[m].wamid
          BY <1>0, <2>4, <4>1 DEF Adopts, Typed, RowsTyped
        <4>3. Unsettled(m)'
          BY <2>4, <4>1 DEF Takes, Unsettled
        <4>4. HasPrice(orphan[m])
          BY <3>2, <4>1, <4>2 DEF Adopts, HasPrice
        <4> QED BY <4>1, <4>2, <4>3, <4>4 DEF Adopts, KeptOwn
      <3>3. Others(m) /\ KeptBoth(m)
        BY <2>4, <3>1, <3>2 DEF Recorded, Others, KeptBoth
      <3>4. \A y \in Posts : KeptOrSettled(y)
        BY <1>0, <2>2, <2>4, <3>3, BothKept, OthersKept
      <3> QED BY <2>1, <2>2, <3>4 DEF World
    <2> QED BY <2>1, <2>3, <2>4
  <1>2. ASSUME InferState(t) PROVE Kept
    <2> DEFINE m == task[t].cur.m
    <2>1. /\ UNCHANGED World /\ task[t].pc = "inferred" /\ task[t].op = "sweep" /\ Moves(t) /\ m \in Posts
          /\ \/ ~task[t].cur.wamid /\ RowsSame
             \/ ~task[t].cur.wamid /\ RefusedRow(m)
             \/ kept[task[t].on] = "off" /\ RowsSame
             \/ AllSettled(m) /\ HasDecided(m)
      BY <1>0, <1>2, InferStateEffect DEF Goes
    <2>2. \A x \in Posts : x # m => ~Leaves(t, x)
      BY <2>1 DEF Leaves
    <2>3. Others(m) /\ KeptOrSettled(m)
      <3>1. CASE ~task[t].cur.wamid /\ RowsSame
        <4>1. ~Leaves(t, m)
          BY <2>1, <3>1 DEF Leaves
        <4> QED BY <1>0, <2>1, <3>1, <4>1, UnsettledStays, KeptSame, BothKept DEF RowsSame, Others
      <3>2. CASE RefusedRow(m)
        BY <3>2 DEF RefusedRow, KeptOrSettled, HasPrice, KeptOrphan
      <3>3. CASE kept[task[t].on] = "off" /\ RowsSame
        <4>1. task[t].on \in Servers
          BY <1>0 DEF Typed, TasksTyped, TaskRecord
        <4>2. Flipped'
          BY <1>0, <3>3, <4>1, EveryStep, StaysFlipped, OffFlipped
        <4> QED BY <3>3, <4>2 DEF RowsSame, Others, KeptOrSettled, KeptOwn, KeptOrphan
      <3>4. CASE AllSettled(m) /\ HasDecided(m)
        BY <1>0, <2>1, <3>4, SettledPrices
      <3> QED BY <2>1, <3>1, <3>2, <3>3, <3>4
    <2>4. \A x \in Posts : KeptOrSettled(x)
      BY <1>0, <2>1, <2>2, <2>3, OthersKept
    <2> QED BY <2>1, <2>4 DEF World
  <1>3. Kept
    BY <1>1, <1>2
  <1> QED BY <1>3, PricesMove DEF Settling

\* The lists of the integrity job, what it makes and settles, new prices asked for, and the switch.
LEMMA PricesSweep ==
  ASSUME LedgerInv, UsageNext, NEW t \in Tasks,
         \/ SweepStarts(t) \/ SweepMissing(t) \/ SweepUnlinked(t) \/ InsertUnlinked(t) \/ SettleUnlinked(t) \/ SweepPending(t)
         \/ Resettle(t) \/ Reprice(t) \/ SwitchRecording(t)
  PROVE  PricesKept'
  <1> DEFINE Kept == /\ price' = price /\ task[t].op \in {"sweep", "reprice", "switch"} /\ coincided' = coincided /\ Moves(t)
                     /\ task[t].pc \notin {"attach", "settle", "inferred"}
                     /\ \/ RowsSame
                        \/ \E m \in Posts : Inserted(m)
                        \/ task[t].op # "switch" /\ \E m \in Posts : AllSettled(m)
  <1>0. Typed /\ PostsKept
    BY DEF LedgerInv
  <1>1. ASSUME SweepStarts(t) PROVE Kept
    BY <1>0, <1>1, SweepStartsEffect DEF World, Ends
  <1>2. ASSUME SweepMissing(t) PROVE Kept
    BY <1>0, <1>2, SweepMissingEffect DEF World
  <1>3. ASSUME SweepUnlinked(t) PROVE Kept
    BY <1>0, <1>3, SweepUnlinkedEffect DEF World, Lists
  <1>4. ASSUME InsertUnlinked(t) PROVE Kept
    BY <1>0, <1>4, InsertUnlinkedEffect DEF World, Goes, Lists, Takes
  <1>5. ASSUME SettleUnlinked(t) PROVE Kept
    BY <1>0, <1>5, SettleUnlinkedEffect DEF World, Goes
  <1>6. ASSUME SweepPending(t) \/ Reprice(t) PROVE Kept
    BY <1>0, <1>6, SweepPendingEffect, RepriceEffect DEF World, Lists
  <1>7. ASSUME Resettle(t) PROVE Kept
    BY <1>0, <1>7, ResettleEffect DEF World, Lists, Ends
  <1>8. ASSUME SwitchRecording(t) PROVE Kept
    BY <1>0, <1>8, SwitchEffect DEF Ends
  <1>9. Kept
    BY <1>1, <1>2, <1>3, <1>4, <1>5, <1>6, <1>7, <1>8
  <1>10. \A x \in Posts : ~Leaves(t, x) /\ (Unsettled(x) => Unsettled(x)')
    BY <1>0, <1>9, UnsettledStays DEF Leaves
  <1>11. CASE RowsSame
    BY <1>0, <1>9, <1>10, <1>11, SameRowsKept, BothKept, PricesMove
  <1>12. ASSUME NEW m \in Posts, Inserted(m) PROVE PricesKept'
    <2>1. Others(m) /\ KeptBoth(m)
      BY <1>10, <1>12 DEF Inserted, Others, KeptBoth, HasPrice, KeptOwn
    <2>2. \A x \in Posts : KeptBoth(x) /\ KeptOrSettled(x)
      BY <1>0, <1>9, <1>10, <1>12, <2>1, BothKept, OthersKept
    <2> QED BY <1>9, <2>2, PricesMove
  <1>13. ASSUME NEW m \in Posts, AllSettled(m), task[t].op # "switch" PROVE PricesKept'
    <2>1. \A x \in Posts : KeptOrSettled(x)
      BY <1>0, <1>9, <1>10, <1>13, SettledOrSame, OthersKept
    <2> QED BY <1>9, <1>13, <2>1, PricesMove DEF Settling
  <1> QED BY <1>9, <1>11, <1>12, <1>13

\* A change of the table leaves the rows as they are.
LEMMA TableRows ==
  ASSUME LedgerInv, UsageNext, NEW t \in Tasks, Moves(t), task[t].op \in {"rateAdd", "rateEdit", "rateDrop"}, RowsSame
  PROVE  /\ Flipped => Flipped'
         /\ \A x \in Posts : KeptBoth(x)
         /\ \A q \in Tasks : task'[q].op = task[q].op /\ (q # t => task'[q] = task[q])
  <1>0. Typed
    BY DEF LedgerInv
  <1>1. Flipped => Flipped'
    BY <1>0, EveryStep, StaysFlipped
  <1>2. task[t].pc \in {"check", "save"}
    BY <1>0, OpOf DEF Typed, Moves
  <1>3. \A x \in Posts : KeptBoth(x)
    BY <1>0, <1>2, SameRowsKept DEF Leaves
  <1> QED BY <1>1, <1>3 DEF Moves, OnlyTask, SameRequest

\* What is checked of a price holds of the rows until it is saved.
LEMMA PricesTable ==
  ASSUME LedgerInv, UsageNext, NEW t \in Tasks, Moves(t), task[t].op \in {"rateAdd", "rateEdit", "rateDrop"}, RowsSame,
         coincided' = coincided,
         TableApart => \A m \in Posts, i \in RateIds : PricedBy(m, i, price'[i]),
         TableApart => \A m \in Posts : Saving(t)' =>
           /\ task'[t].op = "rateEdit" => PricedBy(m, task'[t].id, task'[t].rate)
           /\ task'[t].op = "rateDrop" => PricedBy(m, task'[t].id, NoRate)
  PROVE  PricesKept'
  <1>0. PricesKept
    BY DEF LedgerInv
  <1>1. /\ Flipped => Flipped'
        /\ \A x \in Posts : KeptBoth(x)
        /\ \A q \in Tasks : task'[q].op = task[q].op /\ (q # t => task'[q] = task[q])
    BY TableRows
  <1>2. TableApart' <=> TableApart
    BY DEF TableApart
  <1>3. \A m \in Posts : /\ HasPrice(own'[m]) => own'[m].rate \in RateIds /\ own'[m].wamid
                         /\ HasPrice(orphan'[m]) => orphan'[m].rate \in RateIds
    BY <1>0 DEF PricesKept, RowsSame, HasPrice
  <1>4. ASSUME TableApart, NEW m \in Posts, NEW i \in RateIds PROVE PricedBy(m, i, price[i])'
    <2>1. PICK p : p = price'[i]
      OBVIOUS
    <2>2. PricedBy(m, i, p)'
      BY <1>1, <1>4, <2>1, PricedStays
    <2> QED BY <2>1, <2>2 DEF PricedBy, Fair, Sound
  <1>5. ASSUME TableApart, NEW q \in Tasks, NEW m \in Posts, Saving(q)'
        PROVE  /\ task'[q].op = "rateEdit" => PricedBy(m, task[q].id, task[q].rate)'
               /\ task'[q].op = "rateDrop" => PricedBy(m, task[q].id, NoRate)'
    <2>1. PICK i, p : i = task'[q].id /\ p = task'[q].rate
      OBVIOUS
    <2>2. /\ task'[q].op = "rateEdit" => PricedBy(m, i, p)
          /\ task'[q].op = "rateDrop" => PricedBy(m, i, NoRate)
      <3>1. CASE q = t
        BY <1>5, <2>1, <3>1
      <3>2. CASE q # t
        BY <1>0, <1>1, <1>5, <2>1, <3>2 DEF PricesKept, Saving
      <3> QED BY <3>1, <3>2
    <2>4. ASSUME task'[q].op = "rateEdit" PROVE PricedBy(m, i, p)'
      BY <1>1, <2>2, <2>4, PricedStays
    <2>5. ASSUME task'[q].op = "rateDrop" PROVE PricedBy(m, i, NoRate)'
      BY <1>1, <2>2, <2>5, PricedStays
    <2> QED BY <2>1, <2>4, <2>5 DEF PricedBy, Fair, Sound
  <1> QED BY <1>2, <1>3, <1>4, <1>5 DEF PricesKept, Saving

\* A row that has a price is one of the price's rows.
LEMMA PricedRow ==
  ASSUME NEW m \in Posts, NEW i
  PROVE  /\ HasPrice(own[m]) /\ own[m].rate = i => own[m] \in PricedWith(i)
         /\ HasPrice(orphan[m]) /\ orphan[m].rate = i => orphan[m] \in PricedWith(i)
  BY DEF HasPrice, PricedWith, LedgerRows

\* mayEdit keeps what the rows rely on.
LEMMA EditedStays ==
  ASSUME Typed, NEW i \in RateIds, NEW p \in Rate, mayEdit(i, p), NEW r \in PricedWith(i), r.at \in Ticks, price[i].is,
         price[i].cost = r.cost
  PROVE  p.is /\ p.cost = r.cost /\ (InForce(price[i], r.at) => InForce(p, r.at))
  <1> DEFINE Days == {q.at : q \in PricedWith(i)}
  <1>1. /\ p = [price[i] EXCEPT !.to = p.to]
        /\ p.to = price[i].to \/ (price[i].to = 0 /\ p.to >= Max(Days))
    BY DEF mayEdit
  <1>2. price[i] \in Rate
    BY DEF Typed, RestTyped
  <1>3. p.is = price[i].is /\ p.cost = price[i].cost /\ p.from = price[i].from
    <2>1. PICK d : d = p.to
      OBVIOUS
    <2>2. p = [price[i] EXCEPT !.to = d]
      BY <1>1, <2>1
    <2> QED BY <1>2, <2>2 DEF Rate
  <1>4. r.at <= Max(Days) /\ Max(Days) \in Ticks
    <2>1. \A q \in PricedWith(i) : q.at \in Ticks
      BY DEF PricedWith, LedgerRows, Typed, RowsTyped, MessageUsage
    <2>2. Days \subseteq Ticks /\ r.at \in Days
      BY <2>1
    <2> HIDE DEF Days
    <2> QED BY <2>2, GreatestTick
  <1>5. p.to \in Nat /\ r.at \in Nat /\ Max(Days) \in Nat
    BY <1>4, LedgerNumbers DEF Rate
  <1> HIDE DEF Days
  <1> QED BY <1>1, <1>3, <1>4, <1>5 DEF InForce

LEMMA PricesRates ==
  ASSUME LedgerInv, UsageNext, NEW t \in Tasks, CreateRate(t) \/ UpdateRate(t) \/ DeleteRate(t)
  PROVE  PricesKept'
  <1>0. Typed /\ PricesKept
    BY DEF LedgerInv
  <1>a. TableApart => \A m \in Posts, i \in RateIds : PricedBy(m, i, price[i])
    BY <1>0 DEF PricesKept
  <1>b. /\ TableApart /\ task[t].pc = "save" /\ task[t].op = "rateEdit" => \A m \in Posts : PricedBy(m, task[t].id, task[t].rate)
        /\ TableApart /\ task[t].pc = "save" /\ task[t].op = "rateDrop" => \A m \in Posts : PricedBy(m, task[t].id, NoRate)
    BY <1>0 DEF PricesKept
  <1>1. ASSUME CreateRate(t) PROVE PricesKept'
    <2>1. /\ RowsSame /\ coincided' = coincided /\ task[t].op = "rateAdd" /\ task'[t].op = "rateAdd" /\ Moves(t)
          /\ \/ price' = price
             \/ \E j \in RateIds : ~price[j].is /\ PriceSet(j, task[t].rate)
      BY <1>0, <1>1, CreateRateEffect DEF AllButPrices, Ends, Saves, Moves, SameRequest
    <2>2. CASE price' = price
      BY <1>a, <2>1, <2>2, PricesTable DEF Saving
    <2>3. ASSUME NEW j \in RateIds, ~price[j].is, PriceSet(j, task[t].rate) PROVE PricesKept'
      <3>1. ASSUME TableApart, NEW m \in Posts, NEW i \in RateIds PROVE PricedBy(m, i, price'[i])
        <4>1. CASE i = j
          BY <1>a, <2>3, <3>1, <4>1 DEF PricedBy, Fair, Sound
        <4>2. CASE i # j
          BY <1>a, <2>3, <3>1, <4>2 DEF PriceSet
        <4> QED BY <4>1, <4>2
      <3> QED BY <2>1, <3>1, PricesTable DEF Saving
    <2> QED BY <2>1, <2>2, <2>3
  <1>2. ASSUME UpdateRate(t) PROVE PricesKept'
    <2>0. task[t].op = "rateEdit"
      BY <1>2 DEF UpdateRate
    <2>1. /\ RowsSame /\ coincided' = coincided /\ task'[t].op = "rateEdit" /\ Moves(t)
          /\ \/ price' = price /\ \E w \in Answers : Ends(t, w)
             \/ price' = price /\ \E i \in RateIds, p \in Rate : price[i].is /\ mayEdit(i, p) /\ Saves(t, p, i)
             \/ task[t].pc = "save" /\ Ends(t, "ok") /\ PriceSet(task[t].id, task[t].rate)
      BY <1>0, <1>2, <2>0, SavedId, UpdateRateEffect DEF AllButPrices, Ends, Saves, Moves, SameRequest
    <2>2. CASE price' = price /\ \E w \in Answers : Ends(t, w)
      <3>1. ~Saving(t)'
        BY <2>2 DEF Ends, Saving
      <3> QED BY <1>a, <2>0, <2>1, <2>2, <3>1, PricesTable
    <2>3. ASSUME price' = price, NEW i \in RateIds, NEW p \in Rate, price[i].is, mayEdit(i, p), Saves(t, p, i) PROVE PricesKept'
      <3>1. ASSUME TableApart, NEW m \in Posts PROVE PricedBy(m, i, p)
        <4>0. PricedBy(m, i, price[i])
          BY <1>a, <3>1
        <4>1. ASSUME HasPrice(own[m]), own[m].rate = i PROVE Fair(m, own[m], p)
          <5>1. own[m] \in PricedWith(i) /\ own[m].at \in Ticks /\ Fair(m, own[m], price[i])
            BY <1>0, <4>0, <4>1, PricedRow DEF PricedBy, Typed, RowsTyped, MessageUsage
          <5> QED BY <1>0, <2>3, <5>1, EditedStays DEF Fair
        <4>2. ASSUME HasPrice(orphan[m]), orphan[m].rate = i PROVE Sound(orphan[m], p)
          <5>1. orphan[m] \in PricedWith(i) /\ orphan[m].at \in Ticks /\ Sound(orphan[m], price[i])
            BY <1>0, <4>0, <4>2, PricedRow DEF PricedBy, Typed, RowsTyped, MessageUsage
          <5> QED BY <1>0, <2>3, <5>1, EditedStays DEF Sound
        <4> QED BY <4>1, <4>2 DEF PricedBy
      <3>2. task'[t].id = i /\ task'[t].rate = p /\ task'[t].op # "rateDrop"
        BY <2>1, <2>3 DEF Saves
      <3> QED BY <1>a, <2>0, <2>1, <2>3, <3>1, <3>2, PricesTable
    <2>4. CASE task[t].pc = "save" /\ Ends(t, "ok") /\ PriceSet(task[t].id, task[t].rate)
      <3>1. ASSUME TableApart, NEW m \in Posts, NEW i \in RateIds PROVE PricedBy(m, i, price'[i])
        <4>1. CASE i = task[t].id
          BY <1>b, <2>0, <2>4, <3>1, <4>1 DEF PriceSet
        <4>2. CASE i # task[t].id
          BY <1>a, <2>4, <3>1, <4>2 DEF PriceSet
        <4> QED BY <4>1, <4>2
      <3>2. ~Saving(t)'
        BY <2>4 DEF Ends, Saving
      <3> QED BY <2>0, <2>1, <3>1, <3>2, PricesTable
    <2> QED BY <2>1, <2>2, <2>3, <2>4
  <1>3. ASSUME DeleteRate(t) PROVE PricesKept'
    <2>0. task[t].op = "rateDrop"
      BY <1>3 DEF DeleteRate
    <2>1. /\ RowsSame /\ coincided' = coincided /\ task'[t].op = "rateDrop" /\ Moves(t)
          /\ \/ price' = price /\ \E w \in Answers : Ends(t, w)
             \/ price' = price /\ \E i \in RateIds : PricedWith(i) = {} /\ Saves(t, task[t].rate, i)
             \/ task[t].pc = "save" /\ Ends(t, "ok") /\ PriceSet(task[t].id, NoRate)
      BY <1>0, <1>3, <2>0, SavedId, DeleteRateEffect DEF AllButPrices, Ends, Saves, Moves, SameRequest
    <2>2. CASE price' = price /\ \E w \in Answers : Ends(t, w)
      <3>1. ~Saving(t)'
        BY <2>2 DEF Ends, Saving
      <3> QED BY <1>a, <2>0, <2>1, <2>2, <3>1, PricesTable
    <2>3. ASSUME price' = price, NEW i \in RateIds, PricedWith(i) = {}, Saves(t, task[t].rate, i) PROVE PricesKept'
      <3>1. \A m \in Posts : PricedBy(m, i, NoRate)
        BY <2>3, PricedRow DEF PricedBy
      <3>2. task'[t].id = i /\ task'[t].op # "rateEdit"
        BY <2>1, <2>3 DEF Saves
      <3> QED BY <1>a, <2>0, <2>1, <2>3, <3>1, <3>2, PricesTable
    <2>4. CASE task[t].pc = "save" /\ Ends(t, "ok") /\ PriceSet(task[t].id, NoRate)
      <3>1. ASSUME TableApart, NEW m \in Posts, NEW i \in RateIds PROVE PricedBy(m, i, price'[i])
        <4>1. CASE i = task[t].id
          BY <1>b, <2>0, <2>4, <3>1, <4>1 DEF PriceSet
        <4>2. CASE i # task[t].id
          BY <1>a, <2>4, <3>1, <4>2 DEF PriceSet
        <4> QED BY <4>1, <4>2
      <3>2. ~Saving(t)'
        BY <2>4 DEF Ends, Saving
      <3> QED BY <2>0, <2>1, <3>1, <3>2, PricesTable
    <2> QED BY <2>1, <2>2, <2>3, <2>4
  <1> QED BY <1>1, <1>2, <1>3

LEMMA PricesNext ==
  ASSUME LedgerInv, UsageNext
  PROVE  PricesKept'
  <1>0. Typed /\ PricesKept /\ Typed'
    BY EveryStep DEF LedgerInv
  <1>a. Flipped => Flipped'
    BY <1>0, EveryStep, StaysFlipped
  <1>1. ASSUME NEW t \in Tasks, BeginTask(t) PROVE PricesKept'
    <2>1. Begins(t) /\ RowsSame /\ price' = price
      BY <1>0, <1>1, BeginEffect DEF Begins
    <2>2. \A m \in Posts : KeptBoth(m) /\ KeptOrSettled(m)
      BY <1>0, <2>1, UnsettledBegins, KeptSame, BothKept DEF RowsSame
    <2>3. \A q \in Tasks : Saving(q)' => task'[q] = task[q]
      BY <2>1 DEF Begins, OnlyTask, Saving
    <2>4. \A q \in Tasks : Saving(q)' => Saving(q)
      BY <2>3 DEF Saving
    <2>5. coincided \subseteq coincided'
      BY <2>1 DEF Begins
    <2> QED BY <1>0, <1>a, <2>1, <2>2, <2>3, <2>4, <2>5, PricesFrame
  <1>2. ASSUME task' = task, UNCHANGED <<price, coincided>>, RowsSame PROVE PricesKept'
    <2>1. \A m \in Posts : KeptBoth(m) /\ KeptOrSettled(m)
      <3>1. \A m \in Posts : Unsettled(m) => Unsettled(m)'
        BY <1>2 DEF Unsettled
      <3> QED BY <1>2, <3>1, KeptSame, BothKept DEF RowsSame
    <2>2. \A q \in Tasks : Saving(q)' => Saving(q)
      BY <1>2 DEF Saving
    <2> QED BY <1>0, <1>a, <1>2, <2>1, <2>2, PricesFrame
  <1>3. ASSUME NEW s \in Servers, ReadSwitch(s) \/ RememberSwitch(s) PROVE PricesKept'
    BY <1>0, <1>2, <1>3, CacheEffect
  <1>4. ASSUME DayPasses PROVE PricesKept'
    BY <1>0, <1>2, <1>4, DayEffect
  <1>5. ASSUME NEW t \in Tasks,
               \/ BeginTask(t) \/ CreatePost(t) \/ RecordUsage(t) \/ FinalizeSend(t) \/ SendRefused(t) \/ AttachRead(t) \/ AttachLost(t)
               \/ AttachLink(t) \/ SettleOne(t) \/ RecordStatusEvent(t) \/ SweepStarts(t) \/ SweepMissing(t) \/ InferRow(t)
               \/ InferState(t) \/ SweepUnlinked(t) \/ InsertUnlinked(t) \/ SettleUnlinked(t) \/ SweepPending(t) \/ Resettle(t)
               \/ Reprice(t) \/ SwitchRecording(t) \/ CreateRate(t) \/ UpdateRate(t) \/ DeleteRate(t)
        PROVE  PricesKept'
    BY <1>1, <1>5, PricesRecord, PricesAttach, PricesSettleOne, PricesSend, PricesInfer, PricesSweep, PricesRates
  <1> QED BY <1>3, <1>4, <1>5 DEF UsageNext

-------------------------------------------------------------------------------
(* Ledger: the table of prices *)

Table == {"rateAdd", "rateEdit", "rateDrop"}

\* The overlap that a change is checked against is the one of the two prices, whichever begins first.
LEMMA ClearNow ==
  ASSUME Typed, RatesKept, NEW p \in Rate, NEW except, Offered(p), ~rateOverlaps(p, except)
  PROVE  Clear(p, except)
  <1>1. ASSUME NEW i \in RateIds \ {except}, price[i].is PROVE ~Meet(price[i], p) /\ ~Meet(p, price[i])
    <2>1. price[i] \in Rate /\ Ordered(price[i])
      BY <1>1 DEF Typed, RestTyped, RatesKept
    <2>2. /\ price[i].from \in Nat /\ price[i].to \in Nat /\ p.from \in Nat /\ p.to \in Nat
          /\ price[i].to = 0 \/ price[i].from <= price[i].to
          /\ p.to = 0 \/ p.from <= p.to
      BY <2>1, LedgerNumbers DEF Rate, Ordered, Offered
    <2>3. ~(/\ price[i].wide = p.wide
            /\ (price[i].to = 0 \/ price[i].to >= p.from) /\ (p.to = 0 \/ price[i].from <= p.to))
      BY <1>1 DEF rateOverlaps
    <2>4. PICK a \in Nat, b \in Nat, c \in Nat, d \in Nat : a = price[i].from /\ b = price[i].to /\ c = p.from /\ d = p.to
      BY <2>2
    <2> QED BY <2>2, <2>3, <2>4 DEF Meet
  <1> QED BY <1>1 DEF Clear

\* The table stays, and no request begins to wait with a change of it.
LEMMA RatesFrame ==
  ASSUME RatesKept, price' = price, coincided \subseteq coincided',
         \A q \in Tasks : task'[q].pc = "save" =>
            task[q].pc = "save" /\ task'[q].op = task[q].op /\ task'[q].id = task[q].id /\ task'[q].rate = task[q].rate,
         \A q \in Tasks : task'[q].op = "rateAdd" => task'[q].id = 0
  PROVE  RatesKept'
  <1>1. EditsApart' => EditsApart
    BY DEF EditsApart
  <1>2. ASSUME NEW q \in Tasks, task'[q].op \in {"rateAdd", "rateEdit"}, task'[q].pc = "save"
        PROVE  Offered(task'[q].rate) /\ (EditsApart' => Clear(task[q].rate, task[q].id)')
    <2>1. PICK p, i : p = task'[q].rate /\ i = task'[q].id /\ p = task[q].rate /\ i = task[q].id
      BY <1>2
    <2>2. Offered(p) /\ (EditsApart => Clear(p, i))
      BY <1>2, <2>1 DEF RatesKept
    <2>3. Clear(p, i)' <=> Clear(p, i)
      BY DEF Clear
    <2> QED BY <1>1, <2>1, <2>2, <2>3 DEF Clear
  <1>3. RatesDisjoint'
    BY DEF RatesKept, RatesDisjoint
  <1> QED BY <1>2, <1>3 DEF RatesKept

\* Every other request leaves the table alone.
LEMMA RatesMove ==
  ASSUME Typed, Typed', RatesKept, price' = price, coincided' = coincided, NEW t \in Tasks, Moves(t), task[t].op \notin Table
  PROVE  RatesKept'
  <1>1. task'[t].op = task[t].op /\ \A q \in Tasks : q # t => task'[q] = task[q]
    BY DEF Moves, SameRequest, OnlyTask
  <1>2. task'[t].pc # "save"
    <2>1. SUFFICES ASSUME task'[t].pc = "save" PROVE FALSE
      OBVIOUS
    <2>2. AtStep(task'[t].op, task'[t].pc)
      BY <2>1 DEF Typed, TasksTyped, GoodTask, Going
    <2> QED BY <1>1, <2>1, <2>2 DEF AtStep, Table
  <1>3. \A q \in Tasks : task'[q].op = "rateAdd" => task'[q].id = 0
    BY <1>1 DEF RatesKept, Table
  <1> QED BY <1>1, <1>2, <1>3, RatesFrame

\* A change of the table is checked and waits to be saved, or ends.
LEMMA RatesWait ==
  ASSUME Typed, RatesKept, price' = price, coincided' = coincided, NEW t \in Tasks, Moves(t), task[t].op \in Table,
         \/ task'[t].pc = "done" /\ task'[t].id = task[t].id
         \/ /\ task[t].op \in {"rateAdd", "rateEdit"} => Offered(task'[t].rate) /\ Clear(task'[t].rate, task'[t].id)
            /\ task'[t].id = IF task[t].op = "rateAdd" THEN 0 ELSE task'[t].id
            /\ task[t].op # "rateAdd" => task'[t].id \in RateIds
  PROVE  RatesKept'
  <1>1. task'[t].op = task[t].op /\ \A q \in Tasks : q # t => task'[q] = task[q]
    BY DEF Moves, SameRequest, OnlyTask
  <1>2. EditsApart' <=> EditsApart
    BY DEF EditsApart
  <1>3. ASSUME NEW q \in Tasks, task'[q].op \in {"rateAdd", "rateEdit"}, task'[q].pc = "save"
        PROVE  Offered(task'[q].rate) /\ (EditsApart' => Clear(task'[q].rate, task'[q].id))
    BY <1>1, <1>2, <1>3 DEF RatesKept
  <1>4. ASSUME NEW q \in Tasks, task'[q].op \in {"rateAdd", "rateEdit"}, task'[q].pc = "save"
        PROVE  Offered(task'[q].rate) /\ (EditsApart' => Clear(task[q].rate, task[q].id)')
    BY <1>3, <1>4 DEF Clear
  <1>5. \A q \in Tasks : task'[q].op = "rateAdd" => task'[q].id = 0
    BY <1>1 DEF RatesKept
  <1>6. \A q \in Tasks : task'[q].op \in {"rateEdit", "rateDrop"} /\ task'[q].pc = "save" => task'[q].id \in RateIds
    BY <1>1 DEF RatesKept
  <1>7. RatesDisjoint'
    BY DEF RatesKept, RatesDisjoint
  <1> QED BY <1>4, <1>5, <1>6, <1>7 DEF RatesKept

\* A change of the table is saved.
LEMMA RatesSet ==
  ASSUME Typed, MetKept, RatesKept, NEW t \in Tasks, Moves(t), Rest(t), task[t].op \in Table, task[t].pc = "save",
         task'[t].pc = "done", coincided' = coincided, NEW j \in RateIds, NEW p, PriceSet(j, p),
         \/ task[t].op = "rateDrop" /\ ~p.is
         \/ task[t].op \in {"rateAdd", "rateEdit"} /\ p = task[t].rate /\ task[t].id \in {0, j}
  PROVE  RatesKept'
  <1>1. task'[t].op = task[t].op /\ task'[t].id = task[t].id /\ \A q \in Tasks : q # t => task'[q] = task[q]
    BY DEF Moves, SameRequest, OnlyTask, Rest
  <1>2. EditsApart' <=> EditsApart
    BY DEF EditsApart
  <1>3. p.is => Offered(p) /\ (EditsApart => \A k \in RateIds \ {j} : price[k].is => ~Meet(price[k], p) /\ ~Meet(p, price[k]))
    <2>1. SUFFICES ASSUME p.is
                   PROVE  /\ Offered(p)
                          /\ EditsApart => \A k \in RateIds \ {j} : price[k].is => ~Meet(price[k], p) /\ ~Meet(p, price[k])
      OBVIOUS
    <2>2. task[t].op \in {"rateAdd", "rateEdit"} /\ p = task[t].rate /\ task[t].id \in {0, j}
      BY <2>1
    <2>3. Offered(p) /\ (EditsApart => Clear(p, task[t].id))
      BY <2>2 DEF RatesKept
    <2> QED BY <2>2, <2>3, LedgerNumbers DEF Clear
  <1>4. \A i \in RateIds : price'[i].is => Ordered(price'[i])
    BY <1>3 DEF RatesKept, PriceSet, Offered, Ordered
  <1>5. ASSUME NEW q \in Tasks, task'[q].op \in {"rateAdd", "rateEdit"}, task'[q].pc = "save"
        PROVE  Offered(task'[q].rate) /\ (EditsApart' => Clear(task[q].rate, task[q].id)')
    <2>1. q # t /\ task'[q] = task[q]
      BY <1>1, <1>5
    <2>2. PICK o, i : o = task[q].rate /\ i = task[q].id
      OBVIOUS
    <2>3. Offered(o) /\ (EditsApart => Clear(o, i))
      BY <1>5, <2>1, <2>2 DEF RatesKept
    <2>4. ASSUME EditsApart PROVE Clear(o, i)'
      <3>1. {task[t].op, task[q].op} \in coincided
        BY <1>5, <2>1, Together DEF Going
      <3>2. task[t].op \notin {"rateAdd", "rateEdit"}
        BY <1>5, <2>1, <2>4, <3>1 DEF EditsApart
      <3>3. \A k \in RateIds : price'[k].is => price'[k] = price[k]
        BY <3>2 DEF PriceSet
      <3>4. Clear(o, i)
        BY <2>3, <2>4
      <3> QED BY <3>3, <3>4 DEF Clear
    <2> QED BY <1>2, <2>1, <2>2, <2>3, <2>4 DEF Clear
  <1>6. \A q \in Tasks : task'[q].op = "rateAdd" => task'[q].id = 0
    BY <1>1 DEF RatesKept
  <1>7. \A q \in Tasks : task'[q].op \in {"rateEdit", "rateDrop"} /\ task'[q].pc = "save" => task'[q].id \in RateIds
    BY <1>1 DEF RatesKept
  <1>8. RatesDisjoint'
    <2>1. ASSUME EditsApart, NEW i \in RateIds, NEW k \in RateIds, i # k, price'[i].is, price'[k].is, Meet(price'[i], price'[k])
          PROVE  FALSE
      <3>1. CASE i = j
        BY <1>3, <2>1, <3>1 DEF PriceSet
      <3>2. CASE k = j
        BY <1>3, <2>1, <3>2 DEF PriceSet
      <3>3. CASE i # j /\ k # j
        <4>1. price'[i] = price[i] /\ price'[k] = price[k]
          BY <3>3 DEF PriceSet
        <4> QED BY <2>1, <4>1 DEF RatesKept, RatesDisjoint, EditsApart
      <3> QED BY <3>1, <3>2, <3>3
    <2>2. ~EditsApart => \E pair \in coincided' : pair \subseteq {"rateAdd", "rateEdit"}
      BY DEF EditsApart
    <2> QED BY <2>1, <2>2 DEF RatesDisjoint
  <1> QED BY <1>4, <1>5, <1>6, <1>7, <1>8 DEF RatesKept

LEMMA RatesTable ==
  ASSUME LedgerInv, NEW t \in Tasks, CreateRate(t) \/ UpdateRate(t) \/ DeleteRate(t)
  PROVE  RatesKept'
  <1>0. Typed /\ MetKept /\ RatesKept
    BY DEF LedgerInv
  <1>a. \A w : Ends(t, w) => Moves(t) /\ Rest(t) /\ task'[t].pc = "done" /\ task'[t].id = task[t].id
    BY DEF Ends, Rest
  <1>b. \A p, i : Saves(t, p, i) => Moves(t) /\ task'[t].rate = p /\ task'[t].id = i
    BY DEF Saves
  <1>1. ASSUME CreateRate(t) PROVE RatesKept'
    <2>1. /\ coincided' = coincided /\ task[t].op = "rateAdd"
          /\ \/ price' = price /\ \E w \in Answers : Ends(t, w)
             \/ price' = price
                /\ \E p \in Rate : Offered(p) /\ ~rateOverlaps(p, 0) /\ Saves(t, p, task[t].id)
             \/ task[t].pc = "save" /\ Ends(t, "ok") /\ \E j \in RateIds : PriceSet(j, task[t].rate)
      BY <1>0, <1>1, CreateRateEffect DEF AllButPrices
    <2>2. task[t].op \in Table /\ task[t].id = 0
      BY <1>0, <2>1 DEF Table, RatesKept
    <2>3. CASE price' = price /\ \E w \in Answers : Ends(t, w)
      BY <1>0, <1>a, <2>1, <2>2, <2>3, RatesWait
    <2>4. ASSUME price' = price, NEW p \in Rate, Offered(p), ~rateOverlaps(p, 0), Saves(t, p, task[t].id) PROVE RatesKept'
      <3>1. Clear(p, 0) /\ Moves(t) /\ task'[t].rate = p /\ task'[t].id = 0
        BY <1>0, <1>b, <2>2, <2>4, ClearNow
      <3> QED BY <1>0, <2>1, <2>2, <2>4, <3>1, RatesWait
    <2>5. ASSUME task[t].pc = "save", Ends(t, "ok"), NEW j \in RateIds, PriceSet(j, task[t].rate) PROVE RatesKept'
      BY <1>0, <1>a, <2>1, <2>2, <2>5, RatesSet
    <2> QED BY <2>1, <2>3, <2>4, <2>5
  <1>2. ASSUME UpdateRate(t) PROVE RatesKept'
    <2>0. task[t].op = "rateEdit" /\ task[t].op \in Table
      BY <1>2 DEF UpdateRate, Table
    <2>1. /\ coincided' = coincided
          /\ \/ price' = price /\ \E w \in Answers : Ends(t, w)
             \/ price' = price /\ \E i \in RateIds, p \in Rate : Offered(p) /\ ~rateOverlaps(p, i) /\ Saves(t, p, i)
             \/ task[t].pc = "save" /\ task[t].id \in RateIds /\ Ends(t, "ok") /\ PriceSet(task[t].id, task[t].rate)
      BY <1>0, <1>2, <2>0, SavedId, UpdateRateEffect DEF AllButPrices
    <2>3. CASE price' = price /\ \E w \in Answers : Ends(t, w)
      BY <1>0, <1>a, <2>0, <2>1, <2>3, RatesWait
    <2>4. ASSUME price' = price, NEW i \in RateIds, NEW p \in Rate, Offered(p), ~rateOverlaps(p, i), Saves(t, p, i) PROVE RatesKept'
      <3>1. Clear(p, i) /\ Moves(t) /\ task'[t].rate = p /\ task'[t].id = i
        BY <1>0, <1>b, <2>4, ClearNow
      <3> QED BY <1>0, <2>0, <2>1, <2>4, <3>1, RatesWait
    <2>5. CASE task[t].pc = "save" /\ task[t].id \in RateIds /\ Ends(t, "ok") /\ PriceSet(task[t].id, task[t].rate)
      BY <1>0, <1>a, <2>0, <2>1, <2>5, RatesSet
    <2> QED BY <2>1, <2>3, <2>4, <2>5
  <1>3. ASSUME DeleteRate(t) PROVE RatesKept'
    <2>0. task[t].op = "rateDrop" /\ task[t].op \in Table
      BY <1>3 DEF DeleteRate, Table
    <2>1. /\ coincided' = coincided
          /\ \/ price' = price /\ \E w \in Answers : Ends(t, w)
             \/ price' = price /\ \E i \in RateIds : Saves(t, task[t].rate, i)
             \/ task[t].pc = "save" /\ task[t].id \in RateIds /\ Ends(t, "ok") /\ PriceSet(task[t].id, NoRate)
      BY <1>0, <1>3, <2>0, SavedId, DeleteRateEffect DEF AllButPrices
    <2>3. CASE price' = price /\ \E w \in Answers : Ends(t, w)
      BY <1>0, <1>a, <2>0, <2>1, <2>3, RatesWait
    <2>4. ASSUME price' = price, NEW i \in RateIds, Saves(t, task[t].rate, i) PROVE RatesKept'
      <3>1. Moves(t) /\ task'[t].id = i
        BY <1>b, <2>4
      <3> QED BY <1>0, <2>0, <2>1, <2>4, <3>1, RatesWait
    <2>5. CASE task[t].pc = "save" /\ task[t].id \in RateIds /\ Ends(t, "ok") /\ PriceSet(task[t].id, NoRate)
      <3>1. ~NoRate.is
        BY DEF NoRate
      <3> QED BY <1>0, <1>a, <2>0, <2>1, <2>5, <3>1, RatesSet
    <2> QED BY <2>1, <2>3, <2>4, <2>5
  <1> QED BY <1>1, <1>2, <1>3

LEMMA RatesNext ==
  ASSUME LedgerInv, UsageNext
  PROVE  RatesKept'
  <1>0. Typed /\ PostsKept /\ RatesKept /\ Typed'
    BY EveryStep DEF LedgerInv
  <1> DEFINE Plain(t) == price' = price /\ coincided' = coincided /\ Moves(t) /\ task[t].op \notin Table
  <1>1. ASSUME NEW t \in Tasks, BeginTask(t) PROVE RatesKept'
    <2>1. Begins(t) /\ price' = price
      BY <1>0, <1>1, BeginEffect DEF Begins
    <2>2. /\ coincided \subseteq coincided' /\ task'[t].pc # "save" /\ task'[t].id = 0 /\ \A q \in Tasks : q # t => task'[q] = task[q]
      BY <1>0, <2>1, NotBegun DEF Begins, OnlyTask, Rest, Typed
    <2>3. \A q \in Tasks : task'[q].op = "rateAdd" => task'[q].id = 0
      BY <1>0, <2>2 DEF RatesKept
    <2> QED BY <1>0, <2>1, <2>2, <2>3, RatesFrame
  <1>2. ASSUME task' = task, UNCHANGED <<price, coincided>> PROVE RatesKept'
    <2>1. \A q \in Tasks : task'[q].op = "rateAdd" => task'[q].id = 0
      BY <1>0, <1>2 DEF RatesKept
    <2> QED BY <1>0, <1>2, <2>1, RatesFrame
  <1>3. ASSUME NEW s \in Servers, ReadSwitch(s) \/ RememberSwitch(s) PROVE RatesKept'
    BY <1>0, <1>2, <1>3, CacheEffect
  <1>4. ASSUME DayPasses PROVE RatesKept'
    BY <1>0, <1>2, <1>4, DayEffect
  <1>5. ASSUME NEW t \in Tasks, CreatePost(t) \/ RecordUsage(t) PROVE Plain(t)
    BY <1>0, <1>5, CreateEffect, RecordUsageEffect DEF World, Goes, Ends, Posting, Table
  <1>6. ASSUME NEW t \in Tasks, FinalizeSend(t) \/ SendRefused(t) PROVE Plain(t)
    BY <1>0, <1>6, FinalizeEffect, SendRefusedEffect DEF World, Goes, Ends, Table
  <1>7. ASSUME NEW t \in Tasks, AttachRead(t) PROVE Plain(t)
    BY <1>0, <1>7, AttachReadEffect DEF World, Goes, Ends, Table
  <1>8. ASSUME NEW t \in Tasks, AttachLost(t) PROVE Plain(t)
    <2>1. UNCHANGED World /\ Ends(t, "unattached") /\ task[t].pc = "attach"
      BY <1>0, <1>8, AttachLostEffect
    <2>2. task[t].op \in {"send", "echo"}
      BY <1>0, <2>1, OpOf DEF Typed
    <2> QED BY <2>1, <2>2 DEF World, Ends, Table
  <1>9. ASSUME NEW t \in Tasks, AttachLink(t) PROVE Plain(t)
    <2>1. own[task[t].m].is
      BY <1>9, LinkedOwn DEF AttachLink
    <2> QED BY <1>0, <1>9, <2>1, AttachLinkEffect DEF World, Goes, Ends, Table
  <1>10. ASSUME NEW t \in Tasks, SettleOne(t) \/ RecordStatusEvent(t) PROVE Plain(t)
    BY <1>0, <1>10, SettleOneEffect, EventEffect DEF World, Goes, Ends, Table
  <1>11. ASSUME NEW t \in Tasks, SweepStarts(t) \/ SweepMissing(t) PROVE Plain(t)
    BY <1>0, <1>11, SweepStartsEffect, SweepMissingEffect DEF World, Ends, Table
  <1>12. ASSUME NEW t \in Tasks, InferRow(t) \/ InferState(t) PROVE Plain(t)
    BY <1>0, <1>12, InferRowEffect, InferStateEffect DEF World, Goes, Takes, Table
  <1>13. ASSUME NEW t \in Tasks, SweepUnlinked(t) \/ InsertUnlinked(t) \/ SettleUnlinked(t) PROVE Plain(t)
    BY <1>0, <1>13, SweepUnlinkedEffect, InsertUnlinkedEffect, SettleUnlinkedEffect DEF World, Goes, Takes, Lists, Table
  <1>14. ASSUME NEW t \in Tasks, SweepPending(t) \/ Reprice(t) \/ Resettle(t) PROVE Plain(t)
    BY <1>0, <1>14, SweepPendingEffect, RepriceEffect, ResettleEffect DEF World, Ends, Lists, Table
  <1>15. ASSUME NEW t \in Tasks, SwitchRecording(t) PROVE Plain(t)
    BY <1>0, <1>15, SwitchEffect DEF Ends, Table
  <1>16. ASSUME NEW t \in Tasks, Plain(t) PROVE RatesKept'
    BY <1>0, <1>16, RatesMove
  <1>17. ASSUME NEW t \in Tasks,
               \/ BeginTask(t) \/ CreatePost(t) \/ RecordUsage(t) \/ FinalizeSend(t) \/ SendRefused(t) \/ AttachRead(t) \/ AttachLost(t)
               \/ AttachLink(t) \/ SettleOne(t) \/ RecordStatusEvent(t) \/ SweepStarts(t) \/ SweepMissing(t) \/ InferRow(t)
               \/ InferState(t) \/ SweepUnlinked(t) \/ InsertUnlinked(t) \/ SettleUnlinked(t) \/ SweepPending(t) \/ Resettle(t)
               \/ Reprice(t) \/ SwitchRecording(t) \/ CreateRate(t) \/ UpdateRate(t) \/ DeleteRate(t)
        PROVE  RatesKept'
    <2> HIDE DEF Plain
    <2> QED BY <1>0, <1>1, <1>17, RatesTable, <1>5, <1>6, <1>7, <1>8, <1>9, <1>10, <1>11, <1>12, <1>13, <1>14, <1>15, <1>16
  <1> QED BY <1>3, <1>4, <1>17 DEF UsageNext

-------------------------------------------------------------------------------
(* Ledger: while the switch is not touched *)

Calm(m) == Says(own[m], m, Unsettled(m)) /\ Says(orphan[m], m, Awaited(m))
\* A request stops to be the one that somebody waits for.
Deserts(t, m) == Leaves(t, m) \/ (task[t].pc = "adopted" /\ task[t].cur.m = m)
DueOf(t) ==
    /\ task[t].pc \in {"sweep", "missing"} => task[t].due = {}
    /\ task[t].pc \in {"infer", "inferred"} =>
         \A m \in task[t].due : own[m].is \/ \E x \in task[t].list : x.m = m
    /\ task[t].pc \in {"unlinked", "adopt", "adopted", "pending", "resettle", "done"} => \A m \in task[t].due : own[m].is
OwnStays == \A x \in Posts : own[x].is => own'[x].is

LEMMA CalmBefore ==
  ASSUME LedgerInv, UsageNext, ~Flipped'
  PROVE  /\ ~Flipped /\ NoneOff /\ (\A s \in Servers : kept[s] # "off" /\ asked[s] # "off")
         /\ (\A q \in Tasks : task[q].op = "sweep" => DueOf(q)) /\ \A m \in Posts : Calm(m)
  <1>1. Typed /\ CalmKept
    BY DEF LedgerInv
  <1>2. ~Flipped
    BY <1>1, EveryStep, StaysFlipped
  <1>3. NoneOff /\ DueKept /\ \A m \in Posts : Calm(m)
    BY <1>1, <1>2 DEF CalmKept, Calm
  <1> QED BY <1>2, <1>3 DEF NoneOff, DueKept, DueOf

LEMMA WaitStays ==
  ASSUME Typed, NEW t \in Tasks, Moves(t), NEW m, ~Deserts(t, m)
  PROVE  (Unsettled(m) => Unsettled(m)') /\ (Awaited(m) => Awaited(m)')
  <1>1. Unsettled(m) => Unsettled(m)'
    BY UnsettledStays DEF Deserts
  <1>2. ASSUME Awaited(m) PROVE Awaited(m)'
    <2>1. task[t].said = "" /\ \A q \in Tasks : q # t => task'[q] = task[q]
      BY OpOf DEF Moves, OnlyTask, Typed
    <2>2. CASE \E q \in Tasks : task[q].m = m /\ (task[q].pc = "settle" \/ task[q].said = "stopped")
      <3>1. PICK q \in Tasks : task[q].m = m /\ (task[q].pc = "settle" \/ task[q].said = "stopped")
        BY <2>2
      <3>2. q # t
        BY <2>1, <3>1 DEF Deserts, Leaves
      <3> QED BY <2>1, <3>1, <3>2 DEF Awaited
    <2>3. CASE \E q \in Tasks : task[q].pc = "adopted" /\ task[q].cur.m = m
      <3>1. PICK q \in Tasks : task[q].pc = "adopted" /\ task[q].cur.m = m
        BY <2>3
      <3>2. q # t
        BY <3>1 DEF Deserts
      <3> QED BY <2>1, <3>1, <3>2 DEF Awaited
    <2> QED BY <1>2, <2>2, <2>3 DEF Awaited
  <1> QED BY <1>1, <1>2

LEMMA CalmStays ==
  ASSUME NEW m, Calm(m), own'[m] = own[m], orphan'[m] = orphan[m], told'[m] = told[m],
         (Unsettled(m) => Unsettled(m)') /\ (Awaited(m) => Awaited(m)')
  PROVE  Calm(m)'
  BY DEF Calm, Says

\* A row that is settled says what its events say.
LEMMA CalmSettled ==
  ASSUME Typed, NEW m \in Posts, Calm(m), AllSettled(m), told'[m] = told[m],
         HasDecided(m) \/ ((Unsettled(m) => Unsettled(m)') /\ (Awaited(m) => Awaited(m)'))
  PROVE  Calm(m)'
  <1>1. RowSettled(own[m], own'[m], m) /\ RowSettled(orphan[m], orphan'[m], m) /\ (orphan[m].is => orphan[m].wamid)
    BY DEF AllSettled, Typed, RowsTyped
  <1>2. Says(own[m], m, Unsettled(m))'
    <2>1. CASE own'[m] = own[m]
      BY <1>1, <2>1 DEF Calm, Says, HasDecided, Decided
    <2>2. CASE own'[m] # own[m]
      BY <1>1, <2>2 DEF RowSettled, Decided, Says
    <2> QED BY <2>1, <2>2
  <1>3. Says(orphan[m], m, Awaited(m))'
    <2>1. CASE orphan'[m] = orphan[m]
      BY <1>1, <2>1 DEF Calm, Says, HasDecided, Decided
    <2>2. CASE orphan'[m] # orphan[m]
      BY <1>1, <2>2 DEF RowSettled, Decided, Says
    <2> QED BY <2>1, <2>2
  <1> QED BY <1>2, <1>3 DEF Calm, Says

\* The row of the message waits to be settled, or has no identifier, or is a customer's.
LEMMA CalmRow ==
  ASSUME NEW m, Calm(m), told'[m] = told[m],
         Unsettled(m)' \/ ~own'[m].wamid \/ ~own'[m].out,
         ~orphan'[m].is \/ (orphan'[m] = orphan[m] /\ (Awaited(m) => Awaited(m)'))
  PROVE  Calm(m)'
  BY DEF Calm, Says

LEMMA OthersCalm ==
  ASSUME Typed, NEW t \in Tasks, Moves(t), NEW m \in Posts, Others(m), \A x \in Posts : x # m => ~Deserts(t, x),
         \A x \in Posts : x # m => told'[x] = told[x], \A x \in Posts : Calm(x), Calm(m)'
  PROVE  \A x \in Posts : Calm(x)'
  <1>1. ASSUME NEW x \in Posts, x # m PROVE Calm(x)'
    <2>1. (Unsettled(x) => Unsettled(x)') /\ (Awaited(x) => Awaited(x)')
      BY <1>1, WaitStays
    <2> QED BY <1>1, <2>1, CalmStays DEF Others
  <1> QED BY <1>1

LEMMA AllCalm ==
  ASSUME Typed, NEW t \in Tasks, Moves(t), RowsSame, told' = told, \A x \in Posts : ~Deserts(t, x), \A x \in Posts : Calm(x)
  PROVE  \A x \in Posts : Calm(x)'
  <1>1. ASSUME NEW x \in Posts PROVE Calm(x)'
    <2>1. (Unsettled(x) => Unsettled(x)') /\ (Awaited(x) => Awaited(x)')
      BY <1>1, WaitStays
    <2> QED BY <1>1, <2>1, CalmStays DEF RowsSame
  <1> QED BY <1>1

\* No row of a message goes.
LEMMA RowsStay ==
  /\ RowsSame => OwnStays
  /\ \A m \in Posts : AllSettled(m) \/ RefusedRow(m) \/ Linked(m) \/ Adopted(m) \/ Inserted(m) => OwnStays
  /\ \A m \in Posts : \A out, wamid, at : Recorded(m, out, wamid, at) => OwnStays
  <1>1. RowsSame => OwnStays
    BY DEF RowsSame, OwnStays
  <1>2. ASSUME NEW m \in Posts, AllSettled(m) PROVE OwnStays
    BY <1>2, SettledPlaced DEF OwnStays
  <1>3. ASSUME NEW m \in Posts, RefusedRow(m) \/ Linked(m) \/ Adopted(m) \/ Inserted(m) PROVE OwnStays
    BY <1>3 DEF OwnStays, RefusedRow, Linked, Adopted, Inserted, Others
  <1>4. ASSUME NEW m \in Posts, NEW out, NEW wamid, NEW at, Recorded(m, out, wamid, at) PROVE OwnStays
    BY <1>4 DEF OwnStays, Recorded
  <1> QED BY <1>1, <1>2, <1>3, <1>4

CalmDone(t) ==
    /\ UNCHANGED <<panel, kept, asked>> /\ Moves(t) /\ OwnStays /\ (task[t].op = "sweep" => DueOf(t)')
    /\ \A x \in Posts : Calm(x)'

LEMMA CalmFrame ==
  ASSUME LedgerInv, UsageNext, ~Flipped', NEW t \in Tasks, CalmDone(t)
  PROVE  CalmKept'
  <1>0. Typed /\ CalmKept /\ NoneOff /\ \A q \in Tasks : task[q].op = "sweep" => DueOf(q)
    BY CalmBefore DEF LedgerInv
  <1>1. NoneOff'
    BY <1>0 DEF NoneOff, CalmDone
  <1>2. ASSUME NEW q \in Tasks, task'[q].op = "sweep" PROVE DueOf(q)'
    <2>1. CASE q = t
      BY <1>2, <2>1 DEF CalmDone, Moves, SameRequest
    <2>2. CASE q # t
      <3>1. task'[q] = task[q] /\ task[q].due \subseteq Posts
        BY <1>0, <2>2 DEF CalmDone, Moves, OnlyTask, Typed, TasksTyped, TaskRecord
      <3> QED BY <1>0, <1>2, <3>1 DEF DueOf, CalmDone, OwnStays
    <2> QED BY <2>1, <2>2
  <1>3. DueKept'
    BY <1>2 DEF DueKept, DueOf
  <1> QED BY <1>1, <1>3 DEF CalmKept, CalmDone, Calm

\* A request writes its message, records it, and hears from the API.
LEMMA CalmSend ==
  ASSUME LedgerInv, UsageNext, ~Flipped', NEW t \in Tasks,
         CreatePost(t) \/ RecordUsage(t) \/ FinalizeSend(t) \/ SendRefused(t)
  PROVE  CalmDone(t)
  <1>0. Typed /\ Typed' /\ PostsKept /\ LinksKept /\ \A x \in Posts : Calm(x)
    BY EveryStep, CalmBefore DEF LedgerInv
  <1>1. ASSUME CreatePost(t) PROVE CalmDone(t)
    <2>1. /\ RowsSame /\ UNCHANGED <<told, panel, kept, asked>> /\ task[t].pc = "create" /\ task[t].op \in Posting /\ Moves(t)
      BY <1>0, <1>1, CreateEffect DEF Goes
    <2>2. \A x \in Posts : Calm(x)'
      BY <1>0, <2>1, AllCalm DEF Deserts, Leaves
    <2> QED BY <2>1, <2>2, RowsStay DEF CalmDone, Posting
  <1>2. ASSUME RecordUsage(t) PROVE CalmDone(t)
    <2>0. PICK m \in Posts : m = task[t].m
      BY <1>0, <1>2, RecordUsageEffect
    <2>1. /\ UNCHANGED <<told, panel, kept, asked>> /\ task[t].pc = "record" /\ task[t].op \in Posting /\ m \in Posts /\ Moves(t)
          /\ RowsSame \/ Recorded(m, post[m].out, post[m].wamid, post[m].at)
          /\ task[t].op = "echo" => task'[t].pc = "attach" /\ task'[t].m = m
      BY <1>0, <1>2, <2>0, RecordUsageEffect DEF World, Goes, Ends, Posting, Moves, SameRequest
    <2>2. \A x \in Posts : ~Deserts(t, x)
      BY <2>1 DEF Deserts, Leaves
    <2>3. CASE RowsSame
      <3>1. \A x \in Posts : Calm(x)'
        BY <1>0, <2>1, <2>2, <2>3, AllCalm
      <3> QED BY <2>1, <2>3, <3>1, RowsStay DEF CalmDone, Posting
    <2>4. CASE Recorded(m, post[m].out, post[m].wamid, post[m].at)
      <3>1. Unsettled(m)' \/ ~own'[m].wamid \/ ~own'[m].out
        <4>1. CASE task[t].op = "send"
          <5>1. ~post[m].wamid
            BY <1>0, <2>0, <2>1, <4>1 DEF LinksKept, GoodSend
          <5> QED BY <2>4, <5>1 DEF Recorded, Fresh
        <4>2. CASE task[t].op = "receive"
          <5>1. ~post[m].out
            BY <1>0, <2>0, <2>1, <4>2 DEF PostsKept, Written
          <5> QED BY <2>4, <5>1 DEF Recorded, Fresh, Adopts
        <4>3. CASE task[t].op = "echo"
          BY <2>1, <4>3 DEF Unsettled
        <4> QED BY <2>1, <4>1, <4>2, <4>3 DEF Posting
      <3>2. ~orphan'[m].is \/ (orphan'[m] = orphan[m] /\ (Awaited(m) => Awaited(m)'))
        <4>1. Awaited(m) => Awaited(m)'
          BY <1>0, <2>1, <2>2, WaitStays
        <4> QED BY <2>4, <4>1 DEF Recorded
      <3>3. Calm(m)'
        BY <1>0, <2>1, <3>1, <3>2, CalmRow
      <3>4. Others(m)
        BY <2>4 DEF Recorded, Others
      <3>5. \A x \in Posts : Calm(x)'
        BY <1>0, <2>1, <2>2, <3>3, <3>4, OthersCalm
      <3> QED BY <2>1, <2>4, <3>5, RowsStay DEF CalmDone, Posting
    <2> QED BY <2>1, <2>3, <2>4
  <1>3. ASSUME FinalizeSend(t) PROVE CalmDone(t)
    <2>1. /\ RowsSame /\ UNCHANGED <<told, panel, kept, asked>> /\ task[t].pc = "api" /\ task[t].op = "send" /\ Moves(t)
      BY <1>0, <1>3, FinalizeEffect DEF Goes
    <2>2. \A x \in Posts : Calm(x)'
      BY <1>0, <2>1, AllCalm DEF Deserts, Leaves
    <2> QED BY <2>1, <2>2, RowsStay DEF CalmDone
  <1>4. ASSUME SendRefused(t) PROVE CalmDone(t)
    <2>0. PICK m \in Posts : m = task[t].m
      BY <1>0, <1>4, SendRefusedEffect
    <2>1. /\ UNCHANGED <<told, panel, kept, asked>> /\ task[t].pc = "refused" /\ task[t].op = "send" /\ m \in Posts /\ Moves(t)
          /\ RowsSame \/ RefusedRow(m)
      BY <1>0, <1>4, <2>0, SendRefusedEffect DEF World, Ends
    <2>2. \A x \in Posts : ~Deserts(t, x)
      BY <2>1 DEF Deserts, Leaves
    <2>3. ASSUME RowsSame PROVE \A x \in Posts : Calm(x)'
      BY <1>0, <2>1, <2>2, <2>3, AllCalm
    <2>4. ASSUME RefusedRow(m) PROVE \A x \in Posts : Calm(x)'
      <3>1. Awaited(m) => Awaited(m)'
        BY <1>0, <2>1, <2>2, WaitStays
      <3>2. Calm(m)' /\ Others(m)
        BY <1>0, <2>1, <2>4, <3>1, CalmRow DEF RefusedRow
      <3> QED BY <1>0, <2>1, <2>2, <3>2, OthersCalm
    <2>5. OwnStays /\ \A x \in Posts : Calm(x)'
      BY <2>1, <2>3, <2>4, RowsStay
    <2> QED BY <2>1, <2>5 DEF CalmDone
  <1> QED BY <1>1, <1>2, <1>3, <1>4

\* ... and takes its identifier.
LEMMA CalmAttach ==
  ASSUME LedgerInv, UsageNext, ~Flipped', NEW t \in Tasks, AttachRead(t) \/ AttachLost(t) \/ AttachLink(t)
  PROVE  CalmDone(t)
  <1>0. /\ Typed /\ Typed' /\ (\A x \in Posts : Calm(x)) /\ \A s \in Servers : kept[s] # "off"
    BY EveryStep, CalmBefore DEF LedgerInv
  <1>m. PICK m \in Posts : m = task[t].m
    <2>1. task[t].pc \in {"attach", "link"}
      BY DEF AttachRead, AttachLost, AttachLink
    <2> QED BY <1>0, <2>1, Begun DEF Typed
  <1> DEFINE Tied == /\ UNCHANGED <<told, panel, kept, asked>> /\ Moves(t) /\ task[t].op \in {"send", "echo"}
                     /\ task[t].pc \in {"attach", "link"} /\ OwnStays /\ Others(m)
                     /\ Unsettled(m)' \/ ~own'[m].wamid \/ (own'[m] = own[m] /\ task[t].pc = "link")
                     /\ ~orphan'[m].is \/ orphan'[m] = orphan[m]
  <1>1. ASSUME AttachRead(t) PROVE Tied
    <2>1. /\ UNCHANGED World /\ task[t].pc = "attach" /\ task[t].op \in {"send", "echo"} /\ m \in Posts
          /\ \/ RowsSame /\ Goes(t, "settle")
             \/ Adopted(m) /\ Goes(t, "settle")
             \/ ~own[m].wamid /\ RowsSame /\ Moves(t)
      BY <1>0, <1>m, <1>1, AttachReadEffect
    <2>2. Goes(t, "settle") => Moves(t) /\ Unsettled(m)'
      BY <1>m DEF Goes, Moves, SameRequest, Unsettled
    <2>3. OwnStays
      BY <2>1, RowsStay
    <2> QED BY <2>1, <2>2, <2>3 DEF World, Adopted, Others, RowsSame
  <1>2. ASSUME AttachLost(t) PROVE Tied
    <2>1. UNCHANGED World /\ RowsSame /\ task[t].pc = "attach" /\ m \in Posts /\ Ends(t, "unattached")
      BY <1>0, <1>m, <1>2, AttachLostEffect
    <2>2. task[t].op \in {"send", "echo"}
      BY <1>0, <2>1, OpOf DEF Typed
    <2>3. Moves(t) /\ Unsettled(m)'
      BY <1>m, <2>1 DEF Ends, Moves, SameRequest, Unsettled
    <2> QED BY <2>1, <2>2, <2>3, RowsStay DEF World, Others, RowsSame
  <1>3. ASSUME AttachLink(t) PROVE Tied
    <2>0. own[m].is
      BY <1>m, <1>3, LinkedOwn DEF AttachLink
    <2>1. /\ UNCHANGED World /\ task[t].pc = "link" /\ task[t].op \in {"send", "echo"} /\ m \in Posts /\ Moves(t)
          /\ RowsSame \/ (Linked(m) /\ Goes(t, "settle"))
      BY <1>0, <1>m, <1>3, <2>0, AttachLinkEffect DEF Goes, Ends
    <2>2. Goes(t, "settle") => Unsettled(m)'
      BY <1>m DEF Goes, Moves, SameRequest, Unsettled
    <2> QED BY <2>1, <2>2, RowsStay DEF World, Linked, Others, RowsSame
  <1>4. Tied
    BY <1>1, <1>2, <1>3
  <1>5. /\ \A x \in Posts : x # m => ~Deserts(t, x)
        /\ task[t].pc = "link" => ~Deserts(t, m)
    BY <1>m, <1>4 DEF Deserts, Leaves
  <1>6. Awaited(m) => Awaited(m)'
    <2>1. SUFFICES ASSUME Awaited(m) PROVE Awaited(m)'
      OBVIOUS
    <2>2. task[t].said = "" /\ \A q \in Tasks : q # t => task'[q] = task[q]
      BY <1>0, <1>4, OpOf DEF Moves, OnlyTask, Typed
    <2>3. PICK q \in Tasks : \/ task[q].m = m /\ (task[q].pc = "settle" \/ task[q].said = "stopped")
                             \/ task[q].pc = "adopted" /\ task[q].cur.m = m
      BY <2>1 DEF Awaited
    <2>4. q # t
      BY <1>4, <2>2, <2>3
    <2> QED BY <2>2, <2>3, <2>4 DEF Awaited
  <1>7. Calm(m)'
    <2>1. CASE Unsettled(m)' \/ ~own'[m].wamid
      BY <1>0, <1>4, <1>6, <2>1, CalmRow
    <2>2. CASE own'[m] = own[m] /\ task[t].pc = "link"
      <3>1. Unsettled(m) => Unsettled(m)'
        BY <1>0, <1>4, <1>5, <2>2, WaitStays
      <3> QED BY <1>0, <1>4, <1>6, <2>2, <3>1 DEF Calm, Says
    <2> QED BY <1>4, <2>1, <2>2
  <1>8. \A x \in Posts : Calm(x)'
    BY <1>0, <1>4, <1>5, <1>7, OthersCalm
  <1> QED BY <1>4, <1>8 DEF CalmDone

\* A row is settled, or the server stops before; an event is appended.
LEMMA CalmEvent ==
  ASSUME LedgerInv, UsageNext, ~Flipped', NEW t \in Tasks, SettleOne(t) \/ RecordStatusEvent(t)
  PROVE  CalmDone(t)
  <1>0. /\ Typed /\ Typed' /\ (\A x \in Posts : Calm(x)) /\ \A s \in Servers : kept[s] # "off"
    BY EveryStep, CalmBefore DEF LedgerInv
  <1>m. PICK m \in Posts : m = task[t].m
    <2>1. task[t].pc \in {"settle", "append"}
      BY DEF SettleOne, RecordStatusEvent
    <2> QED BY <1>0, <2>1, Begun DEF Typed
  <1>1. ASSUME SettleOne(t) PROVE CalmDone(t)
    <2>1. /\ UNCHANGED <<told, panel, kept, asked>> /\ task[t].pc = "settle" /\ task[t].op # "sweep" /\ m \in Posts /\ Moves(t)
          /\ \/ AllSettled(m) /\ HasDecided(m)
             \/ task'[t].said = "stopped" /\ task'[t].m = m /\ RowsSame
      BY <1>0, <1>m, <1>1, SettleOneEffect DEF World, Ends, Moves, SameRequest
    <2>2. \A x \in Posts : x # m => ~Deserts(t, x)
      BY <1>m, <2>1 DEF Deserts, Leaves
    <2>3. Calm(m)' /\ Others(m) /\ OwnStays
      <3>1. CASE AllSettled(m) /\ HasDecided(m)
        BY <1>0, <2>1, <3>1, CalmSettled, RowsStay DEF AllSettled, Others
      <3>2. CASE task'[t].said = "stopped" /\ task'[t].m = m /\ RowsSame
        <4>1. Unsettled(m)' /\ Awaited(m)'
          BY <3>2 DEF Unsettled, Awaited
        <4> QED BY <1>0, <2>1, <3>2, <4>1, CalmStays, RowsStay DEF RowsSame, Others
      <3> QED BY <2>1, <3>1, <3>2
    <2>4. \A x \in Posts : Calm(x)'
      BY <1>0, <2>1, <2>2, <2>3, OthersCalm
    <2> QED BY <2>1, <2>3, <2>4 DEF CalmDone
  <1>2. ASSUME RecordStatusEvent(t) PROVE CalmDone(t)
    <2>1. /\ UNCHANGED <<panel, kept, asked>> /\ task[t].pc = "append" /\ task[t].op # "sweep" /\ m \in Posts /\ Moves(t) /\ RowsSame
          /\ \A x \in Posts : x # m => told'[x] = told[x]
          /\ (task'[t].pc = "settle" /\ task'[t].m = m) \/ told' = told
      BY <1>0, <1>m, <1>2, EventEffect DEF Goes, Ends, Moves, SameRequest
    <2>2. \A x \in Posts : ~Deserts(t, x)
      BY <1>m, <2>1 DEF Deserts, Leaves
    <2>3. ASSUME told' = told PROVE \A x \in Posts : Calm(x)'
      BY <1>0, <2>1, <2>2, <2>3, AllCalm
    <2>4. ASSUME task'[t].pc = "settle", task'[t].m = m PROVE \A x \in Posts : Calm(x)'
      <3>1. Unsettled(m)' /\ Awaited(m)'
        BY <2>4 DEF Unsettled, Awaited
      <3>2. Calm(m)' /\ Others(m)
        BY <2>1, <3>1 DEF Calm, Says, RowsSame, Others
      <3> QED BY <1>0, <2>1, <2>2, <3>2, OthersCalm
    <2>5. OwnStays /\ \A x \in Posts : Calm(x)'
      BY <2>1, <2>3, <2>4, RowsStay
    <2> QED BY <2>1, <2>5 DEF CalmDone
  <1> QED BY <1>1, <1>2

\* The integrity job records a message that it found, and settles the row.
LEMMA CalmInfer ==
  ASSUME LedgerInv, UsageNext, ~Flipped', NEW t \in Tasks, InferRow(t) \/ InferState(t)
  PROVE  CalmDone(t)
  <1>0. /\ Typed /\ Typed' /\ PostsKept /\ (\A x \in Posts : Calm(x)) /\ \A s \in Servers : kept[s] # "off"
    BY EveryStep, CalmBefore DEF LedgerInv
  <1>a. task[t].on \in Servers /\ task[t].due \subseteq Posts /\ (task[t].op = "sweep" => DueOf(t))
    BY <1>0, CalmBefore DEF Typed, TasksTyped, TaskRecord
  <1>1. ASSUME InferRow(t) PROVE CalmDone(t)
    <2>1. /\ UNCHANGED <<told, panel, kept, asked>> /\ task[t].pc = "infer" /\ task[t].op = "sweep"
          /\ \/ task[t].list = {} /\ RowsSame /\ Goes(t, "unlinked")
             \/ \E x \in task[t].list :
                  /\ Takes(t, x, "inferred") /\ x.m \in Posts
                  /\ (own[x.m].is /\ RowsSame) \/ Recorded(x.m, post[x.m].out, x.wamid, post[x.m].at)
      BY <1>0, <1>a, <1>1, InferRowEffect DEF World
    <2>2. \A x \in Posts : ~Deserts(t, x)
      BY <2>1 DEF Deserts, Leaves
    <2>3. CASE task[t].list = {} /\ RowsSame /\ Goes(t, "unlinked")
      <3>1. Moves(t) /\ task'[t].pc = "unlinked" /\ task'[t].due = task[t].due
        BY <2>3 DEF Goes, Rest
      <3>2. \A x \in Posts : Calm(x)'
        BY <1>0, <2>1, <2>2, <2>3, <3>1, AllCalm
      <3>3. DueOf(t)'
        BY <1>a, <2>1, <2>3, <3>1 DEF DueOf, RowsSame
      <3> QED BY <2>1, <2>3, <3>1, <3>2, <3>3, RowsStay DEF CalmDone
    <2>4. ASSUME NEW x \in task[t].list, Takes(t, x, "inferred"), x.m \in Posts,
                 (own[x.m].is /\ RowsSame) \/ Recorded(x.m, post[x.m].out, x.wamid, post[x.m].at)
          PROVE  CalmDone(t)
      <3>0. PICK m \in Posts : m = x.m
        BY <2>4
      <3>1. /\ Moves(t) /\ task'[t].pc = "inferred" /\ task'[t].due = task[t].due /\ task'[t].list = task[t].list \ {x}
            /\ task'[t].cur = x
        BY <2>4 DEF Takes
      <3>2. OwnStays /\ own'[m].is
        <4>1. CASE own[m].is /\ RowsSame
          BY <4>1, RowsStay DEF RowsSame
        <4>2. CASE Recorded(m, post[m].out, x.wamid, post[m].at)
          <5>1. own'[m].is
            BY <4>2 DEF Recorded, Fresh, Adopts
          <5> QED BY <4>2, <5>1, RowsStay
        <4> QED BY <2>4, <3>0, <4>1, <4>2
      <3>3. DueOf(t)'
        <4>1. ASSUME NEW z \in task[t].due PROVE own'[z].is \/ \E y \in task'[t].list : y.m = z
          <5>1. z \in Posts /\ (own[z].is \/ \E y \in task[t].list : y.m = z)
            BY <1>a, <2>1, <4>1 DEF DueOf
          <5> QED BY <3>0, <3>1, <3>2, <5>1 DEF OwnStays
        <4> QED BY <3>1, <4>1 DEF DueOf
      <3>4. ASSUME RowsSame PROVE \A z \in Posts : Calm(z)'
        BY <1>0, <2>1, <2>2, <3>1, <3>4, AllCalm
      <3>5. ASSUME Recorded(m, post[m].out, x.wamid, post[m].at) PROVE \A z \in Posts : Calm(z)'
        <4>1. Unsettled(m)' \/ ~own'[m].wamid
          <5>1. CASE x.wamid
            BY <3>0, <3>1, <5>1 DEF Unsettled
          <5>2. CASE ~x.wamid
            BY <3>5, <5>2 DEF Recorded, Fresh
          <5> QED BY <5>1, <5>2
        <4>2. Awaited(m) => Awaited(m)'
          BY <1>0, <2>2, <3>1, WaitStays
        <4>3. Others(m) /\ (~orphan'[m].is \/ orphan'[m] = orphan[m])
          BY <3>5 DEF Recorded, Others
        <4>4. Calm(m)'
          BY <1>0, <2>1, <4>1, <4>2, <4>3, CalmRow
        <4> QED BY <1>0, <2>1, <2>2, <3>1, <4>3, <4>4, OthersCalm
      <3>6. \A z \in Posts : Calm(z)'
        BY <2>4, <3>0, <3>4, <3>5
      <3> QED BY <2>1, <3>1, <3>2, <3>3, <3>6 DEF CalmDone
    <2> QED BY <2>1, <2>3, <2>4
  <1>2. ASSUME InferState(t) PROVE CalmDone(t)
    <2>0. PICK m \in Posts : m = task[t].cur.m
      BY <1>0, <1>2, InferStateEffect
    <2>1. /\ UNCHANGED <<told, panel, kept, asked>> /\ task[t].pc = "inferred" /\ task[t].op = "sweep" /\ Goes(t, "infer")
          /\ \/ ~task[t].cur.wamid /\ RowsSame
             \/ ~task[t].cur.wamid /\ RefusedRow(m)
             \/ AllSettled(m) /\ HasDecided(m)
      BY <1>0, <1>a, <1>2, <2>0, InferStateEffect DEF World
    <2>2. Moves(t) /\ task'[t].pc = "infer" /\ task'[t].due = task[t].due /\ task'[t].list = task[t].list
      BY <2>1 DEF Goes, Rest
    <2>3. OwnStays
      BY <2>1, RowsStay
    <2>4. DueOf(t)'
      <3>1. \A z \in task[t].due : z \in Posts /\ (own[z].is \/ \E y \in task[t].list : y.m = z)
        BY <1>a, <2>1 DEF DueOf
      <3> QED BY <2>2, <2>3, <3>1 DEF DueOf, OwnStays
    <2>5. (\A x \in Posts : x # m => ~Deserts(t, x)) /\ (~task[t].cur.wamid => \A x \in Posts : ~Deserts(t, x))
      BY <2>0, <2>1 DEF Deserts, Leaves
    <2>6. ASSUME ~task[t].cur.wamid, RowsSame PROVE \A z \in Posts : Calm(z)'
      BY <1>0, <2>1, <2>2, <2>5, <2>6, AllCalm
    <2>7. ASSUME ~task[t].cur.wamid, RefusedRow(m) PROVE \A z \in Posts : Calm(z)'
      <3>1. Awaited(m) => Awaited(m)'
        BY <1>0, <2>2, <2>5, <2>7, WaitStays
      <3>2. Calm(m)' /\ Others(m)
        BY <1>0, <2>1, <2>7, <3>1, CalmRow DEF RefusedRow
      <3> QED BY <1>0, <2>1, <2>2, <2>5, <3>2, OthersCalm
    <2>8. ASSUME AllSettled(m), HasDecided(m) PROVE \A z \in Posts : Calm(z)'
      <3>1. Calm(m)' /\ Others(m)
        BY <1>0, <2>1, <2>8, CalmSettled DEF AllSettled, Others
      <3> QED BY <1>0, <2>1, <2>2, <2>5, <3>1, OthersCalm
    <2>9. \A z \in Posts : Calm(z)'
      BY <2>1, <2>6, <2>7, <2>8
    <2> QED BY <2>1, <2>2, <2>3, <2>4, <2>9 DEF CalmDone
  <1> QED BY <1>1, <1>2

\* The lists of the integrity job; a change of the table.
LEMMA CalmLists ==
  ASSUME LedgerInv, UsageNext, ~Flipped', NEW t \in Tasks,
         \/ SweepStarts(t) \/ SweepMissing(t) \/ SweepUnlinked(t) \/ SweepPending(t) \/ Reprice(t)
         \/ CreateRate(t) \/ UpdateRate(t) \/ DeleteRate(t)
  PROVE  CalmDone(t)
  <1> DEFINE Still == /\ UNCHANGED <<told, panel, kept, asked>> /\ Moves(t) /\ RowsSame
                      /\ task[t].pc \notin {"attach", "settle", "inferred", "adopted"} /\ (task[t].op = "sweep" => DueOf(t)')
  <1>0. Typed /\ Typed' /\ \A x \in Posts : Calm(x)
    BY EveryStep, CalmBefore DEF LedgerInv
  <1>a. task[t].op = "sweep" => DueOf(t)
    BY <1>0, CalmBefore
  <1>1. ASSUME SweepStarts(t) PROVE Still
    <2>1. /\ UNCHANGED World /\ RowsSame /\ task[t].pc = "sweep" /\ task[t].op = "sweep" /\ Moves(t)
          /\ task'[t].pc \in {"done", "missing"} /\ task'[t].due = task[t].due
      BY <1>0, <1>1, SweepStartsEffect DEF Ends, Rest
    <2>2. DueOf(t)'
      BY <1>a, <2>1 DEF DueOf
    <2> QED BY <2>1, <2>2 DEF World
  <1>2. ASSUME SweepMissing(t) PROVE Still
    <2>1. /\ UNCHANGED World /\ RowsSame /\ task[t].pc = "missing" /\ task[t].op = "sweep" /\ Moves(t)
          /\ task'[t].pc = "infer" /\ Missed(t)
      BY <1>0, <1>2, SweepMissingEffect
    <2>2. DueOf(t)'
      BY <2>1 DEF DueOf, Missed
    <2> QED BY <2>1, <2>2 DEF World
  <1>3. ASSUME SweepUnlinked(t) \/ SweepPending(t) PROVE Still
    <2>1. /\ UNCHANGED World /\ RowsSame /\ task[t].pc \in {"unlinked", "pending"} /\ task[t].op = "sweep"
          /\ \E l : Lists(t, "adopt", l) \/ Lists(t, "resettle", l)
      BY <1>0, <1>3, SweepUnlinkedEffect, SweepPendingEffect
    <2>2. Moves(t) /\ task'[t].pc \in {"adopt", "resettle"} /\ task'[t].due = task[t].due
      BY <2>1 DEF Lists
    <2>3. DueOf(t)'
      BY <1>a, <2>1, <2>2 DEF DueOf, RowsSame
    <2> QED BY <2>1, <2>2, <2>3 DEF World
  <1>4. ASSUME Reprice(t) PROVE Still
    BY <1>0, <1>4, RepriceEffect DEF World, Lists
  <1>5. ASSUME CreateRate(t) PROVE Still
    BY <1>0, <1>5, CreateRateEffect DEF AllButPrices, Ends, Saves
  <1>6. ASSUME UpdateRate(t) PROVE Still
    <2>1. task[t].op = "rateEdit"
      BY <1>6 DEF UpdateRate
    <2> QED BY <1>0, <1>6, <2>1, UpdateRateEffect, SavedId DEF AllButPrices, Ends, Saves
  <1>7. ASSUME DeleteRate(t) PROVE Still
    <2>1. task[t].op = "rateDrop"
      BY <1>7 DEF DeleteRate
    <2> QED BY <1>0, <1>7, <2>1, DeleteRateEffect, SavedId DEF AllButPrices, Ends, Saves
  <1>8. Still
    BY <1>1, <1>2, <1>3, <1>4, <1>5, <1>6, <1>7
  <1>9. \A x \in Posts : Calm(x)'
    BY <1>0, <1>8, AllCalm DEF Deserts, Leaves
  <1> QED BY <1>8, <1>9, RowsStay DEF CalmDone

\* What the integrity job makes for an identifier and settles.
LEMMA CalmAdopt ==
  ASSUME LedgerInv, UsageNext, ~Flipped', NEW t \in Tasks, InsertUnlinked(t) \/ SettleUnlinked(t) \/ Resettle(t)
  PROVE  CalmDone(t)
  <1> DEFINE Going2 == /\ UNCHANGED <<told, panel, kept, asked>> /\ Moves(t) /\ task[t].pc \in {"adopt", "adopted", "resettle"}
                       /\ task'[t].pc \in {"adopt", "adopted", "pending", "resettle", "done"} /\ task'[t].due = task[t].due
  <1>0. /\ Typed /\ Typed' /\ PostsKept /\ (\A x \in Posts : Calm(x)) /\ \A s \in Servers : kept[s] # "off"
    BY EveryStep, CalmBefore DEF LedgerInv
  <1>a. task[t].on \in Servers /\ task[t].due \subseteq Posts /\ (task[t].op = "sweep" => DueOf(t))
    BY <1>0, CalmBefore DEF Typed, TasksTyped, TaskRecord
  <1>b. ASSUME Going2, OwnStays, \A x \in Posts : Calm(x)' PROVE CalmDone(t)
    <2>1. task[t].op = "sweep" => DueOf(t)'
      BY <1>a, <1>b DEF DueOf, OwnStays
    <2> QED BY <1>b, <2>1 DEF CalmDone
  <1>c. ASSUME Going2, RowsSame, task[t].pc # "adopted" PROVE CalmDone(t)
    <2>1. \A x \in Posts : Calm(x)'
      BY <1>0, <1>c, AllCalm DEF Deserts, Leaves
    <2> QED BY <1>b, <1>c, <2>1, RowsStay
  <1>1. ASSUME InsertUnlinked(t) PROVE CalmDone(t)
    <2>1. /\ UNCHANGED World /\ task[t].pc = "adopt"
          /\ \/ RowsSame /\ Goes(t, "pending")
             \/ RowsSame /\ \E x \in task[t].list : Lists(t, "adopt", task[t].list \ {x})
             \/ \E x \in task[t].list : x.m \in Posts /\ Takes(t, x, "adopted") /\ Inserted(x.m)
      BY <1>0, <1>1, InsertUnlinkedEffect
    <2>2. CASE RowsSame /\ Goes(t, "pending")
      BY <1>c, <2>1, <2>2 DEF World, Goes, Rest
    <2>3. CASE RowsSame /\ \E x \in task[t].list : Lists(t, "adopt", task[t].list \ {x})
      BY <1>c, <2>1, <2>3 DEF World, Lists
    <2>4. ASSUME NEW x \in task[t].list, x.m \in Posts, Takes(t, x, "adopted"), Inserted(x.m) PROVE CalmDone(t)
      <3>0. PICK m \in Posts : m = x.m
        BY <2>4
      <3>1. Going2 /\ task'[t].pc = "adopted" /\ task'[t].cur.m = m
        BY <2>1, <2>4, <3>0 DEF World, Takes
      <3>2. \A z \in Posts : ~Deserts(t, z)
        BY <2>1 DEF Deserts, Leaves
      <3>3. Unsettled(m) => Unsettled(m)'
        BY <1>0, <3>1, <3>2, WaitStays
      <3>4. Awaited(m)'
        BY <3>1 DEF Awaited
      <3>5. Calm(m)' /\ Others(m)
        BY <1>0, <2>4, <3>0, <3>1, <3>3, <3>4 DEF Inserted, Others, Calm, Says
      <3>6. \A z \in Posts : Calm(z)'
        BY <1>0, <3>1, <3>2, <3>5, OthersCalm
      <3> QED BY <1>b, <2>4, <3>1, <3>6, RowsStay
    <2> QED BY <2>1, <2>2, <2>3, <2>4
  <1>2. ASSUME SettleUnlinked(t) PROVE CalmDone(t)
    <2>0. PICK m \in Posts : m = task[t].cur.m
      BY <1>0, <1>2, SettleUnlinkedEffect
    <2>1. /\ Going2 /\ task[t].pc = "adopted" /\ AllSettled(m) /\ HasDecided(m)
      BY <1>0, <1>a, <1>2, <2>0, SettleUnlinkedEffect DEF World, Goes, Rest
    <2>2. \A z \in Posts : z # m => ~Deserts(t, z)
      BY <2>0, <2>1 DEF Deserts, Leaves
    <2>3. Calm(m)' /\ Others(m)
      BY <1>0, <2>1, CalmSettled DEF AllSettled, Others
    <2>4. \A z \in Posts : Calm(z)'
      BY <1>0, <2>1, <2>2, <2>3, OthersCalm
    <2> QED BY <1>b, <2>1, <2>4, RowsStay
  <1>3. ASSUME Resettle(t) PROVE CalmDone(t)
    <2>1. /\ UNCHANGED World /\ task[t].pc = "resettle"
          /\ \/ RowsSame /\ Ends(t, "ok")
             \/ \E x \in task[t].list : x.m \in Posts /\ Lists(t, "resettle", task[t].list \ {x}) /\ AllSettled(x.m)
      BY <1>0, <1>a, <1>3, ResettleEffect
    <2>2. CASE RowsSame /\ Ends(t, "ok")
      BY <1>c, <2>1, <2>2 DEF World, Ends, Rest
    <2>3. ASSUME NEW x \in task[t].list, x.m \in Posts, Lists(t, "resettle", task[t].list \ {x}), AllSettled(x.m) PROVE CalmDone(t)
      <3>0. PICK m \in Posts : m = x.m
        BY <2>3
      <3>1. Going2
        BY <2>1, <2>3 DEF World, Lists
      <3>2. \A z \in Posts : ~Deserts(t, z)
        BY <2>1 DEF Deserts, Leaves
      <3>3. (Unsettled(m) => Unsettled(m)') /\ (Awaited(m) => Awaited(m)')
        BY <1>0, <3>1, <3>2, WaitStays
      <3>4. Calm(m)' /\ Others(m)
        BY <1>0, <2>3, <3>0, <3>1, <3>3, CalmSettled DEF AllSettled, Others
      <3>5. \A z \in Posts : Calm(z)'
        BY <1>0, <3>1, <3>2, <3>4, OthersCalm
      <3> QED BY <1>b, <2>3, <3>1, <3>5, RowsStay
    <2> QED BY <2>1, <2>2, <2>3
  <1> QED BY <1>1, <1>2, <1>3

LEMMA CalmNext ==
  ASSUME LedgerInv, UsageNext
  PROVE  CalmKept'
  <1> SUFFICES ASSUME ~Flipped' PROVE CalmKept'
    BY DEF CalmKept
  <1>0. /\ Typed /\ Typed' /\ (\A x \in Posts : Calm(x)) /\ NoneOff /\ \A q \in Tasks : task[q].op = "sweep" => DueOf(q)
    BY EveryStep, CalmBefore DEF LedgerInv
  <1>1. ASSUME NEW t \in Tasks, BeginTask(t) PROVE CalmKept'
    <2>1. Begins(t) /\ RowsSame /\ UNCHANGED <<told, panel, kept, asked>> /\ task[t].due = {}
      BY <1>0, <1>1, BeginEffect, NotBegun DEF Begins, Typed
    <2>2. ASSUME NEW x \in Posts PROVE Calm(x)'
      <3>1. Unsettled(x) => Unsettled(x)'
        BY <1>0, <2>1, UnsettledBegins
      <3>2. Awaited(x) => Awaited(x)'
        <4>1. task[t].said = "" /\ \A q \in Tasks : q # t => task'[q] = task[q]
          BY <1>0, <2>1, NotBegun DEF Begins, OnlyTask, Typed
        <4> QED BY <2>1, <4>1 DEF Awaited, Begins
      <3> QED BY <1>0, <2>1, <2>2, <3>1, <3>2, CalmStays DEF RowsSame
    <2>3. ASSUME NEW q \in Tasks, task'[q].op = "sweep" PROVE DueOf(q)'
      <3>1. CASE q = t
        <4>1. task'[t].due = {}
          BY <2>1 DEF Begins, Rest
        <4> QED BY <3>1, <4>1 DEF DueOf
      <3>2. CASE q # t
        <4>1. task'[q] = task[q]
          BY <2>1, <3>2 DEF Begins, OnlyTask
        <4>2. DueOf(q)
          BY <1>0, <2>3, <4>1
        <4> QED BY <2>1, <4>1, <4>2 DEF DueOf, RowsSame
      <3> QED BY <3>1, <3>2
    <2>4. NoneOff'
      BY <1>0, <2>1 DEF NoneOff
    <2> QED BY <2>2, <2>3, <2>4 DEF CalmKept, DueKept, DueOf, Calm
  <1>2. ASSUME task' = task, UNCHANGED <<told, panel>>, RowsSame, \A s \in Servers : kept'[s] # "off" /\ asked'[s] # "off"
        PROVE  CalmKept'
    <2>1. \A x \in Posts : (Unsettled(x) => Unsettled(x)') /\ (Awaited(x) => Awaited(x)')
      BY <1>2 DEF Unsettled, Awaited
    <2>2. \A x \in Posts : Calm(x)'
      BY <1>0, <1>2, <2>1, CalmStays DEF RowsSame
    <2>3. \A q \in Tasks : task'[q].op = "sweep" => DueOf(q)'
      BY <1>0, <1>2 DEF DueOf, RowsSame
    <2>4. NoneOff'
      BY <1>0, <1>2 DEF NoneOff
    <2> QED BY <2>2, <2>3, <2>4 DEF CalmKept, DueKept, DueOf, Calm
  <1>3. ASSUME NEW s \in Servers, ReadSwitch(s) \/ RememberSwitch(s) PROVE CalmKept'
    <2>1. \A q \in Servers : kept'[q] # "off" /\ asked'[q] # "off"
      BY <1>0, <1>3, CacheEffect DEF NoneOff
    <2> QED BY <1>0, <1>2, <1>3, <2>1, CacheEffect
  <1>4. ASSUME DayPasses PROVE CalmKept'
    <2>1. \A q \in Servers : kept'[q] # "off" /\ asked'[q] # "off"
      BY <1>0, <1>4, DayEffect DEF NoneOff
    <2> QED BY <1>0, <1>2, <1>4, <2>1, DayEffect
  <1>5. ASSUME NEW t \in Tasks, SwitchRecording(t) PROVE FALSE
    <2>1. task'[t].op = "switch"
      BY <1>0, <1>5, SwitchEffect DEF Ends, Moves, SameRequest
    <2> QED BY <2>1 DEF Flipped
  <1>6. ASSUME NEW t \in Tasks,
               \/ BeginTask(t) \/ CreatePost(t) \/ RecordUsage(t) \/ FinalizeSend(t) \/ SendRefused(t) \/ AttachRead(t) \/ AttachLost(t)
               \/ AttachLink(t) \/ SettleOne(t) \/ RecordStatusEvent(t) \/ SweepStarts(t) \/ SweepMissing(t) \/ InferRow(t)
               \/ InferState(t) \/ SweepUnlinked(t) \/ InsertUnlinked(t) \/ SettleUnlinked(t) \/ SweepPending(t) \/ Resettle(t)
               \/ Reprice(t) \/ SwitchRecording(t) \/ CreateRate(t) \/ UpdateRate(t) \/ DeleteRate(t)
        PROVE  CalmKept'
    BY <1>1, <1>5, <1>6, CalmSend, CalmAttach, CalmEvent, CalmInfer, CalmLists, CalmAdopt, CalmFrame
  <1> QED BY <1>3, <1>4, <1>6 DEF UsageNext

-------------------------------------------------------------------------------
(* Ledger: the theorems *)

LEMMA LedgerBegins == UsageInit => LedgerInv
  <1> SUFFICES ASSUME UsageInit PROVE LedgerInv
    OBVIOUS
  <1>1. /\ usageMenu \in UsageMenus /\ tick = 0 /\ post = [m \in Posts |-> NoPost]
        /\ own = [m \in Posts |-> NoUsage] /\ orphan = [m \in Posts |-> NoUsage] /\ told = [m \in Posts |-> {}]
        /\ price = [i \in RateIds |-> IF i \in DOMAIN usageMenu.rates THEN usageMenu.rates[i] ELSE NoRate]
        /\ panel = [on |-> TRUE, at |-> 0]
        /\ kept = [s \in Servers |-> IF usageMenu.cold THEN "cold" ELSE "on"] /\ asked = [s \in Servers |-> "no"]
        /\ task = [t \in Tasks |-> NoTask] /\ coincided = {}
    BY DEF UsageInit, UsageSetUp
  <1>2. /\ ~NoPost.is /\ ~NoPost.wamid /\ NoPost.at = 0 /\ ~NoPost.off /\ NoPost \in PostRecord
        /\ ~NoUsage.is /\ NoUsage \in MessageUsage
        /\ NoTask.pc = "new" /\ NoTask.op = "none" /\ NoTask.said = "" /\ NoTask \in TaskRecord
        /\ ~NoRate.is /\ NoRate \in Rate
    <2>1. (CHOOSE s \in Servers : TRUE) \in Servers
      BY UsageAssumption
    <2>2. /\ ~NoPost.is /\ ~NoPost.wamid /\ NoPost.at = 0 /\ ~NoPost.off /\ NoPost \in PostRecord
      BY LedgerNumbers DEF NoPost, PostRecord
    <2>3. ~NoUsage.is /\ NoUsage \in MessageUsage
      BY LedgerNumbers DEF NoUsage, MessageUsage, BillingStates
    <2>4. ~NoRate.is /\ NoRate \in Rate
      BY LedgerNumbers DEF NoRate, Rate
    <2>5. NoTask.pc = "new" /\ NoTask.op = "none" /\ NoTask.said = ""
      BY DEF NoTask
    <2>6. NoTask \in TaskRecord
      BY <2>1, <2>4, LedgerNumbers DEF NoTask, TaskRecord, StepNames, Answers
    <2> QED BY <2>2, <2>3, <2>4, <2>5, <2>6
  <1>3. \A t \in Tasks : task[t] = NoTask /\ task[t].pc = "new" /\ task[t].op = "none" /\ task[t].said = ""
    BY <1>1, <1>2
  <1>4. \A m \in Posts : post[m] = NoPost /\ ~own[m].is /\ ~orphan[m].is /\ orphan[m] = NoUsage /\ told[m] = {}
    BY <1>1, <1>2
  <1>5. ASSUME NEW i \in RateIds
        PROVE  price[i] \in Rate /\ (price[i].is => i \in DOMAIN usageMenu.rates /\ price[i] = usageMenu.rates[i] /\ Ordered(price[i]))
    <2>1. CASE i \in DOMAIN usageMenu.rates
      <3>1. price[i] = usageMenu.rates[i] /\ Offered(usageMenu.rates[i])
        BY <1>1, <2>1, UsageAssumption
      <3> QED BY <2>1, <3>1 DEF Offered, Ordered
    <2>2. CASE i \notin DOMAIN usageMenu.rates
      BY <1>1, <1>2, <2>2
    <2> QED BY <2>1, <2>2
  <1>6. Typed
    <2>1. RowsTyped
      BY <1>1, <1>2, <1>4 DEF RowsTyped
    <2>2. post \in [Posts -> PostRecord] /\ told \in [Posts -> SUBSET StatusEvent] /\ price \in [RateIds -> Rate]
      BY <1>1, <1>2, <1>5
    <2>3. RestTyped
      BY <1>1, <2>2, LedgerNumbers DEF RestTyped
    <2>4. TasksTyped
      BY <1>1, <1>2, <1>3 DEF TasksTyped, GoodTask, Going
    <2> QED BY <2>1, <2>3, <2>4 DEF Typed
  <1>7. MetKept
    BY <1>3 DEF MetKept, Going
  <1>8. PostsKept
    <2>1. \A t \in Tasks : t \in DOMAIN usageMenu.plan /\ usageMenu.plan[t].op \in Posting => usageMenu.plan[t].m \in Posts
      BY <1>1, UsageAssumption
    <2> QED BY <1>2, <1>3, <1>4, <2>1 DEF PostsKept, Posting, Written, ListsFine
  <1>9. LinksKept
    <2>1. \A t \in Tasks : t \in DOMAIN usageMenu.plan => usageMenu.plan[t].m \in Posts
      BY <1>1, UsageAssumption
    <2> QED BY <1>3, <1>4, <2>1 DEF LinksKept, Foreseen
  <1>10. OffKept
    <2>1. panel.at <= tick /\ \A m \in Posts : post[m].at <= tick
      <3>1. panel.at = 0 /\ \A m \in Posts : post[m].at = 0
        BY <1>1, <1>2, <1>4
      <3>2. tick = 0 /\ 0 \in Nat /\ 0 <= 0
        BY <1>1
      <3> QED BY <3>1, <3>2
    <2>2. \A t \in Tasks : t \notin Going /\ task[t].pc \notin {"infer", "inferred"}
      BY <1>3 DEF Going
    <2>3. Going = {}
      BY <2>2 DEF Going
    <2>4. NeverReconstructed
      BY <1>4 DEF NeverReconstructed
    <2>5. \A m \in Posts : ~post[m].is
      BY <1>2, <1>4
    <2> QED BY <2>1, <2>2, <2>3, <2>4, <2>5 DEF OffKept
  <1>11. PricesKept
    BY <1>3, <1>4 DEF PricesKept, PricedBy, HasPrice
  <1>12. RatesKept
    <2>1. ASSUME NEW i \in RateIds, NEW j \in RateIds, i # j, price[i].is, price[j].is PROVE ~Meet(price[i], price[j])
      BY <1>1, <1>5, <2>1, UsageAssumption
    <2> QED BY <1>3, <1>5, <2>1 DEF RatesKept, RatesDisjoint
  <1>13. CalmKept
    <2>1. NoneOff
      BY <1>1 DEF NoneOff
    <2> QED BY <1>3, <1>4, <2>1 DEF CalmKept, DueKept, Says
  <1> QED BY <1>6, <1>7, <1>8, <1>9, <1>10, <1>11, <1>12, <1>13 DEF LedgerInv

LEMMA LedgerStutters ==
  ASSUME LedgerInv, UNCHANGED usageVars
  PROVE  LedgerInv'
  <1>1. UNCHANGED <<usageMenu, tick, post, own, orphan, told, price, panel, kept, asked, task, coincided>>
    BY DEF usageVars
  <1>2. Typed'
    BY <1>1 DEF LedgerInv, Typed, RowsTyped, RestTyped, TasksTyped, GoodTask, Going
  <1>3. MetKept'
    BY <1>1 DEF LedgerInv, MetKept, Going
  <1>4. PostsKept'
    BY <1>1 DEF LedgerInv, PostsKept, Written, ListsFine
  <1>5. LinksKept'
    BY <1>1 DEF LedgerInv, LinksKept, GoodSend, GoodEcho, Foreseen, Excused, Sweeping, Written
  <1>6. OffKept'
    BY <1>1 DEF LedgerInv, OffKept, NeverReconstructed, OffEverywhere, Turned, Going, Written
  <1>7. PricesKept'
    BY <1>1 DEF LedgerInv, PricesKept, PricedBy, Fair, Sound, HasPrice, TableApart, Flipped, Unsettled
  <1>8. RatesKept'
    BY <1>1 DEF LedgerInv, RatesKept, RatesDisjoint, Clear, EditsApart
  <1>9. CalmKept'
    BY <1>1 DEF LedgerInv, CalmKept, NoneOff, DueKept, Says, Awaited, Unsettled, Flipped
  <1> QED BY <1>2, <1>3, <1>4, <1>5, <1>6, <1>7, <1>8, <1>9 DEF LedgerInv

LEMMA LedgerAlways == UsageSpec => []LedgerInv
  <1>1. LedgerInv /\ [UsageNext]_usageVars => LedgerInv'
    <2>1. LedgerInv /\ UsageNext => LedgerInv'
      <3> SUFFICES ASSUME LedgerInv, UsageNext PROVE LedgerInv'
        OBVIOUS
      <3> QED BY EveryStep, MetNext, PostsNext, LinksNext, OffNext, PricesNext, RatesNext, CalmNext DEF LedgerInv
    <2> QED BY <2>1, LedgerStutters
  <1> QED BY LedgerBegins, <1>1, PTL DEF UsageSpec

LEMMA LedgerTold ==
  ASSUME LedgerInv
  PROVE  EventsDecide /\ SweepCompletes
  <1>0. Typed /\ CalmKept
    BY DEF LedgerInv
  <1>1. EventsDecide
    <2> SUFFICES ASSUME Going = {}, ~Flipped, \A t \in Tasks : task[t].said \notin {"stopped", "unattached"}, NEW m \in Posts
                 PROVE  \A r \in {own[m], orphan[m]} :
                          r.is /\ r.wamid /\ r.out /\ r.state # "send_failed" => r.state \in Verdict(told[m])
      BY DEF EventsDecide
    <2>1. \A t \in Tasks : task[t].pc \in {"new", "done"}
      BY DEF Going
    <2>2. ~Unsettled(m) /\ ~Awaited(m)
      BY <2>1 DEF Unsettled, Awaited
    <2>3. Says(own[m], m, Unsettled(m)) /\ Says(orphan[m], m, Awaited(m))
      BY <1>0 DEF CalmKept
    <2> QED BY <2>2, <2>3 DEF Says
  <1>2. SweepCompletes
    <2> SUFFICES ASSUME NEW t \in Tasks, task[t].op = "sweep", task[t].said = "ok", ~Flipped, NEW m \in task[t].due PROVE own[m].is
      BY DEF SweepCompletes
    <2>1. task[t].pc = "done"
      BY <1>0, NotBegun, OpOf DEF Typed
    <2> QED BY <1>0, <2>1 DEF CalmKept, DueKept
  <1> QED BY <1>1, <1>2

LEMMA LedgerCounts ==
  ASSUME LedgerInv
  PROVE  CountedOnce
  <1>0. Typed /\ PostsKept /\ LinksKept
    BY DEF LedgerInv
  <1> SUFFICES ASSUME NEW m \in Posts, post[m].wamid, own[m].is, orphan[m].is
               PROVE  Sweeping \/ \E t \in Tasks : task[t].m = m /\ task[t].said \in {"unattached", "off"}
    BY DEF CountedOnce, Sweeping
  <1>1. PICK t \in Tasks : task[t].op \in Posting /\ task[t].m = m
    BY <1>0 DEF PostsKept
  <1>2. ~own[m].wamid
    BY <1>0 DEF Typed, RowsTyped
  <1>3. task[t].op = "send"
    BY <1>0, <1>1, <1>2 DEF LinksKept, GoodEcho, Posting
  <1>4. Excused(t) /\ (task[t].pc \in {"attach", "link", "settle"} \/ (task[t].pc = "done" /\ task[t].said # "refused"))
    BY <1>0, <1>1, <1>3 DEF LinksKept, GoodSend
  <1>5. task[t].said # "refused"
    BY <1>0, <1>4, OpOf DEF Typed
  <1> QED BY <1>1, <1>4, <1>5 DEF Excused

LEMMA LedgerPriced ==
  ASSUME LedgerInv
  PROVE  PriceHonest
  <1>0. PricesKept
    BY DEF LedgerInv
  <1>1. CASE TableApart
    <2>1. ASSUME NEW m \in Posts, HasPrice(own[m])
          PROVE  Fair(m, own[m], price[own[m].rate])
      BY <1>0, <1>1, <2>1 DEF PricesKept, PricedBy
    <2>2. ASSUME NEW m \in Posts, HasPrice(orphan[m])
          PROVE  Sound(orphan[m], price[orphan[m].rate])
      BY <1>0, <1>1, <2>2 DEF PricesKept, PricedBy
    <2> QED BY <2>1, <2>2 DEF PriceHonest, HasPrice, Fair, Sound
  <1>2. CASE ~TableApart
    BY <1>2 DEF TableApart, Settling, PriceHonest
  <1> QED BY <1>1, <1>2

\* The ledger of what WhatsApp charges (UsageService): in every behaviour a row that nobody is about to settle says what all
\* its events say, a message is counted once, at a price that is in the table and was in force on its day, prices of a country
\* do not meet, what was sent while the recording was off stays uncounted, and a pass of the integrity job completes what it found.
THEOREM LedgerStaysConsistent == UsageSpec => []LedgerConsistent
  <1>1. LedgerInv => LedgerConsistent
    <2> SUFFICES ASSUME LedgerInv PROVE LedgerConsistent
      OBVIOUS
    <2>1. UsageTypeOK
      BY DEF LedgerInv, Typed, RowsTyped, RestTyped, PostRecord, UsageTypeOK
    <2>2. RatesDisjoint /\ NeverReconstructed
      BY DEF LedgerInv, RatesKept, OffKept
    <2> QED BY <2>1, <2>2, LedgerTold, LedgerCounts, LedgerPriced DEF LedgerConsistent
  <1> QED BY <1>1, LedgerAlways, PTL

\* While the switch is off for every server, only new prices that somebody asked for, a transaction that attaches an identifier
\* and a list of the integrity job that was made before still touch the ledger (EnabledFor).
THEOREM FrozenHolds == UsageSpec => FrozenWhileOff
  <1> DEFINE Meant == RowsSame \/ \E t \in Going : task[t].op = "reprice" \/ task[t].pc \in {"adopt", "link"}
  <1>1. ASSUME LedgerInv, UsageNext, OffEverywhere PROVE Meant
    <2>0. Typed /\ PostsKept /\ \A t \in Tasks : task[t].on \in Servers /\ ~EnabledFor(task[t].on)
      BY <1>1 DEF LedgerInv, Typed, TasksTyped, TaskRecord, OffEverywhere, EnabledFor
    <2>1. ASSUME NEW t \in Tasks, BeginTask(t) \/ CreatePost(t) \/ RecordUsage(t) \/ FinalizeSend(t) \/ SendRefused(t) PROVE Meant
      BY <2>0, <2>1, BeginEffect, CreateEffect, RecordUsageEffect, FinalizeEffect, SendRefusedEffect
    <2>2. ASSUME NEW t \in Tasks, AttachRead(t) \/ AttachLost(t) \/ SettleOne(t) \/ RecordStatusEvent(t) PROVE Meant
      BY <2>0, <2>2, AttachReadEffect, AttachLostEffect, SettleOneEffect, EventEffect
    <2>3. ASSUME NEW t \in Tasks, AttachLink(t) PROVE Meant
      BY <2>3 DEF AttachLink, Going
    <2>4. ASSUME NEW t \in Tasks, SweepStarts(t) \/ SweepMissing(t) \/ InferRow(t) \/ InferState(t) PROVE Meant
      BY <2>0, <2>4, SweepStartsEffect, SweepMissingEffect, InferRowEffect, InferStateEffect
    <2>5. ASSUME NEW t \in Tasks, InsertUnlinked(t) PROVE Meant
      BY <2>5 DEF InsertUnlinked, Going
    <2>6. ASSUME NEW t \in Tasks, SweepUnlinked(t) \/ SettleUnlinked(t) \/ SweepPending(t) \/ Reprice(t) PROVE Meant
      BY <2>0, <2>6, SweepUnlinkedEffect, SettleUnlinkedEffect, SweepPendingEffect, RepriceEffect
    <2>7. ASSUME NEW t \in Tasks, Resettle(t) PROVE Meant
      <3>1. task[t].pc = "resettle" /\ (RowsSame \/ task[t].op = "reprice")
        BY <2>0, <2>7, ResettleEffect
      <3> QED BY <3>1 DEF Going
    <2>8. ASSUME NEW t \in Tasks, SwitchRecording(t) \/ CreateRate(t) PROVE Meant
      BY <2>0, <2>8, SwitchEffect, CreateRateEffect
    <2>9. ASSUME NEW t \in Tasks, UpdateRate(t) PROVE Meant
      <3>1. task[t].op = "rateEdit"
        BY <2>9 DEF UpdateRate
      <3> QED BY <1>1, <2>0, <2>9, <3>1, UpdateRateEffect, SavedId
    <2>10. ASSUME NEW t \in Tasks, DeleteRate(t) PROVE Meant
      <3>1. task[t].op = "rateDrop"
        BY <2>10 DEF DeleteRate
      <3> QED BY <1>1, <2>0, <2>10, <3>1, DeleteRateEffect, SavedId
    <2>11. ASSUME NEW s \in Servers, ReadSwitch(s) \/ RememberSwitch(s) PROVE Meant
      BY <2>0, <2>11, CacheEffect
    <2>12. ASSUME DayPasses PROVE Meant
      BY <2>0, <2>12, DayEffect
    <2>13. ASSUME NEW t \in Tasks,
               \/ BeginTask(t) \/ CreatePost(t) \/ RecordUsage(t) \/ FinalizeSend(t) \/ SendRefused(t) \/ AttachRead(t) \/ AttachLost(t)
               \/ AttachLink(t) \/ SettleOne(t) \/ RecordStatusEvent(t) \/ SweepStarts(t) \/ SweepMissing(t) \/ InferRow(t)
               \/ InferState(t) \/ SweepUnlinked(t) \/ InsertUnlinked(t) \/ SettleUnlinked(t) \/ SweepPending(t) \/ Resettle(t)
               \/ Reprice(t) \/ SwitchRecording(t) \/ CreateRate(t) \/ UpdateRate(t) \/ DeleteRate(t)
          PROVE  Meant
      <3> HIDE DEF Meant
      <3> QED BY <2>1, <2>2, <2>3, <2>4, <2>5, <2>6, <2>7, <2>8, <2>9, <2>10, <2>13
    <2> HIDE DEF Meant
    <2> QED BY <1>1, <2>11, <2>12, <2>13 DEF UsageNext
  <1>2. LedgerInv /\ [UsageNext]_usageVars =>
          [OffEverywhere /\ panel' = panel
             => (own' = own /\ orphan' = orphan) \/ \E t \in Going : task[t].op = "reprice" \/ task[t].pc \in {"adopt", "link"}]_usageVars
    BY <1>1 DEF RowsSame
  <1> QED BY <1>2, LedgerAlways, PTL DEF UsageSpec, FrozenWhileOff
================================================================================
