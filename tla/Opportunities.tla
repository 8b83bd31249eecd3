----------------------------- MODULE Opportunities -----------------------------
(***************************************************************************)
(* The sales funnel.  Opportunities are opened by the chatbot or a seller, *)
(* moved through stages, won or lost by hand, and linked to orders of the  *)
(* external system X2; a daily sweep asks X2 about every open link, turns  *)
(* the answers into outcomes and looks for orders nobody linked.  Requests *)
(* read first and write later, the sweep works on links it loaded at its   *)
(* start.                                                                  *)
(***************************************************************************)
EXTENDS Naturals, FiniteSets, FiniteSetsExt, Sequences

CONSTANTS
    Clients, Orders,
    Sellers,            \* the users of the funnel
    Scope,              \* what each of them sees: all, team or own
    Mates,              \* pairs of users of one team
    Buyer,              \* the client an order of X2 belongs to
    Dated,              \* pairs <<opportunity, order>>: the sale is not before the opening
    Compatible,         \* pairs <<seller, order>>: seller codes agree or one is unknown
    MaxOpps, MaxLinks, MaxActs, LastDay, Grace, ReviewAfter,    \* bounds and thresholds
    OppMenus            \* what the requests of one behaviour ask for, how many, and what exists

RequestKinds == {"create", "button", "assign", "stage", "route", "realize", "convert", "lose", "link", "delete"}
ASSUME OppAssumption ==
    /\ {MaxOpps, MaxLinks, MaxActs, LastDay, Grace, ReviewAfter} \subseteq Nat
    /\ Scope \in [Sellers -> {"all", "team", "own"}]
    /\ Buyer \in [Orders -> Clients] /\ Clients # {} /\ Sellers # {} /\ Orders # {}
    /\ \A m \in OppMenus :
        /\ m.ops \subseteq RequestKinds
        /\ m.by \subseteq Sellers /\ m.orders \subseteq Orders /\ m.orders # {} /\ m.docs \subseteq Clients /\ m.days \in 0 .. LastDay
        /\ m.has \in Seq([client : Clients, is : {"aberta", "convertida"}, seller : Sellers \cup {"free"}]) /\ Len(m.has) <= MaxOpps
        /\ \A i, j \in 1 .. Len(m.has) :
            m.has[i].is = "aberta" /\ m.has[j].is = "aberta" /\ m.has[i].client = m.has[j].client => i = j

VARIABLES
    oppMenu,
    opp,        \* sales_opportunities
    numbers,    \* the numbers given so far
    oppEvents,  \* how many events of each type an opportunity has
    links,      \* sales_opportunity_xprocess_links, oldest first
    known,      \* clients whose document (cpfcnpj) is known
    x2,         \* the orders of X2
    day, lastRun,
    round,      \* the daily reconciliation
    act,        \* the requests
    met         \* which kinds of requests were in progress together: history

oppVars == <<oppMenu, opp, numbers, oppEvents, links, known, x2, day, lastRun, round, act, met>>

Free == "free"
Numbers == 1 .. MaxOpps
Acts == 1 .. MaxActs
Stages == {"potencial", "abrir_orcamento", "direcionada"}
Outcomes == {"aberta", "convertida", "perdida", "cancelada"}
EventTypes == {"opened", "retriggered", "stage", "direcionamento", "converted", "lost", "cancelled", "linked"}
Phases == <<"absent", "separacao", "fechado", "cancelado">>
OrderPhases == {"absent", "separacao", "fechado", "cancelado"}
\* SalesOpportunity
OppRow == [client : Clients \cup {Free}, is : {"none", "gone"} \cup Outcomes, stage : Stages, routed : BOOLEAN,
           seller : Sellers \cup {Free}, since : 0 .. LastDay, breached : BOOLEAN, realized : BOOLEAN,
           documento : Clients \cup {Free}]
\* SalesOpportunityXProcessLink; `closedFor` is the order that was closed when first_closed_at was set.
LinkRow == [opp : Numbers \cup {0}, order : Orders, firm : BOOLEAN, status : OrderPhases, resolved : BOOLEAN,
            closed : 0 .. LastDay, missed : 0 .. ReviewAfter, edited : BOOLEAN, closedFor : Orders \cup {Free}]
ActRow == [op : RequestKinds \cup {Free}, by : Sellers, client : Clients, opp : 0 .. MaxOpps, order : Orders, stage : Stages,
           saw : {"none", "gone"} \cup Outcomes, link : 0 .. MaxLinks,
           pc : {"new", "read", "insert", "winner", "write", "look", "link", "point", "log", "done"}]

OppTypeOK ==
    /\ opp \in [Numbers -> OppRow]
    /\ numbers \in 0 .. MaxOpps
    /\ oppEvents \in [Numbers -> [EventTypes -> Nat]]
    /\ links \in Seq(LinkRow) /\ Len(links) <= MaxLinks
    /\ known \subseteq Clients
    /\ x2 \in [Orders -> OrderPhases]
    /\ day \in 0 .. LastDay /\ lastRun \in 0 .. LastDay
    /\ round.pc \in {"idle", "list", "ask", "weigh", "settle", "log", "realize", "save", "seek", "create"}
    /\ act \in [Acts -> ActRow]
    /\ met \subseteq SUBSET (RequestKinds \cup {"sweep"})

NoOpp == [client |-> Free, is |-> "none", stage |-> "potencial", routed |-> FALSE, seller |-> Free, since |-> 0,
          breached |-> FALSE, realized |-> FALSE, documento |-> Free]
Idle == [pc |-> "idle", todo |-> <<>>, left |-> {}, at |-> 0, said |-> "absent", saw |-> "none", docs |-> {},
         found |-> Free, owner |-> 0, event |-> "opened"]
OppSetUp(menus) ==
    /\ oppMenu \in menus
    /\ opp = [n \in Numbers |-> IF n <= Len(oppMenu.has) THEN [NoOpp EXCEPT !.client = oppMenu.has[n].client,
                                        !.is = oppMenu.has[n].is, !.seller = oppMenu.has[n].seller] ELSE NoOpp]
    /\ numbers = Len(oppMenu.has)
    /\ oppEvents = [n \in Numbers |-> [t \in EventTypes |-> IF n <= Len(oppMenu.has)
            /\ (t = "opened" \/ (t = "converted" /\ oppMenu.has[n].is = "convertida")) THEN 1 ELSE 0]]
    /\ links = <<>> /\ known = oppMenu.docs
    /\ x2 = [o \in Orders |-> "absent"]
    /\ day = 0 /\ lastRun = 0 /\ round = Idle /\ met = {}
    /\ act = [a \in Acts |-> [op |-> Free, by |-> CHOOSE s \in Sellers : TRUE, client |-> CHOOSE c \in Clients : TRUE,
              opp |-> 0, order |-> CHOOSE o \in Orders : TRUE, stage |-> "potencial", saw |-> "none", link |-> 0, pc |-> "new"]]
OppInit == OppSetUp(OppMenus)
OppEnded == OppSetUp({[ops |-> {}, acts |-> 0, has |-> <<>>, docs |-> {}, days |-> 0, by |-> {}, orders |-> Orders,
                        sweeps |-> FALSE]})

Here(n) == n \in Numbers /\ opp[n].is \in Outcomes
OpenOf(c) == {n \in Numbers : opp[n].client = c /\ opp[n].is = "aberta"}
Busy == {a \in Acts : act[a].pc \notin {"new", "done"}}
Stay(vs) == UNCHANGED vs /\ UNCHANGED <<oppMenu, met>>
ToPc(a, pc) == act' = [act EXCEPT ![a].pc = pc]
Count(n, t) == oppEvents' = [oppEvents EXCEPT ![n][t] = @ + 1]
Running == {act[a].op : a \in Busy} \cup (IF round.pc = "idle" THEN {} ELSE {"sweep"})

-------------------------------------------------------------------------------
(* Who sees an opportunity *)

salesTeamMates(s) == {t \in Sellers : <<s, t>> \in Mates \/ <<t, s>> \in Mates}
canSeeSalesOpportunity(n, s) ==
    \/ Scope[s] = "all"
    \/ opp[n].seller = s
    \/ Scope[s] = "team" /\ opp[n].seller \in salesTeamMates(s)

-------------------------------------------------------------------------------
(* Opening *)

\* A request arrives; its kind is one of the menu, its opportunity is one the user may see.
Submit(a, op, by, c, n, o, st) ==
    /\ act[a].pc = "new" /\ a <= oppMenu.acts /\ op \in oppMenu.ops
    /\ \A b \in Acts : b < a => act[b].pc # "new"
    /\ act' = [act EXCEPT ![a] = [@ EXCEPT !.op = op, !.by = by, !.client = c, !.opp = n, !.order = o, !.stage = st, !.pc = "read"]]
    /\ met' = met \cup {{op, x} : x \in Running}
    /\ UNCHANGED <<oppMenu, opp, numbers, oppEvents, links, known, x2, day, lastRun, round>>

\* createOrRetriggerSalesOpportunity: an open one is only marked, otherwise one is inserted.
CreateRead(a) ==
    /\ act[a].op \in {"create", "button"} /\ act[a].pc = "read"
    /\ LET found == OpenOf(act[a].client) IN
       act' = [act EXCEPT ![a].opp = IF found = {} THEN 0 ELSE CHOOSE n \in found : TRUE,
                          ![a].pc = IF found = {} THEN "insert" ELSE "log"]
    /\ Stay(<<opp, numbers, oppEvents, links, known, x2, day, lastRun, round>>)
\* The partial unique index on (organization, contact) of the open rows.
OpenIndexAllows_Always(c) == TRUE
OpenIndexAllows(c) == OpenOf(c) = {}
\* nextOpportunityNumber and the insert with its event are one transaction: a refused insert takes no number.
nextOpportunityNumber == numbers + 1
CreateInsert(a) ==
    /\ act[a].pc = "insert" /\ nextOpportunityNumber \in Numbers
    /\ IF OpenIndexAllows(act[a].client)
       THEN /\ opp' = [opp EXCEPT ![nextOpportunityNumber] = [NoOpp EXCEPT !.client = act[a].client, !.is = "aberta",
                            !.since = day, !.seller = IF act[a].op = "create" THEN act[a].by ELSE Free]]
            /\ numbers' = nextOpportunityNumber
            /\ Count(nextOpportunityNumber, "opened")
            /\ ToPc(a, "done")
       ELSE ToPc(a, "winner") /\ UNCHANGED <<opp, numbers, oppEvents>>
    /\ Stay(<<links, known, x2, day, lastRun, round>>)
\* The loser looks for the winner's row, which may be settled already.
CreateWinner(a) ==
    /\ act[a].pc = "winner"
    /\ LET found == OpenOf(act[a].client) IN
       act' = [act EXCEPT ![a].opp = IF found = {} THEN 0 ELSE CHOOSE n \in found : TRUE,
                          ![a].pc = IF found = {} THEN "done" ELSE "log"]
    /\ Stay(<<opp, numbers, oppEvents, links, known, x2, day, lastRun, round>>)
\* The event is a separate insert after the write, and nothing checks that the opportunity still exists.
EventOf(op) == CASE op \in {"create", "button"} -> "retriggered" [] op = "stage" -> "stage" [] op = "route" -> "direcionamento"
                 [] op = "convert" -> "converted" [] op = "lose" -> "lost"
LogEvent(a) ==
    /\ act[a].pc = "log"
    /\ Count(act[a].opp, EventOf(act[a].op))
    /\ ToPc(a, "done")
    /\ Stay(<<opp, numbers, links, known, x2, day, lastRun, round>>)

\* assignOpenSalesOpportunityToAgent: the agent who takes the conversation becomes the seller of an unowned one.
StillFree(n) == opp[n].seller = Free
AssignRead(a) ==
    /\ act[a].op = "assign" /\ act[a].pc = "read"
    /\ LET found == {n \in OpenOf(act[a].client) : opp[n].seller = Free} IN
       act' = [act EXCEPT ![a].opp = IF found = {} THEN 0 ELSE CHOOSE n \in found : TRUE,
                          ![a].pc = IF found = {} THEN "done" ELSE "write"]
    /\ Stay(<<opp, numbers, oppEvents, links, known, x2, day, lastRun, round>>)
AssignWrite(a) ==
    /\ act[a].op = "assign" /\ act[a].pc = "write"
    /\ opp' = [opp EXCEPT ![act[a].opp].seller = IF Here(act[a].opp) /\ StillFree(act[a].opp) THEN act[a].by ELSE @]
    /\ ToPc(a, "done")
    /\ Stay(<<numbers, oppEvents, links, known, x2, day, lastRun, round>>)

-------------------------------------------------------------------------------
(* Requests on one opportunity: read, validate, write under a condition, log *)

\* What each handler requires of the row it read.
Admits(a) ==
    LET n == act[a].opp IN
    /\ Here(n) /\ canSeeSalesOpportunity(n, act[a].by)
    /\ CASE act[a].op = "stage" -> /\ opp[n].is = "aberta" /\ act[a].stage # opp[n].stage
                                   /\ act[a].stage = "direcionada" => opp[n].routed
         [] act[a].op = "route" -> opp[n].is = "aberta" /\ ~opp[n].routed
         [] act[a].op = "realize" -> opp[n].is = "convertida"
         [] act[a].op \in {"convert", "lose"} -> opp[n].is = "aberta"
         [] act[a].op = "link" -> opp[n].is \in {"aberta", "convertida"}
         [] act[a].op = "delete" -> Scope[act[a].by] = "all"
loadAuthorizedSalesOpportunity(a) ==
    /\ act[a].op \in {"stage", "route", "realize", "convert", "lose", "link", "delete"} /\ act[a].pc = "read"
    /\ act' = [act EXCEPT ![a].saw = opp[act[a].opp].is,
                          ![a].pc = IF Admits(a) THEN (IF act[a].op = "link" THEN "look" ELSE "write") ELSE "done"]
    /\ Stay(<<opp, numbers, oppEvents, links, known, x2, day, lastRun, round>>)

\* The update names the status it read; a row that moved on meanwhile is left alone.
StatusStill(n, s) == Here(n) /\ opp[n].is = s
Apply(a, op, row) ==
    /\ act[a].op = op /\ act[a].pc = "write"
    /\ IF StatusStill(act[a].opp, act[a].saw)
       THEN opp' = [opp EXCEPT ![act[a].opp] = row] /\ ToPc(a, IF op = "realize" THEN "done" ELSE "log")
       ELSE ToPc(a, "done") /\ UNCHANGED opp
    /\ Stay(<<numbers, oppEvents, links, known, x2, day, lastRun, round>>)
\* Leaving direcionada withdraws the breach in the same update.
BreachAfter(row, st) == row.breached /\ st = "direcionada"
ChangeSalesOpportunityStage(a) ==
    LET row == opp[act[a].opp] IN
    Apply(a, "stage", [row EXCEPT !.stage = act[a].stage, !.since = day, !.breached = BreachAfter(row, act[a].stage)])
ChangeSalesOpportunityDirecionamento(a) == Apply(a, "route", [opp[act[a].opp] EXCEPT !.routed = TRUE])
UpdateSalesOpportunityDetails(a) == Apply(a, "realize", [opp[act[a].opp] EXCEPT !.realized = TRUE])
ConvertSalesOpportunity(a) == Apply(a, "convert", [opp[act[a].opp] EXCEPT !.is = "convertida", !.breached = FALSE])
LoseSalesOpportunity(a) == Apply(a, "lose", [opp[act[a].opp] EXCEPT !.is = "perdida", !.breached = FALSE])

\* One transaction removes events, links and row.
KeptLinks(n) == [i \in 1 .. Len(links) |-> IF links[i].opp = n THEN [links[i] EXCEPT !.opp = 0, !.resolved = TRUE] ELSE links[i]]
DeleteSalesOpportunity(a) ==
    /\ act[a].op = "delete" /\ act[a].pc = "write"
    /\ opp' = [opp EXCEPT ![act[a].opp] = [NoOpp EXCEPT !.is = "gone"]]
    /\ oppEvents' = [oppEvents EXCEPT ![act[a].opp] = [t \in EventTypes |-> 0]]
    /\ links' = KeptLinks(act[a].opp)
    /\ ToPc(a, "done")
    /\ Stay(<<numbers, known, x2, day, lastRun, round>>)

-------------------------------------------------------------------------------
(* Linking an order by hand *)

OpenLinks(n) == {i \in 1 .. Len(links) : links[i].opp = n /\ ~links[i].resolved}
Taken(n, o) == \E i \in 1 .. Len(links) : links[i].order = o /\ links[i].opp \notin {n, 0}
\* The partial unique index on the open links whose company is known.
LinkIndexAllows(i, o) == \A j \in 1 .. Len(links) \ {i} : ~(links[j].order = o /\ links[j].firm /\ ~links[j].resolved)
NewLink(n, o, firm) == [opp |-> n, order |-> o, firm |-> firm, status |-> "absent", resolved |-> FALSE, closed |-> 0,
                         missed |-> 0, edited |-> FALSE, closedFor |-> Free]

\* UpsertSalesOpportunityXProcessLink looks for another opportunity's link and for its own open one,
UpsertLookUp(a) ==
    /\ act[a].pc = "look"
    /\ LET own == OpenLinks(act[a].opp) IN
       act' = [act EXCEPT ![a].link = IF own = {} THEN 0 ELSE Min(own),
                          ![a].pc = IF Taken(act[a].opp, act[a].order) THEN "done" ELSE "link"]
    /\ Stay(<<opp, numbers, oppEvents, links, known, x2, day, lastRun, round>>)
\* ... edits that one unless it was resolved meanwhile, or adds a new one ...
StillOpen(i) == i # 0 /\ (i # 0 => ~links[i].resolved)
UpsertWrite(a) ==
    LET i == act[a].link
        o == act[a].order IN
    /\ act[a].pc = "link"
    /\ IF StillOpen(i)
       THEN IF links[i].firm /\ ~LinkIndexAllows(i, o)
            THEN ToPc(a, "done") /\ UNCHANGED links
            ELSE /\ links' = [links EXCEPT ![i] = [@ EXCEPT !.order = o, !.missed = 0, !.edited = TRUE]]
                 /\ ToPc(a, "point")
       ELSE /\ Len(links) < MaxLinks
            /\ links' = Append(links, NewLink(act[a].opp, o, FALSE))
            /\ ToPc(a, "point")
    /\ Stay(<<opp, numbers, oppEvents, known, x2, day, lastRun, round>>)
\* ... and copies number and document to the opportunity and to a contact without one.
UpsertPoint(a) ==
    /\ act[a].pc = "point"
    /\ opp' = [opp EXCEPT ![act[a].opp].documento = IF Here(act[a].opp) THEN Buyer[act[a].order] ELSE @]
    /\ known' = IF opp[act[a].opp].client = Buyer[act[a].order] THEN known \cup {Buyer[act[a].order]} ELSE known
    /\ ToPc(a, "done")
    /\ Stay(<<numbers, oppEvents, links, x2, day, lastRun, round>>)

-------------------------------------------------------------------------------
(* The daily sweep *)

\* maybeRun: the date is noted before the run, so a run that fails is not repeated that day.
maybeRun ==
    /\ round.pc = "idle" /\ day > 0 /\ lastRun # day /\ oppMenu.sweeps
    /\ lastRun' = day
    /\ round' = [Idle EXCEPT !.pc = "list"]
    /\ met' = met \cup {{"sweep", x} : x \in Running}
    /\ UNCHANGED <<oppMenu, opp, numbers, oppEvents, links, known, x2, day, act>>
\* RunXProcessReconciliation loads every open link of the organization.
RunXProcessReconciliation ==
    /\ round.pc = "list"
    /\ round' = [round EXCEPT !.pc = "ask", !.todo = links, !.left = {i \in 1 .. Len(links) : ~links[i].resolved}]
    /\ Stay(<<opp, numbers, oppEvents, links, known, x2, day, lastRun, act>>)
\* Neither the links nor, then, the opportunities could be read.
SweepFails ==
    /\ round.pc = "list"
    /\ round' = Idle
    /\ Stay(<<opp, numbers, oppEvents, links, known, x2, day, lastRun, act>>)

\* After a link the next one, after a discovered link the next document.
Next1(s) == [s EXCEPT !.pc = IF s.owner = 0 THEN "ask" ELSE "seek", !.at = 0]
\* reconcileXProcessLink asks about the order the loaded link names ...
ConsultarPedido(i) ==
    LET phase == x2[round.todo[i].order] IN
    /\ round.pc = "ask" /\ i \in round.left
    /\ IF phase = "absent"
       THEN /\ links' = [links EXCEPT ![i].missed = IF @ < ReviewAfter THEN @ + 1 ELSE @]
            /\ round' = [round EXCEPT !.left = @ \ {i}]
       ELSE /\ round' = [round EXCEPT !.pc = "weigh", !.left = @ \ {i}, !.at = i, !.said = phase]
            /\ UNCHANGED links
    /\ Stay(<<opp, numbers, oppEvents, known, x2, day, lastRun, act>>)
\* ... without which nothing but the time of the check is written ...
ConsultFails(i) ==
    /\ round.pc = "ask" /\ i \in round.left
    /\ round' = [round EXCEPT !.left = @ \ {i}]
    /\ Stay(<<opp, numbers, oppEvents, links, known, x2, day, lastRun, act>>)
\* ... reads the opportunity and whether an older link of another one holds the order ...
xprocessOrderHeldByOlderLink(i, o) ==
    \E j \in 1 .. Len(links) : j < i /\ links[j].order = o /\ links[j].opp \notin {0, round.todo[i].opp}
Weigh ==
    LET i == round.at
        n == round.todo[i].opp IN
    /\ round.pc = "weigh"
    /\ round' = IF Here(n) /\ ~xprocessOrderHeldByOlderLink(i, round.todo[i].order)
                THEN [round EXCEPT !.pc = "settle", !.saw = opp[n].is]
                ELSE Next1(round)
    /\ Stay(<<opp, numbers, oppEvents, links, known, x2, day, lastRun, act>>)
\* ... decides the outcome: convert, lose or cancel, each an update conditional on the status read, then its event ...
OutcomeOf(said, saw) ==
    CASE said \in {"separacao", "fechado"} /\ saw = "aberta" -> <<"convertida", "converted">>
      [] said = "cancelado" /\ saw = "convertida" -> <<"cancelada", "cancelled">>
      [] said = "cancelado" /\ saw = "aberta" -> <<"perdida", "lost">>
      [] OTHER -> <<saw, "none">>
Settle ==
    LET n == round.todo[round.at].opp
        to == OutcomeOf(round.said, round.saw)
        moves == to[2] # "none" /\ StatusStill(n, round.saw) IN
    /\ round.pc = "settle"
    /\ opp' = IF moves THEN [opp EXCEPT ![n].is = to[1], ![n].breached = FALSE] ELSE opp
    /\ round' = IF moves THEN [round EXCEPT !.pc = "log", !.event = to[2]] ELSE [round EXCEPT !.pc = "realize"]
    /\ Stay(<<numbers, oppEvents, links, known, x2, day, lastRun, act>>)
SettleLog ==
    /\ round.pc = "log"
    /\ Count(round.todo[round.at].opp, round.event)
    /\ round' = [round EXCEPT !.pc = "realize"]
    /\ Stay(<<opp, numbers, links, known, x2, day, lastRun, act>>)
\* ... copies the total of a live order to a converted opportunity ...
setRealizedValueFromXProcess ==
    LET n == round.todo[round.at].opp IN
    /\ round.pc = "realize"
    /\ opp' = [opp EXCEPT ![n].realized = @ \/ (round.said # "cancelado" /\ opp[n].is = "convertida")]
    /\ round' = [round EXCEPT !.pc = "save"]
    /\ Stay(<<numbers, oppEvents, links, known, x2, day, lastRun, act>>)
\* ... and saves the link; the company code is left out when the index refuses it.
PastGrace(first) == day > first + Grace
SaveLink ==
    LET i == round.at
        seen == round.todo[i]
        first == IF seen.closed = 0 THEN day ELSE seen.closed
        closing == round.said = "fechado"
        old == links[i]
        done == old.resolved \/ round.said = "cancelado" \/ (closing /\ PastGrace(first)) IN
    /\ round.pc = "save"
    /\ links' = [links EXCEPT ![i] = IF old.opp = 0 THEN old ELSE
            [old EXCEPT !.firm = @ \/ done \/ LinkIndexAllows(i, old.order), !.status = round.said, !.missed = 0,
                        !.closed = IF closing /\ seen.closed = 0 THEN day ELSE @,
                        !.closedFor = IF closing /\ seen.closed = 0 THEN seen.order ELSE @,
                        !.resolved = done]]
    /\ round' = Next1(round)
    /\ Stay(<<opp, numbers, oppEvents, known, x2, day, lastRun, act>>)

-------------------------------------------------------------------------------
(* Discovery: orders nobody linked *)

oppDocumento(n) == IF opp[n].documento # Free THEN opp[n].documento
                   ELSE IF opp[n].client \in known THEN opp[n].client ELSE Free
NoLinkYet(n) == \A i \in 1 .. Len(links) : links[i].opp # n
\* discoverXProcessOrders: the documents of the converted opportunities without a link.
discoverXProcessOrders ==
    LET docs == {oppDocumento(n) : n \in {m \in Numbers : opp[m].is = "convertida" /\ NoLinkYet(m)}} \ {Free} IN
    /\ round.pc = "ask" /\ round.left = {}
    /\ round' = IF docs = {} THEN Idle ELSE [round EXCEPT !.pc = "seek", !.docs = docs]
    /\ Stay(<<opp, numbers, oppEvents, links, known, x2, day, lastRun, act>>)
xprocessDiscoverableStatus(o) == x2[o] \in {"separacao", "fechado"}
xprocessOrderClaimed(o) == \E i \in 1 .. Len(links) : links[i].order = o /\ links[i].opp # 0
\* decideXProcessMatch: one order and one opportunity fit, and the opportunity is converted.
decideXProcessMatch(d) ==
    LET pool == {n \in Numbers : opp[n].is \in {"aberta", "convertida"} /\ oppDocumento(n) = d /\ NoLinkYet(n)}
        fits == {o \in Orders : /\ Buyer[o] = d /\ xprocessDiscoverableStatus(o) /\ ~xprocessOrderClaimed(o)
                                /\ \E n \in pool : <<n, o>> \in Dated}
        able(o) == {n \in pool : <<n, o>> \in Dated /\ (opp[n].seller # Free => <<opp[n].seller, o>> \in Compatible)} IN
    {m \in pool \X fits : Cardinality(fits) = 1 /\ able(m[2]) = {m[1]} /\ opp[m[1]].is = "convertida"}
discoverForDocumento(d) ==
    /\ round.pc = "seek" /\ d \in round.docs
    /\ \/ \E m \in decideXProcessMatch(d) :
            round' = [round EXCEPT !.pc = "create", !.docs = @ \ {d}, !.owner = m[1], !.found = m[2]]
       \/ round' = [round EXCEPT !.docs = @ \ {d}]     \* nothing fits, or X2 did not answer
    /\ Stay(<<opp, numbers, oppEvents, links, known, x2, day, lastRun, act>>)
\* createDiscoveredXProcessLink: link, pointer and event in one transaction, refused by the index of the
\* open links; the new link is reconciled at once.
createDiscoveredXProcessLink ==
    LET n == round.owner
        o == round.found IN
    /\ round.pc = "create"
    /\ IF LinkIndexAllows(0, o) /\ Len(links) < MaxLinks
       THEN /\ links' = Append(links, NewLink(n, o, TRUE))
            /\ opp' = [opp EXCEPT ![n].documento = IF Here(n) THEN Buyer[o] ELSE @]
            /\ Count(n, "linked")
            /\ round' = [round EXCEPT !.pc = "weigh", !.todo = links', !.at = Len(links'),
                                      !.said = x2[o]]
       ELSE /\ round' = [round EXCEPT !.pc = "seek"]
            /\ UNCHANGED <<links, opp, oppEvents>>
    /\ Stay(<<numbers, known, x2, day, lastRun, act>>)
\* After the last document the sweep is over.
AfterDiscovered ==
    /\ round.pc = "seek" /\ round.docs = {}
    /\ round' = Idle
    /\ Stay(<<opp, numbers, oppEvents, links, known, x2, day, lastRun, act>>)

-------------------------------------------------------------------------------
(* Time, the order system and the breach marker *)

\* processSalesOpportunitySLA
processSalesOpportunitySLA(n) ==
    /\ opp[n].is = "aberta" /\ opp[n].stage = "direcionada" /\ ~opp[n].breached /\ opp[n].since < day
    /\ opp' = [opp EXCEPT ![n].breached = TRUE]
    /\ Stay(<<numbers, oppEvents, links, known, x2, day, lastRun, round, act>>)
X2Moves(o, p) ==
    /\ day > 0 /\ oppMenu.sweeps /\ round.pc \in {"idle", "ask", "seek", "create"}
    /\ \E i, j \in 1 .. 4 : i < j /\ Phases[i] = x2[o] /\ Phases[j] = p
    /\ x2' = [x2 EXCEPT ![o] = p]
    /\ Stay(<<opp, numbers, oppEvents, links, known, day, lastRun, round, act>>)
DayPasses ==
    /\ day < oppMenu.days /\ round.pc = "idle"
    /\ day' = day + 1
    /\ Stay(<<opp, numbers, oppEvents, links, known, x2, lastRun, round, act>>)

ActStep(a) ==
    \/ CreateRead(a) \/ CreateInsert(a) \/ CreateWinner(a) \/ LogEvent(a) \/ AssignRead(a) \/ AssignWrite(a)
    \/ loadAuthorizedSalesOpportunity(a) \/ ChangeSalesOpportunityStage(a) \/ ChangeSalesOpportunityDirecionamento(a)
    \/ UpdateSalesOpportunityDetails(a) \/ ConvertSalesOpportunity(a) \/ LoseSalesOpportunity(a) \/ DeleteSalesOpportunity(a)
    \/ UpsertLookUp(a) \/ UpsertWrite(a) \/ UpsertPoint(a)
OppNext ==
    \/ \E a \in Acts, op \in oppMenu.ops, by \in oppMenu.by, c \in Clients, n \in 0 .. numbers, o \in oppMenu.orders, st \in Stages :
          /\ (n = 0) = (op \in {"create", "button", "assign"})
          /\ op # "link" => o = (CHOOSE x \in oppMenu.orders : TRUE)
          /\ op # "stage" => st = "potencial"
          /\ n # 0 => c = (CHOOSE x \in Clients : TRUE)
          /\ Submit(a, op, by, c, n, o, st)
    \/ \E a \in Acts : ActStep(a)
    \/ maybeRun \/ RunXProcessReconciliation \/ SweepFails
    \/ \E i \in 1 .. Len(links) : ConsultarPedido(i) \/ ConsultFails(i)
    \/ Weigh \/ Settle \/ SettleLog \/ setRealizedValueFromXProcess \/ SaveLink
    \/ discoverXProcessOrders \/ \E d \in Clients : discoverForDocumento(d)
    \/ createDiscoveredXProcessLink \/ AfterDiscovered
    \/ \E n \in Numbers : processSalesOpportunitySLA(n)
    \/ \E o \in oppMenu.orders, p \in OrderPhases : X2Moves(o, p)
    \/ DayPasses
OppSpec == OppInit /\ [][OppNext]_oppVars

-------------------------------------------------------------------------------
(* What must hold *)

\* A customer has at most one open opportunity, however many buttons are pressed at once
\* (createOrRetriggerSalesOpportunity and the index behind it).
OneOpenPerContact == \A c \in Clients : Cardinality(OpenOf(c)) <= 1

\* The seller and the sweep settle the same opportunity at the same time: an outcome is reached once and from
\* the right status, a lost or cancelled one never comes back.
OutcomeMoves ==
    [][\A n \in Numbers : opp'[n].is # opp[n].is /\ opp[n].is \in Outcomes =>
          <<opp[n].is, opp'[n].is>> \in {<<"aberta", "convertida">>, <<"aberta", "perdida">>, <<"convertida", "cancelada">>}
          \/ opp'[n].is = "gone"]_oppVars

\* Every outcome has exactly one event, written by whoever won the race, once that writer is past its insert.
OutcomeLogged ==
    \A n \in Numbers :
        Here(n) /\ (\A a \in Busy : act[a].opp = n => act[a].pc # "log") /\ ~(round.pc = "log" /\ round.todo[round.at].opp = n) =>
            /\ oppEvents[n]["converted"] = (IF opp[n].is \in {"convertida", "cancelada"} THEN 1 ELSE 0)
            /\ oppEvents[n]["lost"] = (IF opp[n].is = "perdida" THEN 1 ELSE 0)
            /\ oppEvents[n]["cancelled"] = (IF opp[n].is = "cancelada" THEN 1 ELSE 0)

\* The seller of an opportunity is fixed once there is one; agents that take the conversation at the same
\* time do not take it from each other.
SellerKept == [][\A n \in Numbers : opp[n].seller # Free /\ opp'[n].is # "gone" => opp'[n].seller = opp[n].seller]_oppVars

\* A breach mark belongs to an open opportunity that waits in direcionada: the marker of the service level races with
\* stage changes, outcomes and the sweep, each of which withdraws the mark.
BreachedIsRouted == \A n \in Numbers : opp[n].breached => opp[n].is = "aberta" /\ opp[n].stage = "direcionada"

\* One order is followed for one opportunity even when two sellers register it at the same moment: the younger of two
\* links of different opportunities carries no answer about the order, unless a seller pointed one of them elsewhere.
OrderCreditsOne ==
    \A i, j \in 1 .. Len(links) :
        i < j /\ links[i].order = links[j].order /\ 0 \notin {links[i].opp, links[j].opp} /\ links[i].opp # links[j].opp =>
            links[j].status = "absent" \/ links[i].edited \/ links[j].edited

\* A link is closed for good only after its own order stayed closed over the grace period; an edit that points the
\* link elsewhere keeps first_closed_at of the former order and is the exception.
ClosedAfterGrace ==
    \A i \in 1 .. Len(links) : links[i].resolved /\ links[i].opp # 0 /\ links[i].status = "fechado" =>
        \/ links[i].edited
        \/ links[i].closedFor = links[i].order /\ day > links[i].closed + Grace

\* A resolved link keeps naming the order that was checked.
ResolvedIsFinal ==
    [][\A i \in 1 .. Len(links) : links[i].resolved /\ links[i].opp # 0 /\ links'[i].opp # 0 => links'[i].order = links[i].order]_oppVars

\* Nothing of a deleted opportunity is left, unless a request on it or the sweep was still running.
DeletedLeavesNothing ==
    \A n \in Numbers : opp[n].is = "gone" =>
        \/ \A t \in EventTypes : oppEvents[n][t] = 0 /\ \A i \in 1 .. Len(links) : links[i].opp # n
        \/ \E m \in met : "delete" \in m

\* A contact has one open opportunity, an order credits one opportunity, outcomes are
\* logged, a breach is routed, and only an expired grace closes by itself.
SalesConsistent ==
    OneOpenPerContact /\ OutcomeLogged /\ BreachedIsRouted /\ OrderCreditsOne /\ ClosedAfterGrace
        /\ DeletedLeavesNothing
===============================================================================
