------------------------------ MODULE AdminProofs ------------------------------
(***************************************************************************)
(* Proofs about the sales funnel, for any clients, sellers, orders and     *)
(* requests: a client has one open opportunity, an outcome is logged once  *)
(* by whoever won the race for it, an order credits one opportunity, and a *)
(* link closes only after the grace of its own order.                      *)
(***************************************************************************)
EXTENDS Opportunities, FiniteSetTheorems, WellFoundedInduction, TLAPS

-------------------------------------------------------------------------------
(* Sales: the inductive invariant *)

RoundSteps == {"idle", "list", "ask", "weigh", "settle", "log", "realize", "save", "seek", "create"}
RoundRow == [pc : RoundSteps, todo : Seq(LinkRow), left : SUBSET Nat, at : Nat, said : OrderPhases, saw : {"none", "gone"} \cup Outcomes,
             docs : SUBSET Clients, found : Orders \cup {Free}, owner : Numbers \cup {0}, event : EventTypes]
SalesTyped == OppTypeOK /\ oppMenu \in OppMenus /\ round \in RoundRow

Given(n) == n \in Numbers /\ n <= numbers
\* A request past its reading holds the number of an opportunity that was given, and the status its handler asks for.
ActKept(a) ==
    /\ act[a].opp <= numbers /\ (act[a].pc # "new" => act[a].op \in RequestKinds)
    /\ act[a].pc = "read" /\ act[a].op \notin {"create", "button", "assign"} => Given(act[a].opp)
    /\ act[a].pc = "insert" => act[a].op \in {"create", "button"}
    /\ act[a].pc = "winner" => act[a].op \in {"create", "button"}
    /\ act[a].pc = "log" => act[a].op \in {"create", "button", "stage", "route", "convert", "lose"} /\ Given(act[a].opp)
    /\ act[a].pc = "write" => act[a].op \in {"assign", "stage", "route", "realize", "convert", "lose", "delete"} /\ Given(act[a].opp)
    /\ act[a].pc = "write" /\ act[a].op \in {"stage", "route", "convert", "lose"} => act[a].saw = "aberta"
    /\ act[a].pc = "write" /\ act[a].op = "realize" => act[a].saw = "convertida"
    /\ act[a].pc \in {"look", "link", "point"} => act[a].op = "link" /\ Given(act[a].opp)
    /\ act[a].pc = "link" => act[a].link \in 0 .. Len(links)
ActsKept == \A a \in Acts : ActKept(a)
\* Numbers are given once: a row beyond the last one was never written.
RowsKept ==
    /\ \A n \in Numbers : n > numbers => opp[n] = NoOpp /\ \A t \in EventTypes : oppEvents[n][t] = 0
    /\ \A n \in Numbers : n <= numbers => opp[n].is # "none"
    /\ \A n \in Numbers : opp[n].is = "gone" => opp[n] = [NoOpp EXCEPT !.is = "gone"]
LinksGiven == \A i \in 1 .. Len(links) : links[i].opp <= numbers
OpenKept == \A m, n \in Numbers : opp[m].is = "aberta" /\ opp[n].is = "aberta" /\ opp[m].client = opp[n].client => m = n

\* What the sweep loaded is what the links say, but for orders a seller changed and links that were deleted.
SameLink(i) ==
    /\ links[i].opp \in {round.todo[i].opp, 0} /\ round.todo[i].opp <= numbers
    /\ links[i].order = round.todo[i].order \/ links[i].edited
OpenLink(i) ==
    /\ links[i].resolved => links[i].opp = 0
    /\ round.todo[i].closed = links[i].closed /\ round.todo[i].closedFor = links[i].closedFor
NotHeld(j) ==
    \A i \in 1 .. Len(links) :
        i < j /\ links[i].order = links[j].order /\ 0 \notin {links[i].opp, links[j].opp} /\ links[i].opp # links[j].opp =>
            links[i].edited \/ links[j].edited
RoundKept ==
    round.pc # "idle" =>
        /\ Len(round.todo) <= Len(links) /\ \A i \in 1 .. Len(round.todo) : SameLink(i)
        /\ round.left \subseteq 1 .. Len(round.todo) /\ \A i \in round.left : OpenLink(i)
        /\ round.pc \in {"weigh", "settle", "log", "realize", "save"} =>
            round.at \in 1 .. Len(round.todo) /\ round.at \notin round.left /\ OpenLink(round.at)
        /\ round.pc \in {"settle", "log", "realize", "save"} => NotHeld(round.at) /\ Given(round.todo[round.at].opp)
        /\ round.pc \in {"seek", "create"} \/ round.owner # 0 => round.left = {}
        /\ round.pc = "create" => Given(round.owner) /\ round.found \in Orders
        /\ round.pc = "list" => round.todo = <<>> /\ round.left = {} /\ round.owner = 0
        /\ round.pc = "log" => round.event \in {"converted", "lost", "cancelled"}
OrdersKept == \A j \in 1 .. Len(links) : links[j].status # "absent" /\ links[j].opp # 0 => NotHeld(j)
ClosingsKept ==
    /\ ClosedAfterGrace
    /\ \A i \in 1 .. Len(links) : links[i].closed # 0 => links[i].edited \/ links[i].closedFor = links[i].order
    /\ \A i \in 1 .. Len(links) : links[i].closed <= day

\* An outcome is logged, or exactly one request or the sweep is about to log it.
Due(n, t) ==
    CASE t = "converted" -> opp[n].is \in {"convertida", "cancelada"}
      [] t = "lost" -> opp[n].is = "perdida"
      [] t = "cancelled" -> opp[n].is = "cancelada"
Logging(a, n, t) == act[a].pc = "log" /\ act[a].opp = n /\ EventOf(act[a].op) = t
Sweeping(n, t) == round.pc = "log" /\ round.todo[round.at].opp = n /\ round.event = t
Once(n, t) ==
    /\ oppEvents[n][t] = 0 \/ (oppEvents[n][t] = 1 /\ Due(n, t))
    /\ \A a \in Acts : Logging(a, n, t) => Due(n, t) /\ oppEvents[n][t] = 0 /\ ~Sweeping(n, t)
    /\ \A a, b \in Acts : Logging(a, n, t) /\ Logging(b, n, t) => a = b
    /\ Sweeping(n, t) => Due(n, t) /\ oppEvents[n][t] = 0
    /\ Due(n, t) => oppEvents[n][t] = 1 \/ Sweeping(n, t) \/ \E a \in Acts : Logging(a, n, t)
LogsKept == \A n \in Numbers : Here(n) => \A t \in {"converted", "lost", "cancelled"} : Once(n, t)

\* Requests that met are on record; what is gone, alone, is left by all that come later.
DeleteMet == \E m \in met : "delete" \in m
MetKept ==
    \A a \in Acts : act[a].pc \notin {"new", "done"} /\ act[a].op = "delete" =>
        DeleteMet \/ (round.pc = "idle" /\ \A b \in Acts : act[b].pc \notin {"new", "done"} => a = b)
GoneKept ==
    DeleteMet \/ \A n \in Numbers : opp[n].is = "gone" =>
        /\ \A t \in EventTypes : oppEvents[n][t] = 0
        /\ \A i \in 1 .. Len(links) : links[i].opp # n
        /\ \A a \in Acts : act[a].pc \in {"log", "write", "look", "link", "point"} => act[a].opp # n
        /\ round.pc # "idle" => \A i \in 1 .. Len(round.todo) : round.todo[i].opp # n
        /\ round.pc = "create" => round.owner # n
SalesInv ==
    /\ SalesTyped /\ ActsKept /\ RowsKept /\ LinksGiven /\ OpenKept /\ RoundKept /\ OrdersKept /\ ClosingsKept /\ LogsKept /\ BreachedIsRouted
    /\ MetKept /\ GoneKept
-------------------------------------------------------------------------------
(* Sales: numbers and types *)

LEMMA SalesNumbers ==
    /\ MaxOpps \in Nat /\ MaxLinks \in Nat /\ MaxActs \in Nat /\ LastDay \in Nat /\ Grace \in Nat /\ ReviewAfter \in Nat
    /\ Numbers \subseteq Nat /\ Acts \subseteq Nat /\ 0 \notin Numbers
  BY OppAssumption DEF Numbers, Acts

\* The lowest of some links is one of them (the link UpsertSalesOpportunityXProcessLink edits).
Earlier == {ss \in Nat \X Nat : ss[1] < ss[2]}
LEMMA LowestLink ==
  ASSUME NEW S \in SUBSET Nat, S # {}
  PROVE  Min(S) \in S
  <1>1. IsWellFoundedOn(Earlier, Nat)
    BY NatLessThanWellFounded DEF OpToRel, Earlier
  <1>2. PICK x \in S : \A y \in S : ~(<<y, x>> \in Earlier)
    BY <1>1, WFMin
  <1>3. \A y \in S : x <= y
    <2> TAKE y \in S
    <2>1. x \in Nat /\ y \in Nat /\ (y < x => <<y, x>> \in Earlier)
      BY DEF Earlier
    <2> QED BY <1>2, <2>1
  <1> QED BY <1>3 DEF Min

Pcs == {"new", "read", "insert", "winner", "write", "look", "link", "point", "log", "done"}
\* The rest of the funnel keeps its types when its parts do.
LEMMA TypesFollow ==
  ASSUME SalesTyped, oppMenu' = oppMenu, opp' \in [Numbers -> OppRow], numbers' \in 0 .. MaxOpps,
         oppEvents' \in [Numbers -> [EventTypes -> Nat]], links' \in Seq(LinkRow), Len(links') <= MaxLinks, known' \subseteq Clients,
         x2' \in [Orders -> OrderPhases], day' \in 0 .. LastDay, lastRun' \in 0 .. LastDay, round' \in RoundRow,
         act' \in [Acts -> ActRow], met' \subseteq SUBSET (RequestKinds \cup {"sweep"})
  PROVE  SalesTyped'
  <1>1. round'.pc \in RoundSteps
    BY DEF RoundRow
  <1> QED BY <1>1 DEF SalesTyped, OppTypeOK, RoundSteps

\* One request moves on; nothing else changes where Untouched says so.
Aside == UNCHANGED <<oppMenu, met, numbers, known, x2, day, lastRun>>
Untouched == Aside /\ UNCHANGED <<opp, oppEvents, links, round>>
Acted(a) ==
    /\ act' \in [Acts -> ActRow] /\ \A b \in Acts : b # a => act'[b] = act[b]
    /\ act'[a].op = act[a].op /\ act'[a].client = act[a].client /\ act'[a].order = act[a].order
Turned(a) == Untouched /\ Acted(a) /\ SalesTyped'

LEMMA TurnedTyped ==
  ASSUME SalesTyped, NEW a \in Acts, Untouched, Acted(a)
  PROVE  Turned(a)
  BY TypesFollow DEF Turned, Untouched, Aside, Acted, SalesTyped, OppTypeOK

\* ToPc, and the answers of the reading steps.
LEMMA PcStep ==
  ASSUME SalesTyped, NEW a \in Acts, NEW pc \in Pcs, ToPc(a, pc)
  PROVE  /\ Acted(a) /\ act'[a].pc = pc /\ act'[a].opp = act[a].opp /\ act'[a].saw = act[a].saw
         /\ act'[a].link = act[a].link
  <1>1. act \in [Acts -> ActRow] /\ act[a] \in ActRow
    BY DEF SalesTyped, OppTypeOK
  <1>2. act'[a] = [act[a] EXCEPT !.pc = pc] /\ \A b \in Acts : b # a => act'[b] = act[b]
    BY <1>1 DEF ToPc
  <1>3. act'[a] \in ActRow
    BY <1>1, <1>2 DEF ActRow, Pcs
  <1>4. act' \in [Acts -> ActRow]
    BY <1>1, <1>2, <1>3 DEF ToPc
  <1> QED BY <1>1, <1>2, <1>4 DEF Acted, ActRow

LEMMA FindStep ==
  ASSUME SalesTyped, NEW a \in Acts, NEW pc \in Pcs, NEW n \in Numbers \cup {0},
         act' = [act EXCEPT ![a].opp = n, ![a].pc = pc]
  PROVE  Acted(a) /\ act'[a].pc = pc /\ act'[a].opp = n
  <1>1. act \in [Acts -> ActRow] /\ act[a] \in ActRow /\ n \in 0 .. MaxOpps
    BY SalesNumbers DEF SalesTyped, OppTypeOK, Numbers
  <1>2. act'[a] = [act[a] EXCEPT !.opp = n, !.pc = pc] /\ \A b \in Acts : b # a => act'[b] = act[b]
    BY <1>1
  <1>3. act'[a] \in ActRow
    BY <1>1, <1>2 DEF ActRow, Pcs
  <1>4. act' \in [Acts -> ActRow]
    BY <1>1, <1>2, <1>3
  <1> QED BY <1>1, <1>2, <1>4 DEF Acted, ActRow

LEMMA LoadStep ==
  ASSUME SalesTyped, NEW a \in Acts, NEW pc \in Pcs, NEW s \in {"none", "gone"} \cup Outcomes,
         act' = [act EXCEPT ![a].saw = s, ![a].pc = pc]
  PROVE  Acted(a) /\ act'[a].pc = pc /\ act'[a].saw = s /\ act'[a].opp = act[a].opp
  <1>1. act \in [Acts -> ActRow] /\ act[a] \in ActRow
    BY DEF SalesTyped, OppTypeOK
  <1>2. act'[a] = [act[a] EXCEPT !.saw = s, !.pc = pc] /\ \A b \in Acts : b # a => act'[b] = act[b]
    BY <1>1
  <1>3. act'[a] \in ActRow
    BY <1>1, <1>2 DEF ActRow, Pcs
  <1>4. act' \in [Acts -> ActRow]
    BY <1>1, <1>2, <1>3
  <1> QED BY <1>1, <1>2, <1>4 DEF Acted, ActRow

LEMMA LookStep ==
  ASSUME SalesTyped, NEW a \in Acts, NEW pc \in Pcs, NEW i \in 0 .. MaxLinks,
         act' = [act EXCEPT ![a].link = i, ![a].pc = pc]
  PROVE  Acted(a) /\ act'[a].pc = pc /\ act'[a].opp = act[a].opp /\ act'[a].link = i
  <1>1. act \in [Acts -> ActRow] /\ act[a] \in ActRow
    BY DEF SalesTyped, OppTypeOK
  <1>2. act'[a] = [act[a] EXCEPT !.link = i, !.pc = pc] /\ \A b \in Acts : b # a => act'[b] = act[b]
    BY <1>1
  <1>3. act'[a] \in ActRow
    BY <1>1, <1>2 DEF ActRow, Pcs
  <1>4. act' \in [Acts -> ActRow]
    BY <1>1, <1>2, <1>3
  <1> QED BY <1>1, <1>2, <1>4 DEF Acted, ActRow
-------------------------------------------------------------------------------
(* Sales: what the steps of the requests do *)

LEMMA CreateReadEffect ==
  ASSUME SalesTyped, NEW a \in Acts, CreateRead(a)
  PROVE  /\ Turned(a) /\ act[a].op \in {"create", "button"} /\ act[a].pc = "read"
         /\ \/ act'[a].pc = "insert" /\ act'[a].opp = 0
            \/ act'[a].pc = "log" /\ act'[a].opp \in OpenOf(act[a].client)
  <1> DEFINE found == OpenOf(act[a].client)
             n == IF found = {} THEN 0 ELSE CHOOSE m \in found : TRUE
             pc == IF found = {} THEN "insert" ELSE "log"
  <1>1. found \subseteq Numbers /\ (found # {} => n \in found) /\ pc \in Pcs
    BY DEF OpenOf, Pcs
  <1>2. n \in Numbers \cup {0}
    BY <1>1
  <1>3. act' = [act EXCEPT ![a].opp = n, ![a].pc = pc] /\ Untouched /\ act[a].op \in {"create", "button"} /\ act[a].pc = "read"
    BY DEF CreateRead, Stay, Untouched, Aside
  <1>4. Acted(a) /\ act'[a].pc = pc /\ act'[a].opp = n
    <2> HIDE DEF n, pc
    <2> QED BY <1>1, <1>2, <1>3, FindStep
  <1> QED BY <1>1, <1>3, <1>4, TurnedTyped

LEMMA CreateWinnerEffect ==
  ASSUME SalesTyped, NEW a \in Acts, CreateWinner(a)
  PROVE  /\ Turned(a) /\ act[a].pc = "winner"
         /\ \/ act'[a].pc = "done" /\ act'[a].opp = 0
            \/ act'[a].pc = "log" /\ act'[a].opp \in OpenOf(act[a].client)
  <1> DEFINE found == OpenOf(act[a].client)
             n == IF found = {} THEN 0 ELSE CHOOSE m \in found : TRUE
             pc == IF found = {} THEN "done" ELSE "log"
  <1>1. found \subseteq Numbers /\ (found # {} => n \in found) /\ pc \in Pcs
    BY DEF OpenOf, Pcs
  <1>2. n \in Numbers \cup {0}
    BY <1>1
  <1>3. act' = [act EXCEPT ![a].opp = n, ![a].pc = pc] /\ Untouched /\ act[a].pc = "winner"
    BY DEF CreateWinner, Stay, Untouched, Aside
  <1>4. Acted(a) /\ act'[a].pc = pc /\ act'[a].opp = n
    <2> HIDE DEF n, pc
    <2> QED BY <1>1, <1>2, <1>3, FindStep
  <1> QED BY <1>1, <1>3, <1>4, TurnedTyped

LEMMA AssignReadEffect ==
  ASSUME SalesTyped, NEW a \in Acts, AssignRead(a)
  PROVE  /\ Turned(a) /\ act[a].op = "assign" /\ act[a].pc = "read"
         /\ \/ act'[a].pc = "done" /\ act'[a].opp = 0
            \/ act'[a].pc = "write" /\ act'[a].opp \in OpenOf(act[a].client)
  <1> DEFINE found == {n \in OpenOf(act[a].client) : opp[n].seller = Free}
             n == IF found = {} THEN 0 ELSE CHOOSE m \in found : TRUE
             pc == IF found = {} THEN "done" ELSE "write"
  <1>1. found \subseteq Numbers /\ found \subseteq OpenOf(act[a].client) /\ (found # {} => n \in found) /\ pc \in Pcs
    BY DEF OpenOf, Pcs
  <1>2. n \in Numbers \cup {0}
    BY <1>1
  <1>3. act' = [act EXCEPT ![a].opp = n, ![a].pc = pc] /\ Untouched /\ act[a].op = "assign" /\ act[a].pc = "read"
    BY DEF AssignRead, Stay, Untouched, Aside
  <1>4. Acted(a) /\ act'[a].pc = pc /\ act'[a].opp = n
    <2> HIDE DEF n, pc
    <2> QED BY <1>1, <1>2, <1>3, FindStep
  <1> QED BY <1>1, <1>3, <1>4, TurnedTyped

LEMMA LoadEffect ==
  ASSUME SalesTyped, NEW a \in Acts, ActKept(a), loadAuthorizedSalesOpportunity(a)
  PROVE  /\ Turned(a) /\ act[a].pc = "read" /\ act'[a].opp = act[a].opp
         /\ act[a].op \in {"stage", "route", "realize", "convert", "lose", "link", "delete"}
         /\ \/ act'[a].pc = "done"
            \/ /\ act'[a].pc = IF act[a].op = "link" THEN "look" ELSE "write"
               /\ Here(act[a].opp)
               /\ act[a].op \in {"stage", "route", "convert", "lose"} => act'[a].saw = "aberta"
               /\ act[a].op = "realize" => act'[a].saw = "convertida"
  <1> DEFINE pc == IF Admits(a) THEN (IF act[a].op = "link" THEN "look" ELSE "write") ELSE "done"
  <1>1. pc \in Pcs
    BY DEF Pcs
  <1>2. /\ act' = [act EXCEPT ![a].saw = opp[act[a].opp].is, ![a].pc = pc] /\ Untouched /\ act[a].pc = "read"
        /\ act[a].op \in {"stage", "route", "realize", "convert", "lose", "link", "delete"}
    BY DEF loadAuthorizedSalesOpportunity, Stay, Untouched, Aside
  <1>3. act[a].opp \in Numbers
    BY <1>2 DEF ActKept, Given
  <1>4. opp[act[a].opp].is \in {"none", "gone"} \cup Outcomes
    BY <1>3 DEF SalesTyped, OppTypeOK, OppRow
  <1>5. Acted(a) /\ act'[a].pc = pc /\ act'[a].saw = opp[act[a].opp].is /\ act'[a].opp = act[a].opp
    <2> HIDE DEF pc
    <2> QED BY <1>1, <1>2, <1>4, LoadStep
  <1>6. Turned(a)
    BY <1>2, <1>5, TurnedTyped
  <1>7. Admits(a) =>
          /\ Here(act[a].opp)
          /\ act[a].op \in {"stage", "route", "convert", "lose"} => opp[act[a].opp].is = "aberta"
          /\ act[a].op = "realize" => opp[act[a].opp].is = "convertida"
    BY DEF Admits
  <1> QED BY <1>2, <1>5, <1>6, <1>7

LEMMA UpsertLookUpEffect ==
  ASSUME SalesTyped, NEW a \in Acts, UpsertLookUp(a)
  PROVE  /\ Turned(a) /\ act[a].pc = "look" /\ act'[a].opp = act[a].opp /\ act'[a].pc \in {"done", "link"}
         /\ act'[a].link \in 0 .. Len(links)
  <1> DEFINE own == OpenLinks(act[a].opp)
             i == IF own = {} THEN 0 ELSE Min(own)
             pc == IF Taken(act[a].opp, act[a].order) THEN "done" ELSE "link"
  <1>1. own \subseteq 1 .. Len(links) /\ pc \in Pcs /\ Len(links) \in Nat /\ Len(links) <= MaxLinks
    BY DEF OpenLinks, Pcs, SalesTyped, OppTypeOK
  <1>2. i \in 0 .. MaxLinks /\ i \in 0 .. Len(links)
    <2>1. CASE own = {}
      BY <1>1, <2>1, SalesNumbers
    <2>2. CASE own # {}
      <3>1. own \in SUBSET Nat
        BY <1>1
      <3>2. Min(own) \in own
        <4> HIDE DEF own
        <4> QED BY <3>1, <2>2, LowestLink
      <3>3. Min(own) \in 1 .. Len(links)
        <4> HIDE DEF own
        <4> QED BY <1>1, <3>2
      <3>4. i = Min(own)
        BY <2>2
      <3> HIDE DEF own, i
      <3> QED BY <1>1, <3>3, <3>4, SalesNumbers
    <2> QED BY <2>1, <2>2
  <1>3. act' = [act EXCEPT ![a].link = i, ![a].pc = pc] /\ Untouched /\ act[a].pc = "look"
    BY DEF UpsertLookUp, Stay, Untouched, Aside
  <1>4. Acted(a) /\ act'[a].pc = pc /\ act'[a].opp = act[a].opp /\ act'[a].link = i
    <2>1. pc \in Pcs /\ i \in 0 .. MaxLinks /\ act' = [act EXCEPT ![a].link = i, ![a].pc = pc]
      BY <1>1, <1>2, <1>3
    <2> HIDE DEF own, i, pc
    <2> QED BY <2>1, LookStep
  <1> QED BY <1>2, <1>3, <1>4, TurnedTyped
-------------------------------------------------------------------------------
(* Sales: what the writes of the requests do *)

LEMMA MenuSound ==
  ASSUME SalesTyped
  PROVE  /\ oppMenu.ops \subseteq RequestKinds /\ oppMenu.by \subseteq Sellers /\ oppMenu.orders \subseteq Orders
         /\ oppMenu.days \in 0 .. LastDay
  BY OppAssumption DEF SalesTyped

\* One row moves, the others stay; a mark leaves the status, the stage, the breach and a seller alone.
RowsBut(n) == opp' \in [Numbers -> OppRow] /\ \A m \in Numbers : m # n => opp'[m] = opp[m]
Marked(n) ==
    /\ RowsBut(n) /\ \A m \in Numbers : ~Here(m) => opp'[m] = opp[m]
    /\ \A m \in Numbers : /\ opp'[m].is = opp[m].is /\ opp'[m].client = opp[m].client /\ opp'[m].stage = opp[m].stage
                          /\ opp'[m].breached = opp[m].breached
                          /\ opp[m].seller # Free => opp'[m].seller = opp[m].seller
Moved(n, s) ==
    /\ RowsBut(n) /\ opp'[n].is = s /\ opp'[n].client = opp[n].client /\ opp'[n].seller = opp[n].seller
    /\ opp'[n].breached = FALSE
Counted(n, t) ==
    /\ oppEvents' \in [Numbers -> [EventTypes -> Nat]]
    /\ \A m \in Numbers, u \in EventTypes : oppEvents'[m][u] = IF m = n /\ u = t THEN oppEvents[m][u] + 1 ELSE oppEvents[m][u]

LEMMA CountEffect ==
  ASSUME SalesTyped, NEW n \in Numbers, NEW t \in EventTypes, Count(n, t)
  PROVE  Counted(n, t)
  <1>1. oppEvents \in [Numbers -> [EventTypes -> Nat]]
    BY DEF SalesTyped, OppTypeOK
  <1>2. \A m \in Numbers : oppEvents'[m] = IF m = n THEN [oppEvents[n] EXCEPT ![t] = @ + 1] ELSE oppEvents[m]
    BY <1>1 DEF Count
  <1>3. \A m \in Numbers : oppEvents'[m] \in [EventTypes -> Nat]
    BY <1>1, <1>2
  <1>4. oppEvents' \in [Numbers -> [EventTypes -> Nat]]
    BY <1>1, <1>3 DEF Count
  <1>5. \A m \in Numbers, u \in EventTypes : oppEvents'[m][u] = IF m = n /\ u = t THEN oppEvents[m][u] + 1 ELSE oppEvents[m][u]
    BY <1>1, <1>2
  <1> QED BY <1>4, <1>5 DEF Counted

LEMMA SubmitEffect ==
  ASSUME SalesTyped, ActsKept, NEW a \in Acts, NEW op \in oppMenu.ops, NEW by \in oppMenu.by, NEW c \in Clients, NEW n \in 0 .. numbers,
         NEW o \in oppMenu.orders, NEW st \in Stages, Submit(a, op, by, c, n, o, st)
  PROVE  /\ act[a].pc = "new" /\ act'[a].pc = "read" /\ act'[a].op = op /\ op \in RequestKinds /\ act'[a].opp = n
         /\ act' \in [Acts -> ActRow] /\ \A b \in Acts : b # a => act'[b] = act[b]
         /\ met' = met \cup {{op, x} : x \in Running}
         /\ UNCHANGED <<oppMenu, opp, numbers, oppEvents, links, known, x2, day, lastRun, round>> /\ SalesTyped'
  <1>1. act \in [Acts -> ActRow] /\ act[a] \in ActRow /\ numbers \in 0 .. MaxOpps /\ op \in RequestKinds /\ by \in Sellers /\ o \in Orders
    BY MenuSound DEF SalesTyped, OppTypeOK
  <1>2. n \in 0 .. MaxOpps
    BY <1>1, SalesNumbers
  <1>3. act' = [act EXCEPT ![a] = [@ EXCEPT !.op = op, !.by = by, !.client = c, !.opp = n, !.order = o, !.stage = st, !.pc = "read"]]
    BY DEF Submit
  <1>4. act'[a] \in ActRow /\ act'[a].pc = "read" /\ act'[a].op = op /\ act'[a].opp = n
    BY <1>1, <1>2, <1>3 DEF ActRow
  <1>5. act' \in [Acts -> ActRow] /\ \A b \in Acts : b # a => act'[b] = act[b]
    BY <1>1, <1>3, <1>4
  <1>6. {{op, x} : x \in Running} \subseteq SUBSET (RequestKinds \cup {"sweep"})
    <2>1. \A x \in Running : x \in RequestKinds \cup {"sweep"}
      <3>1. \A b \in Busy : act[b].op \in RequestKinds
        BY DEF Busy, ActsKept, ActKept
      <3> QED BY <3>1 DEF Running
    <2> QED BY <1>1, <2>1
  <1>7. met' \subseteq SUBSET (RequestKinds \cup {"sweep"})
    BY <1>6 DEF Submit, SalesTyped, OppTypeOK
  <1>8. UNCHANGED <<oppMenu, opp, numbers, oppEvents, links, known, x2, day, lastRun, round>> /\ act[a].pc = "new"
         /\ met' = met \cup {{op, x} : x \in Running}
    BY DEF Submit
  <1>9. SalesTyped'
    BY <1>5, <1>7, <1>8, TypesFollow DEF SalesTyped, OppTypeOK
  <1> QED BY <1>1, <1>4, <1>5, <1>8, <1>9

LEMMA CreateInsertEffect ==
  ASSUME SalesTyped, NEW a \in Acts, CreateInsert(a)
  PROVE  /\ act[a].pc = "insert" /\ Acted(a) /\ act'[a].opp = act[a].opp /\ SalesTyped'
         /\ \/ Turned(a) /\ act'[a].pc = "winner"
            \/ LET n == numbers + 1 IN
               /\ act'[a].pc = "done" /\ n \in Numbers /\ OpenOf(act[a].client) = {} /\ numbers' = n
               /\ RowsBut(n) /\ opp'[n].is = "aberta" /\ opp'[n].client = act[a].client /\ opp'[n].breached = FALSE
               /\ Counted(n, "opened") /\ UNCHANGED <<oppMenu, met, links, known, x2, day, lastRun, round>>
  <1> DEFINE n == numbers + 1
             row == [NoOpp EXCEPT !.client = act[a].client, !.is = "aberta", !.since = day,
                                  !.seller = IF act[a].op = "create" THEN act[a].by ELSE Free]
  <1>0. n \in Numbers /\ act[a].pc = "insert" /\ UNCHANGED <<oppMenu, met, links, known, x2, day, lastRun, round>>
    BY DEF CreateInsert, nextOpportunityNumber, Stay
  <1>1. CASE OpenOf(act[a].client) = {}
    <2>1. /\ opp' = [opp EXCEPT ![n] = row] /\ numbers' = n /\ Count(n, "opened") /\ ToPc(a, "done")
      BY <1>1 DEF CreateInsert, OpenIndexAllows, nextOpportunityNumber
    <2>2. act[a] \in ActRow /\ opp \in [Numbers -> OppRow] /\ day \in 0 .. LastDay
      BY DEF SalesTyped, OppTypeOK
    <2>3. row \in OppRow /\ row.is = "aberta" /\ row.client = act[a].client /\ row.breached = FALSE
      BY <2>2 DEF ActRow, OppRow, NoOpp, Outcomes, Stages
    <2>4. RowsBut(n) /\ opp'[n] = row
      <3> HIDE DEF row, n
      <3> QED BY <1>0, <2>1, <2>2, <2>3 DEF RowsBut
    <2>5. Counted(n, "opened")
      <3> HIDE DEF n
      <3> QED BY <1>0, <2>1, CountEffect DEF EventTypes
    <2>6. Acted(a) /\ act'[a].pc = "done" /\ act'[a].opp = act[a].opp
      BY <2>1, PcStep DEF Pcs
    <2>7. numbers' \in 0 .. MaxOpps
      BY <1>0, <2>1, SalesNumbers DEF Numbers
    <2>8. SalesTyped'
      <3> HIDE DEF n
      <3> QED BY <1>0, <2>4, <2>5, <2>6, <2>7, TypesFollow DEF RowsBut, Counted, Acted, SalesTyped, OppTypeOK
    <2> HIDE DEF row
    <2> QED BY <1>0, <1>1, <2>1, <2>3, <2>4, <2>5, <2>6, <2>8
  <1>2. CASE OpenOf(act[a].client) # {}
    <2>1. ToPc(a, "winner") /\ Untouched
      BY <1>0, <1>2 DEF CreateInsert, OpenIndexAllows, Stay, Untouched, Aside
    <2>2. Acted(a) /\ act'[a].pc = "winner" /\ act'[a].opp = act[a].opp
      BY <2>1, PcStep DEF Pcs
    <2>3. Turned(a)
      BY <2>1, <2>2, TurnedTyped
    <2> QED BY <1>0, <2>2, <2>3 DEF Turned
  <1> QED BY <1>1, <1>2

LEMMA LogEventEffect ==
  ASSUME SalesTyped, NEW a \in Acts, ActKept(a), LogEvent(a)
  PROVE  /\ act[a].pc = "log" /\ Acted(a) /\ act'[a].pc = "done" /\ act'[a].opp = act[a].opp /\ act[a].opp \in Numbers
         /\ EventOf(act[a].op) \in EventTypes /\ Counted(act[a].opp, EventOf(act[a].op))
         /\ Aside /\ UNCHANGED <<opp, links, round>> /\ SalesTyped'
  <1>1. act[a].pc = "log" /\ Count(act[a].opp, EventOf(act[a].op)) /\ ToPc(a, "done") /\ Aside /\ UNCHANGED <<opp, links, round>>
    BY DEF LogEvent, Stay, Aside
  <1>2. EventOf(act[a].op) \in EventTypes /\ act[a].opp \in Numbers
    BY <1>1 DEF ActKept, EventOf, EventTypes, Given
  <1>3. Counted(act[a].opp, EventOf(act[a].op))
    BY <1>1, <1>2, CountEffect
  <1>4. Acted(a) /\ act'[a].pc = "done" /\ act'[a].opp = act[a].opp
    BY <1>1, PcStep DEF Pcs
  <1>5. SalesTyped'
    BY <1>1, <1>3, <1>4, TypesFollow DEF Aside, Counted, Acted, SalesTyped, OppTypeOK
  <1> QED BY <1>1, <1>2, <1>3, <1>4, <1>5
-------------------------------------------------------------------------------
(* Sales: requests on one opportunity *)

LEMMA AssignWriteEffect ==
  ASSUME SalesTyped, NEW a \in Acts, AssignWrite(a)
  PROVE  /\ act[a].op = "assign" /\ act[a].pc = "write" /\ Acted(a) /\ act'[a].pc = "done" /\ act'[a].opp = act[a].opp
         /\ Marked(act[a].opp) /\ Aside /\ UNCHANGED <<oppEvents, links, round>> /\ SalesTyped'
  <1> DEFINE n == act[a].opp
  <1>1. /\ act[a].op = "assign" /\ act[a].pc = "write" /\ ToPc(a, "done") /\ Aside /\ UNCHANGED <<oppEvents, links, round>>
        /\ opp' = [opp EXCEPT ![n].seller = IF Here(n) /\ opp[n].seller = Free THEN act[a].by ELSE @]
    BY DEF AssignWrite, Stay, Aside, StillFree
  <1>2. Acted(a) /\ act'[a].pc = "done" /\ act'[a].opp = act[a].opp
    BY <1>1, PcStep DEF Pcs
  <1>3. opp \in [Numbers -> OppRow] /\ act[a].by \in Sellers
    BY DEF SalesTyped, OppTypeOK, ActRow
  <1>4. RowsBut(n) /\ \A m \in Numbers : ~Here(m) => opp'[m] = opp[m]
    <2> DEFINE s == IF Here(n) /\ opp[n].seller = Free THEN act[a].by ELSE opp[n].seller
    <2>0. \A m \in Numbers : opp[m].seller \in Sellers \cup {Free}
      BY <1>3 DEF OppRow
    <2>1. \A m \in Numbers : opp'[m] = IF m = n THEN [opp[m] EXCEPT !.seller = s] ELSE opp[m]
      BY <1>1, <1>3
    <2>2. \A m \in Numbers : opp'[m] \in OppRow
      <3>1. n \in Numbers => s \in Sellers \cup {Free}
        BY <1>3, <2>0
      <3> TAKE m \in Numbers
      <3>2. CASE m = n
        <4>1. opp[m] \in OppRow /\ s \in Sellers \cup {Free} /\ opp'[m] = [opp[m] EXCEPT !.seller = s]
          BY <1>3, <2>1, <3>1, <3>2
        <4> HIDE DEF s
        <4> QED BY <4>1 DEF OppRow
      <3>3. CASE m # n
        BY <1>3, <2>1, <3>3
      <3> QED BY <3>2, <3>3
    <2>3. opp' \in [Numbers -> OppRow]
      BY <1>1, <1>3, <2>2
    <2>4. \A m \in Numbers : ~Here(m) => opp'[m] = opp[m]
      <3>1. \A r \in OppRow : [r EXCEPT !.seller = r.seller] = r
        BY DEF OppRow
      <3>2. \A m \in Numbers : ~Here(m) /\ m = n => opp'[m] = [opp[m] EXCEPT !.seller = opp[m].seller]
        BY <2>1
      <3> QED BY <1>3, <2>1, <3>1, <3>2
    <2> QED BY <2>1, <2>3, <2>4 DEF RowsBut
  <1>5. \A m \in Numbers : /\ opp'[m].is = opp[m].is /\ opp'[m].client = opp[m].client /\ opp'[m].stage = opp[m].stage
                           /\ opp'[m].breached = opp[m].breached
                           /\ opp[m].seller # Free => opp'[m].seller = opp[m].seller
    BY <1>1, <1>3 DEF OppRow
  <1>6. Marked(n)
    BY <1>4, <1>5 DEF Marked
  <1>7. SalesTyped'
    BY <1>1, <1>2, <1>4, TypesFollow DEF RowsBut, Aside, Acted, SalesTyped, OppTypeOK
  <1> QED BY <1>1, <1>2, <1>6, <1>7

\* The five updates that name the status they read.
LEMMA ApplyEffect ==
  ASSUME SalesTyped, NEW a \in Acts, ActKept(a), NEW op \in {"stage", "route", "realize", "convert", "lose"}, NEW row, Apply(a, op, row),
         act[a].opp \in Numbers => row \in OppRow
  PROVE  /\ act[a].op = op /\ act[a].pc = "write" /\ Acted(a) /\ act'[a].opp = act[a].opp /\ SalesTyped' /\ act[a].opp \in Numbers
         /\ \/ Turned(a) /\ act'[a].pc = "done"
            \/ /\ Here(act[a].opp) /\ opp[act[a].opp].is = act[a].saw /\ RowsBut(act[a].opp) /\ opp'[act[a].opp] = row
               /\ act'[a].pc = (IF op = "realize" THEN "done" ELSE "log")
               /\ Aside /\ UNCHANGED <<oppEvents, links, round>>
  <1> DEFINE n == act[a].opp
             pc == IF op = "realize" THEN "done" ELSE "log"
  <1>1. act[a].op = op /\ act[a].pc = "write" /\ Aside /\ UNCHANGED <<oppEvents, links, round>>
    BY DEF Apply, Stay, Aside
  <1>2. n \in Numbers /\ row \in OppRow
    BY <1>1 DEF ActKept, Given
  <1>3. CASE StatusStill(n, act[a].saw)
    <2>1. opp' = [opp EXCEPT ![n] = row] /\ ToPc(a, pc) /\ pc \in Pcs
      BY <1>3 DEF Apply, Pcs
    <2>2. opp \in [Numbers -> OppRow]
      BY DEF SalesTyped, OppTypeOK
    <2>3. RowsBut(n) /\ opp'[n] = row
      BY <1>2, <2>1, <2>2 DEF RowsBut
    <2>4. Acted(a) /\ act'[a].pc = pc /\ act'[a].opp = act[a].opp
      <3> HIDE DEF pc
      <3> QED BY <2>1, PcStep
    <2>5. SalesTyped'
      BY <1>1, <2>3, <2>4, TypesFollow DEF RowsBut, Aside, Acted, SalesTyped, OppTypeOK
    <2> QED BY <1>1, <1>2, <1>3, <2>3, <2>4, <2>5 DEF StatusStill
  <1>4. CASE ~StatusStill(n, act[a].saw)
    <2>1. ToPc(a, "done") /\ Untouched
      BY <1>1, <1>4 DEF Apply, Untouched
    <2>2. Acted(a) /\ act'[a].pc = "done" /\ act'[a].opp = act[a].opp
      BY <2>1, PcStep DEF Pcs
    <2>3. Turned(a)
      BY <2>1, <2>2, TurnedTyped
    <2> QED BY <1>1, <1>2, <2>2, <2>3 DEF Turned
  <1> QED BY <1>3, <1>4

LEMMA StageEffect ==
  ASSUME SalesTyped, NEW a \in Acts, ActKept(a), ChangeSalesOpportunityStage(a)
  PROVE  /\ act[a].op = "stage" /\ act[a].pc = "write" /\ Acted(a) /\ act'[a].opp = act[a].opp /\ SalesTyped' /\ act[a].opp \in Numbers
         /\ \/ Turned(a) /\ act'[a].pc = "done"
            \/ LET n == act[a].opp IN
               /\ Here(n) /\ RowsBut(n) /\ act'[a].pc = "log" /\ Aside /\ UNCHANGED <<oppEvents, links, round>>
               /\ opp'[n].is = opp[n].is /\ opp'[n].client = opp[n].client /\ opp'[n].seller = opp[n].seller
               /\ opp'[n].breached => opp[n].breached /\ opp'[n].stage = "direcionada"
  <1> DEFINE n == act[a].opp
             row == [opp[n] EXCEPT !.stage = act[a].stage, !.since = day, !.breached = BreachAfter(opp[n], act[a].stage)]
  <1>1. Apply(a, "stage", row)
    BY DEF ChangeSalesOpportunityStage
  <1>2. act[a].stage \in Stages /\ day \in 0 .. LastDay /\ (n \in Numbers => opp[n] \in OppRow)
    BY DEF SalesTyped, OppTypeOK, ActRow
  <1>3. n \in Numbers =>
          /\ row \in OppRow /\ row.is = opp[n].is /\ row.client = opp[n].client /\ row.seller = opp[n].seller
          /\ row.breached => opp[n].breached /\ row.stage = "direcionada"
    BY <1>2 DEF OppRow, BreachAfter
  <1> HIDE DEF row
  <1> QED BY <1>1, <1>3, ApplyEffect

LEMMA RouteEffect ==
  ASSUME SalesTyped, NEW a \in Acts, ActKept(a), ChangeSalesOpportunityDirecionamento(a) \/ UpdateSalesOpportunityDetails(a)
  PROVE  /\ act[a].op \in {"route", "realize"} /\ act[a].pc = "write" /\ Acted(a) /\ act'[a].opp = act[a].opp /\ SalesTyped'
         /\ act[a].opp \in Numbers
         /\ \/ Turned(a) /\ act'[a].pc = "done"
            \/ Marked(act[a].opp) /\ Here(act[a].opp) /\ act'[a].pc = (IF act[a].op = "realize" THEN "done" ELSE "log") /\ Aside
               /\ UNCHANGED <<oppEvents, links, round>>
  <1> DEFINE n == act[a].opp
             routed == [opp[n] EXCEPT !.routed = TRUE]
             realized == [opp[n] EXCEPT !.realized = TRUE]
  <1>1. n \in Numbers => opp[n] \in OppRow
    BY DEF SalesTyped, OppTypeOK
  <1>2. \A r \in {routed, realized} : n \in Numbers =>
          /\ r \in OppRow /\ r.is = opp[n].is /\ r.client = opp[n].client /\ r.stage = opp[n].stage
          /\ r.breached = opp[n].breached /\ r.seller = opp[n].seller
    BY <1>1 DEF OppRow
  <1>3. \/ Apply(a, "route", routed)
        \/ Apply(a, "realize", realized)
    BY DEF ChangeSalesOpportunityDirecionamento, UpdateSalesOpportunityDetails
  <1> HIDE DEF routed, realized
  <1>4. ASSUME NEW r \in {routed, realized}, NEW op \in {"route", "realize"}, Apply(a, op, r)
        PROVE  /\ act[a].op \in {"route", "realize"} /\ act[a].pc = "write" /\ Acted(a) /\ act'[a].opp = act[a].opp /\ SalesTyped'
               /\ act[a].opp \in Numbers
               /\ \/ Turned(a) /\ act'[a].pc = "done"
                  \/ Marked(act[a].opp) /\ Here(act[a].opp) /\ act'[a].pc = (IF act[a].op = "realize" THEN "done" ELSE "log") /\ Aside
                     /\ UNCHANGED <<oppEvents, links, round>>
    <2>1. /\ act[a].op = op /\ act[a].pc = "write" /\ Acted(a) /\ act'[a].opp = act[a].opp /\ SalesTyped' /\ act[a].opp \in Numbers
          /\ \/ Turned(a) /\ act'[a].pc = "done"
             \/ /\ Here(act[a].opp) /\ opp[act[a].opp].is = act[a].saw /\ RowsBut(act[a].opp) /\ opp'[act[a].opp] = r
                /\ act'[a].pc = (IF op = "realize" THEN "done" ELSE "log")
                /\ Aside /\ UNCHANGED <<oppEvents, links, round>>
      BY <1>2, <1>4, ApplyEffect
    <2>2. Here(n) /\ RowsBut(n) /\ opp'[n] = r => Marked(n)
      BY <1>2, <2>1 DEF Marked, RowsBut
    <2> QED BY <2>1, <2>2
  <1> QED BY <1>3, <1>4

LEMMA OutcomeEffect ==
  ASSUME SalesTyped, NEW a \in Acts, ActKept(a), ConvertSalesOpportunity(a) \/ LoseSalesOpportunity(a)
  PROVE  /\ act[a].op \in {"convert", "lose"} /\ act[a].pc = "write" /\ Acted(a) /\ act'[a].opp = act[a].opp /\ SalesTyped'
         /\ act[a].opp \in Numbers
         /\ \/ Turned(a) /\ act'[a].pc = "done"
            \/ /\ Moved(act[a].opp, IF act[a].op = "convert" THEN "convertida" ELSE "perdida") /\ opp[act[a].opp].is = "aberta"
               /\ act'[a].pc = "log" /\ Aside /\ UNCHANGED <<oppEvents, links, round>>
  <1> DEFINE n == act[a].opp
             won == [opp[n] EXCEPT !.is = "convertida", !.breached = FALSE]
             lost == [opp[n] EXCEPT !.is = "perdida", !.breached = FALSE]
  <1>1. n \in Numbers => opp[n] \in OppRow
    BY DEF SalesTyped, OppTypeOK
  <1>2. n \in Numbers =>
          /\ won \in OppRow /\ won.is = "convertida" /\ won.client = opp[n].client /\ won.seller = opp[n].seller /\ won.breached = FALSE
          /\ lost \in OppRow /\ lost.is = "perdida" /\ lost.client = opp[n].client /\ lost.seller = opp[n].seller /\ lost.breached = FALSE
    BY <1>1 DEF OppRow, Outcomes
  <1>3. Apply(a, "convert", won) \/ Apply(a, "lose", lost)
    BY DEF ConvertSalesOpportunity, LoseSalesOpportunity
  <1>4. act[a].pc = "write" /\ act[a].op \in {"convert", "lose"} => act[a].saw = "aberta"
    BY DEF ActKept
  <1> HIDE DEF won, lost
  <1>5. CASE Apply(a, "convert", won)
    BY <1>2, <1>4, <1>5, ApplyEffect DEF Moved
  <1>6. CASE Apply(a, "lose", lost)
    BY <1>2, <1>4, <1>6, ApplyEffect DEF Moved
  <1> QED BY <1>3, <1>5, <1>6
-------------------------------------------------------------------------------
(* Sales: deleting and linking *)

\* The links as they were, but the one at i; and one more link at the end.
LinksTyped == links' \in Seq(LinkRow) /\ Len(links') \in Nat /\ Len(links') <= MaxLinks
LinkAt(i, row) ==
    /\ LinksTyped /\ Len(links') = Len(links) /\ i \in 1 .. Len(links) /\ links'[i] = row
    /\ \A j \in 1 .. Len(links) : j # i => links'[j] = links[j]
Grown(row) ==
    /\ LinksTyped /\ Len(links') = Len(links) + 1 /\ links'[Len(links) + 1] = row
    /\ \A j \in 1 .. Len(links) : links'[j] = links[j]

LEMMA LinkRows ==
  ASSUME SalesTyped
  PROVE  links \in Seq(LinkRow) /\ Len(links) \in Nat /\ Len(links) <= MaxLinks /\ \A i \in 1 .. Len(links) : links[i] \in LinkRow
  BY DEF SalesTyped, OppTypeOK

LEMMA ChangeLink ==
  ASSUME SalesTyped, NEW i \in 1 .. Len(links), NEW row \in LinkRow, links' = [links EXCEPT ![i] = row]
  PROVE  LinkAt(i, row)
  BY LinkRows DEF LinkAt, LinksTyped

LEMMA GrowLinks ==
  ASSUME SalesTyped, NEW row \in LinkRow, links' = Append(links, row), Len(links) < MaxLinks
  PROVE  Grown(row)
  BY LinkRows, SalesNumbers DEF Grown, LinksTyped

LEMMA DeleteEffect ==
  ASSUME SalesTyped, NEW a \in Acts, ActKept(a), DeleteSalesOpportunity(a)
  PROVE  LET n == act[a].opp IN
         /\ act[a].op = "delete" /\ act[a].pc = "write" /\ Acted(a) /\ act'[a].pc = "done" /\ act'[a].opp = n /\ SalesTyped'
         /\ n \in Numbers /\ n <= numbers /\ RowsBut(n) /\ opp'[n] = [NoOpp EXCEPT !.is = "gone"]
         /\ \A m \in Numbers : oppEvents'[m] = IF m = n THEN [t \in EventTypes |-> 0] ELSE oppEvents[m]
         /\ LinksTyped /\ Len(links') = Len(links)
         /\ \A i \in 1 .. Len(links) : links'[i] = IF links[i].opp = n THEN [links[i] EXCEPT !.opp = 0, !.resolved = TRUE] ELSE links[i]
         /\ Aside /\ UNCHANGED round
  <1> DEFINE n == act[a].opp
             gone == [NoOpp EXCEPT !.is = "gone"]
             none == [t \in EventTypes |-> 0]
  <1>1. /\ act[a].op = "delete" /\ act[a].pc = "write" /\ ToPc(a, "done") /\ Aside /\ UNCHANGED round
        /\ opp' = [opp EXCEPT ![n] = gone] /\ oppEvents' = [oppEvents EXCEPT ![n] = none] /\ links' = KeptLinks(n)
    BY DEF DeleteSalesOpportunity, Stay, Aside
  <1>2. n \in Numbers /\ n <= numbers
    BY <1>1 DEF ActKept, Given
  <1>3. Acted(a) /\ act'[a].pc = "done" /\ act'[a].opp = n
    BY <1>1, PcStep DEF Pcs
  <1>4. gone \in OppRow /\ none \in [EventTypes -> Nat]
    <2>1. 0 \in 0 .. LastDay
      BY SalesNumbers
    <2> QED BY <2>1 DEF OppRow, NoOpp, Stages
  <1>5. RowsBut(n) /\ opp'[n] = gone
    <2>1. opp \in [Numbers -> OppRow]
      BY DEF SalesTyped, OppTypeOK
    <2> HIDE DEF gone
    <2> QED BY <1>1, <1>2, <1>4, <2>1 DEF RowsBut
  <1>6. /\ \A m \in Numbers : oppEvents'[m] = IF m = n THEN none ELSE oppEvents[m]
        /\ oppEvents' \in [Numbers -> [EventTypes -> Nat]]
    <2>1. oppEvents \in [Numbers -> [EventTypes -> Nat]]
      BY DEF SalesTyped, OppTypeOK
    <2> HIDE DEF none
    <2> QED BY <1>1, <1>2, <1>4, <2>1
  <1>7. /\ LinksTyped /\ Len(links') = Len(links)
        /\ \A i \in 1 .. Len(links) : links'[i] = IF links[i].opp = n THEN [links[i] EXCEPT !.opp = 0, !.resolved = TRUE] ELSE links[i]
    <2> DEFINE kept(i) == IF links[i].opp = n THEN [links[i] EXCEPT !.opp = 0, !.resolved = TRUE] ELSE links[i]
    <2>1. links' = [i \in 1 .. Len(links) |-> kept(i)]
      BY <1>1 DEF KeptLinks
    <2>2. \A i \in 1 .. Len(links) : kept(i) \in LinkRow
      BY LinkRows DEF LinkRow
    <2>3. links' \in Seq(LinkRow) /\ Len(links') = Len(links) /\ \A i \in 1 .. Len(links) : links'[i] = kept(i)
      <3> HIDE DEF kept
      <3> QED BY <2>1, <2>2, LinkRows
    <2> QED BY <2>3, LinkRows DEF LinksTyped
  <1>8. SalesTyped'
    BY <1>1, <1>3, <1>5, <1>6, <1>7, TypesFollow DEF RowsBut, Aside, Acted, LinksTyped, SalesTyped, OppTypeOK
  <1> QED BY <1>1, <1>2, <1>3, <1>5, <1>6, <1>7, <1>8

Pointed(i, o) == [links[i] EXCEPT !.order = o, !.missed = 0, !.edited = TRUE]
LEMMA UpsertWriteEffect ==
  ASSUME SalesTyped, NEW a \in Acts, ActKept(a), UpsertWrite(a)
  PROVE  /\ act[a].pc = "link" /\ Acted(a) /\ act'[a].opp = act[a].opp /\ SalesTyped' /\ act[a].opp \in Numbers /\ act[a].order \in Orders
         /\ \/ Turned(a) /\ act'[a].pc = "done"
            \/ /\ act'[a].pc = "point" /\ Aside /\ UNCHANGED <<opp, oppEvents, round>>
               /\ \/ ~links[act[a].link].resolved /\ LinkAt(act[a].link, Pointed(act[a].link, act[a].order))
                  \/ Grown(NewLink(act[a].opp, act[a].order, FALSE))
  <1> DEFINE i == act[a].link
             o == act[a].order
  <1>1. act[a].pc = "link" /\ Aside /\ UNCHANGED <<opp, oppEvents, round>>
    BY DEF UpsertWrite, Stay, Aside
  <1>2. act[a].opp \in Numbers /\ o \in Orders /\ i \in 0 .. Len(links)
    BY <1>1 DEF ActKept, Given, SalesTyped, OppTypeOK, ActRow
  <1>3. CASE StillOpen(i) /\ links[i].firm /\ ~LinkIndexAllows(i, o)
    <2>1. ToPc(a, "done") /\ Untouched
      BY <1>1, <1>3 DEF UpsertWrite, Untouched
    <2>2. Acted(a) /\ act'[a].pc = "done" /\ act'[a].opp = act[a].opp
      BY <2>1, PcStep DEF Pcs
    <2> QED BY <1>1, <1>2, <2>1, <2>2, TurnedTyped DEF Turned
  <1>4. CASE StillOpen(i) /\ ~(links[i].firm /\ ~LinkIndexAllows(i, o))
    <2>1. links' = [links EXCEPT ![i] = [@ EXCEPT !.order = o, !.missed = 0, !.edited = TRUE]] /\ ToPc(a, "point")
      BY <1>4 DEF UpsertWrite
    <2>2. i \in 1 .. Len(links) /\ ~links[i].resolved
      BY <1>2, <1>4, LinkRows DEF StillOpen
    <2>3. Pointed(i, o) \in LinkRow
      <3>1. links[i] \in LinkRow /\ 0 \in 0 .. ReviewAfter
        BY <2>2, LinkRows, SalesNumbers
      <3> HIDE DEF i, o
      <3> QED BY <1>2, <3>1 DEF LinkRow, Pointed
    <2>4. links' = [links EXCEPT ![i] = Pointed(i, o)]
      BY <2>1, <2>2, LinkRows DEF Pointed
    <2>5. LinkAt(i, Pointed(i, o))
      BY <2>2, <2>3, <2>4, ChangeLink
    <2>6. Acted(a) /\ act'[a].pc = "point" /\ act'[a].opp = act[a].opp
      BY <2>1, PcStep DEF Pcs
    <2>7. SalesTyped'
      BY <1>1, <2>5, <2>6, TypesFollow DEF LinkAt, LinksTyped, Aside, Acted, SalesTyped, OppTypeOK
    <2> QED BY <1>1, <1>2, <2>2, <2>5, <2>6, <2>7
  <1>5. CASE ~StillOpen(i)
    <2>1. links' = Append(links, NewLink(act[a].opp, o, FALSE)) /\ Len(links) < MaxLinks /\ ToPc(a, "point")
      BY <1>5 DEF UpsertWrite
    <2>2. NewLink(act[a].opp, o, FALSE) \in LinkRow
      BY <1>2, SalesNumbers DEF LinkRow, NewLink, OrderPhases
    <2>3. Grown(NewLink(act[a].opp, o, FALSE))
      BY <2>1, <2>2, GrowLinks
    <2>4. Acted(a) /\ act'[a].pc = "point" /\ act'[a].opp = act[a].opp
      BY <2>1, PcStep DEF Pcs
    <2>5. SalesTyped'
      BY <1>1, <2>3, <2>4, TypesFollow DEF Grown, LinksTyped, Aside, Acted, SalesTyped, OppTypeOK
    <2> QED BY <1>1, <1>2, <2>3, <2>4, <2>5
  <1> QED BY <1>3, <1>4, <1>5

LEMMA DocumentStep ==
  ASSUME SalesTyped, NEW n \in Numbers \cup {0}, NEW c \in Clients, opp' = [opp EXCEPT ![n].documento = IF Here(n) THEN c ELSE @]
  PROVE  Marked(n)
  <1>1. opp \in [Numbers -> OppRow]
    BY DEF SalesTyped, OppTypeOK
  <1> DEFINE d == IF Here(n) THEN c ELSE opp[n].documento
  <1>2. \A m \in Numbers : opp'[m] = IF m = n THEN [opp[m] EXCEPT !.documento = d] ELSE opp[m]
    BY <1>1
  <1>3. ASSUME NEW m \in Numbers PROVE opp'[m] \in OppRow /\ (~Here(m) => opp'[m] = opp[m])
    <2>1. CASE m = n
      <3>1. opp[m] \in OppRow /\ d \in Clients \cup {Free} /\ opp'[m] = [opp[m] EXCEPT !.documento = d]
        BY <1>1, <1>2, <2>1 DEF OppRow
      <3>2. ~Here(m) => d = opp[m].documento
        BY <2>1
      <3> HIDE DEF d
      <3> QED BY <3>1, <3>2 DEF OppRow
    <2>2. CASE m # n
      BY <1>1, <1>2, <2>2
    <2> QED BY <2>1, <2>2
  <1>4. opp' \in [Numbers -> OppRow]
    BY <1>1, <1>3
  <1>5. RowsBut(n) /\ \A m \in Numbers : ~Here(m) => opp'[m] = opp[m]
    BY <1>2, <1>3, <1>4 DEF RowsBut
  <1>6. \A m \in Numbers : /\ opp'[m].is = opp[m].is /\ opp'[m].client = opp[m].client /\ opp'[m].stage = opp[m].stage
                           /\ opp'[m].breached = opp[m].breached
                           /\ opp[m].seller # Free => opp'[m].seller = opp[m].seller
    BY <1>1 DEF OppRow
  <1> QED BY <1>5, <1>6 DEF Marked

LEMMA UpsertPointEffect ==
  ASSUME SalesTyped, NEW a \in Acts, ActKept(a), UpsertPoint(a)
  PROVE  /\ act[a].pc = "point" /\ Acted(a) /\ act'[a].pc = "done" /\ act'[a].opp = act[a].opp /\ Marked(act[a].opp) /\ SalesTyped'
         /\ UNCHANGED <<oppMenu, met, numbers, x2, day, lastRun, oppEvents, links, round>>
  <1>1. /\ act[a].pc = "point" /\ ToPc(a, "done") /\ UNCHANGED <<oppMenu, met, numbers, x2, day, lastRun, oppEvents, links, round>>
        /\ opp' = [opp EXCEPT ![act[a].opp].documento = IF Here(act[a].opp) THEN Buyer[act[a].order] ELSE @]
        /\ known' \subseteq known \cup {Buyer[act[a].order]}
    BY DEF UpsertPoint, Stay
  <1>2. act[a].opp \in Numbers /\ Buyer[act[a].order] \in Clients
    BY <1>1, OppAssumption DEF ActKept, Given, SalesTyped, OppTypeOK, ActRow
  <1>3. Marked(act[a].opp)
    BY <1>1, <1>2, DocumentStep
  <1>4. Acted(a) /\ act'[a].pc = "done" /\ act'[a].opp = act[a].opp
    BY <1>1, PcStep DEF Pcs
  <1>5. SalesTyped'
    BY <1>1, <1>2, <1>3, <1>4, TypesFollow DEF Marked, RowsBut, Acted, SalesTyped, OppTypeOK
  <1> QED BY <1>1, <1>3, <1>4, <1>5
-------------------------------------------------------------------------------
(* Sales: what the steps of the sweep do *)

Swept == Aside /\ UNCHANGED <<opp, oppEvents, links, act>>
\* The sweep goes on with the links and the documents it has.
SameList == round'.todo = round.todo /\ round'.owner = round.owner
Ended == round'.pc = "idle"

LEMMA RoundTyped ==
  ASSUME SalesTyped
  PROVE  /\ round \in RoundRow /\ round.todo \in Seq(LinkRow) /\ Len(round.todo) \in Nat
         /\ \A i \in 1 .. Len(round.todo) : round.todo[i] \in LinkRow
  BY DEF SalesTyped, RoundRow

LEMMA SweptTyped ==
  ASSUME SalesTyped, Swept, round' \in RoundRow
  PROVE  SalesTyped'
  BY TypesFollow DEF Swept, Aside, SalesTyped, OppTypeOK

LEMMA IdleTyped ==
  /\ Idle \in RoundRow /\ [Idle EXCEPT !.pc = "list"] \in RoundRow /\ Idle.pc = "idle"
  /\ [Idle EXCEPT !.pc = "list"].pc = "list" /\ [Idle EXCEPT !.pc = "list"].todo = <<>>
  /\ [Idle EXCEPT !.pc = "list"].left = {} /\ [Idle EXCEPT !.pc = "list"].owner = 0
  <1>1. <<>> \in Seq(LinkRow)
    OBVIOUS
  <1> QED BY <1>1 DEF Idle, RoundRow, RoundSteps, OrderPhases, EventTypes

LEMMA MaybeRunEffect ==
  ASSUME SalesTyped, ActsKept, maybeRun
  PROVE  /\ round.pc = "idle" /\ round'.pc = "list" /\ round'.todo = <<>> /\ round'.left = {} /\ round'.owner = 0 /\ day > 0
         /\ met' = met \cup {{"sweep", x} : x \in Running}
         /\ UNCHANGED <<oppMenu, opp, numbers, oppEvents, links, known, x2, day, act>> /\ SalesTyped'
  <1>1. /\ round.pc = "idle" /\ round' = [Idle EXCEPT !.pc = "list"] /\ day > 0 /\ lastRun' = day
        /\ met' = met \cup {{"sweep", x} : x \in Running}
        /\ UNCHANGED <<oppMenu, opp, numbers, oppEvents, links, known, x2, day, act>>
    BY DEF maybeRun
  <1>2. {{"sweep", x} : x \in Running} \subseteq SUBSET (RequestKinds \cup {"sweep"})
    <2>1. \A x \in Running : x \in RequestKinds \cup {"sweep"}
      <3>1. \A b \in Busy : act[b].op \in RequestKinds
        BY DEF Busy, ActsKept, ActKept
      <3> QED BY <3>1 DEF Running
    <2> QED BY <2>1
  <1>3. SalesTyped'
    BY <1>1, <1>2, IdleTyped, TypesFollow DEF SalesTyped, OppTypeOK
  <1> QED BY <1>1, <1>3, IdleTyped

LEMMA ListEffect ==
  ASSUME SalesTyped, RunXProcessReconciliation
  PROVE  /\ Swept /\ SalesTyped' /\ round.pc = "list" /\ round'.pc = "ask" /\ round'.todo = links /\ round'.owner = round.owner
         /\ round'.left = {i \in 1 .. Len(links) : ~links[i].resolved}
  <1>1. /\ Swept /\ round.pc = "list"
        /\ round' = [round EXCEPT !.pc = "ask", !.todo = links, !.left = {i \in 1 .. Len(links) : ~links[i].resolved}]
    BY DEF RunXProcessReconciliation, Stay, Swept, Aside
  <1>2. {i \in 1 .. Len(links) : ~links[i].resolved} \in SUBSET Nat
    BY LinkRows
  <1>3. round' \in RoundRow
    BY <1>1, <1>2, LinkRows, RoundTyped DEF RoundRow, RoundSteps
  <1> QED BY <1>1, <1>3, SweptTyped, RoundTyped DEF RoundRow

LEMMA EndEffect ==
  ASSUME SalesTyped, SweepFails \/ AfterDiscovered
  PROVE  Swept /\ SalesTyped' /\ Ended
  <1>1. Swept /\ round' = Idle
    BY DEF SweepFails, AfterDiscovered, Stay, Swept, Aside
  <1> QED BY <1>1, IdleTyped, SweptTyped DEF Ended

LEMMA ConsultFailsEffect ==
  ASSUME SalesTyped, NEW i \in 1 .. Len(links), ConsultFails(i)
  PROVE  /\ Swept /\ SalesTyped' /\ round.pc = "ask" /\ i \in round.left /\ round'.pc = "ask" /\ SameList
         /\ round'.left = round.left \ {i}
  <1>1. Swept /\ round.pc = "ask" /\ i \in round.left /\ round' = [round EXCEPT !.left = @ \ {i}]
    BY DEF ConsultFails, Stay, Swept, Aside
  <1>2. round' \in RoundRow
    BY <1>1, RoundTyped DEF RoundRow
  <1> QED BY <1>1, <1>2, SweptTyped, RoundTyped DEF RoundRow, SameList

Asked(i) == [links[i] EXCEPT !.missed = IF @ < ReviewAfter THEN @ + 1 ELSE @]
LEMMA ConsultEffect ==
  ASSUME SalesTyped, RoundKept, NEW i \in 1 .. Len(links), ConsultarPedido(i)
  PROVE  /\ round.pc = "ask" /\ i \in round.left /\ SalesTyped' /\ Aside /\ UNCHANGED <<opp, oppEvents, act>> /\ SameList
         /\ round'.left = round.left \ {i}
         /\ \/ LinkAt(i, Asked(i)) /\ round'.pc = "ask"
            \/ UNCHANGED links /\ round'.pc = "weigh" /\ round'.at = i
  <1> DEFINE phase == x2[round.todo[i].order]
  <1>1. round.pc = "ask" /\ i \in round.left /\ Aside /\ UNCHANGED <<opp, oppEvents, act>>
    BY DEF ConsultarPedido, Stay, Aside
  <1>2. i \in 1 .. Len(round.todo)
    BY <1>1 DEF RoundKept
  <1>3. phase \in OrderPhases
    BY <1>2, RoundTyped DEF SalesTyped, OppTypeOK, LinkRow
  <1>4. CASE phase = "absent"
    <2>1. /\ links' = [links EXCEPT ![i].missed = IF @ < ReviewAfter THEN @ + 1 ELSE @]
          /\ round' = [round EXCEPT !.left = @ \ {i}]
      BY <1>4 DEF ConsultarPedido
    <2>2. links' = [links EXCEPT ![i] = Asked(i)]
      BY <2>1, LinkRows DEF Asked
    <2>3. Asked(i) \in LinkRow
      <3>1. links[i] \in LinkRow /\ ReviewAfter \in Nat
        BY LinkRows, SalesNumbers
      <3> QED BY <3>1 DEF LinkRow, Asked
    <2>4. LinkAt(i, Asked(i))
      BY <2>2, <2>3, ChangeLink
    <2>5. round' \in RoundRow /\ round'.pc = round.pc /\ SameList /\ round'.left = round.left \ {i}
      BY <2>1, RoundTyped DEF RoundRow, SameList
    <2>6. SalesTyped'
      BY <1>1, <2>4, <2>5, TypesFollow DEF LinkAt, LinksTyped, Aside, SalesTyped, OppTypeOK
    <2> QED BY <1>1, <2>4, <2>5, <2>6
  <1>5. CASE phase # "absent"
    <2>1. UNCHANGED links /\ round' = [round EXCEPT !.pc = "weigh", !.left = @ \ {i}, !.at = i, !.said = phase]
      BY <1>5 DEF ConsultarPedido
    <2>2. /\ round' \in RoundRow /\ round'.pc = "weigh" /\ SameList /\ round'.left = round.left \ {i} /\ round'.at = i
      <3>1. i \in Nat
        BY LinkRows
      <3> HIDE DEF phase
      <3> QED BY <1>3, <2>1, <3>1, RoundTyped DEF RoundRow, RoundSteps, SameList
    <2>3. SalesTyped'
      BY <1>1, <2>1, <2>2, SweptTyped DEF Swept
    <2> QED BY <1>1, <2>1, <2>2, <2>3
  <1> QED BY <1>4, <1>5

\* The next link, or the next document once one was found.
Onward == round'.pc = (IF round.owner = 0 THEN "ask" ELSE "seek") /\ round'.left = round.left /\ SameList
LEMMA NextEffect ==
  ASSUME SalesTyped, round' = Next1(round)
  PROVE  Onward /\ round' \in RoundRow
  BY RoundTyped DEF Next1, Onward, SameList, RoundRow, RoundSteps

LEMMA WeighEffect ==
  ASSUME SalesTyped, RoundKept, Weigh
  PROVE  /\ Swept /\ SalesTyped' /\ round.pc = "weigh"
         /\ \/ Onward
            \/ /\ round'.pc = "settle" /\ SameList /\ round'.left = round.left /\ round'.at = round.at
               /\ Here(round.todo[round.at].opp) /\ ~xprocessOrderHeldByOlderLink(round.at, round.todo[round.at].order)
  <1> DEFINE i == round.at
             n == round.todo[i].opp
  <1>1. round.pc = "weigh" /\ Swept
    BY DEF Weigh, Stay, Swept, Aside
  <1>2. CASE Here(n) /\ ~xprocessOrderHeldByOlderLink(i, round.todo[i].order)
    <2>1. round' = [round EXCEPT !.pc = "settle", !.saw = opp[n].is]
      BY <1>2 DEF Weigh
    <2>2. opp[n].is \in {"none", "gone"} \cup Outcomes
      BY <1>2 DEF Here
    <2>3. round' \in RoundRow /\ round'.pc = "settle" /\ SameList /\ round'.left = round.left /\ round'.at = round.at
      <3> HIDE DEF n
      <3> QED BY <2>1, <2>2, RoundTyped DEF RoundRow, RoundSteps, SameList
    <2> QED BY <1>1, <1>2, <2>3, SweptTyped
  <1>3. CASE ~(Here(n) /\ ~xprocessOrderHeldByOlderLink(i, round.todo[i].order))
    <2>1. round' = Next1(round)
      BY <1>3 DEF Weigh
    <2> QED BY <1>1, <2>1, NextEffect, SweptTyped
  <1> QED BY <1>2, <1>3

\* What the sweep settles: the outcome the status it read leads to.
LEMMA SettleEffect ==
  ASSUME SalesTyped, RoundKept, Settle
  PROVE  LET n == round.todo[round.at].opp IN
         /\ round.pc = "settle" /\ SalesTyped' /\ Aside /\ UNCHANGED <<oppEvents, links, act>> /\ SameList /\ n \in Numbers
         /\ round'.left = round.left /\ round'.at = round.at
         /\ \/ UNCHANGED opp /\ round'.pc = "realize"
            \/ /\ round'.pc = "log"
               /\ \/ Moved(n, "convertida") /\ opp[n].is = "aberta" /\ round'.event = "converted"
                  \/ Moved(n, "perdida") /\ opp[n].is = "aberta" /\ round'.event = "lost"
                  \/ Moved(n, "cancelada") /\ opp[n].is = "convertida" /\ round'.event = "cancelled"
  <1> DEFINE n == round.todo[round.at].opp
             to == OutcomeOf(round.said, round.saw)
             moves == to[2] # "none" /\ StatusStill(n, round.saw)
             row == [opp[n] EXCEPT !.is = to[1], !.breached = FALSE]
  <1>1. round.pc = "settle" /\ Aside /\ UNCHANGED <<oppEvents, links, act>>
    BY DEF Settle, Stay, Aside
  <1>2. n \in Numbers
    BY <1>1 DEF RoundKept, Given
  <1>3. opp \in [Numbers -> OppRow]
    BY DEF SalesTyped, OppTypeOK
  <1>4. CASE moves
    <2>1. opp' = [opp EXCEPT ![n].is = to[1], ![n].breached = FALSE] /\ round' = [round EXCEPT !.pc = "log", !.event = to[2]]
      BY <1>4 DEF Settle
    <2>2. Here(n) /\ opp[n].is = round.saw
      BY <1>4 DEF StatusStill
    <2>3. \/ to = <<"convertida", "converted">> /\ opp[n].is = "aberta"
          \/ to = <<"perdida", "lost">> /\ opp[n].is = "aberta"
          \/ to = <<"cancelada", "cancelled">> /\ opp[n].is = "convertida"
      <3>1. to[2] # "none"
        BY <1>4
      <3> QED BY <2>2, <3>1 DEF OutcomeOf
    <2>4. to[1] \in Outcomes /\ to[2] \in EventTypes
      BY <2>3 DEF Outcomes, EventTypes
    <2>5. row \in OppRow /\ row.is = to[1] /\ row.client = opp[n].client /\ row.seller = opp[n].seller /\ row.breached = FALSE
      <3>1. opp[n] \in OppRow
        BY <1>2, <1>3
      <3> HIDE DEF to, n
      <3> QED BY <2>4, <3>1 DEF OppRow
    <2>6. opp' = [opp EXCEPT ![n] = row]
      <3> HIDE DEF to, n
      <3> QED BY <1>2, <1>3, <2>1
    <2>7. Moved(n, to[1])
      <3> HIDE DEF row, to, n
      <3> QED BY <1>2, <1>3, <2>5, <2>6 DEF Moved, RowsBut
    <2>8. /\ round' \in RoundRow /\ round'.pc = "log" /\ round'.event = to[2] /\ SameList
          /\ round'.left = round.left /\ round'.at = round.at
      <3> HIDE DEF to
      <3> QED BY <2>1, <2>4, RoundTyped DEF RoundRow, RoundSteps, SameList
    <2>9. SalesTyped'
      <3> HIDE DEF to
      <3> QED BY <1>1, <2>7, <2>8, TypesFollow DEF Moved, RowsBut, Aside, SalesTyped, OppTypeOK
    <2>10. \/ Moved(n, "convertida") /\ opp[n].is = "aberta" /\ round'.event = "converted"
           \/ Moved(n, "perdida") /\ opp[n].is = "aberta" /\ round'.event = "lost"
           \/ Moved(n, "cancelada") /\ opp[n].is = "convertida" /\ round'.event = "cancelled"
      <3> HIDE DEF to, n
      <3> QED BY <2>3, <2>7, <2>8
    <2> QED BY <1>1, <1>2, <2>8, <2>9, <2>10
  <1>5. CASE ~moves
    <2>1. UNCHANGED opp /\ round' = [round EXCEPT !.pc = "realize"]
      BY <1>5 DEF Settle
    <2>2. round' \in RoundRow /\ round'.pc = "realize" /\ SameList /\ round'.left = round.left /\ round'.at = round.at
      BY <2>1, RoundTyped DEF RoundRow, RoundSteps, SameList
    <2> QED BY <1>1, <1>2, <2>1, <2>2, SweptTyped DEF Swept
  <1> QED BY <1>4, <1>5

LEMMA SettleLogEffect ==
  ASSUME SalesTyped, RoundKept, SettleLog
  PROVE  /\ round.pc = "log" /\ round'.pc = "realize" /\ round.todo[round.at].opp \in Numbers
         /\ round.event \in {"converted", "lost", "cancelled"} /\ Counted(round.todo[round.at].opp, round.event)
         /\ Aside /\ UNCHANGED <<opp, links, act>> /\ SalesTyped' /\ SameList /\ round'.left = round.left /\ round'.at = round.at
  <1>1. /\ round.pc = "log" /\ Count(round.todo[round.at].opp, round.event) /\ round' = [round EXCEPT !.pc = "realize"]
        /\ Aside /\ UNCHANGED <<opp, links, act>>
    BY DEF SettleLog, Stay, Aside
  <1>2. round.todo[round.at].opp \in Numbers /\ round.event \in {"converted", "lost", "cancelled"} /\ round.event \in EventTypes
    BY <1>1 DEF RoundKept, Given, EventTypes
  <1>3. Counted(round.todo[round.at].opp, round.event)
    BY <1>1, <1>2, CountEffect
  <1>4. round' \in RoundRow /\ round'.pc = "realize" /\ SameList /\ round'.left = round.left /\ round'.at = round.at
    BY <1>1, RoundTyped DEF RoundRow, RoundSteps, SameList
  <1>5. SalesTyped'
    BY <1>1, <1>3, <1>4, TypesFollow DEF Counted, Aside, SalesTyped, OppTypeOK
  <1> QED BY <1>1, <1>2, <1>3, <1>4, <1>5

LEMMA RealizeEffect ==
  ASSUME SalesTyped, RoundKept, setRealizedValueFromXProcess
  PROVE  /\ round.pc = "realize" /\ round'.pc = "save" /\ Marked(round.todo[round.at].opp)
         /\ Aside /\ UNCHANGED <<oppEvents, links, act>> /\ SalesTyped' /\ SameList /\ round'.left = round.left /\ round'.at = round.at
  <1> DEFINE n == round.todo[round.at].opp
             v == opp[n].realized \/ (round.said # "cancelado" /\ opp[n].is = "convertida")
             row == [opp[n] EXCEPT !.realized = v]
  <1>1. /\ round.pc = "realize" /\ round' = [round EXCEPT !.pc = "save"] /\ Aside /\ UNCHANGED <<oppEvents, links, act>>
        /\ opp' = [opp EXCEPT ![n].realized = @ \/ (round.said # "cancelado" /\ opp[n].is = "convertida")]
    BY DEF setRealizedValueFromXProcess, Stay, Aside
  <1>2. n \in Numbers /\ opp \in [Numbers -> OppRow] /\ opp[n] \in OppRow
    BY <1>1 DEF RoundKept, Given, SalesTyped, OppTypeOK
  <1>3. opp' = [opp EXCEPT ![n] = row]
    <2> HIDE DEF n
    <2> QED BY <1>1, <1>2
  <1>4. v \in BOOLEAN /\ (~Here(n) => v = opp[n].realized)
    <2>1. opp[n].realized \in BOOLEAN
      BY <1>2 DEF OppRow
    <2>2. v \in BOOLEAN
      OBVIOUS
    <2>3. ~Here(n) => opp[n].is # "convertida"
      BY <1>2 DEF Here, Outcomes
    <2> HIDE DEF n
    <2> QED BY <2>1, <2>2, <2>3
  <1>5. /\ row \in OppRow /\ row.is = opp[n].is /\ row.client = opp[n].client /\ row.stage = opp[n].stage
        /\ row.breached = opp[n].breached /\ row.seller = opp[n].seller /\ (~Here(n) => row = opp[n])
    <2> HIDE DEF n, v
    <2> QED BY <1>2, <1>4 DEF OppRow
  <1>6. Marked(n)
    <2> HIDE DEF n, row
    <2> QED BY <1>2, <1>3, <1>5 DEF Marked, RowsBut
  <1>7. round' \in RoundRow /\ round'.pc = "save" /\ SameList /\ round'.left = round.left /\ round'.at = round.at
    BY <1>1, RoundTyped DEF RoundRow, RoundSteps, SameList
  <1>8. SalesTyped'
    <2> HIDE DEF n
    <2> QED BY <1>1, <1>6, <1>7, TypesFollow DEF Marked, RowsBut, Aside, SalesTyped, OppTypeOK
  <1> QED BY <1>1, <1>6, <1>7, <1>8

\* What a link says after it was checked.
Saved(row) ==
    LET i == round.at
        seen == round.todo[i]
        old == links[i] IN
    IF old.opp = 0 THEN row = old
    ELSE /\ row.opp = old.opp /\ row.order = old.order /\ row.edited = old.edited
         /\ \/ /\ seen.closed = 0 /\ row.closed = day /\ row.closedFor = seen.order
            \/ row.closed = old.closed /\ row.closedFor = old.closedFor
         /\ row.resolved /\ row.status = "fechado" =>
              old.resolved \/ (day > seen.closed + Grace /\ seen.closed # 0 /\ row.closed = old.closed /\ row.closedFor = old.closedFor)
LEMMA SaveLinkEffect ==
  ASSUME SalesTyped, RoundKept, SaveLink
  PROVE  /\ round.pc = "save" /\ SalesTyped' /\ Aside /\ UNCHANGED <<opp, oppEvents, act>> /\ Onward
         /\ \E row \in LinkRow : LinkAt(round.at, row) /\ Saved(row)
  <1> DEFINE i == round.at
             seen == round.todo[i]
             old == links[i]
             closing == round.said = "fechado"
             first == IF seen.closed = 0 THEN day ELSE seen.closed
             done == old.resolved \/ round.said = "cancelado" \/ (closing /\ PastGrace(first))
             row == IF old.opp = 0 THEN old ELSE
                      [old EXCEPT !.firm = @ \/ done \/ LinkIndexAllows(i, old.order), !.status = round.said, !.missed = 0,
                        !.closed = IF closing /\ seen.closed = 0 THEN day ELSE @,
                        !.closedFor = IF closing /\ seen.closed = 0 THEN seen.order ELSE @,
                        !.resolved = done]
  <1>1. /\ round.pc = "save" /\ Aside /\ UNCHANGED <<opp, oppEvents, act>> /\ links' = [links EXCEPT ![i] = row]
        /\ round' = Next1(round)
    BY DEF SaveLink, Stay, Aside
  <1>2. i \in 1 .. Len(links) /\ i \in 1 .. Len(round.todo)
    BY <1>1, RoundTyped, LinkRows DEF RoundKept
  <1>3. old \in LinkRow /\ seen \in LinkRow /\ round.said \in OrderPhases /\ day \in 0 .. LastDay /\ 0 \in 0 .. ReviewAfter /\ Grace \in Nat
    BY <1>2, LinkRows, RoundTyped, SalesNumbers DEF RoundRow, SalesTyped, OppTypeOK
  <1>4. done \in BOOLEAN /\ LinkIndexAllows(i, old.order) \in BOOLEAN
    <2>1. old.resolved \in BOOLEAN
      BY <1>3 DEF LinkRow
    <2> QED BY <2>1 DEF LinkIndexAllows
  <1>5. row \in LinkRow /\ Saved(row)
    <2>1. CASE old.opp = 0
      BY <1>3, <2>1 DEF Saved
    <2>2. CASE old.opp # 0
      <3> DEFINE allows == LinkIndexAllows(i, old.order)
                 full == [old EXCEPT !.firm = @ \/ done \/ allows, !.status = round.said, !.missed = 0,
                        !.closed = IF closing /\ seen.closed = 0 THEN day ELSE @,
                        !.closedFor = IF closing /\ seen.closed = 0 THEN seen.order ELSE @,
                        !.resolved = done]
      <3>1. row = full /\ allows \in BOOLEAN
        BY <1>4, <2>2
      <3>2. seen.closed \in 0 .. LastDay /\ seen.order \in Orders
        BY <1>3 DEF LinkRow
      <3>3. /\ full \in LinkRow /\ full.opp = old.opp /\ full.order = old.order /\ full.edited = old.edited
            /\ full.status = round.said /\ full.resolved = done
            /\ full.closed = IF closing /\ seen.closed = 0 THEN day ELSE old.closed
            /\ full.closedFor = IF closing /\ seen.closed = 0 THEN seen.order ELSE old.closedFor
        <4> HIDE DEF done, allows, old, seen
        <4> QED BY <1>3, <1>4, <3>1, <3>2 DEF LinkRow
      <3>4. done /\ closing => old.resolved \/ day > first + Grace
        BY DEF PastGrace
      <3>5. day > first + Grace => seen.closed # 0 /\ day > seen.closed + Grace
        BY <1>3, <3>2
      <3>6. Saved(full)
        <4> HIDE DEF done, full
        <4> QED BY <2>2, <3>3, <3>4, <3>5 DEF Saved
      <3> QED BY <3>1, <3>3, <3>6
    <2> QED BY <2>1, <2>2
  <1>6. LinkAt(i, row)
    <2> HIDE DEF row
    <2> QED BY <1>1, <1>2, <1>5, ChangeLink
  <1>7. Onward /\ round' \in RoundRow
    BY <1>1, NextEffect
  <1>8. SalesTyped'
    <2> HIDE DEF row
    <2> QED BY <1>1, <1>6, <1>7, TypesFollow DEF LinkAt, LinksTyped, Aside, SalesTyped, OppTypeOK
  <1> HIDE DEF row
  <1> QED BY <1>1, <1>5, <1>6, <1>7, <1>8
-------------------------------------------------------------------------------
(* Sales: discovery, time and the order system *)

LEMMA DiscoverEffect ==
  ASSUME SalesTyped, discoverXProcessOrders
  PROVE  /\ round.pc = "ask" /\ round.left = {} /\ Swept /\ SalesTyped'
         /\ Ended \/ (round'.pc = "seek" /\ SameList /\ round'.left = {})
  <1> DEFINE docs == {oppDocumento(n) : n \in {m \in Numbers : opp[m].is = "convertida" /\ NoLinkYet(m)}} \ {Free}
  <1>1. /\ round.pc = "ask" /\ round.left = {} /\ Swept
        /\ round' = Idle \/ round' = [round EXCEPT !.pc = "seek", !.docs = docs]
    BY DEF discoverXProcessOrders, Stay, Swept, Aside
  <1>2. docs \subseteq Clients
    <2>1. \A n \in Numbers : oppDocumento(n) \in Clients \cup {Free}
      BY DEF oppDocumento, SalesTyped, OppTypeOK, OppRow
    <2> QED BY <2>1
  <1>3. CASE round' = Idle
    BY <1>1, <1>3, IdleTyped, SweptTyped DEF Ended
  <1>4. CASE round' = [round EXCEPT !.pc = "seek", !.docs = docs]
    <2>1. round' \in RoundRow /\ round'.pc = "seek" /\ SameList /\ round'.left = round.left
      <3> HIDE DEF docs
      <3> QED BY <1>2, <1>4, RoundTyped DEF RoundRow, RoundSteps, SameList
    <2> QED BY <1>1, <2>1, SweptTyped
  <1> QED BY <1>1, <1>3, <1>4

LEMMA DocumentoEffect ==
  ASSUME SalesTyped, NEW d \in Clients, discoverForDocumento(d)
  PROVE  /\ round.pc = "seek" /\ Swept /\ SalesTyped' /\ round'.todo = round.todo /\ round'.left = round.left
         /\ \/ round'.pc = "seek" /\ round'.owner = round.owner
            \/ round'.pc = "create" /\ round'.owner \in Numbers /\ round'.found \in Orders /\ opp[round'.owner].is = "convertida"
  <1>1. /\ round.pc = "seek" /\ Swept
        /\ \/ \E m \in decideXProcessMatch(d) :
                round' = [round EXCEPT !.pc = "create", !.docs = @ \ {d}, !.owner = m[1], !.found = m[2]]
           \/ round' = [round EXCEPT !.docs = @ \ {d}]
    BY DEF discoverForDocumento, Stay, Swept, Aside
  <1>2. ASSUME NEW m \in decideXProcessMatch(d),
               round' = [round EXCEPT !.pc = "create", !.docs = @ \ {d}, !.owner = m[1], !.found = m[2]]
        PROVE  /\ round' \in RoundRow /\ round'.pc = "create" /\ round'.todo = round.todo /\ round'.left = round.left
               /\ round'.owner \in Numbers /\ round'.found \in Orders /\ opp[round'.owner].is = "convertida"
    <2>1. m[1] \in Numbers /\ m[2] \in Orders /\ opp[m[1]].is = "convertida"
      BY DEF decideXProcessMatch
    <2> QED BY <1>2, <2>1, RoundTyped DEF RoundRow, RoundSteps
  <1>3. CASE round' = [round EXCEPT !.docs = @ \ {d}]
    <2>1. /\ round' \in RoundRow /\ round'.pc = round.pc /\ round'.todo = round.todo /\ round'.left = round.left
          /\ round'.owner = round.owner
      BY <1>3, RoundTyped DEF RoundRow
    <2> QED BY <1>1, <2>1, SweptTyped
  <1> QED BY <1>1, <1>2, <1>3, SweptTyped

LEMMA CreateDiscoveredEffect ==
  ASSUME SalesTyped, RoundKept, createDiscoveredXProcessLink
  PROVE  /\ round.pc = "create" /\ SalesTyped' /\ Aside /\ UNCHANGED act /\ round.owner \in Numbers /\ round'.left = round.left
         /\ round'.owner = round.owner
         /\ \/ Swept /\ round'.pc = "seek" /\ round'.todo = round.todo
            \/ /\ \E o \in Orders : Grown(NewLink(round.owner, o, TRUE))
               /\ Marked(round.owner) /\ Counted(round.owner, "linked")
               /\ round'.pc = "weigh" /\ round'.todo = links' /\ round'.at = Len(links')
  <1> DEFINE n == round.owner
             o == round.found
  <1>1. round.pc = "create" /\ Aside /\ UNCHANGED act
    BY DEF createDiscoveredXProcessLink, Stay, Aside
  <1>2. n \in Numbers /\ o \in Orders
    BY <1>1, RoundTyped DEF RoundKept, Given, RoundRow
  <1>3. CASE LinkIndexAllows(0, o) /\ Len(links) < MaxLinks
    <2>1. /\ links' = Append(links, NewLink(n, o, TRUE)) /\ opp' = [opp EXCEPT ![n].documento = IF Here(n) THEN Buyer[o] ELSE @]
          /\ Count(n, "linked") /\ round' = [round EXCEPT !.pc = "weigh", !.todo = links', !.at = Len(links'), !.said = x2[o]]
      BY <1>3 DEF createDiscoveredXProcessLink
    <2>2. NewLink(n, o, TRUE) \in LinkRow
      BY <1>2, SalesNumbers DEF LinkRow, NewLink, OrderPhases
    <2>3. Grown(NewLink(n, o, TRUE))
      <3> HIDE DEF n, o
      <3> QED BY <1>3, <2>1, <2>2, GrowLinks
    <2>4. Buyer[o] \in Clients
      BY <1>2, OppAssumption
    <2>5. Marked(n)
      <3> HIDE DEF n, o
      <3> QED BY <1>2, <2>1, <2>4, DocumentStep
    <2>6. Counted(n, "linked")
      BY <1>2, <2>1, CountEffect DEF EventTypes
    <2>7. x2[o] \in OrderPhases
      BY <1>2 DEF SalesTyped, OppTypeOK
    <2>8. /\ round' \in RoundRow /\ round'.pc = "weigh" /\ round'.todo = links' /\ round'.at = Len(links') /\ round'.left = round.left
          /\ round'.owner = round.owner
      <3>1. links' \in Seq(LinkRow) /\ Len(links') \in Nat
        BY <2>3 DEF Grown, LinksTyped
      <3> HIDE DEF n, o
      <3> QED BY <2>1, <2>7, <3>1, RoundTyped DEF RoundRow, RoundSteps
    <2>9. SalesTyped'
      <3> HIDE DEF n, o
      <3> QED BY <1>1, <2>3, <2>5, <2>6, <2>8, TypesFollow DEF Grown, LinksTyped, Marked, RowsBut, Counted, Aside, SalesTyped, OppTypeOK
    <2> QED BY <1>1, <1>2, <2>3, <2>5, <2>6, <2>8, <2>9
  <1>4. CASE ~(LinkIndexAllows(0, o) /\ Len(links) < MaxLinks)
    <2>1. round' = [round EXCEPT !.pc = "seek"] /\ UNCHANGED <<links, opp, oppEvents>>
      BY <1>4 DEF createDiscoveredXProcessLink
    <2>2. /\ round' \in RoundRow /\ round'.pc = "seek" /\ round'.todo = round.todo /\ round'.left = round.left
          /\ round'.owner = round.owner
      BY <2>1, RoundTyped DEF RoundRow, RoundSteps
    <2>3. Swept
      BY <1>1, <2>1 DEF Swept
    <2> QED BY <1>1, <1>2, <2>2, <2>3, SweptTyped
  <1> QED BY <1>3, <1>4

LEMMA BreachEffect ==
  ASSUME SalesTyped, NEW n \in Numbers, processSalesOpportunitySLA(n)
  PROVE  /\ opp[n].is = "aberta" /\ opp[n].stage = "direcionada" /\ RowsBut(n) /\ SalesTyped' /\ Aside
         /\ UNCHANGED <<oppEvents, links, round, act>>
         /\ opp'[n].is = opp[n].is /\ opp'[n].client = opp[n].client /\ opp'[n].stage = opp[n].stage /\ opp'[n].seller = opp[n].seller
  <1> DEFINE row == [opp[n] EXCEPT !.breached = TRUE]
  <1>1. /\ opp[n].is = "aberta" /\ opp[n].stage = "direcionada" /\ Aside /\ UNCHANGED <<oppEvents, links, round, act>>
        /\ opp' = [opp EXCEPT ![n].breached = TRUE]
    BY DEF processSalesOpportunitySLA, Stay, Aside
  <1>2. opp \in [Numbers -> OppRow] /\ opp[n] \in OppRow
    BY DEF SalesTyped, OppTypeOK
  <1>3. /\ row \in OppRow /\ row.is = opp[n].is /\ row.client = opp[n].client /\ row.stage = opp[n].stage /\ row.seller = opp[n].seller
        /\ opp' = [opp EXCEPT ![n] = row]
    BY <1>1, <1>2 DEF OppRow
  <1>4. RowsBut(n) /\ opp'[n] = row
    <2> HIDE DEF row
    <2> QED BY <1>2, <1>3 DEF RowsBut
  <1>5. SalesTyped'
    BY <1>1, <1>4, TypesFollow DEF RowsBut, Aside, SalesTyped, OppTypeOK
  <1> QED BY <1>1, <1>3, <1>4, <1>5

LEMMA TimeEffect ==
  ASSUME SalesTyped, DayPasses \/ \E o \in oppMenu.orders, p \in OrderPhases : X2Moves(o, p)
  PROVE  /\ SalesTyped' /\ UNCHANGED <<oppMenu, opp, numbers, oppEvents, links, known, lastRun, round, act, met>>
         /\ day' \in Nat /\ day <= day'
  <1>1. CASE DayPasses
    <2>1. /\ day < oppMenu.days /\ day' = day + 1 /\ UNCHANGED <<oppMenu, opp, numbers, oppEvents, links, known, x2, lastRun, round, act, met>>
      BY <1>1 DEF DayPasses, Stay
    <2>2. day' \in 0 .. LastDay
      BY <2>1, MenuSound, SalesNumbers DEF SalesTyped, OppTypeOK
    <2>3. SalesTyped'
      BY <2>1, <2>2, TypesFollow DEF SalesTyped, OppTypeOK
    <2> QED BY <2>1, <2>2, <2>3, SalesNumbers DEF SalesTyped, OppTypeOK
  <1>2. ASSUME NEW o \in oppMenu.orders, NEW p \in OrderPhases, X2Moves(o, p)
        PROVE  SalesTyped' /\ UNCHANGED <<oppMenu, opp, numbers, oppEvents, links, known, lastRun, round, act, met, day>>
    <2>1. x2' = [x2 EXCEPT ![o] = p] /\ UNCHANGED <<oppMenu, opp, numbers, oppEvents, links, known, lastRun, round, act, met, day>>
      BY <1>2 DEF X2Moves, Stay
    <2>2. x2' \in [Orders -> OrderPhases]
      BY <2>1 DEF SalesTyped, OppTypeOK
    <2> QED BY <2>1, <2>2, TypesFollow DEF SalesTyped, OppTypeOK
  <1> QED BY <1>1, <1>2, SalesNumbers DEF SalesTyped, OppTypeOK
-------------------------------------------------------------------------------
(* Sales: types and requests *)

\* What the steps have in common: types, numbers that are not taken back, links that stay.
Grows == SalesTyped' /\ numbers \in Nat /\ numbers' \in Nat /\ numbers <= numbers' /\ Len(links) \in Nat /\ Len(links') \in Nat /\ Len(links) <= Len(links')
LEMMA GrowsFrom ==
  ASSUME SalesTyped, SalesTyped', numbers' \in {numbers, numbers + 1}, Len(links') \in {Len(links), Len(links) + 1}
  PROVE  Grows
  BY LinkRows DEF Grows, SalesTyped, OppTypeOK

LEMMA ActGrows ==
  ASSUME SalesTyped, ActsKept, NEW a \in Acts, ActStep(a)
  PROVE  Grows
  <1>0. ActKept(a)
    BY DEF ActsKept
  <1>1. CASE CreateRead(a) \/ CreateWinner(a) \/ AssignRead(a) \/ loadAuthorizedSalesOpportunity(a) \/ UpsertLookUp(a)
    BY <1>0, <1>1, CreateReadEffect, CreateWinnerEffect, AssignReadEffect, LoadEffect, UpsertLookUpEffect, GrowsFrom DEF Turned, Untouched, Aside
  <1>2. CASE CreateInsert(a)
    BY <1>2, CreateInsertEffect, GrowsFrom DEF Turned, Untouched, Aside
  <1>3. CASE LogEvent(a) \/ AssignWrite(a) \/ UpsertPoint(a)
    BY <1>0, <1>3, LogEventEffect, AssignWriteEffect, UpsertPointEffect, GrowsFrom DEF Aside
  <1>4. CASE ChangeSalesOpportunityStage(a)
    BY <1>0, <1>4, StageEffect, GrowsFrom DEF Turned, Untouched, Aside
  <1>5. CASE ChangeSalesOpportunityDirecionamento(a) \/ UpdateSalesOpportunityDetails(a)
    BY <1>0, <1>5, RouteEffect, GrowsFrom DEF Turned, Untouched, Aside
  <1>6. CASE ConvertSalesOpportunity(a) \/ LoseSalesOpportunity(a)
    BY <1>0, <1>6, OutcomeEffect, GrowsFrom DEF Turned, Untouched, Aside
  <1>7. CASE DeleteSalesOpportunity(a)
    BY <1>0, <1>7, DeleteEffect, GrowsFrom DEF Aside
  <1>8. CASE UpsertWrite(a)
    BY <1>0, <1>8, UpsertWriteEffect, GrowsFrom DEF Turned, Untouched, Aside, LinkAt, Grown
  <1> QED BY <1>1, <1>2, <1>3, <1>4, <1>5, <1>6, <1>7, <1>8 DEF ActStep

\* The steps that only touch the round, and those of time.
SweepStep ==
    \/ RunXProcessReconciliation \/ SweepFails
    \/ \E i \in 1 .. Len(links) : ConsultarPedido(i) \/ ConsultFails(i)
    \/ Weigh \/ Settle \/ SettleLog \/ setRealizedValueFromXProcess \/ SaveLink
    \/ discoverXProcessOrders \/ (\E d \in Clients : discoverForDocumento(d))
    \/ createDiscoveredXProcessLink \/ AfterDiscovered
LEMMA SweepGrows ==
  ASSUME SalesTyped, RoundKept, SweepStep
  PROVE  Grows /\ UNCHANGED <<act, met, day, numbers>>
  <1>1. CASE RunXProcessReconciliation \/ SweepFails \/ AfterDiscovered \/ discoverXProcessOrders \/ Weigh
    BY <1>1, ListEffect, EndEffect, DiscoverEffect, WeighEffect, GrowsFrom DEF Swept, Aside
  <1>2. ASSUME NEW i \in 1 .. Len(links), ConsultarPedido(i) PROVE Grows /\ UNCHANGED <<act, met, day, numbers>>
    BY <1>2, ConsultEffect, GrowsFrom DEF Aside, LinkAt
  <1>3. ASSUME NEW i \in 1 .. Len(links), ConsultFails(i) PROVE Grows /\ UNCHANGED <<act, met, day, numbers>>
    BY <1>3, ConsultFailsEffect, GrowsFrom DEF Swept, Aside
  <1>4. CASE Settle
    BY <1>4, SettleEffect, GrowsFrom DEF Aside
  <1>5. CASE SettleLog \/ setRealizedValueFromXProcess
    BY <1>5, SettleLogEffect, RealizeEffect, GrowsFrom DEF Aside
  <1>6. CASE SaveLink
    BY <1>6, SaveLinkEffect, GrowsFrom DEF Aside, LinkAt
  <1>7. ASSUME NEW d \in Clients, discoverForDocumento(d) PROVE Grows /\ UNCHANGED <<act, met, day, numbers>>
    BY <1>7, DocumentoEffect, GrowsFrom DEF Swept, Aside
  <1>8. CASE createDiscoveredXProcessLink
    BY <1>8, CreateDiscoveredEffect, GrowsFrom DEF Swept, Aside, Grown
  <1> QED BY <1>1, <1>2, <1>3, <1>4, <1>5, <1>6, <1>7, <1>8 DEF SweepStep

\* A request keeps to its course: the numbers it holds were given.
LEMMA OthersKept ==
  ASSUME SalesTyped, ActsKept, Grows, NEW b \in Acts, act'[b] = act[b]
  PROVE  ActKept(b)'
  <1>1. ActKept(b) /\ act[b].opp \in 0 .. MaxOpps /\ act[b].link \in 0 .. MaxLinks
    BY DEF ActsKept, SalesTyped, OppTypeOK, ActRow
  <1>2. \A n : Given(n) => Given(n)'
    BY SalesNumbers DEF Grows, Given
  <1>3. act[b].opp <= numbers'
    BY <1>1, SalesNumbers DEF ActKept, Grows
  <1>4. act[b].link \in 0 .. Len(links) => act[b].link \in 0 .. Len(links')
    BY <1>1, SalesNumbers DEF Grows
  <1> QED BY <1>1, <1>2, <1>3, <1>4 DEF ActKept

\* Whoever is read is given.
LEMMA OpenGiven ==
  ASSUME SalesTyped, RowsKept
  PROVE  /\ \A n \in Numbers : opp[n].is # "none" => Given(n)
         /\ \A n : Here(n) => Given(n)
         /\ \A c, n : n \in OpenOf(c) => Given(n)
  <1>1. \A n \in Numbers : opp[n].is # "none" => Given(n)
    <2>1. numbers \in Nat /\ NoOpp.is = "none"
      BY SalesNumbers DEF SalesTyped, OppTypeOK, NoOpp
    <2> QED BY <2>1, SalesNumbers DEF RowsKept, Given
  <1> QED BY <1>1 DEF Here, OpenOf, Outcomes

LEMMA ActorKept ==
  ASSUME SalesTyped, ActsKept, RowsKept, NEW a \in Acts, ActStep(a)
  PROVE  ActKept(a)' /\ \A b \in Acts : b # a => act'[b] = act[b]
  <1>0. ActKept(a) /\ Grows
    BY ActGrows DEF ActsKept
  <1>1. \A n : Given(n) => Given(n)' /\ n \in Numbers /\ n <= numbers'
    BY <1>0, SalesNumbers DEF Grows, Given
  <1>2. 0 <= numbers' /\ act[a].opp <= numbers' /\ act[a].opp <= numbers
    <2>1. act[a].opp \in 0 .. MaxOpps
      BY DEF SalesTyped, OppTypeOK, ActRow
    <2> QED BY <1>0, <2>1, SalesNumbers DEF Grows, ActKept
  <1>3. CASE CreateRead(a)
    BY <1>0, <1>1, <1>2, <1>3, CreateReadEffect, OpenGiven DEF Turned, Acted, ActKept, RequestKinds
  <1>4. CASE CreateWinner(a)
    BY <1>0, <1>1, <1>2, <1>4, CreateWinnerEffect, OpenGiven DEF Turned, Acted, ActKept, RequestKinds
  <1>5. CASE AssignRead(a)
    BY <1>0, <1>1, <1>2, <1>5, AssignReadEffect, OpenGiven DEF Turned, Acted, ActKept, RequestKinds
  <1>6. CASE loadAuthorizedSalesOpportunity(a)
    BY <1>0, <1>1, <1>2, <1>6, LoadEffect, OpenGiven DEF Turned, Acted, ActKept, RequestKinds
  <1>7. CASE UpsertLookUp(a)
    <2>1. links' = links
      BY <1>7, UpsertLookUpEffect DEF Turned, Untouched
    <2> QED BY <1>0, <1>1, <1>2, <1>7, <2>1, UpsertLookUpEffect DEF Turned, Acted, ActKept, RequestKinds
  <1>8. CASE CreateInsert(a)
    BY <1>0, <1>1, <1>2, <1>8, CreateInsertEffect DEF Turned, Acted, ActKept, RequestKinds
  <1>9. CASE LogEvent(a) \/ AssignWrite(a) \/ UpsertPoint(a)
    BY <1>0, <1>1, <1>2, <1>9, LogEventEffect, AssignWriteEffect, UpsertPointEffect DEF Acted, ActKept, RequestKinds
  <1>10. CASE ChangeSalesOpportunityStage(a)
    BY <1>0, <1>1, <1>2, <1>10, StageEffect DEF Acted, ActKept, RequestKinds
  <1>11. CASE ChangeSalesOpportunityDirecionamento(a) \/ UpdateSalesOpportunityDetails(a)
    BY <1>0, <1>1, <1>2, <1>11, RouteEffect DEF Acted, ActKept, RequestKinds
  <1>12. CASE ConvertSalesOpportunity(a) \/ LoseSalesOpportunity(a)
    BY <1>0, <1>1, <1>2, <1>12, OutcomeEffect DEF Acted, ActKept, RequestKinds
  <1>13. CASE DeleteSalesOpportunity(a)
    BY <1>0, <1>1, <1>2, <1>13, DeleteEffect DEF Acted, ActKept, RequestKinds
  <1>14. CASE UpsertWrite(a)
    BY <1>0, <1>1, <1>2, <1>14, UpsertWriteEffect DEF Acted, ActKept, RequestKinds
  <1> QED BY <1>3, <1>4, <1>5, <1>6, <1>7, <1>8, <1>9, <1>10, <1>11, <1>12, <1>13, <1>14 DEF ActStep
-------------------------------------------------------------------------------
(* Sales: the rows of the opportunities *)

RowsFine == RowsKept /\ OpenKept /\ BreachedIsRouted
NoCount == oppEvents' = oppEvents \/ \E n \in Numbers, t \in EventTypes : n <= numbers /\ Counted(n, t)
\* Rows beyond the last number stay empty.
LEMMA BeyondStays ==
  ASSUME SalesTyped, RowsKept, NoCount, numbers' = numbers, \A m \in Numbers : m > numbers => opp'[m] = opp[m]
  PROVE  \A n \in Numbers : n > numbers' => opp'[n] = NoOpp /\ \A t \in EventTypes : oppEvents'[n][t] = 0
  <1>0. numbers \in Nat
    BY SalesNumbers DEF SalesTyped, OppTypeOK
  <1> SUFFICES ASSUME NEW n \in Numbers, n > numbers PROVE opp'[n] = NoOpp /\ \A t \in EventTypes : oppEvents'[n][t] = 0
    OBVIOUS
  <1>1. opp'[n] = NoOpp
    BY DEF RowsKept
  <1>2. ASSUME NEW t \in EventTypes PROVE oppEvents'[n][t] = 0
    <2>1. oppEvents[n][t] = 0
      BY DEF RowsKept
    <2>2. CASE oppEvents' = oppEvents
      BY <2>1, <2>2
    <2>3. ASSUME NEW m \in Numbers, NEW u \in EventTypes, m <= numbers, Counted(m, u) PROVE oppEvents'[n][t] = 0
      <3>1. m # n
        BY <1>0, <2>3, SalesNumbers
      <3> QED BY <2>1, <2>3, <3>1 DEF Counted
    <2> QED BY <2>2, <2>3 DEF NoCount
  <1> QED BY <1>1, <1>2

LEMMA MarkedRows ==
  ASSUME SalesTyped, SalesTyped', RowsFine, NEW n, Marked(n), NoCount, numbers' = numbers
  PROVE  RowsFine'
  <1>0. \A m \in Numbers : m > numbers => opp'[m] = opp[m]
    BY DEF Marked, RowsFine, RowsKept, Here, NoOpp, Outcomes
  <1>1. \A m \in Numbers : m > numbers' => opp'[m] = NoOpp /\ \A t \in EventTypes : oppEvents'[m][t] = 0
    BY <1>0, BeyondStays DEF RowsFine
  <1>2. \A m \in Numbers : m <= numbers' => opp'[m].is # "none"
    BY DEF Marked, RowsFine, RowsKept
  <1>3. \A m \in Numbers : opp'[m].is = "gone" => opp'[m] = [NoOpp EXCEPT !.is = "gone"]
    BY DEF Marked, RowsFine, RowsKept, Here, Outcomes
  <1>4. OpenKept'
    BY DEF Marked, RowsFine, OpenKept
  <1>5. BreachedIsRouted'
    BY DEF Marked, RowsFine, BreachedIsRouted
  <1> QED BY <1>1, <1>2, <1>3, <1>4, <1>5 DEF RowsFine, RowsKept

LEMMA SameRows ==
  ASSUME SalesTyped, SalesTyped', RowsFine, opp' = opp, NoCount, numbers' = numbers
  PROVE  RowsFine'
  <1>1. Marked(0)
    BY DEF Marked, RowsBut, SalesTyped, OppTypeOK
  <1> QED BY <1>1, MarkedRows

\* A given row that moves: to an outcome, to a stage, under a breach or out of the table.
LEMMA MovedRows ==
  ASSUME SalesTyped, SalesTyped', RowsFine, NEW n \in Numbers, n <= numbers, RowsBut(n), numbers' = numbers,
         \A m \in Numbers : m > numbers => \A t \in EventTypes : oppEvents'[m][t] = oppEvents[m][t],
         opp'[n].is # "none", opp'[n].is = "aberta" => opp[n].is = "aberta" /\ opp'[n].client = opp[n].client,
         opp'[n].is = "gone" => opp'[n] = [NoOpp EXCEPT !.is = "gone"],
         opp'[n].breached => opp'[n].is = "aberta" /\ opp'[n].stage = "direcionada"
  PROVE  RowsFine'
  <1>0. numbers \in Nat
    BY SalesNumbers DEF SalesTyped, OppTypeOK
  <1>1. \A m \in Numbers : m > numbers' => opp'[m] = NoOpp /\ \A t \in EventTypes : oppEvents'[m][t] = 0
    BY <1>0, SalesNumbers DEF RowsBut, RowsFine, RowsKept
  <1>2. \A m \in Numbers : m <= numbers' => opp'[m].is # "none"
    BY DEF RowsBut, RowsFine, RowsKept
  <1>3. \A m \in Numbers : opp'[m].is = "gone" => opp'[m] = [NoOpp EXCEPT !.is = "gone"]
    BY DEF RowsBut, RowsFine, RowsKept
  <1>4. \A m \in Numbers : opp'[m].is = "aberta" => opp[m].is = "aberta" /\ opp'[m].client = opp[m].client
    BY DEF RowsBut
  <1>5. OpenKept'
    BY <1>4 DEF RowsFine, OpenKept
  <1>6. BreachedIsRouted'
    BY DEF RowsBut, RowsFine, BreachedIsRouted
  <1> QED BY <1>1, <1>2, <1>3, <1>5, <1>6 DEF RowsFine, RowsKept

\* The first row of a number: its client has no other open one (the partial unique index).
LEMMA InsertedRows ==
  ASSUME SalesTyped, SalesTyped', RowsFine, NEW c, NEW n \in Numbers, n = numbers + 1, numbers' = n, OpenOf(c) = {},
         RowsBut(n), opp'[n].is = "aberta", opp'[n].client = c, opp'[n].breached = FALSE, Counted(n, "opened")
  PROVE  RowsFine'
  <1>0. numbers \in Nat /\ \A m \in Numbers : m > numbers' => m > numbers /\ m # n
    BY SalesNumbers DEF SalesTyped, OppTypeOK
  <1>1. ASSUME NEW m \in Numbers, m > numbers' PROVE opp'[m] = NoOpp /\ \A t \in EventTypes : oppEvents'[m][t] = 0
    <2>1. m > numbers /\ m # n
      BY <1>0, <1>1
    <2> QED BY <2>1 DEF RowsBut, RowsFine, RowsKept, Counted
  <1>2. \A m \in Numbers : m <= numbers' => m = n \/ m <= numbers
    BY <1>0, SalesNumbers
  <1>3. \A m \in Numbers : m <= numbers' => opp'[m].is # "none"
    BY <1>2 DEF RowsBut, RowsFine, RowsKept
  <1>4. \A m \in Numbers : opp'[m].is = "gone" => opp'[m] = [NoOpp EXCEPT !.is = "gone"]
    BY DEF RowsBut, RowsFine, RowsKept
  <1>5. OpenKept'
    <2>1. \A m \in Numbers : opp[m].is = "aberta" => opp[m].client # c
      BY DEF OpenOf
    <2> QED BY <2>1 DEF RowsBut, RowsFine, OpenKept
  <1>6. BreachedIsRouted'
    BY DEF RowsBut, RowsFine, BreachedIsRouted
  <1> QED BY <1>1, <1>3, <1>4, <1>5, <1>6 DEF RowsFine, RowsKept

LEMMA ActRows ==
  ASSUME SalesTyped, ActsKept, RowsFine, NEW a \in Acts, ActStep(a)
  PROVE  RowsFine'
  <1>0. ActKept(a) /\ SalesTyped' /\ numbers \in Nat
    BY ActGrows DEF ActsKept, Grows
  <1>1. CASE CreateRead(a) \/ CreateWinner(a) \/ AssignRead(a) \/ loadAuthorizedSalesOpportunity(a) \/ UpsertLookUp(a)
    <2>1. Turned(a)
      BY <1>0, <1>1, CreateReadEffect, CreateWinnerEffect, AssignReadEffect, LoadEffect, UpsertLookUpEffect
    <2> QED BY <1>0, <2>1, SameRows DEF Turned, Untouched, Aside, NoCount
  <1>2. CASE CreateInsert(a)
    <2>1. CASE Turned(a)
      BY <1>0, <2>1, SameRows DEF Turned, Untouched, Aside, NoCount
    <2>2. CASE ~Turned(a)
      BY <1>0, <1>2, <2>2, CreateInsertEffect, InsertedRows
    <2> QED BY <2>1, <2>2
  <1>3. CASE LogEvent(a)
    <2>1. act[a].pc = "log" /\ act[a].opp <= numbers /\ NoCount
      BY <1>0, <1>3, LogEventEffect DEF ActKept, Given, NoCount
    <2> QED BY <1>0, <1>3, <2>1, LogEventEffect, SameRows DEF Aside
  <1>4. CASE AssignWrite(a) \/ UpsertPoint(a)
    BY <1>0, <1>4, AssignWriteEffect, UpsertPointEffect, MarkedRows DEF Aside, NoCount
  <1>5. CASE ChangeSalesOpportunityStage(a)
    <2>1. CASE Turned(a)
      BY <1>0, <2>1, SameRows DEF Turned, Untouched, Aside, NoCount
    <2>2. CASE ~Turned(a)
      <3>1. act[a].opp <= numbers
        BY <1>0 DEF ActKept
      <3>2. opp[act[a].opp].breached => opp[act[a].opp].is = "aberta"
        BY <1>5, <1>0, StageEffect DEF RowsFine, BreachedIsRouted
      <3> QED BY <1>0, <1>5, <2>2, <3>1, <3>2, StageEffect, MovedRows DEF Aside, Here, Outcomes
    <2> QED BY <2>1, <2>2
  <1>6. CASE ChangeSalesOpportunityDirecionamento(a) \/ UpdateSalesOpportunityDetails(a)
    <2>1. CASE Turned(a)
      BY <1>0, <2>1, SameRows DEF Turned, Untouched, Aside, NoCount
    <2>2. CASE ~Turned(a)
      BY <1>0, <1>6, <2>2, RouteEffect, MarkedRows DEF Aside, NoCount
    <2> QED BY <2>1, <2>2
  <1>7. CASE ConvertSalesOpportunity(a) \/ LoseSalesOpportunity(a)
    <2>1. CASE Turned(a)
      BY <1>0, <2>1, SameRows DEF Turned, Untouched, Aside, NoCount
    <2>2. CASE ~Turned(a)
      <3>1. act[a].opp <= numbers
        BY <1>0 DEF ActKept
      <3> QED BY <1>0, <1>7, <2>2, <3>1, OutcomeEffect, MovedRows DEF Aside, Moved
    <2> QED BY <2>1, <2>2
  <1>8. CASE DeleteSalesOpportunity(a)
    <2>1. opp'[act[a].opp] = [NoOpp EXCEPT !.is = "gone"] /\ opp'[act[a].opp].is = "gone" /\ opp'[act[a].opp].breached = FALSE
      BY <1>0, <1>8, DeleteEffect DEF NoOpp
    <2>2. \A m \in Numbers : m > numbers => m # act[a].opp
      <3>1. act[a].opp <= numbers
        BY <1>0, <1>8, DeleteEffect
      <3>2. \A m \in Numbers : m \in Nat
        BY SalesNumbers
      <3> QED BY <1>0, <3>1, <3>2
    <2> QED BY <1>0, <1>8, <2>1, <2>2, DeleteEffect, MovedRows DEF Aside
  <1>9. CASE UpsertWrite(a)
    <2>1. opp' = opp /\ oppEvents' = oppEvents /\ numbers' = numbers
      BY <1>0, <1>9, UpsertWriteEffect DEF Turned, Untouched, Aside
    <2> QED BY <1>0, <2>1, SameRows DEF NoCount
  <1> QED BY <1>1, <1>2, <1>3, <1>4, <1>5, <1>6, <1>7, <1>8, <1>9 DEF ActStep

LEMMA SweepRows ==
  ASSUME SalesTyped, RoundKept, RowsFine, SweepStep
  PROVE  RowsFine'
  <1>0. SalesTyped' /\ numbers' = numbers
    BY SweepGrows DEF Grows
  <1>1. CASE Swept
    BY <1>0, <1>1, SameRows DEF Swept, NoCount
  <1>2. ASSUME NEW i \in 1 .. Len(links), ConsultarPedido(i) PROVE RowsFine'
    BY <1>0, <1>2, ConsultEffect, SameRows DEF NoCount
  <1>3. CASE Settle
    <2>1. CASE opp' = opp
      BY <1>0, <1>3, <2>1, SettleEffect, SameRows DEF NoCount
    <2>2. CASE opp' # opp
      <3>1. round.todo[round.at].opp <= numbers
        BY <1>3, SettleEffect DEF RoundKept, Given
      <3> QED BY <1>0, <1>3, <2>2, <3>1, SettleEffect, MovedRows DEF Moved
    <2> QED BY <2>1, <2>2
  <1>4. CASE SettleLog
    <2>1. NoCount
      <3>1. round.todo[round.at].opp <= numbers /\ round.event \in EventTypes
        BY <1>4, SettleLogEffect DEF RoundKept, Given, EventTypes
      <3> QED BY <1>4, <3>1, SettleLogEffect DEF NoCount
    <2> QED BY <1>0, <1>4, <2>1, SettleLogEffect, SameRows
  <1>5. CASE setRealizedValueFromXProcess
    BY <1>0, <1>5, RealizeEffect, MarkedRows DEF NoCount
  <1>6. CASE SaveLink
    BY <1>0, <1>6, SaveLinkEffect, SameRows DEF NoCount
  <1>7. CASE createDiscoveredXProcessLink
    <2>1. CASE Swept
      BY <1>1, <2>1
    <2>2. CASE ~Swept
      <3>1. round.owner <= numbers /\ "linked" \in EventTypes
        BY <1>7, CreateDiscoveredEffect DEF RoundKept, Given, EventTypes
      <3>2. NoCount
        BY <1>7, <2>2, <3>1, CreateDiscoveredEffect DEF NoCount
      <3> QED BY <1>0, <1>7, <2>2, <3>2, CreateDiscoveredEffect, MarkedRows
    <2> QED BY <2>1, <2>2
  <1>8. CASE RunXProcessReconciliation \/ SweepFails \/ AfterDiscovered \/ discoverXProcessOrders \/ Weigh
    BY <1>1, <1>8, ListEffect, EndEffect, DiscoverEffect, WeighEffect
  <1>9. ASSUME NEW i \in 1 .. Len(links), ConsultFails(i) PROVE RowsFine'
    BY <1>1, <1>9, ConsultFailsEffect
  <1>10. ASSUME NEW d \in Clients, discoverForDocumento(d) PROVE RowsFine'
    BY <1>1, <1>10, DocumentoEffect
  <1> QED BY <1>2, <1>3, <1>4, <1>5, <1>6, <1>7, <1>8, <1>9, <1>10 DEF SweepStep
-------------------------------------------------------------------------------
(* Sales: the links *)

\* What may happen to a link: it lets its opportunity go, or a seller points it elsewhere.
Kin(old, new) ==
    /\ new.opp \in {old.opp, 0}
    /\ new.order = old.order \/ new.edited
    /\ old.edited => new.edited
\* Nobody but the sweep that asked answers it.
Calm(old, new) ==
    /\ new.status = old.status /\ new.closed = old.closed /\ new.closedFor = old.closedFor
    /\ new.resolved => old.resolved \/ new.opp = 0
CalmBut(x) ==
    /\ \A i \in 1 .. Len(links) : Kin(links[i], links'[i]) /\ (i # x => Calm(links[i], links'[i]))
    /\ \A i \in 1 .. Len(links') : i > Len(links) =>
          /\ links'[i].status = "absent" /\ ~links'[i].resolved /\ links'[i].closed = 0 /\ links'[i].opp \in Numbers
          /\ links'[i].opp <= numbers'

LEMMA SameCalm ==
  ASSUME SalesTyped, links' = links
  PROVE  CalmBut(0)
  BY LinkRows DEF CalmBut, Kin, Calm

LEMMA AtCalm ==
  ASSUME SalesTyped, NEW i \in 1 .. Len(links), NEW row, LinkAt(i, row), Kin(links[i], row), NEW x \in {0, i}, x = 0 => Calm(links[i], row)
  PROVE  CalmBut(x)
  <1>1. Len(links) \in Nat /\ Len(links') = Len(links) /\ links'[i] = row /\ \A j \in 1 .. Len(links) : j # i => links'[j] = links[j]
    BY LinkRows DEF LinkAt
  <1>2. \A j \in 1 .. Len(links) : Kin(links[j], links'[j]) /\ (j # x => Calm(links[j], links'[j]))
    <2> TAKE j \in 1 .. Len(links)
    <2>1. CASE j = i
      BY <1>1, <2>1
    <2>2. CASE j # i
      BY <1>1, <2>2 DEF Kin, Calm
    <2> QED BY <2>1, <2>2
  <1> QED BY <1>1, <1>2 DEF CalmBut

LEMMA GrownCalm ==
  ASSUME SalesTyped, NEW n \in Numbers, n <= numbers', NEW o, NEW firm, Grown(NewLink(n, o, firm))
  PROVE  CalmBut(0)
  <1>1. Len(links) \in Nat /\ Len(links') = Len(links) + 1 /\ links'[Len(links) + 1] = NewLink(n, o, firm)
        /\ \A j \in 1 .. Len(links) : links'[j] = links[j]
    BY LinkRows DEF Grown
  <1>2. \A j \in 1 .. Len(links') : j > Len(links) => links'[j] = NewLink(n, o, firm)
    BY <1>1
  <1> QED BY <1>1, <1>2 DEF CalmBut, Kin, Calm, NewLink

LEMMA PointedCalm ==
  ASSUME SalesTyped, NEW i \in 1 .. Len(links), NEW o, ~links[i].resolved
  PROVE  Kin(links[i], Pointed(i, o)) /\ Calm(links[i], Pointed(i, o))
  <1>1. links[i] \in LinkRow
    BY LinkRows
  <1> QED BY <1>1 DEF Kin, Calm, Pointed, LinkRow

LEMMA AskedCalm ==
  ASSUME SalesTyped, NEW i \in 1 .. Len(links)
  PROVE  Kin(links[i], Asked(i)) /\ Calm(links[i], Asked(i))
  <1>1. links[i] \in LinkRow
    BY LinkRows
  <1> QED BY <1>1 DEF Kin, Calm, Asked, LinkRow

LEMMA ActCalm ==
  ASSUME SalesTyped, ActsKept, NEW a \in Acts, ActStep(a)
  PROVE  CalmBut(0) /\ round' = round /\ day' = day
  <1>0. ActKept(a)
    BY DEF ActsKept
  <1>1. CASE CreateRead(a) \/ CreateWinner(a) \/ AssignRead(a) \/ loadAuthorizedSalesOpportunity(a) \/ UpsertLookUp(a)
    <2>1. Turned(a)
      BY <1>0, <1>1, CreateReadEffect, CreateWinnerEffect, AssignReadEffect, LoadEffect, UpsertLookUpEffect
    <2> QED BY <2>1, SameCalm DEF Turned, Untouched, Aside
  <1>2. CASE CreateInsert(a)
    BY <1>2, CreateInsertEffect, SameCalm DEF Turned, Untouched, Aside
  <1>3. CASE LogEvent(a) \/ AssignWrite(a) \/ UpsertPoint(a)
    BY <1>0, <1>3, LogEventEffect, AssignWriteEffect, UpsertPointEffect, SameCalm DEF Aside
  <1>4. CASE ChangeSalesOpportunityStage(a)
    BY <1>0, <1>4, StageEffect, SameCalm DEF Turned, Untouched, Aside
  <1>5. CASE ChangeSalesOpportunityDirecionamento(a) \/ UpdateSalesOpportunityDetails(a)
    BY <1>0, <1>5, RouteEffect, SameCalm DEF Turned, Untouched, Aside
  <1>6. CASE ConvertSalesOpportunity(a) \/ LoseSalesOpportunity(a)
    BY <1>0, <1>6, OutcomeEffect, SameCalm DEF Turned, Untouched, Aside
  <1>7. CASE DeleteSalesOpportunity(a)
    <2>1. /\ Len(links') = Len(links) /\ Len(links) \in Nat /\ Aside /\ round' = round
          /\ \A i \in 1 .. Len(links) : links[i] \in LinkRow /\
                (links'[i] = links[i] \/ links'[i] = [links[i] EXCEPT !.opp = 0, !.resolved = TRUE])
      BY <1>0, <1>7, DeleteEffect, LinkRows
    <2>2. ASSUME NEW i \in 1 .. Len(links) PROVE Kin(links[i], links'[i]) /\ Calm(links[i], links'[i])
      <3>1. CASE links'[i] = links[i]
        BY <3>1 DEF Kin, Calm
      <3>2. CASE links'[i] = [links[i] EXCEPT !.opp = 0, !.resolved = TRUE]
        BY <2>1, <3>2 DEF Kin, Calm, LinkRow
      <3> QED BY <2>1, <3>1, <3>2
    <2>3. \A i \in 1 .. Len(links') : ~(i > Len(links))
      <3>1. Len(links') = Len(links) /\ Len(links) \in Nat
        BY <2>1
      <3> QED BY <3>1
    <2> QED BY <2>1, <2>2, <2>3 DEF CalmBut, Aside
  <1>8. CASE UpsertWrite(a)
    <2>0. act[a].opp \in Numbers /\ act[a].opp <= numbers /\ round' = round /\ day' = day /\ numbers' = numbers
      BY <1>0, <1>8, UpsertWriteEffect DEF ActKept, Turned, Untouched, Aside
    <2>1. CASE Turned(a)
      BY <2>0, <2>1, SameCalm DEF Turned, Untouched
    <2>2. CASE ~links[act[a].link].resolved /\ LinkAt(act[a].link, Pointed(act[a].link, act[a].order))
      <3>1. act[a].link \in 1 .. Len(links)
        BY <2>2 DEF LinkAt
      <3> QED BY <2>0, <2>2, <3>1, PointedCalm, AtCalm
    <2>3. CASE Grown(NewLink(act[a].opp, act[a].order, FALSE))
      BY <2>0, <2>3, GrownCalm
    <2> QED BY <1>0, <1>8, <2>1, <2>2, <2>3, UpsertWriteEffect
  <1> QED BY <1>1, <1>2, <1>3, <1>4, <1>5, <1>6, <1>7, <1>8 DEF ActStep

\* A link is never held where it was not, and keeps what the sweep loaded.
LEMMA HeldCarries ==
  ASSUME SalesTyped, NEW x, CalmBut(x), Grows, NEW j \in 1 .. Len(links), NotHeld(j)
  PROVE  NotHeld(j)'
  <1> SUFFICES ASSUME NEW i \in 1 .. Len(links'), i < j, links'[i].order = links'[j].order, 0 \notin {links'[i].opp, links'[j].opp},
                      links'[i].opp # links'[j].opp, ~links'[i].edited, ~links'[j].edited
               PROVE  FALSE
    BY DEF NotHeld
  <1>1. i \in 1 .. Len(links)
    BY DEF Grows
  <1>2. Kin(links[i], links'[i]) /\ Kin(links[j], links'[j])
    BY <1>1 DEF CalmBut
  <1>3. links[i].order = links[j].order /\ links[i].opp = links'[i].opp /\ links[j].opp = links'[j].opp /\ ~links[i].edited /\ ~links[j].edited
    BY <1>2 DEF Kin
  <1> QED BY <1>1, <1>3 DEF NotHeld

LEMMA SameCarries ==
  ASSUME SalesTyped, NEW x, CalmBut(x), Grows, round'.todo = round.todo, NEW i \in 1 .. Len(links), SameLink(i),
         i \in 1 .. Len(round.todo)
  PROVE  SameLink(i)'
  <1>1. Kin(links[i], links'[i])
    BY DEF CalmBut
  <1>2. round.todo[i].opp \in Nat
    <2>1. round.todo[i] \in LinkRow /\ \A n \in Numbers \cup {0} : n \in Nat
      BY RoundTyped, SalesNumbers
    <2> QED BY <2>1 DEF LinkRow
  <1>3. round.todo[i].opp <= numbers'
    BY <1>2 DEF Grows, SameLink
  <1> QED BY <1>1, <1>3 DEF Kin, SameLink

LEMMA OpenCarries ==
  ASSUME NEW x, CalmBut(x), round'.todo = round.todo, NEW i \in 1 .. Len(links), i # x, OpenLink(i)
  PROVE  OpenLink(i)'
  <1>1. Kin(links[i], links'[i]) /\ Calm(links[i], links'[i])
    BY DEF CalmBut
  <1> QED BY <1>1 DEF Kin, Calm, OpenLink

LinksFine == LinksGiven /\ OrdersKept /\ ClosingsKept
\* One link at most changes its answer; what holds of that one is shown apart.
LEMMA LinksCarry ==
  ASSUME SalesTyped, LinksFine, NEW x, CalmBut(x), Grows, day <= day', day' \in Nat,
         x \in 1 .. Len(links) => NotHeld(x) \/ links'[x] = links[x],
         x \in 1 .. Len(links) =>
            /\ links'[x].resolved /\ links'[x].opp # 0 /\ links'[x].status = "fechado" =>
                  links'[x].edited \/ (links'[x].closedFor = links'[x].order /\ day' > links'[x].closed + Grace)
            /\ links'[x].closed # 0 => links'[x].edited \/ links'[x].closedFor = links'[x].order
            /\ links'[x].closed <= day'
  PROVE  LinksFine'
  <1>0. /\ Len(links) \in Nat /\ Len(links') \in Nat /\ numbers \in Nat /\ numbers' \in Nat /\ numbers <= numbers' /\ day \in Nat
        /\ \A i \in 1 .. Len(links) : links[i] \in LinkRow
    BY LinkRows, SalesNumbers DEF Grows, SalesTyped, OppTypeOK
  <1>1. LinksGiven'
    <2> SUFFICES ASSUME NEW i \in 1 .. Len(links') PROVE links'[i].opp <= numbers'
      BY DEF LinksGiven
    <2>1. CASE i \in 1 .. Len(links)
      <3>1. links[i].opp \in Nat /\ links[i].opp <= numbers /\ links'[i].opp \in {links[i].opp, 0}
        <4>1. \A n \in Numbers \cup {0} : n \in Nat
          BY SalesNumbers
        <4>2. links[i].opp \in Nat
          BY <1>0, <2>1, <4>1 DEF LinkRow
        <4> QED BY <2>1, <4>2 DEF LinksFine, LinksGiven, CalmBut, Kin
      <3> QED BY <1>0, <3>1
    <2>2. CASE i > Len(links)
      BY <2>2 DEF CalmBut
    <2> QED BY <1>0, <2>1, <2>2
  <1>2. OrdersKept'
    <2> SUFFICES ASSUME NEW j \in 1 .. Len(links'), links'[j].status # "absent", links'[j].opp # 0 PROVE NotHeld(j)'
      BY DEF OrdersKept
    <2>1. j \in 1 .. Len(links)
      BY <1>0 DEF CalmBut
    <2>2. links[j].opp # 0
      BY <2>1 DEF CalmBut, Kin
    <2>3. CASE j # x \/ links'[x] = links[x]
      <3>1. links[j].status # "absent"
        BY <2>1, <2>3 DEF CalmBut, Calm
      <3> QED BY <2>1, <2>2, <3>1, HeldCarries DEF LinksFine, OrdersKept
    <2>4. CASE j = x /\ NotHeld(x)
      BY <2>1, <2>4, HeldCarries
    <2> QED BY <2>1, <2>3, <2>4
  <1>3. ASSUME NEW i \in 1 .. Len(links')
        PROVE  /\ links'[i].resolved /\ links'[i].opp # 0 /\ links'[i].status = "fechado" =>
                     links'[i].edited \/ (links'[i].closedFor = links'[i].order /\ day' > links'[i].closed + Grace)
               /\ links'[i].closed # 0 => links'[i].edited \/ links'[i].closedFor = links'[i].order
               /\ links'[i].closed <= day'
    <2>1. CASE i > Len(links)
      BY <1>0, <2>1 DEF CalmBut
    <2>2. CASE i \in 1 .. Len(links) /\ i # x
      <3>1. Kin(links[i], links'[i]) /\ Calm(links[i], links'[i])
        BY <2>2 DEF CalmBut
      <3>2. links[i].closed \in Nat /\ Grace \in Nat
        BY <1>0, <2>2, SalesNumbers DEF LinkRow
      <3>3. /\ links[i].resolved /\ links[i].opp # 0 /\ links[i].status = "fechado" =>
                  links[i].edited \/ (links[i].closedFor = links[i].order /\ day > links[i].closed + Grace)
            /\ links[i].closed # 0 => links[i].edited \/ links[i].closedFor = links[i].order
            /\ links[i].closed <= day
        BY <2>2 DEF LinksFine, ClosingsKept, ClosedAfterGrace
      <3>4. links[i].closed <= day'
        BY <1>0, <3>2, <3>3
      <3>5. day > links[i].closed + Grace => day' > links[i].closed + Grace
        BY <1>0, <3>2
      <3> QED BY <3>1, <3>3, <3>4, <3>5 DEF Kin, Calm
    <2>3. CASE i = x /\ i \in 1 .. Len(links)
      BY <2>3
    <2> QED BY <1>0, <2>1, <2>2, <2>3
  <1>4. ClosingsKept'
    BY <1>3 DEF ClosingsKept, ClosedAfterGrace
  <1> QED BY <1>1, <1>2, <1>4 DEF LinksFine

LEMMA CalmCarry ==
  ASSUME SalesTyped, LinksFine, CalmBut(0), Grows, day <= day', day' \in Nat
  PROVE  LinksFine'
  <1>1. ~(0 \in 1 .. Len(links))
    BY LinkRows
  <1> QED BY <1>1, LinksCarry
-------------------------------------------------------------------------------
(* Sales: the links and the list of the sweep *)

LEMMA SavedKin ==
  ASSUME SalesTyped, NEW row, round.at \in 1 .. Len(links), Saved(row)
  PROVE  Kin(links[round.at], row)
  BY DEF Saved, Kin

\* The link the sweep asked about, saved; the others stay.
LEMMA SaveCalm ==
  ASSUME SalesTyped, RoundKept, SaveLink
  PROVE  CalmBut(round.at) /\ round.at \in 1 .. Len(links) /\ round.at \in 1 .. Len(round.todo)
  <1>1. round.pc = "save"
    BY SaveLinkEffect
  <1>2. PICK row \in LinkRow : LinkAt(round.at, row) /\ Saved(row)
    BY SaveLinkEffect
  <1>3. round.at \in 1 .. Len(links)
    BY <1>2 DEF LinkAt
  <1>4. CalmBut(round.at)
    <2>1. ~(0 \in 1 .. Len(links))
      BY LinkRows
    <2>2. round.at # 0
      BY <1>3, <2>1
    <2> QED BY <1>2, <1>3, <2>2, SavedKin, AtCalm
  <1> QED BY <1>1, <1>3, <1>4 DEF RoundKept

LEMMA SaveLinks ==
  ASSUME SalesTyped, RoundKept, LinksFine, SaveLink
  PROVE  LinksFine'
  <1> DEFINE x == round.at
  <1>0. Grows /\ day' = day /\ SaveLink
    BY SweepGrows DEF SweepStep
  <1>1. CalmBut(x) /\ x \in 1 .. Len(links) /\ x \in 1 .. Len(round.todo)
    BY SaveCalm
  <1>2. PICK row \in LinkRow : LinkAt(x, row) /\ Saved(row)
    BY SaveLinkEffect
  <1>3. links'[x] = row /\ links[x] \in LinkRow /\ round.todo[x] \in LinkRow /\ day \in Nat
    BY <1>1, <1>2, LinkRows, RoundTyped, SalesNumbers DEF LinkAt, SalesTyped, OppTypeOK
  <1>4. SameLink(x) /\ OpenLink(x) /\ NotHeld(x)
    BY <1>1, SaveLinkEffect DEF RoundKept
  <1>5. /\ links[x].resolved /\ links[x].opp # 0 /\ links[x].status = "fechado" =>
              links[x].edited \/ (links[x].closedFor = links[x].order /\ day > links[x].closed + Grace)
        /\ links[x].closed # 0 => links[x].edited \/ links[x].closedFor = links[x].order
        /\ links[x].closed <= day
    BY <1>1 DEF LinksFine, ClosingsKept, ClosedAfterGrace
  <1>6. CASE links[x].opp = 0
    <2>1. links'[x] = links[x]
      BY <1>2, <1>3, <1>6 DEF Saved
    <2>2. links'[x].opp = 0
      BY <1>6, <2>1
    <2> HIDE DEF x
    <2> QED BY <1>0, <1>1, <1>3, <1>4, <1>5, <2>1, <2>2, LinksCarry
  <1>7. CASE links[x].opp # 0
    <2>1. /\ row.opp = links[x].opp /\ row.order = links[x].order /\ row.edited = links[x].edited
          /\ \/ round.todo[x].closed = 0 /\ row.closed = day /\ row.closedFor = round.todo[x].order
             \/ row.closed = links[x].closed /\ row.closedFor = links[x].closedFor
          /\ row.resolved /\ row.status = "fechado" =>
               links[x].resolved \/ (day > round.todo[x].closed + Grace /\ round.todo[x].closed # 0
                                       /\ row.closed = links[x].closed /\ row.closedFor = links[x].closedFor)
      BY <1>2, <1>7 DEF Saved
    <2>2. ~links[x].resolved /\ round.todo[x].closed = links[x].closed /\ (links[x].order = round.todo[x].order \/ links[x].edited)
      BY <1>4, <1>7 DEF OpenLink, SameLink
    <2>3. row.closed # 0 => row.edited \/ row.closedFor = row.order
      BY <1>5, <2>1, <2>2
    <2>4. row.closed <= day
      BY <1>3, <1>5, <2>1
    <2>5. row.resolved /\ row.status = "fechado" => row.edited \/ (row.closedFor = row.order /\ day > row.closed + Grace)
      BY <1>5, <2>1, <2>2
    <2> HIDE DEF x
    <2> QED BY <1>0, <1>1, <1>3, <1>4, <2>3, <2>4, <2>5, LinksCarry
  <1> QED BY <1>6, <1>7

\* No other step of the sweep answers a link.
LEMMA SweepCalm ==
  ASSUME SalesTyped, RoundKept, SweepStep, ~SaveLink
  PROVE  CalmBut(0)
  <1>1. CASE RunXProcessReconciliation \/ SweepFails \/ AfterDiscovered \/ discoverXProcessOrders \/ Weigh
    BY <1>1, ListEffect, EndEffect, DiscoverEffect, WeighEffect, SameCalm DEF Swept
  <1>2. ASSUME NEW i \in 1 .. Len(links), ConsultarPedido(i) PROVE CalmBut(0)
    BY <1>2, ConsultEffect, SameCalm, AskedCalm, AtCalm
  <1>3. ASSUME NEW i \in 1 .. Len(links), ConsultFails(i) PROVE CalmBut(0)
    BY <1>3, ConsultFailsEffect, SameCalm DEF Swept
  <1>4. CASE Settle \/ SettleLog \/ setRealizedValueFromXProcess
    BY <1>4, SettleEffect, SettleLogEffect, RealizeEffect, SameCalm
  <1>5. ASSUME NEW d \in Clients, discoverForDocumento(d) PROVE CalmBut(0)
    BY <1>5, DocumentoEffect, SameCalm DEF Swept
  <1>6. CASE createDiscoveredXProcessLink
    <2>1. round.owner <= numbers' /\ round.owner \in Numbers
      BY <1>6, CreateDiscoveredEffect DEF RoundKept, Given, Aside
    <2> QED BY <1>6, <2>1, CreateDiscoveredEffect, SameCalm, GrownCalm DEF Swept
  <1> QED BY <1>1, <1>2, <1>3, <1>4, <1>5, <1>6 DEF SweepStep

LEMMA SweepLinks ==
  ASSUME SalesTyped, RoundKept, LinksFine, SweepStep
  PROVE  LinksFine'
  <1>1. CASE SaveLink
    BY <1>1, SaveLinks
  <1>2. CASE ~SaveLink
    <2>1. CalmBut(0) /\ Grows /\ day' = day /\ day \in Nat
      BY <1>2, SweepCalm, SweepGrows, SalesNumbers DEF SalesTyped, OppTypeOK
    <2> QED BY <2>1, CalmCarry
  <1> QED BY <1>1, <1>2

\* The list of the sweep outlives what the requests do meanwhile, and its own steps on other links.
Listed ==
    /\ Len(round.todo) <= Len(links) /\ \A i \in 1 .. Len(round.todo) : SameLink(i)
    /\ round.left \subseteq 1 .. Len(round.todo) /\ \A i \in round.left : OpenLink(i)
LEMMA ListCarries ==
  ASSUME SalesTyped, Listed, NEW x, CalmBut(x), Grows, round'.todo = round.todo, round'.left \subseteq round.left, x \notin round.left
  PROVE  Listed'
  <1>0. Len(round.todo) \in Nat /\ Len(links) \in Nat /\ Len(links') \in Nat /\ Len(links) <= Len(links')
    BY RoundTyped DEF Grows
  <1>1. Len(round'.todo) <= Len(links') /\ 1 .. Len(round.todo) \subseteq 1 .. Len(links)
    BY <1>0 DEF Listed
  <1>2. \A i \in 1 .. Len(round'.todo) : SameLink(i)'
    BY <1>1, SameCarries DEF Listed
  <1>3. \A i \in round'.left : OpenLink(i)'
    BY <1>1, OpenCarries DEF Listed
  <1> QED BY <1>1, <1>2, <1>3 DEF Listed

LEMMA RoundCarries ==
  ASSUME SalesTyped, RoundKept, CalmBut(0), Grows, round' = round
  PROVE  RoundKept'
  <1> SUFFICES ASSUME round.pc # "idle" PROVE RoundKept'
    BY DEF RoundKept
  <1>0. Listed /\ ~(0 \in 1 .. Len(links)) /\ 1 .. Len(round.todo) \subseteq 1 .. Len(links)
    BY LinkRows, RoundTyped DEF RoundKept, Listed
  <1>1. Listed'
    BY <1>0, ListCarries DEF Listed
  <1>2. \A n : Given(n) => Given(n)'
    BY SalesNumbers DEF Grows, Given
  <1>3. round.pc \in {"weigh", "settle", "log", "realize", "save"} =>
            round.at \in 1 .. Len(round.todo) /\ round.at \notin round.left /\ OpenLink(round.at)'
    BY <1>0, OpenCarries DEF RoundKept
  <1>4. round.pc \in {"settle", "log", "realize", "save"} => NotHeld(round.at)' /\ Given(round.todo[round.at].opp)'
    BY <1>0, <1>2, <1>3, HeldCarries DEF RoundKept
  <1>5. round.at' = round.at /\ round'.todo = round.todo
    OBVIOUS
  <1> QED BY <1>1, <1>2, <1>3, <1>4, <1>5 DEF RoundKept, Listed
-------------------------------------------------------------------------------
(* Sales: the steps of the sweep keep its round *)

\* A round that only goes on to another link or another document.
LEMMA IdleRound ==
  ASSUME round'.pc = "idle"
  PROVE  RoundKept'
  BY DEF RoundKept

LEMMA OnwardRound ==
  ASSUME SalesTyped, Listed, round.owner # 0 => round.left = {}, NEW x, CalmBut(x), Grows, x \notin round.left, Onward
  PROVE  RoundKept'
  <1>1. Listed'
    BY ListCarries DEF Onward, SameList
  <1> QED BY <1>1 DEF RoundKept, Listed, Onward, SameList

LEMMA ConsultRound ==
  ASSUME SalesTyped, RoundKept, NEW i \in 1 .. Len(links), ConsultarPedido(i) \/ ConsultFails(i)
  PROVE  RoundKept'
  <1>0. CalmBut(0) /\ Grows /\ ~(0 \in 1 .. Len(links))
    <2>1. SweepStep /\ ~SaveLink
      BY ConsultEffect, ConsultFailsEffect, SaveLinkEffect DEF SweepStep
    <2> QED BY <2>1, SweepCalm, SweepGrows, LinkRows
  <1>1. round.pc = "ask" /\ i \in round.left /\ SameList /\ round'.left = round.left \ {i}
    BY ConsultEffect, ConsultFailsEffect
  <1>2. Listed /\ 1 .. Len(round.todo) \subseteq 1 .. Len(links) /\ OpenLink(i) /\ i \in 1 .. Len(round.todo)
    BY <1>1, LinkRows, RoundTyped DEF RoundKept, Listed
  <1>3. Listed'
    <2>1. 0 \notin round.left /\ round'.left \subseteq round.left
      BY <1>0, <1>1, <1>2 DEF Listed
    <2> QED BY <1>0, <1>1, <1>2, <2>1, ListCarries DEF SameList
  <1>4. OpenLink(i)'
    BY <1>0, <1>1, <1>2, OpenCarries DEF SameList
  <1>5. round.owner # 0 => round.left = {}
    BY <1>1 DEF RoundKept
  <1>6. round'.owner = 0
    BY <1>1, <1>5 DEF SameList
  <1>7. round'.pc = "ask" \/ (round'.pc = "weigh" /\ round'.at = i)
    BY ConsultEffect, ConsultFailsEffect
  <1>8. i \in 1 .. Len(round'.todo) /\ i \notin round'.left
    BY <1>1, <1>2 DEF SameList
  <1>9. CASE round'.pc = "ask"
    BY <1>3, <1>6, <1>9 DEF RoundKept, Listed
  <1>10. CASE round'.pc = "weigh" /\ round'.at = i
    BY <1>3, <1>4, <1>6, <1>8, <1>10 DEF RoundKept, Listed
  <1> QED BY <1>7, <1>9, <1>10

LEMMA WeighRound ==
  ASSUME SalesTyped, RoundKept, RowsKept, Weigh
  PROVE  RoundKept'
  <1> DEFINE x == round.at
  <1>0. CalmBut(0) /\ Grows /\ ~(0 \in 1 .. Len(links)) /\ UNCHANGED <<links, numbers>>
    <2>1. SweepStep /\ ~SaveLink
      BY WeighEffect, SaveLinkEffect DEF SweepStep
    <2> QED BY <2>1, SweepCalm, SweepGrows, LinkRows, WeighEffect DEF Swept
  <1>1. /\ round.pc = "weigh" /\ Listed /\ x \in 1 .. Len(round.todo) /\ x \notin round.left /\ OpenLink(x) /\ SameLink(x)
        /\ (round.owner # 0 => round.left = {}) /\ 0 \notin round.left
    BY <1>0, WeighEffect, LinkRows, RoundTyped DEF RoundKept, Listed
  <1>2. CASE Onward
    BY <1>0, <1>1, <1>2, OnwardRound
  <1>3. CASE /\ round'.pc = "settle" /\ SameList /\ round'.left = round.left /\ round'.at = round.at
             /\ Here(round.todo[x].opp) /\ ~xprocessOrderHeldByOlderLink(x, round.todo[x].order)
    <2>1. Listed'
      BY <1>0, <1>1, <1>3, ListCarries DEF SameList
    <2>2. NotHeld(x)
      <3> SUFFICES ASSUME NEW j \in 1 .. Len(links), j < x, links[j].order = links[x].order, 0 \notin {links[j].opp, links[x].opp},
                          links[j].opp # links[x].opp, ~links[x].edited
                   PROVE  FALSE
        BY DEF NotHeld
      <3>1. links[x].opp = round.todo[x].opp /\ links[x].order = round.todo[x].order
        BY <1>1 DEF SameLink
      <3> QED BY <1>3, <3>1 DEF xprocessOrderHeldByOlderLink
    <2>3. Given(round.todo[x].opp)
      BY <1>3, OpenGiven
    <2>4. NotHeld(x)' /\ OpenLink(x)' /\ Given(round.todo[x].opp)'
      <3>1. UNCHANGED <<links, numbers, round.todo, round.at>>
        BY <1>0, <1>3 DEF SameList
      <3> QED BY <1>1, <2>2, <2>3, <3>1 DEF NotHeld, OpenLink, Given
    <2>5. UNCHANGED <<round.todo, round.at, round.left, round.owner>>
      BY <1>3 DEF SameList
    <2> QED BY <1>1, <1>3, <2>1, <2>4, <2>5 DEF RoundKept, Listed
  <1> QED BY <1>2, <1>3, WeighEffect

\* Between the answer and the save only the row moves.
LEMMA SettleRound ==
  ASSUME SalesTyped, RoundKept, Settle \/ SettleLog \/ setRealizedValueFromXProcess
  PROVE  RoundKept'
  <1> DEFINE x == round.at
  <1>0. /\ CalmBut(0) /\ Grows /\ ~(0 \in 1 .. Len(links)) /\ UNCHANGED <<links, numbers>>
        /\ UNCHANGED <<round.todo, round.at, round.left, round.owner>> /\ round.pc \in {"settle", "log", "realize"}
        /\ round'.pc \in {"log", "realize", "save"}
        /\ round'.pc = "log" => round'.event \in {"converted", "lost", "cancelled"}
    <2>1. SweepStep /\ ~SaveLink
      BY SettleEffect, SettleLogEffect, RealizeEffect, SaveLinkEffect DEF SweepStep
    <2> QED BY <2>1, SweepCalm, SweepGrows, LinkRows, SettleEffect, SettleLogEffect, RealizeEffect DEF SameList
  <1>1. /\ Listed /\ x \in 1 .. Len(round.todo) /\ x \notin round.left /\ OpenLink(x) /\ NotHeld(x) /\ Given(round.todo[x].opp)
        /\ (round.owner # 0 => round.left = {}) /\ 0 \notin round.left
    BY <1>0, LinkRows, RoundTyped DEF RoundKept, Listed
  <1>2. Listed'
    BY <1>0, <1>1, ListCarries
  <1>3. NotHeld(x)' /\ OpenLink(x)' /\ Given(round.todo[x].opp)'
    BY <1>0, <1>1 DEF NotHeld, OpenLink, Given
  <1> QED BY <1>0, <1>1, <1>2, <1>3 DEF RoundKept, Listed

LEMMA SaveRound ==
  ASSUME SalesTyped, RoundKept, SaveLink
  PROVE  RoundKept'
  <1>0. Grows
    BY SweepGrows DEF SweepStep
  <1>1. CalmBut(round.at) /\ Onward /\ round.pc = "save"
    BY SaveCalm, SaveLinkEffect
  <1>2. Listed /\ round.at \notin round.left /\ (round.owner # 0 => round.left = {})
    BY <1>1 DEF RoundKept, Listed
  <1> QED BY <1>0, <1>1, <1>2, OnwardRound

LEMMA CreateRound ==
  ASSUME SalesTyped, RoundKept, LinksGiven', createDiscoveredXProcessLink
  PROVE  RoundKept'
  <1>0. /\ CalmBut(0) /\ Grows /\ ~(0 \in 1 .. Len(links)) /\ round.pc = "create" /\ round'.left = round.left
        /\ round'.owner = round.owner /\ numbers' = numbers
    <2>1. SweepStep /\ ~SaveLink
      BY CreateDiscoveredEffect, SaveLinkEffect DEF SweepStep
    <2> QED BY <2>1, SweepCalm, SweepGrows, LinkRows, CreateDiscoveredEffect
  <1>1. Listed /\ round.left = {} /\ Given(round.owner)
    BY <1>0 DEF RoundKept, Listed
  <1>2. CASE Swept /\ round'.pc = "seek" /\ round'.todo = round.todo
    <2>1. Listed'
      BY <1>0, <1>1, <1>2, ListCarries
    <2> QED BY <1>0, <1>1, <1>2, <2>1 DEF RoundKept, Listed
  <1>3. CASE /\ \E o \in Orders : Grown(NewLink(round.owner, o, TRUE))
             /\ round'.pc = "weigh" /\ round'.todo = links' /\ round'.at = Len(links')
    <2>1. /\ Len(links') \in Nat /\ Len(links') = Len(links) + 1 /\ Len(links) \in Nat /\ ~links'[Len(links')].resolved
          /\ links' \in Seq(LinkRow)
      BY <1>3, LinkRows DEF Grown, NewLink, LinksTyped
    <2>2. \A i \in 1 .. Len(round'.todo) : SameLink(i)'
      BY <1>3, <2>1 DEF SameLink, LinksGiven
    <2>3. OpenLink(round.at)' /\ round'.at \in 1 .. Len(round'.todo)
      BY <1>3, <2>1 DEF OpenLink
    <2> QED BY <1>0, <1>1, <1>3, <2>1, <2>2, <2>3 DEF RoundKept
  <1> QED BY <1>2, <1>3, CreateDiscoveredEffect

LEMMA SweepRound ==
  ASSUME SalesTyped, RoundKept, RowsKept, LinksFine, SweepStep
  PROVE  RoundKept'
  <1>0. Grows /\ LinksFine'
    BY SweepGrows, SweepLinks
  <1>1. CASE RunXProcessReconciliation
    <2>0. /\ UNCHANGED <<links, numbers>> /\ round.pc = "list" /\ round'.pc = "ask" /\ round'.todo = links /\ round'.owner = round.owner
          /\ round'.left = {i \in 1 .. Len(links) : ~links[i].resolved}
      BY <1>1, ListEffect DEF Swept, Aside
    <2>1. round'.owner = 0
      BY <2>0 DEF RoundKept
    <2>2. Len(round'.todo) <= Len(links') /\ \A i \in 1 .. Len(round'.todo) : SameLink(i)'
      BY <2>0, LinkRows DEF SameLink, LinksFine, LinksGiven
    <2>3. round'.left \subseteq 1 .. Len(round'.todo) /\ \A i \in round'.left : OpenLink(i)'
      BY <2>0 DEF OpenLink
    <2> QED BY <2>0, <2>1, <2>2, <2>3 DEF RoundKept
  <1>2. CASE SweepFails \/ AfterDiscovered
    BY <1>2, EndEffect, IdleRound DEF Ended
  <1>3. CASE discoverXProcessOrders
    <2>1. CASE Ended
      BY <2>1, IdleRound DEF Ended
    <2>2. CASE ~Ended
      <3>1. CalmBut(0) /\ round.pc = "ask" /\ round.left = {} /\ round'.pc = "seek" /\ SameList /\ round'.left = {}
        BY <1>3, <2>2, DiscoverEffect, SameCalm DEF Swept
      <3>2. Listed
        BY <3>1 DEF RoundKept, Listed
      <3>3. Listed'
        BY <1>0, <3>1, <3>2, ListCarries DEF SameList
      <3> QED BY <3>1, <3>3 DEF RoundKept, Listed
    <2> QED BY <2>1, <2>2
  <1>4. CASE Weigh
    BY <1>4, WeighRound
  <1>5. ASSUME NEW i \in 1 .. Len(links), ConsultarPedido(i) \/ ConsultFails(i) PROVE RoundKept'
    BY <1>5, ConsultRound
  <1>6. CASE Settle \/ SettleLog \/ setRealizedValueFromXProcess
    BY <1>6, SettleRound
  <1>7. CASE SaveLink
    BY <1>7, SaveRound
  <1>8. ASSUME NEW d \in Clients, discoverForDocumento(d) PROVE RoundKept'
    <2>1. CalmBut(0) /\ round.pc = "seek" /\ round'.todo = round.todo /\ round'.left = round.left /\ numbers' = numbers
      BY <1>8, DocumentoEffect, SameCalm DEF Swept, Aside
    <2>2. Listed /\ round.left = {}
      BY <2>1 DEF RoundKept, Listed
    <2>3. Listed'
      BY <1>0, <2>1, <2>2, ListCarries
    <2>4. round'.pc = "create" => Given(round.owner)' /\ round'.found \in Orders
      <3>1. round'.pc = "create" => round'.owner \in Numbers /\ round'.found \in Orders /\ opp[round'.owner].is = "convertida"
        BY <1>8, DocumentoEffect
      <3>2. round'.pc = "create" => Given(round'.owner)
        BY <3>1, OpenGiven
      <3> QED BY <2>1, <3>1, <3>2 DEF Given
    <2>5. round'.pc \in {"seek", "create"}
      BY <1>8, DocumentoEffect
    <2> QED BY <2>1, <2>2, <2>3, <2>4, <2>5 DEF RoundKept, Listed
  <1>9. CASE createDiscoveredXProcessLink
    BY <1>0, <1>9, CreateRound DEF LinksFine
  <1> QED BY <1>1, <1>2, <1>3, <1>4, <1>5, <1>6, <1>7, <1>8, <1>9 DEF SweepStep

LEMMA MaybeRunRound ==
  ASSUME SalesTyped, ActsKept, maybeRun
  PROVE  RoundKept'
  <1>1. round'.pc = "list" /\ round'.todo = <<>> /\ round'.left = {} /\ round'.owner = 0 /\ Len(links') \in Nat
    BY MaybeRunEffect, LinkRows
  <1> QED BY <1>1 DEF RoundKept
-------------------------------------------------------------------------------
(* Sales: outcomes are logged once *)

OutcomeEvents == {"converted", "lost", "cancelled"}
\* The rows and the writers of an outcome that a step leaves as they were.
SilentAt(n) ==
    /\ opp'[n].is = opp[n].is
    /\ \A t \in OutcomeEvents :
        /\ oppEvents'[n][t] = oppEvents[n][t] /\ (Sweeping(n, t)' <=> Sweeping(n, t))
        /\ \A a \in Acts : Logging(a, n, t)' <=> Logging(a, n, t)
LEMMA SilentOnce ==
  ASSUME LogsKept, NEW n \in Numbers, Here(n)', SilentAt(n)
  PROVE  \A t \in OutcomeEvents : Once(n, t)'
  <1> TAKE t \in OutcomeEvents
  <1>1. Here(n)
    BY DEF Here, SilentAt
  <1>2. Once(n, t)
    BY <1>1 DEF LogsKept, OutcomeEvents
  <1>3. Due(n, t)' <=> Due(n, t)
    BY DEF SilentAt, Due, OutcomeEvents
  <1> QED BY <1>2, <1>3 DEF SilentAt, Once

LEMMA SilentLogs ==
  ASSUME LogsKept, \A n \in Numbers : Here(n)' => SilentAt(n)
  PROVE  LogsKept'
  BY SilentOnce DEF LogsKept, OutcomeEvents

\* A request speaks of an outcome only after it converted or lost the opportunity.
Speaks(a) == act[a].pc = "log" /\ act[a].op \in {"convert", "lose"}
LEMMA Speakers ==
  ASSUME NEW a \in Acts, ActKept(a), NEW n, NEW t \in OutcomeEvents, Logging(a, n, t)
  PROVE  Speaks(a)
  <1>1. act[a].op \in {"create", "button", "stage", "route", "convert", "lose"}
    BY DEF ActKept, Logging
  <1> QED BY <1>1 DEF Logging, Speaks, EventOf, OutcomeEvents

\* Voices of the requests and the sweep in a step that neither begins nor ends one.
LEMMA ActVoices ==
  ASSUME ActsKept, ActsKept', NEW a \in Acts, \A b \in Acts : b # a => act'[b] = act[b], round' = round, ~Speaks(a), ~Speaks(a)', NEW n, NEW t \in OutcomeEvents
  PROVE  (Sweeping(n, t)' <=> Sweeping(n, t)) /\ \A b \in Acts : Logging(b, n, t)' <=> Logging(b, n, t)
  <1>1. ~Logging(a, n, t)
    BY Speakers DEF ActsKept
  <1>2. ~Logging(a, n, t)'
    <2>1. act'[a].pc = "log" => act'[a].op \in {"create", "button", "stage", "route", "convert", "lose"}
      BY DEF ActsKept, ActKept
    <2> QED BY <2>1 DEF Logging, Speaks, EventOf, OutcomeEvents
  <1>3. \A b \in Acts : b # a => (Logging(b, n, t)' <=> Logging(b, n, t))
    BY DEF Logging
  <1> QED BY <1>1, <1>2, <1>3 DEF Sweeping

LEMMA QuietAct ==
  ASSUME LogsKept, ActsKept, ActsKept', NEW a \in Acts, \A b \in Acts : b # a => act'[b] = act[b], round' = round, ~Speaks(a), ~Speaks(a)',
         \A n \in Numbers : Here(n)' => opp'[n].is = opp[n].is /\ \A t \in OutcomeEvents : oppEvents'[n][t] = oppEvents[n][t]
  PROVE  LogsKept'
  <1>1. ASSUME NEW n \in Numbers, Here(n)' PROVE SilentAt(n)
    <2>1. \A t \in OutcomeEvents : (Sweeping(n, t)' <=> Sweeping(n, t)) /\ \A b \in Acts : Logging(b, n, t)' <=> Logging(b, n, t)
      BY ActVoices
    <2> QED BY <1>1, <2>1 DEF SilentAt
  <1> QED BY <1>1, SilentLogs

\* The sweep neither begins nor ends its own log.
LEMMA QuietSweep ==
  ASSUME LogsKept, act' = act, round.pc # "log", round'.pc # "log",
         \A n \in Numbers : Here(n)' => opp'[n].is = opp[n].is /\ \A t \in OutcomeEvents : oppEvents'[n][t] = oppEvents[n][t]
  PROVE  LogsKept'
  <1>1. ASSUME NEW n \in Numbers, Here(n)' PROVE SilentAt(n)
    BY <1>1 DEF SilentAt, Sweeping, Logging
  <1> QED BY <1>1, SilentLogs

LEMMA MarkedSilent ==
  ASSUME NEW n, Marked(n)
  PROVE  \A m \in Numbers : opp'[m].is = opp[m].is
  BY DEF Marked

\* Who won an open opportunity, or lost it, logs that alone.
LEMMA OutcomeLogs ==
  ASSUME SalesTyped, LogsKept, NEW a \in Acts, ActsKept, ConvertSalesOpportunity(a) \/ LoseSalesOpportunity(a), act'[a].pc = "log",
         ActsKept', \A b \in Acts : b # a => act'[b] = act[b]
  PROVE  LogsKept'
  <1> DEFINE t == IF act[a].op = "convert" THEN "converted" ELSE "lost"
  <1>0. ActKept(a)
    BY DEF ActsKept
  <1>9. PICK n \in Numbers : n = act[a].opp
    BY <1>0, OutcomeEffect
  <1>1. /\ n \in Numbers /\ act[a].pc = "write" /\ act[a].op \in {"convert", "lose"} /\ act'[a].opp = n /\ act'[a].op = act[a].op
        /\ RowsBut(n) /\ opp'[n].is = (IF act[a].op = "convert" THEN "convertida" ELSE "perdida") /\ opp[n].is = "aberta"
        /\ UNCHANGED <<oppEvents, round>>
    BY <1>0, <1>9, OutcomeEffect DEF Acted, Moved, Turned
  <1>2. ASSUME NEW m \in Numbers, m # n, Here(m)' PROVE SilentAt(m)
    <2>1. opp'[m].is = opp[m].is
      BY <1>1, <1>2 DEF RowsBut
    <2>2. \A u \in OutcomeEvents, b \in Acts : Logging(b, m, u)' <=> Logging(b, m, u)
      BY <1>1, <1>2 DEF Logging
    <2> QED BY <1>1, <2>1, <2>2 DEF SilentAt, Sweeping
  <1>3. ASSUME NEW u \in OutcomeEvents PROVE Once(n, u)'
    <2>1. ~Due(n, u)
      BY <1>1 DEF Due, OutcomeEvents
    <2>2. Here(n)
      BY <1>1 DEF Here, Outcomes
    <2>3. Once(n, u)
      BY <1>1, <2>2 DEF LogsKept, OutcomeEvents
    <2>4. oppEvents'[n][u] = 0 /\ ~Sweeping(n, u)' /\ \A b \in Acts : b # a => ~Logging(b, n, u)'
      <3>1. oppEvents[n][u] = 0 /\ ~Sweeping(n, u) /\ \A b \in Acts : ~Logging(b, n, u)
        BY <2>1, <2>3 DEF Once
      <3> QED BY <1>1, <3>1 DEF Sweeping, Logging
    <2>5. Logging(a, n, u)' <=> u = t
      BY <1>1 DEF Logging, EventOf
    <2>6. Due(n, u)' <=> u = t
      BY <1>1 DEF Due, OutcomeEvents
    <2> HIDE DEF t
    <2> QED BY <2>4, <2>5, <2>6 DEF Once
  <1> QED BY <1>2, <1>3, SilentOnce DEF LogsKept, OutcomeEvents

LEMMA LogEventLogs ==
  ASSUME SalesTyped, LogsKept, NEW a \in Acts, ActsKept, LogEvent(a)
  PROVE  LogsKept'
  <1> DEFINE n == act[a].opp
             t == EventOf(act[a].op)
  <1>0. ActKept(a)
    BY DEF ActsKept
  <1>1. /\ act[a].pc = "log" /\ act'[a].pc = "done" /\ n \in Numbers /\ t \in EventTypes /\ Counted(n, t) /\ UNCHANGED <<opp, round>>
        /\ \A b \in Acts : b # a => act'[b] = act[b]
    BY <1>0, LogEventEffect DEF Acted
  <1>2. ASSUME NEW m \in Numbers, NEW u \in OutcomeEvents, Here(m)' PROVE Once(m, u)'
    <2>0. u \in EventTypes /\ Here(m) /\ (Sweeping(m, u)' <=> Sweeping(m, u)) /\ (Due(m, u)' <=> Due(m, u))
      BY <1>1, <1>2 DEF OutcomeEvents, EventTypes, Here, Sweeping, Due
    <2>1. Once(m, u)
      BY <2>0 DEF LogsKept, OutcomeEvents
    <2>2. CASE m = n /\ u = t
      <3>1. Logging(a, m, u)
        BY <1>1, <2>2 DEF Logging
      <3>2. Due(m, u) /\ oppEvents[m][u] = 0 /\ ~Sweeping(m, u) /\ \A b \in Acts : b # a => ~Logging(b, m, u)
        BY <2>1, <3>1 DEF Once
      <3>3. oppEvents'[m][u] = 1
        BY <1>1, <2>0, <2>2, <3>2 DEF Counted
      <3>4. \A b \in Acts : ~Logging(b, m, u)'
        BY <1>1, <3>2 DEF Logging
      <3> QED BY <2>0, <3>2, <3>3, <3>4 DEF Once
    <2>3. CASE ~(m = n /\ u = t)
      <3>1. oppEvents'[m][u] = oppEvents[m][u]
        BY <1>1, <2>0, <2>3 DEF Counted
      <3>2. \A b \in Acts : Logging(b, m, u)' <=> Logging(b, m, u)
        BY <1>1, <2>3 DEF Logging
      <3> QED BY <2>0, <2>1, <3>1, <3>2 DEF Once
    <2> QED BY <2>2, <2>3
  <1> QED BY <1>2 DEF LogsKept, OutcomeEvents

LEMMA InsertLogs ==
  ASSUME SalesTyped, LogsKept, RowsKept, LinksGiven, RoundKept, NEW a \in Acts, ActsKept, ActsKept', CreateInsert(a), ~Turned(a)
  PROVE  LogsKept'
  <1>9. PICK n \in Numbers : n = numbers + 1
    BY CreateInsertEffect
  <1>1. /\ act[a].pc = "insert" /\ act'[a].pc = "done" /\ n \in Numbers /\ RowsBut(n) /\ opp'[n].is = "aberta" /\ Counted(n, "opened")
        /\ round' = round /\ \A b \in Acts : b # a => act'[b] = act[b]
    BY <1>9, CreateInsertEffect DEF Acted
  <1>2. numbers \in Nat /\ n > numbers
    BY <1>9, SalesNumbers DEF SalesTyped, OppTypeOK
  <1>3. \A m \in Numbers, u \in OutcomeEvents : oppEvents'[m][u] = oppEvents[m][u]
    <2>1. \A u \in OutcomeEvents : u \in EventTypes /\ u # "opened"
      BY DEF OutcomeEvents, EventTypes
    <2> QED BY <1>1, <2>1 DEF Counted
  <1>4. \A m \in Numbers, u \in OutcomeEvents : (Sweeping(m, u)' <=> Sweeping(m, u)) /\ \A b \in Acts : Logging(b, m, u)' <=> Logging(b, m, u)
    <2>1. ~Speaks(a) /\ ~Speaks(a)'
      BY <1>1 DEF Speaks
    <2> QED BY <1>1, <2>1, ActVoices
  <1>5. ASSUME NEW m \in Numbers, m # n, Here(m)' PROVE SilentAt(m)
    BY <1>1, <1>3, <1>4, <1>5 DEF SilentAt, RowsBut
  <1>6. ASSUME NEW u \in OutcomeEvents PROVE Once(n, u)'
    <2>1. oppEvents[n][u] = 0
      BY <1>1, <1>2 DEF RowsKept, OutcomeEvents, EventTypes
    <2>2. ~Sweeping(n, u)
      <3>1. round.pc = "log" => round.todo[round.at].opp <= numbers
        BY DEF RoundKept, Given
      <3>2. round.pc = "log" => round.todo[round.at].opp \in Nat
        BY SalesNumbers DEF RoundKept, Given
      <3> QED BY <1>2, <3>1, <3>2 DEF Sweeping
    <2>3. \A b \in Acts : ~Logging(b, n, u)
      <3> TAKE b \in Acts
      <3>1. act[b].opp <= numbers /\ act[b].opp \in Nat
        BY SalesNumbers DEF ActsKept, ActKept, SalesTyped, OppTypeOK, ActRow
      <3> QED BY <1>2, <3>1 DEF Logging
    <2>4. ~Due(n, u)'
      BY <1>1 DEF Due, OutcomeEvents
    <2>5. oppEvents'[n][u] = 0 /\ ~Sweeping(n, u)' /\ \A b \in Acts : ~Logging(b, n, u)'
      BY <1>1, <1>3, <1>4, <2>1, <2>2, <2>3
    <2> QED BY <2>4, <2>5 DEF Once
  <1> QED BY <1>5, <1>6, SilentOnce DEF LogsKept, OutcomeEvents
LEMMA ActActs ==
  ASSUME SalesTyped, ActsKept, RowsKept, NEW a \in Acts, ActStep(a)
  PROVE  ActsKept' /\ \A b \in Acts : b # a => act'[b] = act[b]
  <1>1. Grows /\ ActKept(a)' /\ \A b \in Acts : b # a => act'[b] = act[b]
    BY ActGrows, ActorKept
  <1>2. \A b \in Acts : b # a => ActKept(b)'
    BY <1>1, OthersKept
  <1> QED BY <1>1, <1>2 DEF ActsKept

LEMMA ActLogs ==
  ASSUME SalesTyped, ActsKept, RowsKept, LinksGiven, RoundKept, LogsKept, NEW a \in Acts, ActStep(a)
  PROVE  LogsKept'
  <1>0. ActKept(a) /\ ActsKept' /\ \A b \in Acts : b # a => act'[b] = act[b]
    BY ActActs DEF ActsKept
  <1>1. ASSUME round' = round, act[a].pc # "log",
               ~(act'[a].pc = "log" /\ act'[a].op \in {"convert", "lose"}),
               \A n \in Numbers : Here(n)' => opp'[n].is = opp[n].is /\ \A t \in OutcomeEvents : oppEvents'[n][t] = oppEvents[n][t]
        PROVE  LogsKept'
    <2>1. ~Speaks(a) /\ ~Speaks(a)'
      BY <1>1 DEF Speaks
    <2> QED BY <1>0, <1>1, <2>1, QuietAct
  <1>2. CASE Turned(a) /\ act[a].pc # "log" /\ ~(act'[a].pc = "log" /\ act'[a].op \in {"convert", "lose"})
    BY <1>1, <1>2 DEF Turned, Untouched
  <1>3. CASE CreateRead(a) \/ CreateWinner(a) \/ AssignRead(a) \/ loadAuthorizedSalesOpportunity(a) \/ UpsertLookUp(a)
    <2>1. CASE CreateWinner(a)
      <3>1. act[a].op \in {"create", "button"}
        BY <1>0, <2>1, CreateWinnerEffect DEF ActKept
      <3> QED BY <1>2, <2>1, <3>1, CreateWinnerEffect DEF Turned, Acted
    <2>2. CASE CreateRead(a) \/ AssignRead(a) \/ loadAuthorizedSalesOpportunity(a) \/ UpsertLookUp(a)
      BY <1>0, <1>2, <2>2, CreateReadEffect, AssignReadEffect, LoadEffect, UpsertLookUpEffect DEF Turned, Acted
    <2> QED BY <1>3, <2>1, <2>2
  <1>4. CASE CreateInsert(a)
    <2>1. CASE Turned(a)
      BY <1>2, <1>4, <2>1, CreateInsertEffect, InsertLogs, <1>0
    <2>2. CASE ~Turned(a)
      BY <1>0, <1>4, <2>2, InsertLogs
    <2> QED BY <2>1, <2>2
  <1>5. CASE LogEvent(a)
    BY <1>5, LogEventLogs
  <1>6. CASE AssignWrite(a) \/ UpsertPoint(a)
    <2>1. /\ act[a].pc # "log" /\ act'[a].pc = "done" /\ round' = round /\ oppEvents' = oppEvents /\ Marked(act[a].opp)
      BY <1>0, <1>6, AssignWriteEffect, UpsertPointEffect
    <2> QED BY <1>1, <2>1, MarkedSilent
  <1>7. CASE ChangeSalesOpportunityStage(a)
    <2>1. act[a].pc # "log" /\ act[a].op = "stage" /\ act'[a].op = "stage"
      BY <1>0, <1>7, StageEffect DEF Acted
    <2>2. CASE Turned(a)
      BY <1>2, <2>1, <2>2
    <2>3. CASE ~Turned(a)
      <3>1. round' = round /\ oppEvents' = oppEvents /\ \A n \in Numbers : opp'[n].is = opp[n].is
        BY <1>0, <1>7, <2>3, StageEffect DEF RowsBut
      <3> QED BY <1>1, <2>1, <3>1
    <2> QED BY <2>2, <2>3
  <1>8. CASE ChangeSalesOpportunityDirecionamento(a) \/ UpdateSalesOpportunityDetails(a)
    <2>1. act[a].pc # "log" /\ act'[a].op \in {"route", "realize"}
      BY <1>0, <1>8, RouteEffect DEF Acted
    <2>2. CASE Turned(a)
      BY <1>2, <2>1, <2>2
    <2>3. CASE ~Turned(a)
      <3>1. round' = round /\ oppEvents' = oppEvents /\ \A n \in Numbers : opp'[n].is = opp[n].is
        BY <1>0, <1>8, <2>3, RouteEffect, MarkedSilent
      <3> QED BY <1>1, <2>1, <3>1
    <2> QED BY <2>2, <2>3
  <1>9. CASE ConvertSalesOpportunity(a) \/ LoseSalesOpportunity(a)
    <2>1. act[a].pc # "log"
      BY <1>0, <1>9, OutcomeEffect
    <2>2. CASE act'[a].pc = "log"
      BY <1>0, <1>9, <2>2, OutcomeLogs
    <2>3. CASE act'[a].pc # "log"
      <3>1. Turned(a)
        BY <1>0, <1>9, <2>3, OutcomeEffect
      <3> QED BY <1>2, <2>1, <2>3, <3>1
    <2> QED BY <2>2, <2>3
  <1>10. CASE DeleteSalesOpportunity(a)
    <2>1. PICK n \in Numbers : n = act[a].opp
      BY <1>0, <1>10, DeleteEffect
    <2>2. /\ act[a].pc = "write" /\ act'[a].pc = "done" /\ round' = round /\ RowsBut(n) /\ opp'[n] = [NoOpp EXCEPT !.is = "gone"]
          /\ \A m \in Numbers : m # n => oppEvents'[m] = oppEvents[m]
      BY <1>0, <1>10, <2>1, DeleteEffect
    <2>3. ~Here(n)'
      BY <2>2 DEF Here, NoOpp, Outcomes
    <2>4. \A m \in Numbers : Here(m)' => opp'[m].is = opp[m].is /\ \A t \in OutcomeEvents : oppEvents'[m][t] = oppEvents[m][t]
      BY <2>2, <2>3 DEF RowsBut
    <2> QED BY <1>1, <2>2, <2>4
  <1>11. CASE UpsertWrite(a)
    <2>1. act[a].pc # "log" /\ act'[a].pc # "log" /\ round' = round /\ opp' = opp /\ oppEvents' = oppEvents
      BY <1>0, <1>11, UpsertWriteEffect DEF Turned, Untouched
    <2> QED BY <1>1, <2>1
  <1> QED BY <1>3, <1>4, <1>5, <1>6, <1>7, <1>8, <1>9, <1>10, <1>11 DEF ActStep

\* The sweep settles an outcome under the status it read, and logs that one.
LEMMA SettleLogs ==
  ASSUME SalesTyped, RoundKept, LogsKept, Settle
  PROVE  LogsKept'
  <1>9. PICK n \in Numbers : n = round.todo[round.at].opp
    BY SettleEffect
  <1>1. /\ round.pc = "settle" /\ round'.todo[round'.at].opp = n /\ act' = act /\ oppEvents' = oppEvents
    BY <1>9, SettleEffect DEF SameList
  <1>2. CASE opp' = opp /\ round'.pc = "realize"
    BY <1>1, <1>2, QuietSweep
  <1>3. CASE round'.pc = "log"
    <2>0. /\ RowsBut(n)
          /\ \/ opp'[n].is = "convertida" /\ opp[n].is = "aberta" /\ round'.event = "converted"
             \/ opp'[n].is = "perdida" /\ opp[n].is = "aberta" /\ round'.event = "lost"
             \/ opp'[n].is = "cancelada" /\ opp[n].is = "convertida" /\ round'.event = "cancelled"
      BY <1>3, <1>9, SettleEffect DEF Moved
    <2>1. ASSUME NEW m \in Numbers, m # n, Here(m)' PROVE SilentAt(m)
      BY <1>1, <2>0, <2>1 DEF SilentAt, RowsBut, Sweeping, Logging
    <2>2. ASSUME NEW u \in OutcomeEvents PROVE Once(n, u)'
      <3>1. Here(n)
        BY <2>0 DEF Here, Outcomes
      <3>2. Once(n, u) /\ ~Sweeping(n, u)
        BY <1>1, <3>1 DEF LogsKept, OutcomeEvents, Sweeping
      <3>3. \A b \in Acts : Logging(b, n, u)' <=> Logging(b, n, u)
        BY <1>1 DEF Logging
      <3>4. Sweeping(n, u)' <=> u = round'.event
        BY <1>1, <1>3 DEF Sweeping
      <3>5. CASE u = round'.event
        <4>1. ~Due(n, u) /\ Due(n, u)'
          BY <2>0, <3>5 DEF Due
        <4>2. oppEvents[n][u] = 0 /\ \A b \in Acts : ~Logging(b, n, u)
          BY <3>2, <4>1 DEF Once
        <4> QED BY <1>1, <3>3, <3>4, <3>5, <4>1, <4>2 DEF Once
      <3>6. CASE u # round'.event
        <4>1. Due(n, u)' <=> Due(n, u)
          BY <2>0, <3>6 DEF Due, OutcomeEvents
        <4> QED BY <1>1, <3>2, <3>3, <3>4, <3>6, <4>1 DEF Once
      <3> QED BY <3>5, <3>6
    <2> QED BY <2>1, <2>2, SilentOnce DEF LogsKept, OutcomeEvents
  <1> QED BY <1>2, <1>3, SettleEffect

LEMMA SettleLogLogs ==
  ASSUME SalesTyped, RoundKept, LogsKept, SettleLog
  PROVE  LogsKept'
  <1> DEFINE n == round.todo[round.at].opp
             t == round.event
  <1>1. /\ round.pc = "log" /\ round'.pc = "realize" /\ n \in Numbers /\ t \in OutcomeEvents /\ Counted(n, t)
        /\ UNCHANGED <<opp, act>>
    BY SettleLogEffect DEF OutcomeEvents
  <1>2. ASSUME NEW m \in Numbers, NEW u \in OutcomeEvents, Here(m)' PROVE Once(m, u)'
    <2>0. u \in EventTypes /\ Here(m) /\ ~Sweeping(m, u)' /\ (Due(m, u)' <=> Due(m, u)) /\ \A b \in Acts : Logging(b, m, u)' <=> Logging(b, m, u)
      BY <1>1, <1>2 DEF OutcomeEvents, EventTypes, Here, Sweeping, Due, Logging
    <2>1. Once(m, u)
      BY <2>0 DEF LogsKept, OutcomeEvents
    <2>2. CASE m = n /\ u = t
      <3>1. Sweeping(m, u)
        BY <1>1, <2>2 DEF Sweeping
      <3>2. Due(m, u) /\ oppEvents[m][u] = 0 /\ \A b \in Acts : ~Logging(b, m, u)
        BY <2>1, <3>1 DEF Once
      <3>3. oppEvents'[m][u] = 1
        BY <1>1, <2>0, <2>2, <3>2 DEF Counted
      <3> QED BY <2>0, <3>2, <3>3 DEF Once
    <2>3. CASE ~(m = n /\ u = t)
      <3>1. oppEvents'[m][u] = oppEvents[m][u]
        BY <1>1, <2>0, <2>3 DEF Counted
      <3>2. ~Sweeping(m, u)
        BY <2>3 DEF Sweeping
      <3> QED BY <2>0, <2>1, <3>1, <3>2 DEF Once
    <2> QED BY <2>2, <2>3
  <1> QED BY <1>2 DEF LogsKept, OutcomeEvents

LEMMA SweepLogs ==
  ASSUME SalesTyped, RoundKept, LogsKept, SweepStep
  PROVE  LogsKept'
  <1>1. CASE Swept /\ round.pc # "log" /\ round'.pc # "log"
    BY <1>1, QuietSweep DEF Swept
  <1>2. CASE RunXProcessReconciliation \/ AfterDiscovered \/ SweepFails \/ discoverXProcessOrders \/ Weigh
    <2>1. CASE SweepFails \/ AfterDiscovered
      <3>1. round.pc # "log"
        BY <2>1 DEF SweepFails, AfterDiscovered
      <3> QED BY <1>1, <2>1, <3>1, EndEffect DEF Ended
    <2> QED BY <1>1, <1>2, <2>1, ListEffect, DiscoverEffect, WeighEffect DEF Ended, Onward
  <1>3. ASSUME NEW i \in 1 .. Len(links), ConsultarPedido(i) PROVE LogsKept'
    BY <1>3, ConsultEffect, QuietSweep
  <1>4. ASSUME NEW i \in 1 .. Len(links), ConsultFails(i) PROVE LogsKept'
    BY <1>1, <1>4, ConsultFailsEffect
  <1>5. CASE Settle
    BY <1>5, SettleLogs
  <1>6. CASE SettleLog
    BY <1>6, SettleLogLogs
  <1>7. CASE setRealizedValueFromXProcess
    BY <1>7, RealizeEffect, MarkedSilent, QuietSweep
  <1>8. CASE SaveLink
    BY <1>8, SaveLinkEffect, QuietSweep DEF Onward
  <1>9. ASSUME NEW d \in Clients, discoverForDocumento(d) PROVE LogsKept'
    BY <1>1, <1>9, DocumentoEffect
  <1>10. CASE createDiscoveredXProcessLink
    <2>1. CASE Swept /\ round'.pc = "seek"
      BY <1>1, <1>10, <2>1, CreateDiscoveredEffect
    <2>2. CASE Marked(round.owner) /\ Counted(round.owner, "linked") /\ round'.pc = "weigh"
      <3>1. \A m \in Numbers, u \in OutcomeEvents : oppEvents'[m][u] = oppEvents[m][u]
        <4>1. \A u \in OutcomeEvents : u \in EventTypes /\ u # "linked"
          BY DEF OutcomeEvents, EventTypes
        <4> QED BY <2>2, <4>1 DEF Counted
      <3> QED BY <1>10, <2>2, <3>1, CreateDiscoveredEffect, MarkedSilent, QuietSweep
    <2> QED BY <1>10, <2>1, <2>2, CreateDiscoveredEffect
  <1> QED BY <1>2, <1>3, <1>4, <1>5, <1>6, <1>7, <1>8, <1>9, <1>10 DEF SweepStep
-------------------------------------------------------------------------------
(* Sales: what deletions leave behind *)

LEMMA ActBusy ==
  ASSUME SalesTyped, ActsKept, NEW a \in Acts, ActStep(a)
  PROVE  act[a].pc \notin {"new", "done"} /\ act'[a].op = act[a].op /\ met' = met
  <1>0. ActKept(a)
    BY DEF ActsKept
  <1>1. CASE CreateRead(a) \/ CreateWinner(a) \/ AssignRead(a) \/ loadAuthorizedSalesOpportunity(a) \/ UpsertLookUp(a)
    <2>1. Turned(a) /\ act[a].pc \in {"read", "winner", "look"}
      BY <1>0, <1>1, CreateReadEffect, CreateWinnerEffect, AssignReadEffect, LoadEffect, UpsertLookUpEffect
    <2> QED BY <2>1 DEF Turned, Untouched, Aside, Acted
  <1>2. CASE CreateInsert(a) \/ LogEvent(a) \/ AssignWrite(a) \/ UpsertPoint(a)
    BY <1>0, <1>2, CreateInsertEffect, LogEventEffect, AssignWriteEffect, UpsertPointEffect DEF Turned, Untouched, Aside, Acted
  <1>3. CASE \/ ChangeSalesOpportunityStage(a) \/ ChangeSalesOpportunityDirecionamento(a) \/ UpdateSalesOpportunityDetails(a)
             \/ ConvertSalesOpportunity(a) \/ LoseSalesOpportunity(a)
    BY <1>0, <1>3, StageEffect, RouteEffect, OutcomeEffect DEF Turned, Untouched, Aside, Acted
  <1>4. CASE DeleteSalesOpportunity(a) \/ UpsertWrite(a)
    BY <1>0, <1>4, DeleteEffect, UpsertWriteEffect DEF Turned, Untouched, Aside, Acted
  <1> QED BY <1>1, <1>2, <1>3, <1>4 DEF ActStep

\* The requests that are in progress together are on record.
LEMMA ActMet ==
  ASSUME SalesTyped, ActsKept, MetKept, NEW a \in Acts, ActStep(a), \A b \in Acts : b # a => act'[b] = act[b], round' = round
  PROVE  MetKept'
  <1>1. act[a].pc \notin {"new", "done"} /\ act'[a].op = act[a].op /\ met' = met
    BY ActBusy
  <1>2. \A b \in Acts : act'[b].pc \notin {"new", "done"} => act[b].pc \notin {"new", "done"} /\ act'[b].op = act[b].op
    BY <1>1
  <1> QED BY <1>1, <1>2 DEF MetKept, DeleteMet

LEMMA SubmitMet ==
  ASSUME MetKept, NEW a \in Acts, act[a].pc = "new", act'[a].pc = "read", \A b \in Acts : b # a => act'[b] = act[b],
         met' = met \cup {{act'[a].op, x} : x \in Running}, round' = round
  PROVE  MetKept'
  <1> SUFFICES ASSUME NEW b \in Acts, act'[b].pc \notin {"new", "done"}, act'[b].op = "delete", ~DeleteMet'
               PROVE  round.pc = "idle" /\ \A c \in Acts : act'[c].pc \notin {"new", "done"} => b = c
    BY DEF MetKept
  <1>1. ~DeleteMet
    BY DEF DeleteMet
  <1>2. b = a
    <2> SUFFICES ASSUME b # a PROVE FALSE
      OBVIOUS
    <2>1. act[b].op \in Running /\ act[b].op = "delete"
      BY DEF Running, Busy
    <2>2. {act'[a].op, "delete"} \in met'
      BY <2>1
    <2> QED BY <2>2 DEF DeleteMet
  <1>3. \A x : x \notin Running
    <2>1. \A x \in Running : {act'[a].op, x} \in met' /\ "delete" \in {act'[a].op, x}
      BY <1>2
    <2> QED BY <2>1 DEF DeleteMet
  <1>4. round.pc = "idle"
    BY <1>3 DEF Running
  <1>5. \A c \in Acts : act[c].pc \in {"new", "done"}
    BY <1>3 DEF Running, Busy
  <1> QED BY <1>2, <1>4, <1>5

LEMMA MaybeRunMet ==
  ASSUME MetKept, act' = act, met' = met \cup {{"sweep", x} : x \in Running}
  PROVE  MetKept'
  <1> SUFFICES ASSUME NEW b \in Acts, act[b].pc \notin {"new", "done"}, act[b].op = "delete"
               PROVE  DeleteMet'
    BY DEF MetKept
  <1>1. act[b].op \in Running
    BY DEF Running, Busy
  <1>2. {"sweep", "delete"} \in met'
    BY <1>1
  <1> QED BY <1>2 DEF DeleteMet

LEMMA SweepMet ==
  ASSUME MetKept, act' = act, met' = met, round.pc # "idle"
  PROVE  MetKept'
  BY DEF MetKept, DeleteMet

\* Nothing of an opportunity is left, and nobody is about to write of it.
Held == {"log", "write", "look", "link", "point"}
Clear(n) ==
    /\ \A t \in EventTypes : oppEvents[n][t] = 0
    /\ \A i \in 1 .. Len(links) : links[i].opp # n
    /\ \A a \in Acts : act[a].pc \in {"log", "write", "look", "link", "point"} => act[a].opp # n
    /\ round.pc # "idle" => \A i \in 1 .. Len(round.todo) : round.todo[i].opp # n
    /\ round.pc = "create" => round.owner # n
LEMMA GoneClear ==
  GoneKept <=> DeleteMet \/ \A n \in Numbers : opp[n].is = "gone" => Clear(n)
  BY DEF GoneKept, Clear

\* A request writes of an opportunity it wrote of before, or of one that is there.
LEMMA ActHolds ==
  ASSUME SalesTyped, ActsKept, NEW a \in Acts, ActStep(a), act'[a].pc \in Held
  PROVE  (act'[a].opp = act[a].opp /\ act[a].pc \in Held) \/ Here(act'[a].opp)
  <1>0. ActKept(a)
    BY DEF ActsKept
  <1>1. CASE CreateRead(a) \/ CreateWinner(a) \/ AssignRead(a)
    <2>1. act'[a].opp \in OpenOf(act[a].client)
      BY <1>1, CreateReadEffect, CreateWinnerEffect, AssignReadEffect DEF Held
    <2> QED BY <2>1 DEF OpenOf, Here, Outcomes
  <1>2. CASE loadAuthorizedSalesOpportunity(a)
    BY <1>0, <1>2, LoadEffect DEF Held
  <1>3. CASE UpsertLookUp(a)
    BY <1>3, UpsertLookUpEffect DEF Held
  <1>4. CASE CreateInsert(a)
    BY <1>4, CreateInsertEffect DEF Held
  <1>5. CASE LogEvent(a) \/ AssignWrite(a) \/ UpsertPoint(a) \/ DeleteSalesOpportunity(a)
    BY <1>0, <1>5, LogEventEffect, AssignWriteEffect, UpsertPointEffect, DeleteEffect DEF Held
  <1>6. CASE \/ ChangeSalesOpportunityStage(a) \/ ChangeSalesOpportunityDirecionamento(a) \/ UpdateSalesOpportunityDetails(a)
             \/ ConvertSalesOpportunity(a) \/ LoseSalesOpportunity(a)
    BY <1>0, <1>6, StageEffect, RouteEffect, OutcomeEffect DEF Held
  <1>7. CASE UpsertWrite(a)
    BY <1>0, <1>7, UpsertWriteEffect DEF Held
  <1> QED BY <1>1, <1>2, <1>3, <1>4, <1>5, <1>6, <1>7 DEF ActStep

\* Only a deletion takes a row out of the table, ...
LEMMA ActGone ==
  ASSUME SalesTyped, ActsKept, NEW a \in Acts, ActStep(a), ~DeleteSalesOpportunity(a), NEW n \in Numbers, opp'[n].is = "gone"
  PROVE  opp[n].is = "gone"
  <1>0. ActKept(a)
    BY DEF ActsKept
  <1>1. CASE CreateRead(a) \/ CreateWinner(a) \/ AssignRead(a) \/ loadAuthorizedSalesOpportunity(a) \/ UpsertLookUp(a)
    <2>1. Turned(a)
      BY <1>0, <1>1, CreateReadEffect, CreateWinnerEffect, AssignReadEffect, LoadEffect, UpsertLookUpEffect
    <2> QED BY <2>1 DEF Turned, Untouched
  <1>2. CASE CreateInsert(a)
    BY <1>2, CreateInsertEffect DEF Turned, Untouched, RowsBut
  <1>3. CASE LogEvent(a) \/ AssignWrite(a) \/ UpsertPoint(a)
    BY <1>0, <1>3, LogEventEffect, AssignWriteEffect, UpsertPointEffect, MarkedSilent
  <1>4. CASE ChangeSalesOpportunityStage(a)
    BY <1>0, <1>4, StageEffect DEF Turned, Untouched, RowsBut
  <1>5. CASE ChangeSalesOpportunityDirecionamento(a) \/ UpdateSalesOpportunityDetails(a)
    BY <1>0, <1>5, RouteEffect, MarkedSilent DEF Turned, Untouched
  <1>6. CASE ConvertSalesOpportunity(a) \/ LoseSalesOpportunity(a)
    BY <1>0, <1>6, OutcomeEffect DEF Turned, Untouched, Moved, RowsBut
  <1>7. CASE UpsertWrite(a)
    BY <1>0, <1>7, UpsertWriteEffect DEF Turned, Untouched
  <1> QED BY <1>1, <1>2, <1>3, <1>4, <1>5, <1>6, <1>7 DEF ActStep

\* ... and requests count and link only what they hold.
LEMMA ActCounts ==
  ASSUME SalesTyped, ActsKept, NEW a \in Acts, ActStep(a), ~DeleteSalesOpportunity(a)
  PROVE  \/ oppEvents' = oppEvents
         \/ CreateInsert(a) /\ ~Turned(a)
         \/ act[a].pc = "log" /\ \E t \in EventTypes : Counted(act[a].opp, t)
  <1>0. ActKept(a)
    BY DEF ActsKept
  <1>1. CASE CreateRead(a) \/ CreateWinner(a) \/ AssignRead(a) \/ loadAuthorizedSalesOpportunity(a) \/ UpsertLookUp(a)
    <2>1. Turned(a)
      BY <1>0, <1>1, CreateReadEffect, CreateWinnerEffect, AssignReadEffect, LoadEffect, UpsertLookUpEffect
    <2> QED BY <2>1 DEF Turned, Untouched
  <1>2. CASE CreateInsert(a)
    BY <1>2 DEF Turned, Untouched
  <1>3. CASE LogEvent(a) \/ AssignWrite(a) \/ UpsertPoint(a)
    BY <1>0, <1>3, LogEventEffect, AssignWriteEffect, UpsertPointEffect
  <1>4. CASE \/ ChangeSalesOpportunityStage(a) \/ ChangeSalesOpportunityDirecionamento(a) \/ UpdateSalesOpportunityDetails(a)
             \/ ConvertSalesOpportunity(a) \/ LoseSalesOpportunity(a)
    BY <1>0, <1>4, StageEffect, RouteEffect, OutcomeEffect DEF Turned, Untouched
  <1>5. CASE UpsertWrite(a)
    BY <1>0, <1>5, UpsertWriteEffect DEF Turned, Untouched
  <1> QED BY <1>1, <1>2, <1>3, <1>4, <1>5 DEF ActStep

LEMMA ActLinks ==
  ASSUME SalesTyped, ActsKept, NEW a \in Acts, ActStep(a)
  PROVE  \/ Len(links') = Len(links)
         \/ act[a].pc = "link" /\ \E o, firm : Grown(NewLink(act[a].opp, o, firm))
  <1>0. ActKept(a)
    BY DEF ActsKept
  <1>1. CASE CreateRead(a) \/ CreateWinner(a) \/ AssignRead(a) \/ loadAuthorizedSalesOpportunity(a) \/ UpsertLookUp(a)
    <2>1. Turned(a)
      BY <1>0, <1>1, CreateReadEffect, CreateWinnerEffect, AssignReadEffect, LoadEffect, UpsertLookUpEffect
    <2> QED BY <2>1 DEF Turned, Untouched
  <1>2. CASE CreateInsert(a) \/ LogEvent(a) \/ AssignWrite(a) \/ UpsertPoint(a) \/ DeleteSalesOpportunity(a)
    BY <1>0, <1>2, CreateInsertEffect, LogEventEffect, AssignWriteEffect, UpsertPointEffect, DeleteEffect DEF Turned, Untouched
  <1>3. CASE \/ ChangeSalesOpportunityStage(a) \/ ChangeSalesOpportunityDirecionamento(a) \/ UpdateSalesOpportunityDetails(a)
             \/ ConvertSalesOpportunity(a) \/ LoseSalesOpportunity(a)
    BY <1>0, <1>3, StageEffect, RouteEffect, OutcomeEffect DEF Turned, Untouched
  <1>4. CASE UpsertWrite(a)
    BY <1>0, <1>4, UpsertWriteEffect DEF Turned, Untouched, LinkAt
  <1> QED BY <1>1, <1>2, <1>3, <1>4 DEF ActStep
\* What is gone stays clear of requests, ...
LEMMA ActClears ==
  ASSUME SalesTyped, ActsKept, RowsKept, NEW a \in Acts, ActStep(a), ~DeleteSalesOpportunity(a), \A b \in Acts : b # a => act'[b] = act[b],
         NEW n \in Numbers, opp[n].is = "gone", opp'[n].is = "gone", Clear(n)
  PROVE  Clear(n)'
  <1>0. CalmBut(0) /\ round' = round /\ Grows /\ n <= numbers
    BY ActCalm, ActGrows, OpenGiven DEF Given
  <1>1. ASSUME NEW t \in EventTypes PROVE oppEvents'[n][t] = 0
    <2>0. oppEvents[n][t] = 0
      BY DEF Clear
    <2>1. CASE oppEvents' = oppEvents
      BY <2>0, <2>1
    <2>2. CASE CreateInsert(a) /\ ~Turned(a)
      <3>1. Counted(numbers + 1, "opened") /\ n # numbers + 1
        BY <1>0, <2>2, CreateInsertEffect, SalesNumbers DEF Grows
      <3> QED BY <2>0, <3>1 DEF Counted
    <2>3. CASE act[a].pc = "log" /\ \E u \in EventTypes : Counted(act[a].opp, u)
      <3>1. act[a].opp # n
        BY <2>3 DEF Clear
      <3> QED BY <2>0, <2>3, <3>1 DEF Counted
    <2> QED BY <2>1, <2>2, <2>3, ActCounts
  <1>2. ASSUME NEW i \in 1 .. Len(links') PROVE links'[i].opp # n
    <2>0. n # 0 /\ Len(links) \in Nat /\ Len(links') \in Nat
      BY <1>0, SalesNumbers, LinkRows DEF Grows
    <2>1. CASE i \in 1 .. Len(links)
      BY <1>0, <2>0, <2>1 DEF CalmBut, Kin, Clear
    <2>2. CASE ~(i \in 1 .. Len(links))
      <3>1. Len(links') # Len(links)
        BY <2>0, <2>2
      <3>2. PICK o, firm : act[a].pc = "link" /\ Grown(NewLink(act[a].opp, o, firm))
        BY <3>1, ActLinks
      <3>3. i = Len(links) + 1
        BY <2>0, <2>2, <3>2 DEF Grown
      <3>4. links'[i].opp = act[a].opp
        BY <3>2, <3>3 DEF Grown, NewLink
      <3> QED BY <3>2, <3>4 DEF Clear
    <2> QED BY <2>1, <2>2
  <1>3. ASSUME NEW b \in Acts, act'[b].pc \in Held PROVE act'[b].opp # n
    <2>1. CASE b # a
      BY <1>3, <2>1 DEF Clear, Held
    <2>2. CASE b = a
      <3>1. ~Here(n)
        BY DEF Here, Outcomes
      <3> QED BY <1>3, <2>2, <3>1, ActHolds DEF Clear, Held
    <2> QED BY <2>1, <2>2
  <1> QED BY <1>0, <1>1, <1>2, <1>3 DEF Clear, Held

\* ... a deletion alone clears all of it ...
LEMMA DeleteClears ==
  ASSUME SalesTyped, ActsKept, MetKept, GoneKept, NEW a \in Acts, DeleteSalesOpportunity(a), \A b \in Acts : b # a => act'[b] = act[b]
  PROVE  GoneKept'
  <1>0. ActKept(a)
    BY DEF ActsKept
  <1>1. PICK n \in Numbers : n = act[a].opp
    BY <1>0, DeleteEffect
  <1>2. /\ act[a].op = "delete" /\ act[a].pc = "write" /\ act'[a].pc = "done" /\ RowsBut(n) /\ round' = round /\ met' = met
        /\ \A m \in Numbers : oppEvents'[m] = IF m = n THEN [t \in EventTypes |-> 0] ELSE oppEvents[m]
        /\ Len(links') = Len(links)
        /\ \A i \in 1 .. Len(links) : links'[i] = IF links[i].opp = n THEN [links[i] EXCEPT !.opp = 0, !.resolved = TRUE] ELSE links[i]
    BY <1>0, <1>1, DeleteEffect DEF Aside
  <1>3. SUFFICES ASSUME ~DeleteMet, NEW m \in Numbers, opp'[m].is = "gone" PROVE Clear(m)'
    BY <1>2 DEF DeleteMet, GoneKept, Clear
  <1>4. round.pc = "idle" /\ \A b \in Acts : act'[b].pc \in {"new", "done"}
    BY <1>2, <1>3 DEF MetKept
  <1>5. m # n => opp[m].is = "gone" /\ Clear(m)
    BY <1>2, <1>3, GoneClear DEF RowsBut
  <1>6. \A t \in EventTypes : oppEvents'[m][t] = 0
    BY <1>2, <1>5 DEF Clear
  <1>7. ASSUME NEW i \in 1 .. Len(links) PROVE links'[i].opp # m
    <2>1. links[i] \in LinkRow /\ m # 0
      BY LinkRows, SalesNumbers
    <2>2. CASE links[i].opp = n
      BY <1>2, <2>1, <2>2 DEF LinkRow
    <2>3. CASE links[i].opp # n
      BY <1>2, <1>5, <2>3 DEF Clear
    <2> QED BY <2>2, <2>3
  <1> QED BY <1>2, <1>4, <1>6, <1>7 DEF Clear

LEMMA ActGoneKept ==
  ASSUME SalesTyped, ActsKept, RowsKept, MetKept, GoneKept, NEW a \in Acts, ActStep(a), \A b \in Acts : b # a => act'[b] = act[b]
  PROVE  GoneKept'
  <1>1. CASE DeleteSalesOpportunity(a)
    BY <1>1, DeleteClears
  <1>2. CASE ~DeleteSalesOpportunity(a)
    <2>1. met' = met
      BY ActBusy
    <2>2. ASSUME ~DeleteMet, NEW n \in Numbers, opp'[n].is = "gone" PROVE Clear(n)'
      <3>1. opp[n].is = "gone"
        BY <1>2, <2>2, ActGone
      <3>2. Clear(n)
        BY <2>2, <3>1, GoneClear
      <3> QED BY <1>2, <2>2, <3>1, <3>2, ActClears
    <2> QED BY <2>1, <2>2 DEF DeleteMet, GoneKept, Clear
  <1> QED BY <1>1, <1>2

\* ... and the sweep finds nothing of it.
LEMMA SweepGone ==
  ASSUME SalesTyped, RoundKept, SweepStep, NEW n \in Numbers, opp'[n].is = "gone"
  PROVE  opp[n].is = "gone" /\ round.pc # "idle"
  <1>1. CASE RunXProcessReconciliation \/ SweepFails \/ AfterDiscovered \/ discoverXProcessOrders \/ Weigh
    BY <1>1, ListEffect, EndEffect, DiscoverEffect, WeighEffect DEF Swept, SweepFails, AfterDiscovered
  <1>2. ASSUME NEW i \in 1 .. Len(links), ConsultarPedido(i) \/ ConsultFails(i) PROVE opp[n].is = "gone" /\ round.pc # "idle"
    BY <1>2, ConsultEffect, ConsultFailsEffect DEF Swept
  <1>3. CASE Settle
    BY <1>3, SettleEffect DEF Moved, RowsBut
  <1>4. CASE SettleLog \/ setRealizedValueFromXProcess \/ SaveLink
    BY <1>4, SettleLogEffect, RealizeEffect, SaveLinkEffect, MarkedSilent
  <1>5. ASSUME NEW d \in Clients, discoverForDocumento(d) PROVE opp[n].is = "gone" /\ round.pc # "idle"
    BY <1>5, DocumentoEffect DEF Swept
  <1>6. CASE createDiscoveredXProcessLink
    BY <1>6, CreateDiscoveredEffect, MarkedSilent DEF Swept
  <1> QED BY <1>1, <1>2, <1>3, <1>4, <1>5, <1>6 DEF SweepStep

LEMMA SweepClears ==
  ASSUME SalesTyped, RoundKept, SweepStep, NEW n \in Numbers, opp[n].is = "gone", Clear(n)
  PROVE  Clear(n)'
  <1>0. act' = act /\ n # 0 /\ Len(links) \in Nat /\ round.pc # "idle"
    BY SweepGrows, SweepCalm, LinkRows, SalesNumbers DEF SweepStep, RunXProcessReconciliation, SweepFails, ConsultarPedido, ConsultFails,
         Weigh, Settle, SettleLog, setRealizedValueFromXProcess, SaveLink, discoverXProcessOrders, discoverForDocumento,
         createDiscoveredXProcessLink, AfterDiscovered
  <1>1. ASSUME oppEvents' = oppEvents, Len(links') = Len(links), \A i \in 1 .. Len(links) : links'[i].opp \in {links[i].opp, 0},
               round'.todo = round.todo \/ round'.todo = links \/ round'.pc = "idle", round'.pc = "create" => round'.owner # n
        PROVE  Clear(n)'
    <2>1. \A i \in 1 .. Len(links') : links'[i].opp # n
      BY <1>0, <1>1 DEF Clear
    <2>2. round'.pc # "idle" => \A i \in 1 .. Len(round'.todo) : round'.todo[i].opp # n
      BY <1>0, <1>1 DEF Clear
    <2> QED BY <1>0, <1>1, <2>1, <2>2 DEF Clear
  <1>2. CASE links' = links /\ oppEvents' = oppEvents /\ (round'.todo = round.todo \/ round'.todo = links \/ round'.pc = "idle") /\ (round'.pc = "create" => round'.owner # n)
    BY <1>1, <1>2
  <1>3. CASE RunXProcessReconciliation \/ SweepFails \/ AfterDiscovered \/ discoverXProcessOrders \/ Weigh
    BY <1>2, <1>3, ListEffect, EndEffect, DiscoverEffect, WeighEffect DEF Swept, Ended, Onward, SameList
  <1>4. ASSUME NEW i \in 1 .. Len(links), ConsultarPedido(i) PROVE Clear(n)'
    <2>1. CASE links' = links
      BY <1>2, <1>4, <2>1, ConsultEffect DEF SameList
    <2>2. CASE LinkAt(i, Asked(i)) /\ round'.pc = "ask"
      <3>1. \A j \in 1 .. Len(links) : links'[j].opp \in {links[j].opp, 0}
        BY <2>2, AskedCalm DEF LinkAt, Kin
      <3> QED BY <1>1, <1>4, <2>2, <3>1, ConsultEffect DEF LinkAt, SameList
    <2> QED BY <1>4, <2>1, <2>2, ConsultEffect
  <1>5. ASSUME NEW i \in 1 .. Len(links), ConsultFails(i) PROVE Clear(n)'
    BY <1>2, <1>5, ConsultFailsEffect DEF Swept, SameList
  <1>6. CASE Settle \/ setRealizedValueFromXProcess
    BY <1>2, <1>6, SettleEffect, RealizeEffect DEF SameList
  <1>7. CASE SettleLog
    <2>1. /\ UNCHANGED links /\ round'.pc = "realize" /\ round'.todo = round.todo /\ Counted(round.todo[round.at].opp, round.event)
          /\ round.pc = "log" /\ round.at \in 1 .. Len(round.todo)
      BY <1>7, SettleLogEffect DEF SameList, RoundKept
    <2>2. \A t \in EventTypes : oppEvents'[n][t] = 0
      BY <2>1 DEF Clear, Counted
    <2> QED BY <1>0, <2>1, <2>2 DEF Clear
  <1>8. CASE SaveLink
    <2>1. CalmBut(round.at) /\ round'.pc \in {"ask", "seek"} /\ round'.todo = round.todo /\ oppEvents' = oppEvents /\ Len(links') = Len(links)
      BY <1>8, SaveCalm, SaveLinkEffect DEF Onward, SameList, LinkAt
    <2> QED BY <1>1, <2>1 DEF CalmBut, Kin
  <1>9. ASSUME NEW d \in Clients, discoverForDocumento(d) PROVE Clear(n)'
    BY <1>2, <1>9, DocumentoEffect DEF Swept
  <1>10. CASE createDiscoveredXProcessLink
    <2>1. CASE Swept /\ round'.pc = "seek" /\ round'.todo = round.todo
      BY <1>2, <2>1 DEF Swept
    <2>2. CASE /\ \E o \in Orders : Grown(NewLink(round.owner, o, TRUE))
               /\ Counted(round.owner, "linked")
               /\ round'.pc = "weigh" /\ round'.todo = links'
      <3>0. round.owner # n
        BY <1>10, CreateDiscoveredEffect DEF Clear
      <3>1. \A t \in EventTypes : oppEvents'[n][t] = 0
        BY <2>2, <3>0 DEF Clear, Counted
      <3>2. PICK o \in Orders : Grown(NewLink(round.owner, o, TRUE))
        BY <2>2
      <3>3. ASSUME NEW i \in 1 .. Len(links') PROVE links'[i].opp # n
        <4>1. CASE i \in 1 .. Len(links)
          BY <3>2, <4>1 DEF Grown, Clear
        <4>2. CASE i = Len(links) + 1
          BY <3>0, <3>2, <4>2 DEF Grown, NewLink
        <4> QED BY <1>0, <3>2, <4>1, <4>2 DEF Grown
      <3> QED BY <1>0, <2>2, <3>1, <3>3 DEF Clear
    <2> QED BY <1>10, <2>1, <2>2, CreateDiscoveredEffect
  <1> QED BY <1>3, <1>4, <1>5, <1>6, <1>7, <1>8, <1>9, <1>10 DEF SweepStep

LEMMA SweepGoneKept ==
  ASSUME SalesTyped, RoundKept, GoneKept, SweepStep
  PROVE  GoneKept'
  <1>1. met' = met
    BY SweepGrows
  <1>2. ASSUME ~DeleteMet, NEW n \in Numbers, opp'[n].is = "gone" PROVE Clear(n)'
    BY <1>2, SweepGone, SweepClears, GoneClear
  <1> QED BY <1>1, <1>2 DEF DeleteMet, GoneKept, Clear
-------------------------------------------------------------------------------
(* Sales: every step keeps the invariant *)

LEMMA SalesParts ==
  SalesInv <=> SalesTyped /\ ActsKept /\ RowsFine /\ LinksFine /\ RoundKept /\ LogsKept /\ MetKept /\ GoneKept
  BY DEF SalesInv, RowsFine, LinksFine
LEMMA SalesPartsNext ==
  SalesInv' <=> SalesTyped' /\ ActsKept' /\ RowsFine' /\ LinksFine' /\ RoundKept' /\ LogsKept' /\ MetKept' /\ GoneKept'
  BY DEF SalesInv, RowsFine, LinksFine

LEMMA ActInv ==
  ASSUME SalesInv, NEW a \in Acts, ActStep(a)
  PROVE  SalesInv'
  <1>0. SalesTyped /\ ActsKept /\ RowsFine /\ LinksFine /\ RoundKept /\ LogsKept /\ MetKept /\ GoneKept /\ RowsKept /\ LinksGiven
    BY SalesParts DEF RowsFine, LinksFine
  <1>1. Grows /\ CalmBut(0) /\ round' = round /\ day' = day /\ day \in Nat
    BY <1>0, ActGrows, ActCalm, SalesNumbers DEF SalesTyped, OppTypeOK
  <1>2. ActsKept' /\ \A b \in Acts : b # a => act'[b] = act[b]
    BY <1>0, ActActs
  <1>3. RowsFine' /\ LogsKept'
    BY <1>0, ActRows, ActLogs
  <1>4. LinksFine' /\ RoundKept'
    <2>1. day <= day' /\ day' \in Nat
      BY <1>1
    <2> QED BY <1>0, <1>1, <2>1, CalmCarry, RoundCarries
  <1>5. MetKept' /\ GoneKept'
    BY <1>0, <1>1, <1>2, ActMet, ActGoneKept
  <1> QED BY <1>1, <1>2, <1>3, <1>4, <1>5, SalesPartsNext DEF Grows

LEMMA SweepInv ==
  ASSUME SalesInv, SweepStep
  PROVE  SalesInv'
  <1>0. SalesTyped /\ ActsKept /\ RowsFine /\ LinksFine /\ RoundKept /\ LogsKept /\ MetKept /\ GoneKept /\ RowsKept
    BY SalesParts DEF RowsFine
  <1>1. Grows /\ act' = act /\ met' = met
    BY <1>0, SweepGrows
  <1>2. ActsKept'
    BY <1>0, <1>1, OthersKept DEF ActsKept
  <1>3. RowsFine' /\ LinksFine' /\ RoundKept' /\ LogsKept' /\ GoneKept'
    BY <1>0, SweepRows, SweepLinks, SweepRound, SweepLogs, SweepGoneKept
  <1>4. round.pc # "idle"
    BY DEF SweepStep, RunXProcessReconciliation, SweepFails, ConsultarPedido, ConsultFails, Weigh, Settle, SettleLog,
           setRealizedValueFromXProcess, SaveLink, discoverXProcessOrders, discoverForDocumento, createDiscoveredXProcessLink, AfterDiscovered
  <1>5. MetKept'
    BY <1>0, <1>1, <1>4, SweepMet
  <1> QED BY <1>1, <1>2, <1>3, <1>5, SalesPartsNext DEF Grows

LEMMA SubmitInv ==
  ASSUME SalesInv, NEW a \in Acts, NEW op \in oppMenu.ops, NEW by \in oppMenu.by, NEW c \in Clients, NEW n \in 0 .. numbers,
         NEW o \in oppMenu.orders, NEW st \in Stages, (n = 0) = (op \in {"create", "button", "assign"}), Submit(a, op, by, c, n, o, st)
  PROVE  SalesInv'
  <1>0. SalesTyped /\ ActsKept /\ RowsFine /\ LinksFine /\ RoundKept /\ LogsKept /\ MetKept /\ GoneKept
    BY SalesParts
  <1>1. /\ act[a].pc = "new" /\ act'[a].pc = "read" /\ act'[a].op = op /\ op \in RequestKinds /\ act'[a].opp = n
        /\ \A b \in Acts : b # a => act'[b] = act[b]
        /\ met' = met \cup {{op, x} : x \in Running}
        /\ UNCHANGED <<oppMenu, opp, numbers, oppEvents, links, known, x2, day, lastRun, round>> /\ SalesTyped'
    BY <1>0, SubmitEffect
  <1>2. Grows /\ CalmBut(0) /\ day \in Nat /\ numbers \in 0 .. MaxOpps
    <2>1. Grows /\ CalmBut(0)
      BY <1>0, <1>1, GrowsFrom, SameCalm
    <2>2. day \in Nat /\ numbers \in 0 .. MaxOpps
      BY <1>0, SalesNumbers DEF SalesTyped, OppTypeOK
    <2> QED BY <2>1, <2>2
  <1>3. ActsKept'
    <2>1. \A b \in Acts : b # a => ActKept(b)'
      BY <1>0, <1>1, <1>2, OthersKept
    <2>2. n <= numbers
      BY <1>2, SalesNumbers
    <2>3. op \notin {"create", "button", "assign"} => n \in Numbers
      <3>1. n # 0 => n \in Numbers
        BY <1>2, SalesNumbers DEF Numbers
      <3> QED BY <3>1
    <2>4. ActKept(a)'
      BY <1>1, <2>2, <2>3 DEF ActKept, Given
    <2> QED BY <2>1, <2>4 DEF ActsKept
  <1>4. RowsFine'
    BY <1>0, <1>1, SameRows DEF NoCount
  <1>5. LinksFine' /\ RoundKept'
    <2>1. day <= day' /\ day' \in Nat
      BY <1>1, <1>2
    <2> QED BY <1>0, <1>1, <1>2, <2>1, CalmCarry, RoundCarries
  <1>6. LogsKept'
    <2>1. ~Speaks(a) /\ ~Speaks(a)'
      BY <1>1 DEF Speaks
    <2> QED BY <1>0, <1>1, <1>3, <2>1, QuietAct
  <1>7. MetKept'
    BY <1>0, <1>1, SubmitMet
  <1>8. GoneKept'
    BY <1>0, <1>1 DEF GoneKept, DeleteMet
  <1> QED BY <1>1, <1>3, <1>4, <1>5, <1>6, <1>7, <1>8, SalesPartsNext

LEMMA MaybeRunInv ==
  ASSUME SalesInv, maybeRun
  PROVE  SalesInv'
  <1>0. SalesTyped /\ ActsKept /\ RowsFine /\ LinksFine /\ RoundKept /\ LogsKept /\ MetKept /\ GoneKept
    BY SalesParts
  <1>1. /\ round.pc = "idle" /\ round'.pc = "list" /\ round'.todo = <<>> /\ met' = met \cup {{"sweep", x} : x \in Running}
        /\ UNCHANGED <<oppMenu, opp, numbers, oppEvents, links, known, x2, day, act>> /\ SalesTyped'
    BY <1>0, MaybeRunEffect
  <1>2. Grows /\ CalmBut(0) /\ day \in Nat
    BY <1>0, <1>1, GrowsFrom, SameCalm, SalesNumbers DEF SalesTyped, OppTypeOK
  <1>3. ActsKept'
    BY <1>0, <1>1, <1>2, OthersKept DEF ActsKept
  <1>4. RowsFine'
    BY <1>0, <1>1, SameRows DEF NoCount
  <1>5. LinksFine' /\ RoundKept'
    <2>1. day <= day' /\ day' \in Nat
      BY <1>1, <1>2
    <2> QED BY <1>0, <1>2, <2>1, CalmCarry, MaybeRunRound
  <1>6. LogsKept'
    BY <1>0, <1>1, QuietSweep
  <1>7. MetKept'
    BY <1>0, <1>1, MaybeRunMet
  <1>8. GoneKept'
    <2>1. \A i : ~(i \in 1 .. Len(round'.todo))
      BY <1>1
    <2> QED BY <1>0, <1>1, <2>1 DEF GoneKept, DeleteMet
  <1> QED BY <1>1, <1>3, <1>4, <1>5, <1>6, <1>7, <1>8, SalesPartsNext

\* Time, X2 and the breach marker leave links, requests, events and statuses alone.
LEMMA ApartInv ==
  ASSUME SalesInv, SalesTyped', RowsFine', UNCHANGED <<numbers, oppEvents, links, round, act, met>>, day <= day',
         \A n \in Numbers : opp'[n].is = opp[n].is
  PROVE  SalesInv'
  <1>0. SalesTyped /\ ActsKept /\ RowsFine /\ LinksFine /\ RoundKept /\ LogsKept /\ MetKept /\ GoneKept
    BY SalesParts
  <1>2. Grows /\ CalmBut(0) /\ day' \in Nat
    BY <1>0, GrowsFrom, SameCalm, SalesNumbers DEF SalesTyped, OppTypeOK
  <1>3. ActsKept'
    BY <1>0, <1>2, OthersKept DEF ActsKept
  <1>4. LinksFine' /\ RoundKept'
    BY <1>0, <1>2, CalmCarry, RoundCarries
  <1>5. LogsKept'
    <2>1. ASSUME NEW n \in Numbers PROVE SilentAt(n)
      BY DEF SilentAt, Sweeping, Logging
    <2> QED BY <1>0, <2>1, SilentLogs
  <1>6. MetKept' /\ GoneKept'
    BY <1>0 DEF MetKept, GoneKept, DeleteMet
  <1> QED BY <1>3, <1>4, <1>5, <1>6, SalesPartsNext

LEMMA BreachInv ==
  ASSUME SalesInv, NEW n \in Numbers, processSalesOpportunitySLA(n)
  PROVE  SalesInv'
  <1>0. SalesTyped /\ RowsFine /\ RowsKept /\ day \in Nat
    BY SalesParts, SalesNumbers DEF RowsFine, SalesTyped, OppTypeOK
  <1>1. /\ opp[n].is = "aberta" /\ opp[n].stage = "direcionada" /\ RowsBut(n) /\ SalesTyped'
        /\ UNCHANGED <<numbers, day, met, oppEvents, links, round, act>>
        /\ opp'[n].is = opp[n].is /\ opp'[n].client = opp[n].client /\ opp'[n].stage = opp[n].stage
    BY <1>0, BreachEffect DEF Aside
  <1>2. n <= numbers
    BY <1>0, <1>1, OpenGiven DEF Given
  <1>3. RowsFine'
    BY <1>0, <1>1, <1>2, MovedRows
  <1>4. \A m \in Numbers : opp'[m].is = opp[m].is
    BY <1>1 DEF RowsBut
  <1>5. day <= day'
    BY <1>0, <1>1
  <1> QED BY <1>1, <1>3, <1>4, <1>5, ApartInv

LEMMA TimeInv ==
  ASSUME SalesInv, DayPasses \/ \E o \in oppMenu.orders, p \in OrderPhases : X2Moves(o, p)
  PROVE  SalesInv'
  <1>0. SalesTyped /\ RowsFine
    BY SalesParts
  <1>1. SalesTyped' /\ UNCHANGED <<opp, numbers, oppEvents, links, round, act, met>> /\ day <= day'
    BY <1>0, TimeEffect
  <1>2. RowsFine'
    BY <1>0, <1>1, SameRows DEF NoCount
  <1> QED BY <1>1, <1>2, ApartInv

LEMMA SalesStep ==
  ASSUME SalesInv, [OppNext]_oppVars
  PROVE  SalesInv'
  <1>1. CASE UNCHANGED oppVars
    BY <1>1 DEF oppVars, SalesInv, SalesTyped, OppTypeOK, ActsKept, ActKept, Given, RowsKept, LinksGiven, OpenKept, RoundKept, SameLink, OpenLink,
         NotHeld, OrdersKept, ClosingsKept, ClosedAfterGrace, LogsKept, Once, Due, Logging, Sweeping, Here, BreachedIsRouted, MetKept, DeleteMet, GoneKept
  <1>2. ASSUME NEW a \in Acts, NEW op \in oppMenu.ops, NEW by \in oppMenu.by, NEW c \in Clients, NEW n \in 0 .. numbers,
               NEW o \in oppMenu.orders, NEW st \in Stages, (n = 0) = (op \in {"create", "button", "assign"}), Submit(a, op, by, c, n, o, st)
        PROVE  SalesInv'
    BY <1>2, SubmitInv
  <1>3. ASSUME NEW a \in Acts, ActStep(a) PROVE SalesInv'
    BY <1>3, ActInv
  <1>4. CASE maybeRun
    BY <1>4, MaybeRunInv
  <1>5. CASE SweepStep
    BY <1>5, SweepInv
  <1>6. ASSUME NEW n \in Numbers, processSalesOpportunitySLA(n) PROVE SalesInv'
    BY <1>6, BreachInv
  <1>7. CASE DayPasses \/ \E o \in oppMenu.orders, p \in OrderPhases : X2Moves(o, p)
    BY <1>7, TimeInv
  <1>8. CASE OppNext
    BY <1>2, <1>3, <1>4, <1>5, <1>6, <1>7, <1>8 DEF OppNext, SweepStep
  <1> QED BY <1>1, <1>8
-------------------------------------------------------------------------------
(* Sales: the beginning *)

LEMMA MenuRows ==
  ASSUME NEW m \in OppMenus
  PROVE  /\ Len(m.has) \in 0 .. MaxOpps /\ m.docs \subseteq Clients
         /\ \A n \in 1 .. Len(m.has) : m.has[n].client \in Clients /\ m.has[n].is \in {"aberta", "convertida"}
                                        /\ m.has[n].seller \in Sellers \cup {Free}
         /\ \A i, j \in 1 .. Len(m.has) :
               m.has[i].is = "aberta" /\ m.has[j].is = "aberta" /\ m.has[i].client = m.has[j].client => i = j
  <1> DEFINE R == [client : Clients, is : {"aberta", "convertida"}, seller : Sellers \cup {"free"}]
  <1>1. m.has \in Seq(R) /\ Len(m.has) <= MaxOpps
    BY OppAssumption
  <1>2. Len(m.has) \in Nat /\ \A n \in 1 .. Len(m.has) : m.has[n] \in R
    <2> HIDE DEF R
    <2> QED BY <1>1
  <1>3. \A n \in 1 .. Len(m.has) : m.has[n].client \in Clients /\ m.has[n].is \in {"aberta", "convertida"}
                                        /\ m.has[n].seller \in Sellers \cup {Free}
    BY <1>2 DEF Free
  <1>4. Len(m.has) \in 0 .. MaxOpps
    <2> HIDE DEF R
    <2> QED BY <1>1, <1>2, SalesNumbers
  <1> QED BY <1>3, <1>4, OppAssumption

LEMMA SalesInit ==
  ASSUME OppInit
  PROVE  SalesInv
  <1> DEFINE k == Len(oppMenu.has)
             Row(n) == [NoOpp EXCEPT !.client = oppMenu.has[n].client, !.is = oppMenu.has[n].is, !.seller = oppMenu.has[n].seller]
             Count0(n, t) == IF n <= k /\ (t = "opened" \/ (t = "converted" /\ oppMenu.has[n].is = "convertida")) THEN 1 ELSE 0
  <1>0. /\ oppMenu \in OppMenus /\ opp = [n \in Numbers |-> IF n <= k THEN Row(n) ELSE NoOpp] /\ numbers = k
        /\ oppEvents = [n \in Numbers |-> [t \in EventTypes |-> Count0(n, t)]]
        /\ links = <<>> /\ known = oppMenu.docs /\ x2 = [o \in Orders |-> "absent"]
        /\ day = 0 /\ lastRun = 0 /\ round = Idle /\ met = {}
        /\ act = [a \in Acts |-> [op |-> Free, by |-> CHOOSE s \in Sellers : TRUE, client |-> CHOOSE c \in Clients : TRUE,
              opp |-> 0, order |-> CHOOSE o \in Orders : TRUE, stage |-> "potencial", saw |-> "none", link |-> 0, pc |-> "new"]]
    BY DEF OppInit, OppSetUp
  <1>1. /\ k \in 0 .. MaxOpps /\ k \in Nat
        /\ \A n \in Numbers : n <= k => oppMenu.has[n].client \in Clients /\ oppMenu.has[n].is \in {"aberta", "convertida"}
                                        /\ oppMenu.has[n].seller \in Sellers \cup {Free}
        /\ \A i, j \in Numbers : i <= k /\ j <= k /\ oppMenu.has[i].is = "aberta" /\ oppMenu.has[j].is = "aberta"
                                   /\ oppMenu.has[i].client = oppMenu.has[j].client => i = j
    <2>0. k \in 0 .. MaxOpps
      BY <1>0, MenuRows
    <2>1. k \in 0 .. MaxOpps /\ k \in Nat
      <3>1. MaxOpps \in Nat
        BY SalesNumbers
      <3> HIDE DEF k
      <3> QED BY <2>0, <3>1
    <2>2. \A n \in Numbers : n <= k => n \in 1 .. k
      <3> HIDE DEF k
      <3> QED BY <2>1, SalesNumbers DEF Numbers
    <2>3. \A n \in 1 .. k : oppMenu.has[n].client \in Clients /\ oppMenu.has[n].is \in {"aberta", "convertida"}
                                        /\ oppMenu.has[n].seller \in Sellers \cup {Free}
      BY <1>0, MenuRows
    <2>4. \A i, j \in 1 .. k :
               oppMenu.has[i].is = "aberta" /\ oppMenu.has[j].is = "aberta" /\ oppMenu.has[i].client = oppMenu.has[j].client => i = j
      BY <1>0, MenuRows
    <2> HIDE DEF k
    <2> QED BY <2>1, <2>2, <2>3, <2>4
  <1>2. 0 \in 0 .. LastDay /\ 0 \in 0 .. MaxOpps /\ 0 \in 0 .. MaxLinks
    BY SalesNumbers
  <1>3. NoOpp \in OppRow /\ NoOpp.is = "none" /\ NoOpp.breached = FALSE
    BY <1>2 DEF NoOpp, OppRow, Stages
  <1>4. \A n \in Numbers : n <= k => Row(n) \in OppRow /\ Row(n).is = oppMenu.has[n].is /\ Row(n).client = oppMenu.has[n].client
                                       /\ Row(n).breached = FALSE
    <2> TAKE n \in Numbers
    <2> HAVE n <= k
    <2>1. oppMenu.has[n].client \in Clients /\ oppMenu.has[n].is \in {"aberta", "convertida"} /\ oppMenu.has[n].seller \in Sellers \cup {Free}
      BY <1>1
    <2> QED BY <1>2, <2>1 DEF NoOpp, OppRow, Stages, Outcomes
  <1>5. \A n \in Numbers : opp[n] = IF n <= k THEN Row(n) ELSE NoOpp
    <2> HIDE DEF Row, k
    <2> QED BY <1>0
  <1>6. opp \in [Numbers -> OppRow]
    <2> HIDE DEF Row, k
    <2> QED BY <1>0, <1>3, <1>4
  <1>7. oppEvents \in [Numbers -> [EventTypes -> Nat]] /\ \A n \in Numbers, t \in EventTypes : oppEvents[n][t] = Count0(n, t)
    <2>1. \A n \in Numbers, t \in EventTypes : Count0(n, t) \in Nat
      OBVIOUS
    <2> HIDE DEF Count0
    <2> QED BY <1>0, <2>1
  <1>8. act \in [Acts -> ActRow] /\ \A a \in Acts : act[a].pc = "new" /\ act[a].opp = 0
    <2> DEFINE r == [op |-> Free, by |-> CHOOSE s \in Sellers : TRUE, client |-> CHOOSE c \in Clients : TRUE,
              opp |-> 0, order |-> CHOOSE o \in Orders : TRUE, stage |-> "potencial", saw |-> "none", link |-> 0, pc |-> "new"]
    <2>1. r \in ActRow
      <3>1. (CHOOSE s \in Sellers : TRUE) \in Sellers /\ (CHOOSE c \in Clients : TRUE) \in Clients /\ (CHOOSE o \in Orders : TRUE) \in Orders
        BY OppAssumption
      <3> QED BY <1>2, <3>1 DEF ActRow, Stages
    <2>2. r.pc = "new" /\ r.opp = 0
      OBVIOUS
    <2>3. act = [a \in Acts |-> r]
      BY <1>0
    <2> HIDE DEF r
    <2> QED BY <2>1, <2>2, <2>3
  <1>9. SalesTyped
    <2>1. known \subseteq Clients /\ x2 \in [Orders -> OrderPhases] /\ met \subseteq SUBSET (RequestKinds \cup {"sweep"})
      BY <1>0, MenuRows DEF OrderPhases
    <2>2. links \in Seq(LinkRow) /\ Len(links) = 0 /\ Len(links) <= MaxLinks
      <3>1. links = <<>> /\ MaxLinks \in Nat
        BY <1>0, SalesNumbers
      <3>2. <<>> \in Seq(LinkRow) /\ Len(<<>>) = 0
        OBVIOUS
      <3>3. Len(links) = 0
        BY <3>1, <3>2
      <3> QED BY <3>1, <3>2, <3>3
    <2>3. round \in RoundRow /\ round.pc = "idle"
      BY <1>0, IdleTyped
    <2>4. numbers \in 0 .. MaxOpps
      BY <1>0, <1>1
    <2> HIDE DEF k, Row, Count0
    <2> QED BY <1>0, <1>2, <1>6, <1>7, <1>8, <2>1, <2>2, <2>3, <2>4 DEF SalesTyped, OppTypeOK
  <1>10. ActsKept
    <2>1. 0 <= numbers
      <3>1. numbers = k /\ k \in Nat
        BY <1>0, <1>1
      <3> HIDE DEF k
      <3> QED BY <3>1
    <2> QED BY <1>8, <2>1 DEF ActsKept, ActKept
  <1>11. RowsFine
    <2>1. \A n \in Numbers : n > numbers => ~(n <= k)
      <3>1. \A n \in Numbers : n \in Nat
        BY SalesNumbers
      <3>2. numbers = k /\ k \in Nat
        BY <1>0, <1>1
      <3> HIDE DEF k
      <3> QED BY <3>1, <3>2
    <2>2. \A n \in Numbers : n > numbers => opp[n] = NoOpp /\ \A t \in EventTypes : oppEvents[n][t] = 0
      <3>1. \A n \in Numbers, t \in EventTypes : ~(n <= k) => Count0(n, t) = 0
        OBVIOUS
      <3> HIDE DEF k, Row, Count0
      <3> QED BY <1>5, <1>7, <2>1, <3>1
    <2>3. \A n \in Numbers : n <= numbers => opp[n].is \in {"aberta", "convertida"}
      <3> HIDE DEF k, Row
      <3> QED BY <1>0, <1>1, <1>4, <1>5
    <2>4. \A n \in Numbers : opp[n].is # "gone" /\ opp[n].breached = FALSE
      <3> HIDE DEF k, Row
      <3> QED BY <1>1, <1>3, <1>4, <1>5
    <2>5. OpenKept
      <3>1. \A n \in Numbers : opp[n].is = "aberta" => n <= k /\ oppMenu.has[n].is = "aberta" /\ opp[n].client = oppMenu.has[n].client
        <4> HIDE DEF k, Row
        <4> QED BY <1>3, <1>4, <1>5
      <3> HIDE DEF k, Row
      <3> QED BY <1>1, <3>1 DEF OpenKept
    <2> QED BY <2>2, <2>3, <2>4, <2>5 DEF RowsFine, RowsKept, BreachedIsRouted
  <1>12. LinksFine /\ RoundKept
    <2>1. \A i : ~(i \in 1 .. Len(links))
      <3>1. links = <<>>
        BY <1>0
      <3>2. Len(links) = 0
        BY <3>1
      <3> QED BY <3>2
    <2> QED BY <1>0, <2>1, IdleTyped DEF LinksFine, LinksGiven, OrdersKept, ClosingsKept, ClosedAfterGrace, RoundKept
  <1>13. LogsKept
    <2>1. ASSUME NEW n \in Numbers, Here(n), NEW t \in OutcomeEvents PROVE Once(n, t)
      <3>1. n <= k /\ opp[n].is = oppMenu.has[n].is /\ oppMenu.has[n].is \in {"aberta", "convertida"}
        <4> HIDE DEF k, Row
        <4> QED BY <1>1, <1>3, <1>4, <1>5, <2>1 DEF Here, Outcomes
      <3>2. oppEvents[n][t] = IF t = "converted" /\ opp[n].is = "convertida" THEN 1 ELSE 0
        <4>1. t \in EventTypes /\ t # "opened"
          BY DEF OutcomeEvents, EventTypes
        <4>2. Count0(n, t) = IF t = "converted" /\ oppMenu.has[n].is = "convertida" THEN 1 ELSE 0
          BY <3>1, <4>1
        <4> HIDE DEF Count0, k
        <4> QED BY <1>7, <3>1, <4>1, <4>2
      <3>3. Due(n, t) <=> t = "converted" /\ opp[n].is = "convertida"
        BY <3>1 DEF Due, OutcomeEvents
      <3>4. ~Sweeping(n, t) /\ \A a \in Acts : ~Logging(a, n, t)
        BY <1>0, <1>8, IdleTyped DEF Sweeping, Logging
      <3> HIDE DEF k
      <3> QED BY <3>2, <3>3, <3>4 DEF Once
    <2> QED BY <2>1 DEF LogsKept, OutcomeEvents
  <1>14. MetKept /\ GoneKept
    <2>1. \A n \in Numbers : opp[n].is # "gone"
      <3> HIDE DEF k, Row
      <3> QED BY <1>1, <1>3, <1>4, <1>5
    <2> QED BY <1>8, <2>1 DEF MetKept, GoneKept
  <1> QED BY <1>9, <1>10, <1>11, <1>12, <1>13, <1>14, SalesParts

-------------------------------------------------------------------------------
(* Sales: what the invariant says of the funnel *)

LEMMA OneOpen ==
  ASSUME SalesInv
  PROVE  OneOpenPerContact
  <1> SUFFICES ASSUME NEW c \in Clients PROVE Cardinality(OpenOf(c)) <= 1
    BY DEF OneOpenPerContact
  <1>1. CASE OpenOf(c) = {}
    BY <1>1, FS_EmptySet
  <1>2. CASE OpenOf(c) # {}
    <2>1. PICK n : n \in OpenOf(c)
      BY <1>2
    <2>2. OpenOf(c) = {n}
      BY <2>1 DEF OpenOf, SalesInv, OpenKept
    <2> QED BY <2>2, FS_Singleton
  <1> QED BY <1>1, <1>2

LEMMA Consistent ==
  ASSUME SalesInv
  PROVE  SalesConsistent
  <1>1. OutcomeLogged
    <2> SUFFICES ASSUME NEW n \in Numbers, Here(n), \A a \in Busy : act[a].opp = n => act[a].pc # "log",
                        ~(round.pc = "log" /\ round.todo[round.at].opp = n)
                 PROVE  \A t \in OutcomeEvents : oppEvents[n][t] = IF Due(n, t) THEN 1 ELSE 0
      BY DEF OutcomeLogged, Due, OutcomeEvents
    <2> TAKE t \in OutcomeEvents
    <2>1. Once(n, t)
      BY DEF SalesInv, LogsKept, OutcomeEvents
    <2>2. \A a \in Acts : ~Logging(a, n, t)
      BY DEF Logging, Busy
    <2>3. ~Sweeping(n, t)
      BY DEF Sweeping
    <2> QED BY <2>1, <2>2, <2>3 DEF Once
  <1>2. BreachedIsRouted /\ ClosedAfterGrace
    BY DEF SalesInv, ClosingsKept
  <1>3. OrderCreditsOne
    <2> SUFFICES ASSUME NEW i \in 1 .. Len(links), NEW j \in 1 .. Len(links), i < j, links[i].order = links[j].order,
                        0 \notin {links[i].opp, links[j].opp}, links[i].opp # links[j].opp, links[j].status # "absent"
                 PROVE  links[i].edited \/ links[j].edited
      BY DEF OrderCreditsOne
    <2>1. NotHeld(j)
      BY DEF SalesInv, OrdersKept
    <2> QED BY <2>1 DEF NotHeld
  <1>4. DeletedLeavesNothing
    BY DEF SalesInv, GoneKept, DeleteMet, DeletedLeavesNothing
  <1> QED BY <1>1, <1>2, <1>3, <1>4, OneOpen DEF SalesConsistent
-------------------------------------------------------------------------------
(* Sales: what a step may do to a row and to a link *)

Legal(n) ==
    /\ opp'[n].is # opp[n].is /\ opp[n].is \in Outcomes =>
          <<opp[n].is, opp'[n].is>> \in {<<"aberta", "convertida">>, <<"aberta", "perdida">>, <<"convertida", "cancelada">>}
          \/ opp'[n].is = "gone"
    /\ opp[n].seller # Free /\ opp'[n].is # "gone" => opp'[n].seller = opp[n].seller
AllLegal == \A n \in Numbers : Legal(n)
SettledStay ==
    \A i \in 1 .. Len(links) : links[i].resolved /\ links[i].opp # 0 /\ links'[i].opp # 0 => links'[i].order = links[i].order

LEMMA MarkedLegal ==
  ASSUME NEW n, Marked(n)
  PROVE  AllLegal
  BY DEF Marked, AllLegal, Legal

LEMMA SameLegal ==
  ASSUME opp' = opp
  PROVE  AllLegal
  BY DEF AllLegal, Legal

LEMMA ActLegal ==
  ASSUME SalesTyped, ActsKept, RowsKept, NEW a \in Acts, ActStep(a)
  PROVE  AllLegal
  <1>0. ActKept(a)
    BY DEF ActsKept
  <1>1. CASE CreateRead(a) \/ CreateWinner(a) \/ AssignRead(a) \/ loadAuthorizedSalesOpportunity(a) \/ UpsertLookUp(a)
    <2>1. Turned(a)
      BY <1>0, <1>1, CreateReadEffect, CreateWinnerEffect, AssignReadEffect, LoadEffect, UpsertLookUpEffect
    <2> QED BY <2>1, SameLegal DEF Turned, Untouched
  <1>2. CASE CreateInsert(a)
    <2>1. CASE Turned(a)
      BY <2>1, SameLegal DEF Turned, Untouched
    <2>2. CASE ~Turned(a)
      <3>1. PICK n \in Numbers : n = numbers + 1
        BY <1>2, <2>2, CreateInsertEffect
      <3>2. RowsBut(n)
        BY <1>2, <2>2, <3>1, CreateInsertEffect
      <3>3. numbers \in Nat
        BY SalesNumbers DEF SalesTyped, OppTypeOK
      <3>4. n > numbers
        BY <3>1, <3>3
      <3>5. opp[n] = NoOpp
        BY <3>4 DEF RowsKept
      <3> QED BY <3>2, <3>5 DEF RowsBut, AllLegal, Legal, NoOpp, Outcomes
    <2> QED BY <2>1, <2>2
  <1>3. CASE LogEvent(a) \/ AssignWrite(a) \/ UpsertPoint(a)
    BY <1>0, <1>3, LogEventEffect, AssignWriteEffect, UpsertPointEffect, MarkedLegal, SameLegal
  <1>4. CASE ChangeSalesOpportunityStage(a)
    <2>1. CASE Turned(a)
      BY <2>1, SameLegal DEF Turned, Untouched
    <2>2. CASE ~Turned(a)
      BY <1>0, <1>4, <2>2, StageEffect DEF RowsBut, AllLegal, Legal
    <2> QED BY <2>1, <2>2
  <1>5. CASE ChangeSalesOpportunityDirecionamento(a) \/ UpdateSalesOpportunityDetails(a)
    BY <1>0, <1>5, RouteEffect, MarkedLegal, SameLegal DEF Turned, Untouched
  <1>6. CASE ConvertSalesOpportunity(a) \/ LoseSalesOpportunity(a)
    <2>1. CASE Turned(a)
      BY <2>1, SameLegal DEF Turned, Untouched
    <2>2. CASE ~Turned(a)
      BY <1>0, <1>6, <2>2, OutcomeEffect DEF Moved, RowsBut, AllLegal, Legal
    <2> QED BY <2>1, <2>2
  <1>7. CASE DeleteSalesOpportunity(a)
    <2>1. RowsBut(act[a].opp) /\ opp'[act[a].opp].is = "gone"
      BY <1>0, <1>7, DeleteEffect DEF NoOpp
    <2> QED BY <2>1 DEF RowsBut, AllLegal, Legal
  <1>8. CASE UpsertWrite(a)
    BY <1>0, <1>8, UpsertWriteEffect, SameLegal DEF Turned, Untouched
  <1> QED BY <1>1, <1>2, <1>3, <1>4, <1>5, <1>6, <1>7, <1>8 DEF ActStep

LEMMA SweepLegal ==
  ASSUME SalesTyped, RoundKept, SweepStep
  PROVE  AllLegal
  <1>1. CASE RunXProcessReconciliation \/ SweepFails \/ AfterDiscovered \/ discoverXProcessOrders \/ Weigh
    BY <1>1, ListEffect, EndEffect, DiscoverEffect, WeighEffect, SameLegal DEF Swept
  <1>2. ASSUME NEW i \in 1 .. Len(links), ConsultarPedido(i) \/ ConsultFails(i) PROVE AllLegal
    BY <1>2, ConsultEffect, ConsultFailsEffect, SameLegal DEF Swept
  <1>3. CASE Settle
    <2>1. CASE opp' = opp
      BY <2>1, SameLegal
    <2>2. CASE opp' # opp
      BY <1>3, <2>2, SettleEffect DEF Moved, RowsBut, AllLegal, Legal
    <2> QED BY <2>1, <2>2
  <1>4. CASE SettleLog \/ setRealizedValueFromXProcess \/ SaveLink
    BY <1>4, SettleLogEffect, RealizeEffect, SaveLinkEffect, MarkedLegal, SameLegal
  <1>5. ASSUME NEW d \in Clients, discoverForDocumento(d) PROVE AllLegal
    BY <1>5, DocumentoEffect, SameLegal DEF Swept
  <1>6. CASE createDiscoveredXProcessLink
    BY <1>6, CreateDiscoveredEffect, MarkedLegal, SameLegal DEF Swept
  <1> QED BY <1>1, <1>2, <1>3, <1>4, <1>5, <1>6 DEF SweepStep

LEMMA ActSettled ==
  ASSUME SalesTyped, ActsKept, NEW a \in Acts, ActStep(a)
  PROVE  SettledStay
  <1>0. ActKept(a)
    BY DEF ActsKept
  <1>1. CASE CreateRead(a) \/ CreateWinner(a) \/ AssignRead(a) \/ loadAuthorizedSalesOpportunity(a) \/ UpsertLookUp(a)
    <2>1. Turned(a)
      BY <1>0, <1>1, CreateReadEffect, CreateWinnerEffect, AssignReadEffect, LoadEffect, UpsertLookUpEffect
    <2> QED BY <2>1 DEF Turned, Untouched, SettledStay
  <1>2. CASE CreateInsert(a) \/ LogEvent(a) \/ AssignWrite(a) \/ UpsertPoint(a)
    BY <1>0, <1>2, CreateInsertEffect, LogEventEffect, AssignWriteEffect, UpsertPointEffect DEF Turned, Untouched, SettledStay
  <1>3. CASE \/ ChangeSalesOpportunityStage(a) \/ ChangeSalesOpportunityDirecionamento(a) \/ UpdateSalesOpportunityDetails(a)
             \/ ConvertSalesOpportunity(a) \/ LoseSalesOpportunity(a)
    BY <1>0, <1>3, StageEffect, RouteEffect, OutcomeEffect DEF Turned, Untouched, SettledStay
  <1>4. CASE DeleteSalesOpportunity(a)
    <2>1. \A i \in 1 .. Len(links) : links[i] \in LinkRow /\
                (links'[i] = links[i] \/ links'[i] = [links[i] EXCEPT !.opp = 0, !.resolved = TRUE])
      BY <1>0, <1>4, DeleteEffect, LinkRows
    <2>2. \A i \in 1 .. Len(links) : links'[i].order = links[i].order
      BY <2>1 DEF LinkRow
    <2> QED BY <2>2 DEF SettledStay
  <1>5. CASE UpsertWrite(a)
    BY <1>0, <1>5, UpsertWriteEffect DEF Turned, Untouched, LinkAt, Grown, SettledStay
  <1> QED BY <1>1, <1>2, <1>3, <1>4, <1>5 DEF ActStep

LEMMA SweepSettled ==
  ASSUME SalesTyped, RoundKept, SweepStep
  PROVE  SettledStay
  <1>1. CASE RunXProcessReconciliation \/ SweepFails \/ AfterDiscovered \/ discoverXProcessOrders \/ Weigh
    BY <1>1, ListEffect, EndEffect, DiscoverEffect, WeighEffect DEF Swept, SettledStay
  <1>2. ASSUME NEW i \in 1 .. Len(links), ConsultarPedido(i) \/ ConsultFails(i) PROVE SettledStay
    <2>1. Asked(i).order = links[i].order
      BY LinkRows DEF Asked, LinkRow
    <2> QED BY <1>2, <2>1, ConsultEffect, ConsultFailsEffect DEF Swept, LinkAt, SettledStay
  <1>3. CASE Settle \/ SettleLog \/ setRealizedValueFromXProcess
    BY <1>3, SettleEffect, SettleLogEffect, RealizeEffect DEF SettledStay
  <1>4. CASE SaveLink
    <2>1. PICK row \in LinkRow : LinkAt(round.at, row) /\ Saved(row)
      BY <1>4, SaveLinkEffect
    <2>2. row.order = links[round.at].order
      BY <2>1 DEF Saved
    <2> QED BY <2>1, <2>2 DEF LinkAt, SettledStay
  <1>5. ASSUME NEW d \in Clients, discoverForDocumento(d) PROVE SettledStay
    BY <1>5, DocumentoEffect DEF Swept, SettledStay
  <1>6. CASE createDiscoveredXProcessLink
    BY <1>6, CreateDiscoveredEffect DEF Swept, Grown, SettledStay
  <1> QED BY <1>1, <1>2, <1>3, <1>4, <1>5, <1>6 DEF SweepStep

LEMMA StepLegal ==
  ASSUME SalesInv, [OppNext]_oppVars
  PROVE  AllLegal /\ SettledStay
  <1>0. SalesTyped /\ ActsKept /\ RowsKept /\ RoundKept
    BY DEF SalesInv
  <1>1. CASE opp' = opp /\ links' = links
    BY <1>1, SameLegal DEF SettledStay
  <1>2. ASSUME NEW a \in Acts, NEW op \in oppMenu.ops, NEW by \in oppMenu.by, NEW c \in Clients, NEW n \in 0 .. numbers,
               NEW o \in oppMenu.orders, NEW st \in Stages, Submit(a, op, by, c, n, o, st)
        PROVE  AllLegal /\ SettledStay
    BY <1>1, <1>2 DEF Submit
  <1>3. ASSUME NEW a \in Acts, ActStep(a) PROVE AllLegal /\ SettledStay
    BY <1>0, <1>3, ActLegal, ActSettled
  <1>4. CASE SweepStep
    BY <1>0, <1>4, SweepLegal, SweepSettled
  <1>5. ASSUME NEW n \in Numbers, processSalesOpportunitySLA(n) PROVE AllLegal /\ SettledStay
    <2>1. links' = links /\ \A m \in Numbers : opp'[m].is = opp[m].is /\ opp'[m].seller = opp[m].seller
      BY <1>0, <1>5, BreachEffect DEF RowsBut
    <2> QED BY <2>1 DEF AllLegal, Legal, SettledStay
  <1>6. CASE maybeRun \/ DayPasses \/ UNCHANGED oppVars \/ \E o \in oppMenu.orders, p \in OrderPhases : X2Moves(o, p)
    BY <1>1, <1>6 DEF maybeRun, DayPasses, X2Moves, Stay, oppVars
  <1> QED BY <1>2, <1>3, <1>4, <1>5, <1>6 DEF OppNext, SweepStep

-------------------------------------------------------------------------------
(* Sales: theorems *)

LEMMA SalesInvariant == OppSpec => []SalesInv
  <1>1. OppInit => SalesInv
    BY SalesInit
  <1>2. SalesInv /\ [OppNext]_oppVars => SalesInv'
    BY SalesStep
  <1> QED BY <1>1, <1>2, PTL DEF OppSpec

\* Whatever sellers, the chatbot, the marker of the service level and the daily sweep do at once: a contact has at most
\* one open opportunity, every outcome has exactly one event once its writer is past the insert, a breach mark lies on
\* an open opportunity in direcionada, one order credits one opportunity unless a seller pointed a link elsewhere, a
\* link closes by itself only after the grace of its own order, and a deletion that met nothing leaves nothing.
THEOREM SalesStayConsistent == OppSpec => []SalesConsistent
  <1>1. SalesInv => SalesConsistent
    BY Consistent
  <1> QED BY <1>1, SalesInvariant, PTL

\* An outcome is reached once and from the right status: the updates of ConvertSalesOpportunity, LoseSalesOpportunity
\* and of the sweep name the status they read, so the loser of a race writes nothing.
THEOREM OutcomesMoveOnce == OppSpec => OutcomeMoves
  <1>1. SalesInv /\ [OppNext]_oppVars =>
          [\A n \in Numbers : opp'[n].is # opp[n].is /\ opp[n].is \in Outcomes =>
             <<opp[n].is, opp'[n].is>> \in {<<"aberta", "convertida">>, <<"aberta", "perdida">>, <<"convertida", "cancelada">>}
             \/ opp'[n].is = "gone"]_oppVars
    BY StepLegal DEF AllLegal, Legal
  <1> QED BY <1>1, SalesInvariant, PTL DEF OppSpec, OutcomeMoves

\* assignOpenSalesOpportunityToAgent gives a seller to an opportunity without one; nobody takes it from him.
THEOREM SellerStays == OppSpec => SellerKept
  <1>1. SalesInv /\ [OppNext]_oppVars =>
          [\A n \in Numbers : opp[n].seller # Free /\ opp'[n].is # "gone" => opp'[n].seller = opp[n].seller]_oppVars
    BY StepLegal DEF AllLegal, Legal
  <1> QED BY <1>1, SalesInvariant, PTL DEF OppSpec, SellerKept

\* UpsertSalesOpportunityXProcessLink edits open links only: a resolved one keeps the order that was checked, whatever
\* happens to its row between the look-up and the write.
THEOREM ResolvedLinksStay == OppSpec => ResolvedIsFinal
  <1>1. SalesInv /\ [OppNext]_oppVars =>
          [\A i \in 1 .. Len(links) : links[i].resolved /\ links[i].opp # 0 /\ links'[i].opp # 0 => links'[i].order = links[i].order]_oppVars
    BY StepLegal DEF SettledStay
  <1> QED BY <1>1, SalesInvariant, PTL DEF OppSpec, ResolvedIsFinal
===============================================================================
