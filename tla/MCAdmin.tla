------------------------------- MODULE MCAdmin -------------------------------
(* The administration of an organization, one part of it at a time: its case     *)
(* catalog, its sales opportunities, the start of the server, its users and      *)
(* roles, and how an account signs in.  A menu bounds what the concurrent        *)
(* requests of one behaviour ask for.                                            *)
EXTENDS CaseCatalog, Opportunities, Boot, Access, SignIn

VARIABLE focus
adminVars == <<focus, catalogVars, oppVars, bootVars, accessVars, signVars>>

CatalogMenu(ops, n, has) == [ops |-> ops, tasks |-> n, has |-> has]
MCCatalogMenus == {CatalogMenu({"cat_new", "cat_edit", "cat_drop", "file"}, 3, {"k1", "k2"}),
                   CatalogMenu({"reason_new", "reason_edit", "reason_drop", "cat_drop", "file"}, 3, {"k1", "r1"}),
                   CatalogMenu({"process_new", "process_edit", "process_drop", "message", "file"}, 3, {"r1", "p1"}),
                   CatalogMenu({"seed", "process_new", "process_drop"}, 3, {"k1"}),
                   CatalogMenu({"place_new", "place_drop", "settle"}, 3, {"w1"})}
MCScope == [s \in Sellers |-> IF s = "ann" THEN "all" ELSE "own"]
MCBuyer == [o \in Orders |-> "kim"]
MCDated == Numbers \X Orders
MCCompatible == Sellers \X Orders
Sold(n) == [client |-> "kim", is |-> "convertida", seller |-> n]
Fresh(c, n) == [client |-> c, is |-> "aberta", seller |-> n]
MenuOf(ops, by, orders, acts, has, days) ==
    [ops |-> ops, by |-> by, orders |-> orders, acts |-> acts, has |-> has, docs |-> {"kim"}, days |-> days,
     sweeps |-> "stage" \notin ops /\ days > 0]
MCOppMenus ==
    {MenuOf({"button", "create", "lose"}, {"ann"}, {"x1"}, 3, <<>>, 0),
     MenuOf({"assign", "route", "delete"}, {"ann", "bob"}, {"x1"}, 3, <<Fresh("kim", Free)>>, 0),
     MenuOf({"stage", "route"}, {"bob"}, {"x1"}, 3, <<Fresh("kim", "bob")>>, 1),
     MenuOf({"convert", "lose", "realize", "link"}, {"ann"}, {"x1"}, 2, <<Fresh("kim", "ann")>>, 1),
     MenuOf({"link", "delete"}, {"ann"}, {"x1"}, 2, <<Fresh("kim", "ann")>>, 1),
     MenuOf({"link"}, {"ann"}, {"x1"}, 2, <<Fresh("kim", "ann"), Sold("ann")>>, 1),
     MenuOf({"link"}, {"ann"}, {"x1", "x2"}, 2, <<Fresh("kim", "ann")>>, 1),
     MenuOf({"link"}, {"ann"}, {"x1"}, 1, <<Sold("ann")>>, 3)}

Install(keys, old, newer, held, touch) == [keys |-> keys, orgs |-> old, newer |-> newer, roles |-> held, touch |-> touch]
Base == Elements(BaseKeys)
OldRoles == [admin |-> Base, manager |-> Base \ {"accounts"}, agent |-> {"chat_read", "chat_write"}, custom |-> {"chat_write", "settings"}]
HalfWay == [OldRoles EXCEPT !["admin"] = @ \cup {"occ_read", "occ_write", "stages"}]
MCInstalls ==
    {Install({}, {}, {}, <<>>, {"name"}),
     Install({}, {"o1", "o2"}, {}, [custom |-> {"chat_write"}], {"usage_read"}),
     Install(Base, {"o1"}, {}, OldRoles, {"knowledge", "occ_write", "happened"}),
     Install(Base, {"o1"}, {}, [OldRoles EXCEPT !["admin"] = {}], {"sales"}),
     Install(Base \cup {"occ_read", "occ_write", "stages"}, {"o1"}, {"o2"}, HalfWay, {"catalog"})}

Person(home, r) == [is |-> "live", home |-> home, role |-> r, active |-> TRUE, super |-> FALSE, word |-> 0]
In(r) == [is |-> "live", role |-> r]
Out == [is |-> "none", role |-> NoOne]
RoleRow(is, keys, default) == [is |-> is, keys |-> keys, default |-> default]
MCPeople == [ana |-> [Person("h", "admin") EXCEPT !.super = TRUE], bo |-> Person("h", "agent"), cy |-> Person("x", "agent")]
MCBelongs == [ana |-> [h |-> In("admin"), x |-> Out], bo |-> [h |-> In("agent"), x |-> In("agent")], cy |-> [h |-> In("agent"), x |-> In("agent")]]
MCRoles == [admin |-> RoleRow("live", Grants, FALSE), agent |-> RoleRow("live", {"chat"}, TRUE),
            sales |-> RoleRow("live", {"chat", "teams"}, FALSE), sales2 |-> RoleRow("none", {}, FALSE)]
AccessMenu(plan, width) == [plan |-> plan, width |-> width, people |-> MCPeople, belongs |-> MCBelongs, roles |-> MCRoles,
    team |-> [ana |-> NoOne, bo |-> "manager", cy |-> NoOne]]
Two == [MCPeople EXCEPT !.bo = Person("h", "admin")]
TwoIn == [MCBelongs EXCEPT !.bo.h = In("admin")]
Q(op, by, who, arg) == Request(op, by, who, arg)
Look(u) == Q("look", u, u, "")
MCAccessMenus ==
   {AccessMenu(<<Look("bo"), Q("update", "ana", "bo", "sales"), Look("bo"), Q("role_keys", "ana", "sales", "less"), Look("bo")>>, 3),
    AccessMenu(<<Look("cy"), Q("member_drop", "ana", "cy", ""), Look("cy"), Q("member_add", "ana", "cy", "sales"), Look("cy")>>, 3),
    AccessMenu(<<Look("cy"), Q("update", "ana", "cy", "sales"), Q("role_keys", "ana", "sales", "less"), Look("cy"), Q("delete", "ana", "cy", "")>>, 3),
    AccessMenu(<<Look("bo"), Q("delete", "ana", "bo", ""), Q("create", "ana", "bo", "default"), Look("bo"), Q("member_role", "ana", "bo", "sales")>>, 3),
    AccessMenu(<<Q("settings", "bo", "bo", ""), Q("delete", "ana", "bo", ""), Q("password", "bo", "bo", ""), Q("create", "ana", "bo", "super")>>, 3),
    AccessMenu(<<Q("delete", "ana", "bo", ""), Q("member_add", "ana", "bo", "default"), Q("settings", "bo", "bo", ""), Q("create", "ana", "bo", "agent")>>, 3),
    [AccessMenu(<<Q("delete", "ana", "bo", ""), Q("delete", "bo", "ana", ""), Q("update", "bo", "bo", "agent")>>, 3) EXCEPT !.people = Two, !.belongs = TwoIn],
    [AccessMenu(<<Q("delete", "cy", "bo", ""), Q("delete", "cy", "ana", ""), Q("settings", "ana", "ana", "")>>, 3)
        EXCEPT !.people = [Two EXCEPT !.cy.super = TRUE], !.belongs = TwoIn],
    AccessMenu(<<Q("update", "ana", "bo", "off"), Q("settings", "bo", "bo", ""), Q("update", "ana", "bo", "super"), Look("bo"), Q("update", "bo", "bo", "unsuper")>>, 3),
    AccessMenu(<<Q("role_default", "ana", "sales", ""), Q("role_plain", "ana", "sales", ""), Q("role_default_new", "ana", "", ""), Q("role_keys", "ana", "agent", "more")>>, 3),
    [AccessMenu(<<Q("role_default_new", "ana", "", ""), Q("role_new", "ana", "", ""), Q("role_default", "ana", "sales", ""), Q("create", "ana", "bo", "default")>>, 3)
        EXCEPT !.roles = [MCRoles EXCEPT !.sales = RoleRow("none", {}, FALSE)]],
    AccessMenu(<<Q("role_delete", "ana", "sales", ""), Q("role_keys", "ana", "sales", "more"), Q("role_new", "ana", "", "")>>, 3),
    AccessMenu(<<Q("role_delete", "ana", "sales", ""), Q("update", "ana", "bo", "sales"), Look("bo"), Q("update", "ana", "bo", "agent")>>, 3),
    AccessMenu(<<Q("update", "ana", "bo", "sales"), Q("role_delete", "ana", "sales", ""), Q("update", "ana", "bo", "on"), Q("role_delete", "ana", "agent", "")>>, 1),
    AccessMenu(<<Q("update", "ana", "bo", "sales"), Q("update", "bo", "bo", "name"), Q("member_role", "ana", "bo", "agent")>>, 3),
    AccessMenu(<<Q("team_add", "bo", "ana", ""), Q("team_delete", "ana", "", ""), Q("team_edit", "bo", "", ""), Q("team_drop", "ana", "bo", "")>>, 3),
    AccessMenu(<<Q("team_manager", "bo", "cy", ""), Q("team_manager", "ana", "ana", ""), Q("team_drop", "bo", "ana", ""), Q("team_delete", "ana", "", "")>>, 3)}

Visit(op, arg, i) == [op |-> op, arg |-> arg, i |-> i]
Anna == [is |-> "live", active |-> TRUE, super |-> FALSE, linked |-> FALSE]
SignMenu(plan, width) == [plan |-> plan, width |-> width, holder |-> Anna, seat |-> [h |-> "live", x |-> "live"],
    key |-> [is |-> "none", active |-> TRUE, expired |-> FALSE], sso |-> "on", auto |-> TRUE, expires |-> FALSE]
Act(op) == Visit(op, "", 1)
MCSignInMenus ==
   {SignMenu(<<Act("logout"), Act("refresh"), Act("refresh"), Act("disable"), Visit("refresh", "", 2)>>, 3),
    SignMenu(<<Act("login"), Act("disable"), Visit("refresh", "", 2), Act("enable"), Act("login")>>, 3),
    SignMenu(<<Visit("remove", "x", 1), Act("refresh"), Visit("switch", "x", 1), Visit("use", "x", 1), Visit("register", "x", 1)>>, 3),
    SignMenu(<<Act("login"), Visit("remove", "x", 1), Visit("use", "x", 2), Visit("use", "h", 1), Visit("refresh", "", 2)>>, 2),
    [SignMenu(<<Visit("use", "x", 1), Act("delete"), Visit("use", "h", 1)>>, 2) EXCEPT !.holder.super = TRUE],
    SignMenu(<<Act("disable"), Visit("switch", "x", 1), Act("delete"), Visit("switch", "h", 1), Act("revive")>>, 3),
    [SignMenu(<<Visit("register", "x", 1), Visit("register", "x", 1), Visit("use", "x", 2), Visit("remove", "x", 1), Visit("use", "h", 1)>>, 3) EXCEPT !.seat.x = "none"],
    [SignMenu(<<Visit("register", "h", 1), Visit("register", "h", 1), Act("delete"), Visit("register", "h", 1), Visit("register", "x", 1)>>, 3)
        EXCEPT !.holder.is = "none", !.seat = [h |-> "none", x |-> "none"]],
    SignMenu(<<Act("sso_init"), Act("sso_back"), Act("sso_back"), Act("delete"), Act("revive")>>, 3),
    [SignMenu(<<Act("sso_init"), Act("sso_init"), Act("sso_back"), Visit("sso_back", "", 2), Act("delete")>>, 3) EXCEPT !.holder.is = "none", !.seat = [h |-> "none", x |-> "none"]],
    SignMenu(<<Act("sso_init"), Visit("sso_set", "off", 0), Act("disable"), Act("sso_back"), Act("enable")>>, 3),
    [SignMenu(<<Act("sso_init"), Act("delete"), Act("sso_back"), Act("sso_delete"), Act("sso_back")>>, 2) EXCEPT !.holder.linked = TRUE],
    SignMenu(<<Act("key_new"), Act("key_use"), Visit("key_set", "off", 1), Act("key_use"), Visit("key_set", "on", 1), Act("key_delete"), Act("key_use")>>, 2),
    [SignMenu(<<Act("key_use"), Act("delete"), Act("key_use"), Act("revive"), Visit("key_set", "on", 1)>>, 2) EXCEPT !.key.is = "live", !.expires = TRUE],
    [SignMenu(<<Visit("use", "x", 1), Visit("remove", "x", 1), Act("refresh"), Visit("use", "h", 1), Visit("switch", "x", 1)>>, 3) EXCEPT !.holder.super = TRUE]}

AdminInit ==
    /\ focus \in {"catalog", "sales", "boot", "access", "sign"}
    /\ IF focus = "catalog" THEN CatalogInit ELSE CatalogEnded
    /\ IF focus = "sales" THEN OppInit ELSE OppEnded
    /\ IF focus = "boot" THEN BootInit ELSE BootEnded
    /\ IF focus = "access" THEN AccessInit ELSE AccessEnded
    /\ IF focus = "sign" THEN SignInit ELSE SignEnded
AdminNext ==
    \/ focus = "catalog" /\ CatalogNext /\ UNCHANGED <<focus, oppVars, bootVars, accessVars, signVars>>
    \/ focus = "sales" /\ OppNext /\ UNCHANGED <<focus, catalogVars, bootVars, accessVars, signVars>>
    \/ focus = "boot" /\ BootNext /\ UNCHANGED <<focus, catalogVars, oppVars, accessVars, signVars>>
    \/ focus = "access" /\ AccessNext /\ UNCHANGED <<focus, catalogVars, oppVars, bootVars, signVars>>
    \/ focus = "sign" /\ SignNext /\ UNCHANGED <<focus, catalogVars, oppVars, bootVars, accessVars>>
AdminSpec == AdminInit /\ [][AdminNext]_adminVars
\* The starts of the server alone, for a claim about them that does not hold.
RegrantSpec == focus = "boot" /\ AdminInit /\ [][AdminNext]_adminVars

\* Rows and requests keep their types: no organization has more widgets than the default ones.
AdminTypeOK ==
    /\ focus = "catalog" => CatalogTypeOK
    /\ focus = "sales" => OppTypeOK
    /\ focus = "boot" => BootTypeOK
    /\ focus = "access" => AccessTypeOK
    /\ focus = "sign" => SignTypeOK

\* The catalog of cases keeps one process for a reason, two levels of categories, and
\* nothing a filed case still refers to disappears.
CatalogConsistent ==
    OneProcessPerReason /\ SeededOnce /\ TwoLevels /\ ClassificationLives /\ PlaceLives /\ MessagesHaveProcess

\* Whatever crashed before, a start that completes leaves complete roles, memberships and
\* widgets, and does not lose the roles of an older installation.
BootConsistent ==
    AdminTypeOK /\ OldRolesCatchUp /\ RolesComplete /\ EveryoneBelongs /\ FailsOverRemoved /\ WidgetsOnce
        /\ LegacyRoleKept

\* Overlapping requests of administrators leave fresh permissions, an administrator,
\* distinct roles that exist, and memberships and teams that agree.
AccessConsistent ==
    PermissionsFresh /\ AdminRemains /\ GhostFree /\ OneDefaultRole /\ NamesDistinct /\ DeletedRoleUnused
        /\ RolesAgree /\ TeamSound

\* A code, a state and a refresh token work once, nobody disabled or removed is served,
\* and tokens and keys end.
SignInConsistent ==
    ExchangedOnce /\ LogoutEnds /\ DisabledGetsNothing /\ TokensForMembers /\ ServedWhereItBelongs
        /\ StateOnce /\ KeysEnd

\* Outcomes, sellers, permissions and deletions only change the way the handlers say.
ChangesAreOrderly ==
    OutcomeMoves /\ SellerKept /\ ResolvedIsFinal /\ OnlyAdds /\ RevocationsStay /\ DeletedStays
        /\ DeletedStaysOut
===============================================================================
