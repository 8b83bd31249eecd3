--------------------------------- MODULE Access ---------------------------------
(***************************************************************************)
(* Users, memberships, roles and teams of one organization ("h", beside a  *)
(* second one, "x"), as its administrators edit them, and the permissions  *)
(* of each user as Redis remembers them.  A request is a few database or   *)
(* Redis statements, none of them in one transaction with the next; the    *)
(* reads it makes one after the other are one step.  Save writes a whole   *)
(* row as it was read, and inserts it again when it was deleted meanwhile. *)
(***************************************************************************)
EXTENDS Naturals, Sequences, FiniteSets

CONSTANT AccessMenus    \* what is there at first, which requests come, how many at a time

VARIABLES
    accessMenu,
    account,    \* users
    membership, \* user_organizations
    roles,      \* custom_roles of "h" with their role_permissions
    remembered, \* permissions:user:<id>[:<org>] in Redis
    team,       \* one team of "h" and its members
    calls,      \* requests in progress
    asked,      \* how many requests of the menu have arrived
    beside,        \* pairs of kinds of requests that were in progress together: history
    quiet       \* users whose permissions changed without a word to the cache: history
accessVars == <<accessMenu, account, membership, roles, remembered, team, calls, asked, beside, quiet>>

NoOne == "none"
AccessOrgs == {"h", "x"}
Scopes == AccessOrgs \cup {"base"}
Accounts == {"ana", "bo", "cy"}
RoleIds == {"admin", "agent", "sales", "sales2"}
RoleName(r) == IF r = "sales2" THEN "sales" ELSE r
IsSystem(r) == r \in {"admin", "agent"}
Grants == {"users", "teams", "chat"}     \* "users" stands for users:write, users:delete and organizations:assign
States == {"none", "live", "gone"}

NotCached == [is |-> FALSE, super |-> FALSE, keys |-> {}]
AccessTypeOK ==
    /\ account \in [Accounts -> [is : States, home : AccessOrgs, role : RoleIds \cup {NoOne}, active : BOOLEAN, super : BOOLEAN, word : 0 .. 2]]
    /\ membership \in [Accounts -> [AccessOrgs -> [is : States, role : RoleIds \cup {NoOne}]]]
    /\ roles \in [RoleIds -> [is : States, keys : SUBSET Grants, default : BOOLEAN]]
    /\ remembered \in [Accounts -> [Scopes -> [is : BOOLEAN, super : BOOLEAN, keys : SUBSET Grants]]]
    /\ team \in [is : States, has : [Accounts -> {NoOne, "agent", "manager"}]]
    /\ asked \in 0 .. Len(accessMenu.plan) /\ quiet \subseteq Accounts
    /\ Cardinality(calls) <= accessMenu.width

AccessSetUp ==
    /\ account = accessMenu.people /\ membership = accessMenu.belongs /\ roles = accessMenu.roles
    /\ remembered = [u \in Accounts |-> [k \in Scopes |-> NotCached]]
    /\ team = [is |-> "live", has |-> accessMenu.team]
    /\ calls = {} /\ beside = {} /\ quiet = {}
AccessInit == accessMenu \in AccessMenus /\ AccessSetUp /\ asked = 0
AccessEnded == accessMenu = (CHOOSE m \in AccessMenus : TRUE) /\ AccessSetUp /\ asked = Len(accessMenu.plan)

-------------------------------------------------------------------------------
(* Requests *)

\* by asks for op on who (a user or a role) with argument arg.
Request(op, by, who, arg) == [op |-> op, by |-> by, who |-> who, arg |-> arg]
Guarded == {"look", "create", "delete", "member_add", "member_drop", "member_role"}
TeamOps == {"team_edit", "team_add", "team_manager", "team_drop"}
RoleOps == {"role_new", "role_default_new", "role_keys", "role_default", "role_plain", "role_delete"}
Needs(op) == CASE op = "look" -> "chat" [] op \in TeamOps \cup {"team_delete"} -> "teams" [] OTHER -> "users"
\* UpdateUser asks for users:write unless the user edits itself; a change of role asks in any case.
MustAsk(q) == q.op \in Guarded \cup {"team_delete"} \/ (q.op = "update" /\ (q.by # q.who \/ q.arg \in RoleIds))
FirstStep(q) == IF MustAsk(q) THEN "check" ELSE "read"

Begin ==
    /\ asked < Len(accessMenu.plan) /\ Cardinality(calls) < accessMenu.width
    /\ LET q == accessMenu.plan[asked + 1]
           c == [n |-> asked + 1, op |-> q.op, by |-> q.by, who |-> q.who, arg |-> q.arg, at |-> FirstStep(q), scope |-> "h",
                 row |-> account[IF q.who \in Accounts THEN q.who ELSE q.by], role |-> NoOne, seen |-> NotCached, old |-> roles["sales"], users |-> {}, mates |-> team.has]
       IN /\ calls' = calls \cup {c} /\ beside' = beside \cup {{c.op, d.op} : d \in calls}
    /\ asked' = asked + 1
    /\ UNCHANGED <<accessMenu, account, membership, roles, remembered, team, quiet>>

Becomes(c, d) == calls' = (calls \ {c}) \cup {d}
Ends(c) == calls' = calls \ {c}
Goes(c, step) == Becomes(c, [c EXCEPT !.at = step])

\* The role whose permissions count: that of the membership, or of the user at home.
RoleIn(u, k) ==
    IF k = "base" THEN account[u].role
    ELSE IF membership[u][k].is = "live" /\ membership[u][k].role # NoOne THEN membership[u][k].role
    ELSE IF account[u].home = k THEN account[u].role ELSE NoOne
\* getUserPermissionsCached on a miss: nothing is remembered of a user without role, or whose role is gone.
Known(u, k) ==
    /\ account[u].is = "live"
    /\ IF RoleIn(u, k) = NoOne THEN account[u].super ELSE roles[RoleIn(u, k)].is = "live"
Permissions(u, k) ==
    IF ~Known(u, k) THEN NotCached
    ELSE [is |-> TRUE, super |-> account[u].super, keys |-> IF RoleIn(u, k) = NoOne THEN {} ELSE roles[RoleIn(u, k)].keys]
Permits(p, k) == p.is /\ (p.super \/ k \in p.keys)

\* A manager of the team needs no permission to edit it, except to name or remove managers.
Manages(c) == c.op \in TeamOps /\ c.mates[c.by] = "manager" /\ c.op # "team_manager" /\ ~(c.op = "team_drop" /\ c.mates[c.who] = "manager")
\* Where a request goes once its permission is known.
After(c, p) ==
    IF c.scope = "base" THEN (IF p.is /\ p.super THEN "write" ELSE "refused")
    ELSE IF Permits(p, Needs(c.op)) \/ Manages(c) THEN (IF c.op \in TeamOps THEN "write" ELSE "read") ELSE "refused"
Decide(c, p) == IF After(c, p) = "refused" \/ c.op = "look" THEN Ends(c) ELSE Goes(c, After(c, p))

HasPermission(c) ==
    /\ c.at = "check"
    /\ LET hit == remembered[c.by][c.scope] IN
       \/ hit.is /\ Decide(c, hit)
       \/ ~hit.is /\ ~Known(c.by, c.scope) /\ Decide(c, NotCached)
       \/ ~hit.is /\ Known(c.by, c.scope) /\ Becomes(c, [c EXCEPT !.at = "fill", !.seen = Permissions(c.by, c.scope)])
    /\ UNCHANGED <<accessMenu, account, membership, roles, remembered, team, asked, beside, quiet>>
Remember(c) ==
    /\ c.at = "fill" /\ Decide(c, c.seen)
    /\ remembered' = [remembered EXCEPT ![c.by][c.scope] = c.seen]
    /\ UNCHANGED <<accessMenu, account, membership, roles, team, asked, beside, quiet>>

\* InvalidateUserPermissionsCache.  A request that read before and remembers after undoes it.
Forget(us) ==
    /\ remembered' = [u \in Accounts |-> IF u \in us THEN [k \in Scopes |-> NotCached] ELSE remembered[u]]
    /\ quiet' = (quiet \ us) \cup {u \in us : \E d \in calls : d.at = "fill" /\ d.by = u}
\* Ends of requests that change what a user may do and leave the cache alone.
Quietly(c) ==
    \/ c.op \in {"create", "role_delete", "settings", "password"}
    \/ c.op = "delete" /\ c.row.home = "h"
    \/ c.op = "update" /\ c.role = NoOne
NoteQuiet(c) ==
    quiet' = IF Quietly(c) THEN quiet \cup {u \in Accounts : \E k \in Scopes : Permissions(u, k)' # Permissions(u, k)} ELSE quiet
InvalidateUserPermissionsCache(c) ==
    /\ c.at = "drop" /\ Forget(c.users) /\ Ends(c)
    /\ UNCHANGED <<accessMenu, account, membership, roles, team, asked, beside>>
Holders(r) ==
    {u \in Accounts : (account[u].is = "live" /\ account[u].role = r) \/ (membership[u]["h"].is = "live" /\ membership[u]["h"].role = r)}
InvalidateRolePermissionsCache(c) ==
    /\ c.at = "holders" /\ Becomes(c, [c EXCEPT !.at = "drop", !.users = Holders(c.who)])
    /\ UNCHANGED <<accessMenu, account, membership, roles, remembered, team, asked, beside, quiet>>

-------------------------------------------------------------------------------
(* Users *)

LiveRole(r) == r # NoOne /\ roles[r].is = "live"
Defaults == {r \in RoleIds : roles[r].is = "live" /\ roles[r].default}
\* The role a request names must exist; without one the default role is taken, if any.
Chosen(arg) == IF arg \in RoleIds THEN {arg} \cap {r \in RoleIds : LiveRole(r)}
               ELSE IF Defaults # {} THEN Defaults ELSE {NoOne}
Listed(u) == account[u].is = "live" /\ membership[u]["h"].is = "live"
IsMember(u) == account[u].home # "h"

ReadCreate(c) ==
    \/ account[c.who].is = "live" /\ Ends(c)
    \/ account[c.who].is # "live" /\ Chosen(c.arg) = {} /\ Ends(c)
    \/ /\ account[c.who].is # "live"
       /\ \E r \in Chosen(c.arg) :
             IF c.arg = "super" THEN Becomes(c, [c EXCEPT !.at = "check", !.scope = "base", !.role = r])
             ELSE Becomes(c, [c EXCEPT !.at = "write", !.role = r])
\* A deleted account of this address is revived, membership and all.
CreateUser(c) ==
    LET row == [is |-> "live", home |-> "h", role |-> c.role, active |-> TRUE, super |-> c.arg = "super", word |-> 0]
    IN \/ account[c.who].is = "live" /\ Ends(c) /\ UNCHANGED account
       \/ /\ account[c.who].is # "live" /\ account' = [account EXCEPT ![c.who] = row]
          /\ Goes(c, "member")
CreateMembership(c) ==
    /\ membership' = [membership EXCEPT ![c.who]["h"] = [is |-> "live", role |-> c.role]]
    /\ Ends(c) /\ UNCHANGED account

Edited(c, row) ==
    CASE c.arg \in RoleIds -> [row EXCEPT !.role = c.arg]
      [] c.arg = "off" -> [row EXCEPT !.active = FALSE]
      [] c.arg = "on" -> [row EXCEPT !.active = TRUE]
      [] c.arg \in {"super", "unsuper"} -> [row EXCEPT !.super = c.arg = "super"]
      [] OTHER -> [row EXCEPT !.word = @ + 1]
SelfHarm(c) ==
    /\ c.by = c.who
    /\ \/ c.arg \in RoleIds /\ account[c.who].role = "admin" /\ c.arg # "admin"
       \/ c.arg = "off"
       \/ c.arg = "unsuper" /\ account[c.who].super
ReadUpdate(c) ==
    LET u == c.who
        refused == ~Listed(u) \/ (c.arg \in RoleIds /\ ~LiveRole(c.arg)) \/ (IsMember(u) /\ c.arg \notin RoleIds) \/ (~IsMember(u) /\ SelfHarm(c))
        row == Edited(c, account[u])
    IN \/ refused /\ Ends(c)
       \/ ~refused /\ IsMember(u) /\ Becomes(c, [c EXCEPT !.at = "member", !.role = c.arg])
       \/ /\ ~refused /\ ~IsMember(u)
          /\ IF c.arg \in {"super", "unsuper"}
             THEN Becomes(c, [c EXCEPT !.at = "check", !.scope = "base", !.row = row])
             ELSE Becomes(c, [c EXCEPT !.at = "write", !.row = row, !.role = IF row.role # account[u].role THEN row.role ELSE NoOne])
\* What Save makes of a row: as it was read, live, whatever happened to it since.
Saved(c) == account' = [account EXCEPT ![c.who] = c.row]
SaveUser(c) ==
    /\ Saved(c)
    /\ IF c.role # NoOne THEN Goes(c, "member") ELSE Ends(c)
\* The membership follows the user's role, and the cache is told.
MoveMembership(c) ==
    /\ membership' = [membership EXCEPT ![c.who]["h"].role = IF membership[c.who]["h"].is = "live" THEN c.role ELSE @]
    /\ Becomes(c, [c EXCEPT !.at = "drop", !.users = {c.who}]) /\ UNCHANGED account

Admins == {u \in Accounts : membership[u]["h"].is = "live" /\ membership[u]["h"].role = "admin"}
LastAdmin_OffByOne(u) == membership[u]["h"].role = "admin" /\ Cardinality(Admins) <= 0
LastAdmin(u) == membership[u]["h"].role = "admin" /\ Cardinality(Admins) <= 1
ReadDelete(c) ==
    LET refused == c.by = c.who \/ ~Listed(c.who) \/ (~IsMember(c.who) /\ LastAdmin(c.who))
    IN IF refused THEN Ends(c) ELSE Becomes(c, [c EXCEPT !.at = "write", !.row = account[c.who]])
DeleteUser(c) ==
    \/ /\ c.row.home # "h" /\ membership' = [membership EXCEPT ![c.who]["h"].is = IF @ = "live" THEN "gone" ELSE @]
       /\ Becomes(c, [c EXCEPT !.at = "drop", !.users = {c.who}]) /\ UNCHANGED account
    \/ c.row.home = "h" /\ account[c.who].is # "live" /\ Ends(c) /\ UNCHANGED <<account, membership>>
    \/ /\ c.row.home = "h" /\ account[c.who].is = "live"
       /\ account' = [account EXCEPT ![c.who].is = "gone"] /\ Goes(c, "member") /\ UNCHANGED membership
DeleteMemberships(c) ==
    /\ membership' = [membership EXCEPT ![c.who] = [o \in AccessOrgs |-> [@[o] EXCEPT !.is = IF @ = "live" THEN "gone" ELSE @]]]
    /\ Ends(c) /\ UNCHANGED account

\* UpdateCurrentUserSettings and ChangePassword.
ReadSelf(c) == IF account[c.by].is # "live" THEN Ends(c)
               ELSE Becomes(c, [c EXCEPT !.at = "write", !.row = [account[c.by] EXCEPT !.word = @ + 1]])

(* Members *)
ReadMemberAdd(c) ==
    LET refused == account[c.who].is # "live" \/ membership[c.who]["h"].is = "live" \/ Chosen(c.arg) \in {{}, {NoOne}}
    IN \/ refused /\ Ends(c)
       \/ ~refused /\ \E r \in Chosen(c.arg) : Becomes(c, [c EXCEPT !.at = "write", !.role = r,
                                                                    !.arg = IF membership[c.who]["h"].is = "gone" THEN "revive" ELSE "insert"])
AddOrganizationMember(c) ==
    /\ UNCHANGED account
    /\ IF c.arg = "insert" /\ membership[c.who]["h"].is # "none" THEN Ends(c) /\ UNCHANGED membership
       ELSE /\ membership' = [membership EXCEPT ![c.who]["h"] = [is |-> "live", role |-> c.role]]
            /\ Becomes(c, [c EXCEPT !.at = "drop", !.users = {c.who}])
RemoveOrganizationMember(c) ==
    /\ UNCHANGED account
    /\ IF c.by = c.who \/ membership[c.who]["h"].is # "live" THEN Ends(c) /\ UNCHANGED membership
       ELSE /\ membership' = [membership EXCEPT ![c.who]["h"].is = "gone"]
            /\ Becomes(c, [c EXCEPT !.at = "drop", !.users = {c.who}])
ReadMemberRole(c) == IF LiveRole(c.arg) THEN Goes(c, "write") ELSE Ends(c)
UpdateOrganizationMemberRole(c) ==
    /\ UNCHANGED account
    /\ IF membership[c.who]["h"].is # "live" THEN Ends(c) /\ UNCHANGED membership
       ELSE /\ membership' = [membership EXCEPT ![c.who]["h"].role = c.arg]
            /\ Becomes(c, [c EXCEPT !.at = "drop", !.users = {c.who}])

ReadUser(c) ==
    /\ c.at = "read"
    /\ CASE c.op = "create" -> ReadCreate(c) [] c.op = "update" -> ReadUpdate(c) [] c.op = "delete" -> ReadDelete(c)
         [] c.op \in {"settings", "password"} -> ReadSelf(c) [] c.op = "member_add" -> ReadMemberAdd(c)
         [] c.op = "member_role" -> ReadMemberRole(c) [] c.op = "member_drop" -> Goes(c, "write") [] OTHER -> FALSE
    /\ UNCHANGED <<accessMenu, account, membership, roles, remembered, team, asked, beside, quiet>>
WriteUser(c) ==
    /\ \/ c.at = "write" /\ c.op = "create" /\ CreateUser(c) /\ UNCHANGED membership
       \/ c.at = "member" /\ c.op = "create" /\ CreateMembership(c)
       \/ c.at = "write" /\ c.op \in {"update", "settings", "password"} /\ SaveUser(c) /\ UNCHANGED membership
       \/ c.at = "member" /\ c.op = "update" /\ MoveMembership(c)
       \/ c.at = "write" /\ c.op = "delete" /\ DeleteUser(c)
       \/ c.at = "member" /\ c.op = "delete" /\ DeleteMemberships(c)
       \/ c.at = "write" /\ c.op = "member_add" /\ AddOrganizationMember(c)
       \/ c.at = "write" /\ c.op = "member_drop" /\ RemoveOrganizationMember(c)
       \/ c.at = "write" /\ c.op = "member_role" /\ UpdateOrganizationMemberRole(c)
    /\ UNCHANGED <<accessMenu, roles, remembered, team, asked, beside>> /\ NoteQuiet(c)

-------------------------------------------------------------------------------
(* Roles *)

NameTaken == \E r \in RoleIds : roles[r].is = "live" /\ RoleName(r) = "sales"
Assigned(r) == {u \in Accounts : account[u].is = "live" /\ account[u].role = r}
\* A new row gets an identifier of its own: "sales2" when "sales" was already used.
FreshRole == IF roles["sales"].is = "none" THEN "sales" ELSE "sales2"
OnlyDefault(rs, r) == [x \in RoleIds |-> IF x = r THEN rs[x] ELSE [rs[x] EXCEPT !.default = IF rs[x].is = "live" THEN FALSE ELSE @]]
ReadRole(c) ==
    /\ c.at = "read"
    /\ CASE c.op \in {"role_new", "role_default_new"} ->
                IF NameTaken \/ roles[FreshRole].is # "none" THEN Ends(c) ELSE Goes(c, "write")
         [] c.op = "role_delete" ->
                IF roles[c.who].is # "live" \/ IsSystem(c.who) \/ Assigned(c.who) # {}
                THEN Ends(c) ELSE Goes(c, "write")
         [] c.op \in {"role_keys", "role_default", "role_plain"} ->
                IF roles[c.who].is # "live" THEN Ends(c)
                ELSE Becomes(c, [c EXCEPT !.old = roles[c.who],
                                          !.at = IF c.op = "role_keys" /\ (~IsSystem(c.who) \/ c.row.super) THEN "replace" ELSE "write"])
         [] OTHER -> FALSE
    /\ UNCHANGED <<accessMenu, account, membership, roles, remembered, team, asked, beside, quiet>>
CreateRole(c) ==
    LET r == FreshRole
        new == [roles EXCEPT ![r] = [is |-> "live", keys |-> {"chat"}, default |-> c.op = "role_default_new"]]
    IN IF roles[r].is # "none" THEN Ends(c) /\ UNCHANGED roles
       ELSE roles' = (IF c.op = "role_default_new" THEN OnlyDefault(new, r) ELSE new) /\ Ends(c)
KeysOf(arg) == CASE arg = "more" -> {"chat", "teams"} [] arg = "less" -> {"chat"} [] OTHER -> {"users"}
\* Association("Permissions").Replace.
ReplacePermissions(c) ==
    /\ roles' = [roles EXCEPT ![c.who].keys = KeysOf(c.arg)]
    /\ Becomes(c, [c EXCEPT !.at = "write", !.old.keys = KeysOf(c.arg)])
\* Save of the role: name, default and deletion mark as they were read, and the permissions it was
\* read with are linked again.  The default of a role that is made the default is taken from the others.
SaveRole(c) ==
    LET default == CASE IsSystem(c.who) -> c.old.default [] c.op = "role_default" -> TRUE [] OTHER -> FALSE
        row == [is |-> "live", keys |-> roles[c.who].keys \cup c.old.keys, default |-> default]
        new == [roles EXCEPT ![c.who] = row]
    IN /\ roles' = IF c.op = "role_default" /\ ~IsSystem(c.who) /\ ~c.old.default THEN OnlyDefault(new, c.who) ELSE new
       /\ Goes(c, "holders")
DeleteRole(c) ==
    /\ roles' = [roles EXCEPT ![c.who].is = IF @ = "live" THEN "gone" ELSE @]
    /\ Ends(c)
WriteRole(c) ==
    /\ \/ c.at = "write" /\ c.op \in {"role_new", "role_default_new"} /\ CreateRole(c)
       \/ c.at = "replace" /\ ReplacePermissions(c)
       \/ c.at = "write" /\ c.op \in {"role_keys", "role_default", "role_plain"} /\ SaveRole(c)
       \/ c.at = "write" /\ c.op = "role_delete" /\ DeleteRole(c)
    /\ UNCHANGED <<accessMenu, account, membership, remembered, team, asked, beside>> /\ NoteQuiet(c)

-------------------------------------------------------------------------------
(* Teams *)

\* The team is read first, its members with it; only then is the permission asked for.
ReadTeam(c) ==
    /\ c.at = "read" /\ c.op \in TeamOps \cup {"team_delete"}
    /\ IF c.op = "team_delete" THEN Goes(c, "members") ELSE IF team.is # "live" THEN Ends(c) ELSE Becomes(c, [c EXCEPT !.at = "check", !.mates = team.has])
    /\ UNCHANGED <<accessMenu, account, membership, roles, remembered, team, asked, beside, quiet>>
UpdateTeam(c) == team' = [team EXCEPT !.is = "live"] /\ Ends(c)
AddTeamMember(c) ==
    IF account[c.who].is # "live" \/ account[c.who].home # "h" \/ team.has[c.who] # NoOne THEN Ends(c) /\ UNCHANGED team
    ELSE team' = [team EXCEPT !.has[c.who] = IF c.op = "team_manager" THEN "manager" ELSE "agent"] /\ Ends(c)
RemoveTeamMember(c) ==
    IF team.has[c.who] = NoOne THEN Ends(c) /\ UNCHANGED team
    ELSE team' = [team EXCEPT !.has[c.who] = NoOne] /\ Ends(c)
\* The members are deleted first, then the team.
DeleteTeamMembers(c) == team' = [team EXCEPT !.has = [u \in Accounts |-> NoOne]] /\ Goes(c, "write")
DeleteTeam(c) ==
    IF team.is # "live" THEN Ends(c) /\ UNCHANGED team ELSE team' = [team EXCEPT !.is = "gone"] /\ Ends(c)
WriteTeam(c) ==
    /\ \/ c.at = "write" /\ c.op = "team_edit" /\ UpdateTeam(c)
       \/ c.at = "write" /\ c.op \in {"team_add", "team_manager"} /\ AddTeamMember(c)
       \/ c.at = "write" /\ c.op = "team_drop" /\ RemoveTeamMember(c)
       \/ c.at = "members" /\ DeleteTeamMembers(c)
       \/ c.at = "write" /\ c.op = "team_delete" /\ DeleteTeam(c)
    /\ UNCHANGED <<accessMenu, account, membership, roles, remembered, asked, beside, quiet>>

AccessNext ==
    \/ Begin
    \/ \E c \in calls : \/ HasPermission(c) \/ Remember(c) \/ InvalidateUserPermissionsCache(c) \/ InvalidateRolePermissionsCache(c)
                        \/ ReadUser(c) \/ WriteUser(c) \/ ReadRole(c) \/ WriteRole(c) \/ ReadTeam(c) \/ WriteTeam(c)

-------------------------------------------------------------------------------
(* Properties *)

Begun == {accessMenu.plan[i].op : i \in 1 .. asked}
Overlapped(a, b) == \E x \in a, y \in b : {x, y} \in beside
Saves == {"update", "settings", "password"}
RoleEdits == {"role_keys", "role_default", "role_plain", "role_default_new"}
WillForget(u) ==
    \E c \in calls : \/ c.at = "drop" /\ u \in c.users
                     \/ c.op = "update" /\ c.at = "member" /\ c.who = u
                     \/ c.op \in RoleEdits /\ c.at \in {"write", "holders"} /\ u \in Holders(c.who)

\* What Redis remembers of a user's permissions, under any key, is what the database says, or a
\* request that changed it is about to say so; except where the code says nothing (a user deleted,
\* revived or saved without a new role, a role deleted) or a reader that had already read the old
\* permissions remembered them afterwards.
PermissionsFresh ==
    \A u \in Accounts, k \in Scopes : remembered[u][k].is => remembered[u][k] = Permissions(u, k) \/ u \in quiet \/ WillForget(u)

\* Deleting users one at a time never takes the last administrator of the organization; only
\* demotions, removals of members and two deletions at once do.
AdminRemains ==
    {"member_drop", "member_role", "update"} \cap Begun = {} /\ ~Overlapped({"delete"}, {"delete"} \cup Saves) =>
        \E u \in Admins : account[u].is = "live"

\* A deleted user belongs to no organization, the ones besides its home included, so that reviving
\* the account does not bring old memberships back.
GhostFree ==
    \A u \in Accounts : account[u].is = "gone" =>
        \/ \A o \in AccessOrgs : membership[u][o].is # "live"
        \/ \E c \in calls : c.op = "delete" /\ c.who = u /\ c.at = "member"
        \/ Overlapped({"delete"}, {"member_add", "create", "delete"})

\* An organization has at most one default role as long as no two edits of roles overlap.
OneDefaultRole == Cardinality(Defaults) <= 1 \/ Overlapped(RoleEdits, RoleEdits)

\* Two roles of one name exist only after two creations overlapped, or an edit overlapped the
\* deletion of the first and saved it back.
NamesDistinct ==
    Cardinality({r \in RoleIds : roles[r].is = "live" /\ RoleName(r) = "sales"}) <= 1
        \/ Overlapped(RoleOps, RoleOps)

\* No user has a deleted role of its own, unless the deletion overlapped the request that gave it,
\* or one that saved the user as it was.
DeletedRoleUnused ==
    \A u \in Accounts : account[u].is = "live" /\ account[u].role # NoOne =>
        roles[account[u].role].is = "live" \/ Overlapped({"role_delete", "delete"}, Saves \cup {"create"})

\* Outside of overlapping requests the membership of a user at home has the role of the user:
\* UpdateUser changes both, only the member endpoints change the one alone.
RolesAgree ==
    {"member_role", "member_add", "member_drop"} \cap Begun = {} =>
        \A u \in Accounts : Listed(u) /\ ~IsMember(u) /\ (\A c \in calls : c.who # u /\ c.by # u) =>
            membership[u]["h"].role = account[u].role \/ Overlapped(Saves \cup {"create", "delete"}, Saves \cup {"create", "delete"})

\* A deleted team has no members, unless somebody was added while it was deleted.
TeamSound ==
    team.is = "gone" => (\A u \in Accounts : team.has[u] = NoOne) \/ Overlapped({"team_delete"}, {"team_add", "team_manager"})

\* A deleted account comes back by CreateUser, or by a request that read it before the deletion and
\* saves the whole row after it.
DeletedStays ==
    [][\A u \in Accounts : account[u].is = "gone" /\ account'[u].is = "live" =>
          (\E c \in calls : c.op = "create" /\ c.who = u /\ c.at = "write") \/ Overlapped({"delete"}, Saves)]_accessVars
=================================================================================
