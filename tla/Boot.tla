---------------------------------- MODULE Boot ----------------------------------
(***************************************************************************)
(* The start of the server with -migrate, against databases of every age: *)
(* permissions, system roles, the default administrator, memberships and   *)
(* widgets are seeded, then twelve backfills hand the permissions of newer *)
(* releases to the roles of older ones.  Every statement is atomic, no two *)
(* are one transaction, and the process may die between any two of them    *)
(* and start again.  Between two starts the administrators edit roles and  *)
(* members.                                                                *)
(***************************************************************************)
EXTENDS Naturals, Sequences, FiniteSets

CONSTANTS
    Orgs,           \* organizations; each may exist at first or be created later
    MaxCrashes,     \* deaths of the process during a start: a bound
    MaxEdits,       \* changes the administrators make between starts: a bound
    Installs        \* the databases a behaviour may begin with

ASSUME BootAssumption == MaxCrashes \in Nat /\ MaxEdits \in Nat /\ Orgs # {}

VARIABLES
    install,    \* the database this behaviour began with
    permission, \* permissions rows
    org,        \* organizations rows
    role,       \* custom_roles of each organization with their role_permissions
    person,     \* users
    belongs,    \* user_organizations
    widget,     \* default widgets of each organization
    startAt,         \* the next statement of the start, "up" or "failed"
    loop,       \* the organizations a seeding loop still has to visit, and where it is
    crashes, edits,
    revoked,    \* what an administrator took from a role: history
    torn        \* organizations whose roles or widgets a death left half seeded: history

bootVars == <<install, permission, org, role, person, belongs, widget, startAt, loop, crashes, edits, revoked, torn>>

None == "none"
SystemRoles == <<"admin", "manager", "agent">>
Names == {"admin", "manager", "agent", "custom"}
People == {"boss", "old"}   \* the default administrator, and a user of the days before role_id

\* Permission keys, the ones a rule moves together being one.
BaseKeys == <<"chat_read", "chat_write", "settings", "accounts", "contacts", "view_all">>
NewKeys == <<"occ_read", "occ_write", "stages", "catalog", "happened", "processes", "name", "sales", "sales_all",
             "xprocess", "knowledge", "ai_tools", "usage_read", "usage_write", "chat_use", "chat_admin", "join_any">>
Elements(s) == {s[i] : i \in DOMAIN s}
DefaultPermissions == BaseKeys \o NewKeys
Keys == Elements(DefaultPermissions)
SystemRolePermissions(n) ==
    CASE n = "admin" -> Keys
      [] n = "manager" -> Keys \ {"name", "processes", "xprocess", "knowledge", "ai_tools", "usage_write", "join_any"}
      [] OTHER -> {"chat_read", "chat_write", "occ_read", "occ_write", "name", "sales", "chat_use"}

NoRole == [is |-> "none", keys |-> {}]
NoPerson == [is |-> "none", home |-> None, role |-> None, legacy |-> None, super |-> FALSE]
BootTypeOK ==
    /\ permission \subseteq Keys
    /\ org \in [Orgs -> BOOLEAN]
    /\ role \in [Orgs -> [Names -> [is : {"none", "live", "gone"}, keys : SUBSET Keys]]]
    /\ person \in [People -> [is : {"none", "live", "gone"}, home : Orgs \cup {None}, role : Names \cup {None},
                              legacy : Names \cup {None}, super : BOOLEAN]]
    /\ belongs \in [People -> [Orgs -> [is : {"none", "live", "gone"}, role : Names \cup {None}]]]
    /\ widget \in [Orgs -> 0 .. 2]
    /\ startAt \in {"permissions", "roles", "fix", "legacy", "super", "members", "admin", "admin_roles", "admin_member", "widgets", "backfill", "up", "failed"}
    /\ loop \in [todo : SUBSET Orgs, org : Orgs \cup {None}, i : 1 .. 12]
    /\ crashes \in 0 .. MaxCrashes /\ edits \in 0 .. MaxEdits
    /\ revoked \subseteq Orgs \X Names \X Keys /\ torn \subseteq Orgs

AtRest(todo) == [todo |-> todo, org |-> None, i |-> 1]
BootSetUp(installs) ==
    /\ install \in installs
    /\ permission = install.keys
    /\ org = [o \in Orgs |-> o \in install.orgs \cup install.newer]
    /\ role = [o \in Orgs |-> [n \in Names |->
          CASE o \in install.orgs /\ n \in DOMAIN install.roles -> [is |-> "live", keys |-> install.roles[n]]
            [] o \in install.newer /\ n # "custom" -> [is |-> "live", keys |-> SystemRolePermissions(n)]
            [] OTHER -> NoRole]]
    /\ person = [p \in People |-> IF p = "old" /\ install.orgs # {}
                                  THEN [NoPerson EXCEPT !.is = "live", !.home = CHOOSE o \in install.orgs : TRUE, !.legacy = "agent"]
                                  ELSE NoPerson]
    /\ belongs = [p \in People |-> [o \in Orgs |-> [is |-> "none", role |-> None]]]
    /\ widget = [o \in Orgs |-> 0]
    /\ loop = AtRest({}) /\ crashes = 0 /\ edits = 0 /\ revoked = {} /\ torn = {}
BootInit == BootSetUp(Installs) /\ startAt = "permissions"
BootEnded == BootSetUp({[keys |-> {}, orgs |-> {}, newer |-> {}, roles |-> <<>>, touch |-> {}]}) /\ startAt = "failed"

Live(o) == {n \in Names : role[o][n].is = "live"}
LiveOrgs == {o \in Orgs : org[o]}
Steady == UNCHANGED <<install, crashes, edits, revoked>>
Goto(step) == startAt' = step

-------------------------------------------------------------------------------
(* RunMigrationWithProgress *)

\* The rows are inserted one by one, in the order of DefaultPermissions.
SeedPermissionsAndRoles ==
    /\ startAt = "permissions"
    /\ LET missing == {i \in DOMAIN DefaultPermissions : DefaultPermissions[i] \notin permission}
       IN IF missing = {} THEN Goto("roles") /\ loop' = AtRest(LiveOrgs) /\ UNCHANGED permission
          ELSE LET next == DefaultPermissions[CHOOSE i \in missing : \A j \in missing : i <= j]
               IN permission' = permission \cup {next} /\ UNCHANGED <<startAt, loop>>
    /\ Steady /\ UNCHANGED <<org, role, person, belongs, widget, torn>>

\* SeedSystemRolesForOrg counts the system roles once, then inserts the three one by one.
SystemRolesOf(o) == {n \in Elements(SystemRoles) : role[o][n].is = "live"}
SeedRole(o, i) ==
    role' = [role EXCEPT ![o][SystemRoles[i]] = [is |-> "live", keys |-> SystemRolePermissions(SystemRoles[i]) \cap permission]]
SeedSystemRolesForOrg(o) ==
    /\ startAt \in {"roles", "admin_roles"} /\ loop.org = None /\ o \in loop.todo
    /\ IF SystemRolesOf(o) # {} THEN loop' = [loop EXCEPT !.todo = @ \ {o}] /\ UNCHANGED role
       ELSE SeedRole(o, 1) /\ loop' = [loop EXCEPT !.org = o, !.i = 2]
    /\ Steady /\ UNCHANGED <<permission, org, person, belongs, widget, torn, startAt>>
SeedNextRole_OffByOne ==
    /\ startAt \in {"roles", "admin_roles"} /\ loop.org # None
    /\ SeedRole(loop.org, loop.i) /\ loop' = AtRest(loop.todo \ {loop.org})
    /\ Steady /\ UNCHANGED <<permission, org, person, belongs, widget, torn, startAt>>
SeedNextRole ==
    /\ startAt \in {"roles", "admin_roles"} /\ loop.org # None
    /\ SeedRole(loop.org, loop.i)
    /\ loop' = IF loop.i < 3 THEN [loop EXCEPT !.i = @ + 1] ELSE AtRest(loop.todo \ {loop.org})
    /\ Steady /\ UNCHANGED <<permission, org, person, belongs, widget, torn, startAt>>
SeedSystemRolesForAllOrgs ==
    /\ startAt = "roles" /\ loop = AtRest({})
    /\ Goto("fix") /\ UNCHANGED loop
    /\ Steady /\ UNCHANGED <<permission, org, role, person, belongs, widget, torn>>

FixSystemRolePermissions_Always(o, n) == SystemRolePermissions(n) \cap permission
FixSystemRolePermissions(o, n) == IF role[o][n].keys # {} THEN role[o][n].keys ELSE SystemRolePermissions(n) \cap permission
FixRoles ==
    /\ startAt = "fix" /\ Goto("legacy")
    /\ role' = [o \in Orgs |-> [n \in Names |->
          IF n # "custom" /\ role[o][n].is = "live" THEN [role[o][n] EXCEPT !.keys = FixSystemRolePermissions(o, n)] ELSE role[o][n]]]
    /\ Steady /\ UNCHANGED <<permission, org, person, belongs, widget, torn, loop>>
\* MigrateExistingUserRoles: role_id from the old column, for those without one.
MigratedRole(p) ==
    IF person[p].role = None /\ person[p].legacy # None /\ person[p].home # None /\ person[p].legacy \in Live(person[p].home)
    THEN person[p].legacy ELSE person[p].role
MigrateExistingUserRoles ==
    /\ startAt = "legacy" /\ Goto("super")
    /\ person' = [p \in People |-> [person[p] EXCEPT !.role = MigratedRole(p)]]
    /\ Steady /\ UNCHANGED <<permission, org, role, belongs, widget, torn, loop>>
\* UPDATE users SET is_super_admin for admin@admin.com, the address default_admin.email has unless
\* configured otherwise.
MakeSuperAdmin ==
    /\ startAt = "super" /\ Goto("members")
    /\ person' = [person EXCEPT !["boss"].super = person["boss"].is # "none"]
    /\ Steady /\ UNCHANGED <<permission, org, role, belongs, widget, torn, loop>>

\* The join sees live memberships only; idx_user_org counts the removed ones too, and then the
\* whole statement fails and the process ends.
HomeMissing(p) == person[p].is = "live" /\ belongs[p][person[p].home].is # "live"
HomeTaken(p) == belongs[p][person[p].home].is # "none"
MigrateUserOrganizations ==
    /\ startAt = "members"
    /\ LET adds == {p \in People : HomeMissing(p)}
       IN IF \E p \in adds : HomeTaken(p) THEN Goto("failed") /\ UNCHANGED belongs
          ELSE /\ belongs' = [p \in People |-> IF p \in adds
                                 THEN [belongs[p] EXCEPT ![person[p].home] = [is |-> "live", role |-> person[p].role]] ELSE belongs[p]]
               /\ Goto("admin")
    /\ Steady /\ UNCHANGED <<permission, org, role, person, widget, torn, loop>>

\* CreateDefaultAdmin: the address of a deleted user is still taken.
CreateDefaultAdmin(o) ==
    /\ startAt = "admin" /\ loop = AtRest({})
    /\ \/ /\ person["boss"].is = "live" /\ o = (CHOOSE x \in Orgs : TRUE)
          /\ Goto("widgets") /\ loop' = AtRest(LiveOrgs) /\ UNCHANGED org
       \/ /\ person["boss"].is # "live" /\ LiveOrgs = {}
          /\ org' = [org EXCEPT ![o] = TRUE] /\ UNCHANGED <<startAt, loop>>
       \/ /\ person["boss"].is # "live" /\ LiveOrgs # {} /\ o = (CHOOSE x \in LiveOrgs : TRUE)
          /\ Goto("admin_roles") /\ loop' = AtRest({o}) /\ UNCHANGED org
    /\ Steady /\ UNCHANGED <<permission, role, person, belongs, widget, torn>>
CreateAdminUser ==
    /\ startAt = "admin_roles" /\ loop = AtRest({})
    /\ LET o == CHOOSE x \in LiveOrgs : TRUE
       IN IF person["boss"].is = "gone" \/ role[o]["admin"].is # "live" THEN Goto("failed") /\ UNCHANGED person
          ELSE /\ person' = [person EXCEPT !["boss"] = [is |-> "live", home |-> o, role |-> "admin", legacy |-> None, super |-> TRUE]]
               /\ Goto("admin_member")
    /\ Steady /\ UNCHANGED <<permission, org, role, belongs, widget, torn, loop>>
CreateAdminMembership ==
    /\ startAt = "admin_member" /\ Goto("widgets") /\ loop' = AtRest(LiveOrgs)
    /\ belongs' = [belongs EXCEPT !["boss"][person["boss"].home] = [is |-> "live", role |-> "admin"]]
    /\ Steady /\ UNCHANGED <<permission, org, role, person, widget, torn>>

\* SeedDefaultWidgets: an organization with any widget is left alone; two stand for the six.
HasWidgets(o) == widget[o] > 0
SeedDefaultWidgets(o) ==
    /\ startAt = "widgets" /\ loop.org = None /\ o \in loop.todo
    /\ IF HasWidgets(o) THEN loop' = [loop EXCEPT !.todo = @ \ {o}] /\ UNCHANGED widget
       ELSE widget' = [widget EXCEPT ![o] = @ + 1] /\ loop' = [loop EXCEPT !.org = o, !.i = 2]
    /\ Steady /\ UNCHANGED <<permission, org, role, person, belongs, torn, startAt>>
SeedDefaultWidgetsForOrg ==
    /\ startAt = "widgets" /\ loop.org # None
    /\ widget' = [widget EXCEPT ![loop.org] = @ + 1] /\ loop' = AtRest(loop.todo \ {loop.org})
    /\ Steady /\ UNCHANGED <<permission, org, role, person, belongs, torn, startAt>>
MigrationCompleted ==
    /\ startAt = "widgets" /\ loop = AtRest({})
    /\ Goto("backfill") /\ UNCHANGED loop
    /\ Steady /\ UNCHANGED <<permission, org, role, person, belongs, widget, torn>>

-------------------------------------------------------------------------------
(* The backfills, in the order main calls them.  A rule <<from, to>> gives "to" to a role that   *)
(* holds "from", or to the system role of that name; an organization where a live role holds a   *)
(* permission of the family is left alone; an empty family guards nothing.                       *)

Rules(keys, to) == {<<k, t>> : k \in keys, t \in to}
BackfillOccurrencePermissions ==
    [rules |-> {<<"chat_read", "occ_read">>, <<"chat_write", "occ_write">>, <<"settings", "stages">>},
     family |-> {"occ_read", "occ_write", "stages", "catalog", "happened", "processes"}]
BackfillContactNamePermission == [rules |-> Rules({"contacts", "chat_write"}, {"name"}), family |-> {"name"}]
BackfillHelpdeskCatalogPermissions == [rules |-> {<<"stages", "catalog">>}, family |-> {"catalog"}]
BackfillWhatHappenedPermission == [rules |-> {<<"catalog", "happened">>}, family |-> {}]
BackfillSalesOpportunityPermissions ==
    [rules |-> {<<"chat_write", "sales">>, <<"view_all", "sales_all">>}, family |-> {"sales", "sales_all"}]
BackfillXProcessIntegrationPermission == [rules |-> {<<"accounts", "xprocess">>}, family |-> {"xprocess"}]
BackfillKnowledgePermissions == [rules |-> {<<"admin", "knowledge">>}, family |-> {"knowledge"}]
BackfillAIToolsPermissions == [rules |-> {<<"admin", "ai_tools">>}, family |-> {"ai_tools"}]
BackfillWhatsAppUsagePermissions ==
    [rules |-> Rules({"admin"}, {"usage_read", "usage_write"}) \cup {<<"manager", "usage_read">>},
     family |-> {"usage_read", "usage_write"}]
BackfillOccurrenceProcessesPermission == [rules |-> {<<"catalog", "processes">>}, family |-> {}]
BackfillTeamChatPermissions ==
    [rules |-> Rules({"admin", "manager"}, {"chat_use", "chat_admin"}) \cup {<<"agent", "chat_use">>},
     family |-> {"chat_use", "chat_admin", "join_any"}]
BackfillTeamChatJoinAnyPermission == [rules |-> {<<"admin", "join_any">>}, family |-> {"join_any"}]
Backfills == <<BackfillOccurrencePermissions, BackfillContactNamePermission, BackfillHelpdeskCatalogPermissions,
               BackfillWhatHappenedPermission, BackfillSalesOpportunityPermissions, BackfillXProcessIntegrationPermission,
               BackfillKnowledgePermissions, BackfillAIToolsPermissions, BackfillWhatsAppUsagePermissions,
               BackfillOccurrenceProcessesPermission, BackfillTeamChatPermissions, BackfillTeamChatJoinAnyPermission>>

Targets(b) == {x[2] : x \in b.rules}
HeldIn(o) == UNION {role[o][n].keys : n \in Live(o)}
Source(o, n) == role[o][n].keys \cup (IF n = "custom" THEN {} ELSE {n})
\* helpdeskCatalogMigratedClause and its like, correlated with the organization of the role.
Migrated(b, o) == HeldIn(o) \cap b.family # {}
\* One INSERT ... SELECT, reading role_permissions as they were before it.
Granted(b, o, n) ==
    IF n \in Live(o) /\ ~Migrated(b, o)
    THEN role[o][n].keys \cup {x[2] : x \in {y \in b.rules : y[1] \in Source(o, n)}} ELSE role[o][n].keys
Backfill(i) ==
    /\ startAt = "backfill" /\ loop.i = i
    /\ role' = IF Targets(Backfills[i]) \subseteq permission
               THEN [o \in Orgs |-> [n \in Names |-> [role[o][n] EXCEPT !.keys = Granted(Backfills[i], o, n)]]] ELSE role
    /\ IF i = Len(Backfills) THEN Goto("up") /\ loop' = AtRest({}) ELSE loop' = [loop EXCEPT !.i = i + 1] /\ UNCHANGED startAt
    /\ Steady /\ UNCHANGED <<permission, org, person, belongs, widget, torn>>

Crash ==
    /\ startAt \notin {"up", "failed"} /\ crashes < MaxCrashes
    /\ crashes' = crashes + 1 /\ Goto("permissions") /\ loop' = AtRest({})
    /\ torn' = IF loop.org # None THEN torn \cup {loop.org} ELSE torn
    /\ UNCHANGED <<install, permission, org, role, person, belongs, widget, edits, revoked>>

-------------------------------------------------------------------------------
(* Between two starts *)

\* UpdateRole replaces the permissions of a role and cannot leave it without any.
EditRole(o, n, k) ==
    /\ n \in Live(o)
    /\ \/ /\ k \in role[o][n].keys /\ role[o][n].keys # {k}
          /\ role' = [role EXCEPT ![o][n].keys = @ \ {k}] /\ revoked' = revoked \cup {<<o, n, k>>}
       \/ /\ k \in permission \ role[o][n].keys
          /\ role' = [role EXCEPT ![o][n].keys = @ \cup {k}] /\ revoked' = revoked \ {<<o, n, k>>}
    /\ UNCHANGED <<org, person, belongs, widget>>
RemoveMember(o, p) ==
    /\ belongs[p][o].is = "live" /\ belongs' = [belongs EXCEPT ![p][o].is = "gone"]
    /\ UNCHANGED <<org, role, person, widget, revoked>>
AddMember(o, p, n) ==
    /\ org[o] /\ person[p].is = "live" /\ belongs[p][o].is # "live" /\ n \in Live(o)
    /\ belongs' = [belongs EXCEPT ![p][o] = [is |-> "live", role |-> n]]
    /\ UNCHANGED <<org, role, person, widget, revoked>>
DeletePerson(p) ==
    /\ person[p].is = "live" /\ person' = [person EXCEPT ![p].is = "gone"]
    /\ belongs' = [belongs EXCEPT ![p] = [o \in Orgs |-> IF @[o].is = "live" THEN [@[o] EXCEPT !.is = "gone"] ELSE @[o]]]
    /\ UNCHANGED <<org, role, widget, revoked>>
\* One transaction: organization, system roles, membership of the creator, widgets.
CreateOrganization(o, p) ==
    /\ ~org[o] /\ person[p].is = "live" /\ org' = [org EXCEPT ![o] = TRUE]
    /\ role' = [role EXCEPT ![o] = [n \in Names |-> IF n = "custom" THEN NoRole
                                                    ELSE [is |-> "live", keys |-> SystemRolePermissions(n) \cap permission]]]
    /\ belongs' = [belongs EXCEPT ![p][o] = [is |-> "live", role |-> "admin"]]
    /\ widget' = [widget EXCEPT ![o] = 2]
    /\ UNCHANGED <<person, revoked>>
Edit ==
    /\ startAt = "up" /\ edits < MaxEdits /\ edits' = edits + 1
    /\ \/ \E o \in Orgs, n \in Names, k \in install.touch : EditRole(o, n, k)
       \/ \E o \in Orgs, p \in People : RemoveMember(o, p) \/ CreateOrganization(o, p)
       \/ \E o \in Orgs, p \in People : AddMember(o, p, "agent")
       \/ \E p \in People : DeletePerson(p)
    /\ UNCHANGED <<install, permission, startAt, loop, crashes, torn>>
Restart ==
    /\ startAt \in {"up", "failed"} /\ edits > 0 /\ Goto("permissions")
    /\ UNCHANGED <<install, permission, org, role, person, belongs, widget, loop, crashes, edits, revoked, torn>>
\* A start without -migrate serves the database as it is.
StartAsIs ==
    /\ startAt = "failed" /\ edits > 0 /\ Goto("up")
    /\ UNCHANGED <<install, permission, org, role, person, belongs, widget, loop, crashes, edits, revoked, torn>>

BootStep ==
    \/ SeedPermissionsAndRoles \/ SeedSystemRolesForAllOrgs \/ SeedNextRole \/ FixRoles \/ MigrateExistingUserRoles
    \/ MakeSuperAdmin \/ MigrateUserOrganizations \/ CreateAdminUser \/ CreateAdminMembership
    \/ SeedDefaultWidgetsForOrg \/ MigrationCompleted
    \/ \E o \in Orgs : SeedSystemRolesForOrg(o) \/ CreateDefaultAdmin(o) \/ SeedDefaultWidgets(o)
    \/ \E i \in DOMAIN Backfills : Backfill(i)
BootNext == BootStep \/ Crash \/ Edit \/ Restart \/ StartAsIs

-------------------------------------------------------------------------------
(* Properties *)

\* A start takes no permission from any role and no membership from any user, wherever it is
\* interrupted: rolling back to the release before finds its permissions untouched
\* ("puramente aditivo", permissions_backfill.go).
OnlyAdds ==
    [][BootStep => \A o \in Orgs :
          /\ \A n \in Names : role[o][n].keys \subseteq role'[o][n].keys
          /\ \A p \in People : belongs[p][o].is = "live" => belongs'[p][o].is = "live"]_bootVars

\* What an administrator took from a role stays taken in every later start, as long as somebody
\* in the organization still holds a permission of that family; only the two backfills without a
\* family forget.
RevocationsStay ==
    [][BootStep => \A o \in Orgs, n \in Names : \A k \in role'[o][n].keys \ role[o][n].keys :
          <<o, n, k>> \in revoked =>
              \E i \in DOMAIN Backfills : startAt = "backfill" /\ loop.i = i /\ k \in Targets(Backfills[i]) /\ HeldIn(o) \cap Backfills[i].family = {}]_bootVars

\* Once a start has ended, whatever deaths interrupted it, every role of an old organization that
\* could do the older thing can do what the releases since made of it, by every rule of every
\* backfill, and the organization next to it being newer makes no difference.  Not so where the
\* same start filled an empty system role or seeded the system roles: those hold every family, and
\* the backfills take the organization for migrated.
OldRolesCatchUp ==
    startAt = "up" /\ edits = 0 /\ (\A n \in Elements(SystemRoles) : n \in DOMAIN install.roles /\ install.roles[n] # {}) =>
        \A o \in install.orgs, n \in DOMAIN install.roles, i \in DOMAIN Backfills :
            (UNION {install.roles[m] : m \in DOMAIN install.roles}) \cap Backfills[i].family = {} =>
                \A x \in Backfills[i].rules : x[1] \in Source(o, n) => x[2] \in role[o][n].keys

\* A start ends with the three system roles, one of them the default one, in every organization,
\* unless a death fell between their inserts: the count of the next start finds the first one and
\* never completes them.
RolesComplete ==
    startAt \in {"backfill", "up"} => \A o \in Orgs : org[o] => Elements(SystemRoles) \subseteq Live(o) \/ o \in torn

\* When the migration is through, every user has a membership in the organization it calls home,
\* including the administrator whose creation a death interrupted.
EveryoneBelongs == startAt = "backfill" => \A p \in People : person[p].is = "live" => belongs[p][person[p].home].is = "live"

\* A start fails only over a membership or an administrator that was removed: the unique indexes
\* count removed rows and the queries before the inserts do not.
FailsOverRemoved ==
    startAt = "failed" /\ install.orgs \cup LiveOrgs # {} =>
        \/ person["boss"].is = "gone"
        \/ \E p \in People : person[p].is = "live" /\ belongs[p][person[p].home].is = "gone"

\* No organization is given its default widgets twice, however often a start is repeated, and an
\* organization whose seeding was not interrupted has them all.
WidgetsOnce == \A o \in Orgs : widget[o] <= 2 /\ (startAt = "backfill" /\ org[o] /\ o \notin torn => widget[o] = 2)

\* A user of the days before role_id has the role its old column names once the roles exist.
LegacyRoleKept ==
    startAt = "backfill" => \A p \in People :
        person[p].is = "live" /\ person[p].legacy # None /\ person[p].legacy \in Live(person[p].home) => person[p].role # None

\* What the comments of BackfillKnowledgePermissions and BackfillAIToolsPermissions promise:
\* what an administrator revokes from its own role is not granted again by a later start.
RevocationsAlwaysStay ==
    [][BootStep => \A o \in Orgs, k \in {"knowledge", "ai_tools"} :
        k \in role'[o]["admin"].keys \ role[o]["admin"].keys => <<o, "admin", k>> \notin revoked]_bootVars
=================================================================================
