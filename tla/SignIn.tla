--------------------------------- MODULE SignIn ---------------------------------
(***************************************************************************)
(* How one person gets in: passwords, registration, refresh tokens, single *)
(* sign-on and API keys, while administrators disable, delete and remove   *)
(* the account.  "h" is the home of the account, "x" a second organization *)
(* it may belong to.  Access tokens carry an organization and are checked  *)
(* by their signature only; a refresh token is good for one exchange, as   *)
(* long as Redis knows it.                                                 *)
(***************************************************************************)
EXTENDS Naturals, Sequences, FiniteSets

CONSTANT SignInMenus    \* what is there at first, which requests come, how many at a time

VARIABLES
    signMenu,
    holder,     \* the row in users
    seat,       \* the rows in user_organizations
    refresh,    \* refresh tokens in the order they were issued, and whether Redis knows them
    access,     \* access tokens in the order they were issued
    sso,        \* the provider of "h" and the states of sign-ons under way
    key,        \* an API key of the account
    visits,     \* requests in progress
    came,       \* how many requests of the menu have arrived
    crossed,    \* pairs of kinds of requests that were in progress together: history
    served      \* what each finished request obtained: history
signVars == <<signMenu, holder, seat, refresh, access, sso, key, visits, came, crossed, served>>

Seats == {"h", "x"}
RowStates == {"none", "live", "gone"}
SignTypeOK ==
    /\ holder \in [is : RowStates, active : BOOLEAN, super : BOOLEAN, linked : BOOLEAN]
    /\ seat \in [Seats -> RowStates]
    /\ \A i \in DOMAIN refresh : refresh[i] \in [org : Seats, known : BOOLEAN]
    /\ \A i \in DOMAIN access : access[i] \in [org : Seats, super : BOOLEAN]
    /\ sso \in [on : {"none", "off", "on"}, auto : BOOLEAN, states : Seq(BOOLEAN)]
    /\ key \in [is : RowStates, active : BOOLEAN, expired : BOOLEAN]
    /\ Cardinality(visits) <= signMenu.width

SignSetUp ==
    /\ holder = signMenu.holder /\ seat = signMenu.seat /\ key = signMenu.key
    /\ refresh = <<[org |-> "x", known |-> TRUE]>> /\ access = <<[org |-> "x", super |-> signMenu.holder.super]>>
    /\ sso = [on |-> signMenu.sso, auto |-> signMenu.auto, states |-> <<>>]
    /\ visits = {} /\ crossed = {} /\ served = <<>>
SignInit == signMenu \in SignInMenus /\ SignSetUp /\ came = 0
SignEnded == signMenu = (CHOOSE m \in SignInMenus : TRUE) /\ SignSetUp /\ came = Len(signMenu.plan)

Arrive ==
    /\ came < Len(signMenu.plan) /\ Cardinality(visits) < signMenu.width
    /\ LET q == signMenu.plan[came + 1]
           v == [n |-> came + 1, op |-> q.op, arg |-> q.arg, i |-> q.i, at |-> "start", row |-> holder, org |-> "h", key |-> key,
                 welcome |-> holder.is = "live" /\ holder.active, seats |-> {o \in Seats : seat[o] = "live"}]
       IN visits' = visits \cup {v} /\ crossed' = crossed \cup {{v.op, w.op} : w \in visits}
    /\ came' = came + 1
    /\ UNCHANGED <<signMenu, holder, seat, refresh, access, sso, key, served>>
Leave(v) == visits' = visits \ {v}
On(v, w) == visits' = (visits \ {v}) \cup {w}
Step(v, at) == On(v, [v EXCEPT !.at = at])
Outcome(v, got) == served' = Append(served, [op |-> v.op, i |-> v.i, got |-> got, org |-> v.org, welcome |-> v.welcome, seats |-> v.seats,
                                             super |-> v.row.super, now |-> holder.is = "live"])

-------------------------------------------------------------------------------
(* Tokens *)

\* generateAccessToken and generateRefreshToken, for the row as the request has it.
Issue(v) ==
    /\ v.at = "issue"
    /\ access' = Append(access, [org |-> v.org, super |-> v.row.super])
    /\ refresh' = Append(refresh, [org |-> v.org, known |-> TRUE])
    /\ Outcome(v, "tokens") /\ Leave(v)
    /\ UNCHANGED <<signMenu, holder, seat, sso, key, came, crossed>>

\* The password is right; a wrong one is refused before anything is read but the row.
Login(v) ==
    /\ v.op = "login" /\ v.at = "start"
    /\ IF holder.is = "live" /\ holder.active THEN On(v, [v EXCEPT !.at = "issue", !.row = holder]) ELSE Leave(v)
    /\ UNCHANGED <<signMenu, holder, seat, refresh, access, sso, key, came, crossed, served>>

\* One DEL decides: whoever removes the key from Redis may go on.
TakeToken(v) ==
    IF refresh[v.i].known THEN refresh' = [refresh EXCEPT ![v.i].known = FALSE] /\ Step(v, "taken")
    ELSE Leave(v) /\ UNCHANGED refresh
RefreshToken(v) ==
    /\ v.op = "refresh" /\ v.at = "start" /\ v.i \in DOMAIN refresh /\ TakeToken(v)
    /\ UNCHANGED <<signMenu, holder, seat, access, sso, key, came, crossed, served>>
Usable == holder.is = "live" /\ holder.active
ReloadUser(v) ==
    /\ v.op = "refresh" /\ v.at = "taken"
    /\ IF Usable THEN On(v, [v EXCEPT !.at = "org", !.row = holder]) ELSE Leave(v)
    /\ UNCHANGED <<signMenu, holder, seat, refresh, access, sso, key, came, crossed, served>>
\* The organization of the old token is kept while the account belongs to it; else the home one.
StillThere(v) == v.row.super \/ seat[refresh[v.i].org] = "live"
KeepOrganization(v) ==
    /\ v.op = "refresh" /\ v.at = "org"
    /\ On(v, [v EXCEPT !.at = "issue", !.org = IF StillThere(v) THEN refresh[v.i].org ELSE "h"])
    /\ UNCHANGED <<signMenu, holder, seat, refresh, access, sso, key, came, crossed, served>>

\* Any access token will do: the account must exist, and belong to the organization or be a super admin.
SwitchOrg(v) ==
    /\ v.op = "switch" /\ v.at = "start"
    /\ IF holder.is = "live" /\ (holder.super \/ seat[v.arg] = "live") THEN On(v, [v EXCEPT !.at = "issue", !.row = holder, !.org = v.arg]) ELSE Leave(v)
    /\ UNCHANGED <<signMenu, holder, seat, refresh, access, sso, key, came, crossed, served>>
ForgetToken(v) == refresh' = IF v.i \in DOMAIN refresh THEN [refresh EXCEPT ![v.i].known = FALSE] ELSE refresh
Logout(v) ==
    /\ v.op = "logout" /\ v.at = "start" /\ v.i \in DOMAIN refresh
    /\ ForgetToken(v) /\ Outcome(v, "out") /\ Leave(v)
    /\ UNCHANGED <<signMenu, holder, seat, access, sso, key, came, crossed>>

\* Register: an account that exists joins the organization, if its password is right.
Register(v) ==
    /\ v.op = "register" /\ v.at = "start"
    /\ \/ holder.is = "live" /\ (~holder.active \/ seat[v.arg] = "live") /\ Leave(v)
       \/ holder.is = "live" /\ holder.active /\ seat[v.arg] # "live" /\ On(v, [v EXCEPT !.at = "join", !.row = holder, !.org = v.arg])
       \/ holder.is # "live" /\ v.arg = "h" /\ Step(v, "found")
       \/ holder.is # "live" /\ v.arg # "h" /\ Leave(v)
    /\ UNCHANGED <<signMenu, holder, seat, refresh, access, sso, key, came, crossed, served>>
\* idx_user_org counts a removed membership: the insert fails.
Join(v) ==
    /\ v.op = "register" /\ v.at = "join"
    /\ IF seat[v.org] = "none" THEN seat' = [seat EXCEPT ![v.org] = "live"] /\ Step(v, "issue") ELSE Leave(v) /\ UNCHANGED seat
    /\ UNCHANGED <<signMenu, holder, refresh, access, sso, key, came, crossed, served>>
NewRow == [is |-> "live", active |-> TRUE, super |-> FALSE, linked |-> FALSE]
\* One transaction; the address of a deleted account is taken for good.
EmailFree == holder.is = "none"
CreateAccount(v) ==
    /\ v.op = "register" /\ v.at = "found"
    /\ IF EmailFree
       THEN holder' = NewRow /\ seat' = [seat EXCEPT !["h"] = "live"] /\ On(v, [v EXCEPT !.at = "issue", !.row = NewRow, !.welcome = TRUE, !.seats = {"h"}])
       ELSE Leave(v) /\ UNCHANGED <<holder, seat>>
    /\ UNCHANGED <<signMenu, refresh, access, sso, key, came, crossed, served>>

-------------------------------------------------------------------------------
(* Single sign-on *)

InitSSO(v) ==
    /\ v.op = "sso_init" /\ v.at = "start"
    /\ sso' = IF sso.on = "on" THEN [sso EXCEPT !.states = Append(@, TRUE)] ELSE sso
    /\ Leave(v) /\ UNCHANGED <<signMenu, holder, seat, refresh, access, key, came, crossed, served>>
\* The state is read, and deleted by a second command.
CallbackSSO(v) ==
    /\ v.op = "sso_back" /\ v.at = "start"
    /\ IF v.i \in DOMAIN sso.states /\ sso.states[v.i] THEN Step(v, "state") ELSE Leave(v)
    /\ UNCHANGED <<signMenu, holder, seat, refresh, access, sso, key, came, crossed, served>>
DropState_Keep(v) == sso' = sso
DropState(v) == sso' = [sso EXCEPT !.states[v.i] = FALSE]
UseState(v) ==
    /\ v.op = "sso_back" /\ v.at = "state" /\ DropState(v) /\ Step(v, "provider")
    /\ UNCHANGED <<signMenu, holder, seat, refresh, access, key, came, crossed, served>>
\* The provider must still be configured.  It answers for this address, or the exchange fails.
Identify(v) ==
    /\ v.op = "sso_back" /\ v.at = "provider"
    /\ \/ sso.on # "none" /\ On(v, [v EXCEPT !.at = "person", !.arg = IF sso.auto THEN "auto" ELSE "known"])
       \/ Leave(v)
    /\ UNCHANGED <<signMenu, holder, seat, refresh, access, sso, key, came, crossed, served>>
FindPerson(v) ==
    /\ v.op = "sso_back" /\ v.at = "person"
    /\ IF holder.is # "live" THEN (IF v.arg = "auto" THEN Step(v, "create") ELSE Leave(v))
       ELSE IF ~holder.linked THEN On(v, [v EXCEPT !.at = "link", !.row = [holder EXCEPT !.linked = TRUE]])
       ELSE IF holder.active THEN On(v, [v EXCEPT !.at = "issue", !.row = holder]) ELSE Leave(v)
    /\ UNCHANGED <<signMenu, holder, seat, refresh, access, sso, key, came, crossed, served>>
\* Save of the row as it was read; whether it was active is looked at afterwards.
LinkProvider(v) ==
    /\ v.op = "sso_back" /\ v.at = "link" /\ holder' = v.row
    /\ IF v.row.active THEN Step(v, "issue") ELSE Leave(v)
    /\ UNCHANGED <<signMenu, seat, refresh, access, sso, key, came, crossed, served>>
CreateSSOUser(v) ==
    /\ v.op = "sso_back" /\ v.at = "create"
    /\ IF EmailFree THEN holder' = [NewRow EXCEPT !.linked = TRUE] /\ On(v, [v EXCEPT !.at = "seat", !.row = NewRow, !.welcome = TRUE]) ELSE Leave(v) /\ UNCHANGED holder
    /\ UNCHANGED <<signMenu, seat, refresh, access, sso, key, came, crossed, served>>
CreateSSOSeat(v) ==
    /\ v.op = "sso_back" /\ v.at = "seat" /\ Step(v, "issue")
    /\ seat' = [seat EXCEPT !["h"] = IF @ = "none" THEN "live" ELSE @]
    /\ UNCHANGED <<signMenu, holder, refresh, access, sso, key, came, crossed, served>>
UpdateSSOProvider(v) ==
    /\ v.op = "sso_set" /\ v.at = "start" /\ sso' = [sso EXCEPT !.on = v.arg, !.auto = v.i = 1] /\ Leave(v)
    /\ UNCHANGED <<signMenu, holder, seat, refresh, access, key, came, crossed, served>>
DeleteSSOProvider(v) ==
    /\ v.op = "sso_delete" /\ v.at = "start" /\ sso' = [sso EXCEPT !.on = "none"] /\ Leave(v)
    /\ UNCHANGED <<signMenu, holder, seat, refresh, access, key, came, crossed, served>>

-------------------------------------------------------------------------------
(* Using a token or a key *)

\* getOrgID: the header names another organization; an account without a seat there stays where its token says.
\* Whether the account is a super admin comes from the cache of permissions, which may outlive its deletion.
getOrgID(v, cached) ==
    IF (holder.super /\ (holder.is = "live" \/ cached)) \/ seat[v.arg] = "live" THEN v.arg ELSE access[v.i].org
UseToken(v) ==
    /\ v.op = "use" /\ v.at = "start" /\ v.i \in DOMAIN access
    /\ \E cached \in BOOLEAN : Outcome([v EXCEPT !.org = getOrgID(v, cached), !.row = holder], "use")
    /\ Leave(v)
    /\ UNCHANGED <<signMenu, holder, seat, refresh, access, sso, key, came, crossed>>
validateAPIKey == key.is = "live" /\ key.active /\ ~key.expired /\ holder.is = "live"
UseKey(v) ==
    /\ v.op = "key_use" /\ v.at = "start"
    /\ IF validateAPIKey THEN Outcome(v, "key") ELSE UNCHANGED served
    /\ Leave(v) /\ UNCHANGED <<signMenu, holder, seat, refresh, access, sso, key, came, crossed>>
CreateAPIKey(v) ==
    /\ v.op = "key_new" /\ v.at = "start" /\ key.is = "none"
    /\ key' = [is |-> "live", active |-> TRUE, expired |-> FALSE] /\ Leave(v)
    /\ UNCHANGED <<signMenu, holder, seat, refresh, access, sso, came, crossed, served>>
ReadAPIKey(v) ==
    /\ v.op = "key_set" /\ v.at = "start"
    /\ IF key.is # "live" THEN Leave(v) ELSE On(v, [v EXCEPT !.at = "save", !.key = [key EXCEPT !.active = v.arg = "on"]])
    /\ UNCHANGED <<signMenu, holder, seat, refresh, access, sso, key, came, crossed, served>>
UpdateAPIKey(v) ==
    /\ v.op = "key_set" /\ v.at = "save" /\ key' = v.key /\ Outcome(v, v.arg) /\ Leave(v)
    /\ UNCHANGED <<signMenu, holder, seat, refresh, access, sso, came, crossed>>
DeleteAPIKey(v) ==
    /\ v.op = "key_delete" /\ v.at = "start" /\ Leave(v)
    /\ IF key.is = "live" THEN key' = [key EXCEPT !.is = "gone"] /\ Outcome(v, "deleted") ELSE UNCHANGED <<key, served>>
    /\ UNCHANGED <<signMenu, holder, seat, refresh, access, sso, came, crossed>>
Expire ==
    /\ key.is = "live" /\ ~key.expired /\ signMenu.expires /\ key' = [key EXCEPT !.expired = TRUE]
    /\ visits' = {[v EXCEPT !.key.expired = TRUE] : v \in visits}
    /\ UNCHANGED <<signMenu, holder, seat, refresh, access, sso, came, crossed, served>>

\* What the administrators do meanwhile (UpdateUser, DeleteUser, RemoveOrganizationMember, CreateUser).
Administer(v) ==
    /\ v.at = "start"
    /\ \/ v.op = "disable" /\ holder.is = "live" /\ holder' = [holder EXCEPT !.active = FALSE] /\ UNCHANGED seat
       \/ v.op = "enable" /\ holder.is = "live" /\ holder' = [holder EXCEPT !.active = TRUE] /\ UNCHANGED seat
       \/ /\ v.op = "delete" /\ holder.is = "live" /\ holder' = [holder EXCEPT !.is = "gone"]
          /\ seat' = [o \in Seats |-> IF seat[o] = "live" THEN "gone" ELSE seat[o]]
       \/ v.op = "remove" /\ seat[v.arg] = "live" /\ seat' = [seat EXCEPT ![v.arg] = "gone"] /\ UNCHANGED holder
       \/ v.op = "revive" /\ holder.is = "gone" /\ holder' = [NewRow EXCEPT !.linked = holder.linked] /\ seat' = [seat EXCEPT !["h"] = "live"]
       \/ /\ \/ v.op \in {"disable", "enable", "delete"} /\ holder.is # "live"
             \/ v.op = "remove" /\ seat[v.arg] # "live"
             \/ v.op = "revive" /\ holder.is # "gone"
          /\ UNCHANGED <<holder, seat>>
    /\ Leave(v) /\ UNCHANGED <<signMenu, refresh, access, sso, key, came, crossed, served>>

SignNext ==
    \/ Arrive \/ Expire
    \/ \E v \in visits :
          \/ Issue(v) \/ Login(v) \/ RefreshToken(v) \/ ReloadUser(v) \/ KeepOrganization(v) \/ SwitchOrg(v) \/ Logout(v)
          \/ Register(v) \/ Join(v) \/ CreateAccount(v)
          \/ InitSSO(v) \/ CallbackSSO(v) \/ UseState(v) \/ Identify(v) \/ FindPerson(v) \/ LinkProvider(v) \/ CreateSSOUser(v) \/ CreateSSOSeat(v)
          \/ UpdateSSOProvider(v) \/ DeleteSSOProvider(v)
          \/ UseToken(v) \/ UseKey(v) \/ CreateAPIKey(v) \/ ReadAPIKey(v) \/ UpdateAPIKey(v) \/ DeleteAPIKey(v) \/ Administer(v)

-------------------------------------------------------------------------------
(* Properties *)

Gave(i, got) == served[i].got = got
Crossed(a, b) == \E x \in a, y \in b : {x, y} \in crossed

\* A refresh token is exchanged at most once, however many requests bring it at the same moment.
ExchangedOnce ==
    \A i, j \in DOMAIN served :
        i < j /\ served[i].op = "refresh" /\ served[j].op = "refresh" => served[i].i # served[j].i

\* Once Logout has answered, its refresh token yields nothing, unless the exchange was under way.
LogoutEnds ==
    \A i, j \in DOMAIN served :
        i < j /\ served[i].op = "logout" /\ served[j].op = "refresh" /\ served[i].i = served[j].i => Crossed({"logout"}, {"refresh"})

\* An account that is disabled or deleted gets no tokens from a request that arrives afterwards,
\* unless it is enabled or revived while the request runs.  Only SwitchOrg does not look.
DisabledGetsNothing ==
    \A i \in DOMAIN served : Gave(i, "tokens") /\ served[i].op # "switch" =>
        served[i].welcome \/ Crossed({"enable", "revive", "register", "sso_back"}, {served[i].op})

\* Tokens for an organization besides the home one go only to its members and to super admins:
\* who was removed before the request came gets none, and a refresh falls back to home.
TokensForMembers ==
    \A i \in DOMAIN served : Gave(i, "tokens") /\ served[i].org # "h" =>
        served[i].super \/ served[i].org \in served[i].seats \/ served[i].op = "register" \/ Crossed({"register"}, {served[i].op})

\* A request is carried out in the organization of its token or in one the account belongs to.
ServedWhereItBelongs ==
    \A i \in DOMAIN served : Gave(i, "use") =>
        served[i].super \/ served[i].org \in served[i].seats \cup {access[served[i].i].org} \/ Crossed({"register", "revive", "sso_back"}, {"use"})

\* The state of a single sign-on admits one callback, unless two arrive together.
StateOnce ==
    \A i, j \in DOMAIN served :
        i < j /\ served[i].op = "sso_back" /\ served[j].op = "sso_back" /\ served[i].i = served[j].i => Crossed({"sso_back"}, {"sso_back"})

\* No API key of a deleted account is accepted, and a key stays deleted and stays off until it is
\* switched on again, unless edits of it overlap.
KeysEnd ==
    \A i \in DOMAIN served : Gave(i, "key") =>
        /\ served[i].now
        /\ \/ \A j \in 1 .. i - 1 : Gave(j, "deleted") \/ Gave(j, "off") => \E k \in j + 1 .. i : Gave(k, "on") /\ ~Gave(j, "deleted")
           \/ Crossed({"key_set"}, {"key_set", "key_delete"})

\* A deleted account does not come back by registering or by signing on, only when an administrator
\* creates it again, or when a sign-on that had read it links it after the deletion.
DeletedStaysOut ==
    [][holder.is = "gone" /\ holder'.is = "live" =>
          (\E v \in visits : v.op = "revive") \/ Crossed({"delete"}, {"sso_back"})]_signVars
=================================================================================
