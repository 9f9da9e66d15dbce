---------------------------- MODULE AccessTokens ----------------------------
(***************************************************************************)
(* Access tokens of the RBAC backend: how a login or a refresh collects    *)
(* the roles and permissions it puts into the token, and how the gates of  *)
(* the administration and users routes decide by the token alone while     *)
(* Rbac's requests change the tables.                                      *)
(*                                                                         *)
(* get_user_by_email (login) or get_user_by_id (refresh) loads the user    *)
(* with its links, roles, their grants and permissions, each by a SELECT   *)
(* of its own, and get_user_roles_and_permissions runs the same SELECTs    *)
(* again in the same database session.  SQLAlchemy keeps one object per    *)
(* row there: the second pass sees the links anew, but what the first has  *)
(* loaded of a role it does not load again.                                *)
(***************************************************************************)
EXTENDS Rbac

CONSTANTS
  Logins,      \* slots for logins and refreshes being served
  Tokens,      \* slots for access tokens clients hold
  Lifetime,    \* settings.jwt_access_token_expire_minutes, in ticks
  Accounts     \* users and the roles they registered for, in that order

ASSUME LifetimeOK == Lifetime \in Nat \ {0}

ASSUME AccountsOK ==
  /\ Accounts \in Seq(Users \X {DefaultName, AdminName})
  /\ Len(Accounts) <= MaxRows
  /\ \A u \in Users : \E k \in 1 .. Len(Accounts) :
        /\ Accounts[k][1] = u
        /\ \A h \in 1 .. Len(Accounts) : Accounts[h][1] = u => h = k

VARIABLES
  active,      \* users.is_active
  login,       \* per slot: next SELECT and the objects of its session
  token,       \* access tokens that have not expired
  seen         \* history: what was true at some time during the login, or always

accessVars == <<rbacVars, active, login, token, seen>>

AdminRoles  == {"super_admin", AdminName}     \* RoleNames.ADMIN_ROLES
UsersDelete == "users:delete"                 \* Permissions.USERS_DELETE

NoToken == [user |-> NoUser, roles |-> {}, perms |-> {}, left |-> 0]

(***************************************************************************)
(* The session of a login: the roles the user's links name, the roles this *)
(* pass has to load, for every role loaded its name, the ids of its grants *)
(* and the names of their permissions, and the name of every permission    *)
(* object; NoName is the None that is loaded for a row that has gone.      *)
(***************************************************************************)
NewSession == [pc |-> "idle", user |-> NoUser, again |-> FALSE, links |-> {},
               fresh |-> {}, name |-> [i \in RoleIds |-> NoName],
               grants |-> [i \in RoleIds |-> {}],
               perms |-> [i \in RoleIds |-> {}],
               known |-> [p \in PermIds |-> NoName]]

Nothing == [links |-> {}, names |-> {}, grants |-> {}, perms |-> {},
            held |-> {}, kept |-> {}]

(* All accounts are registered and their addresses verified.               *)
AccessInit ==
  /\ Migrated
  /\ Quiet
  /\ registered = Users
  /\ verified = Users
  /\ origin = [u \in Users |->
       LET k == CHOOSE k \in 1 .. Len(Accounts) : Accounts[k][1] = u
       IN Accounts[k][2]]
  /\ userRole = [x \in RowIds |->
       IF x <= Len(Accounts)
       THEN [user |-> Accounts[x][1], by |-> "registration", live |-> TRUE,
             role |-> CHOOSE i \in RoleIds : role[i] = Accounts[x][2]]
       ELSE NoRow]
  /\ active = [u \in Users |-> TRUE]
  /\ login = [l \in Logins |-> NewSession]
  /\ token = [t \in Tokens |-> NoToken]
  /\ seen = [l \in Logins |-> Nothing]

LinksOf(u)  == {userRole[x].role : x \in {y \in RowIds :
                  HasRow(userRole, y) /\ userRole[y].user = u}}
GrantsOf(i) == {rolePerm[x].perm : x \in {y \in GrantIds :
                  HasRow(rolePerm, y) /\ rolePerm[y].role = i}}

-----------------------------------------------------------------------------
(* Loading the rights: login_user and refresh_tokens.                      *)

\* Mutant: is_active is not looked at.
AnyUserMayEnter(u) == u \in verified

(* A refresh goes back to a login: its user was verified then and stays so.*)
MayEnter(u) == u \in verified /\ active[u]

\* Mutant: the session outlives its request, with the objects it holds.
KeepSession(s) == [s EXCEPT !.pc = "idle", !.again = FALSE]

(* get_db closes the session with its request.                             *)
CloseSession(s) == NewSession

LoadUser(l, u) ==
  /\ login[l].pc = "idle"
  /\ MayEnter(u)
  /\ login' = [login EXCEPT ![l].pc = "links", ![l].user = u]
  /\ UNCHANGED token

(* With nothing left to load a pass is over: the second one follows the    *)
(* first, the token the second.                                            *)
Proceed(s, pc) ==
  IF s.fresh # {} THEN [s EXCEPT !.pc = pc]
  ELSE IF s.again THEN [s EXCEPT !.pc = "issue"]
  ELSE [s EXCEPT !.pc = "links", !.again = TRUE]

LoadLinks(l) ==
  LET s == login[l]
      held == LinksOf(s.user)
  IN
  /\ s.pc = "links"
  /\ login' = [login EXCEPT ![l] =
       Proceed([s EXCEPT !.links = held,
                         !.fresh = {i \in held : s.name[i] = NoName}], "roles")]
  /\ UNCHANGED token

LoadRoles(l) ==
  LET s == login[l] IN
  /\ s.pc = "roles"
  /\ login' = [login EXCEPT ![l] =
       Proceed([s EXCEPT !.fresh = {i \in @ : role[i] # NoName},
                         !.name = [i \in RoleIds |->
                            IF i \in s.fresh THEN role[i] ELSE @[i]]], "grants")]
  /\ UNCHANGED token

LoadGrants(l) ==
  LET s == login[l] IN
  /\ s.pc = "grants"
  /\ login' = [login EXCEPT ![l] =
       Proceed([s EXCEPT !.fresh = {i \in @ : GrantsOf(i) # {}},
                         !.grants = [i \in RoleIds |->
                            IF i \in s.fresh THEN GrantsOf(i) ELSE @[i]]], "perms")]
  /\ UNCHANGED token

(* A row whose object the session has already does not change the object.  *)
LoadPermissions(l) ==
  LET s     == login[l]
      found == UNION {s.grants[i] : i \in s.fresh}
      known == [p \in PermIds |->
                  IF p \in found /\ s.known[p] = NoName THEN perm[p]
                  ELSE s.known[p]]
      Name(p) == IF perm[p] = NoName THEN NoName ELSE known[p]
  IN
  /\ s.pc = "perms"
  /\ login' = [login EXCEPT ![l] =
       Proceed([s EXCEPT !.fresh = {}, !.known = known,
                         !.perms = [i \in RoleIds |->
                            IF i \in s.fresh THEN {Name(p) : p \in s.grants[i]}
                            ELSE @[i]]], "perms")]
  /\ UNCHANGED token

RoleNamesIn(s) == {s.name[i] : i \in s.links}
PermNamesIn(s) == UNION {s.perms[i] : i \in s.links}

\* Mutant: a user without a link falls back to the role it registered for.
FallbackRights(s) ==
  [user |-> s.user, left |-> Lifetime, perms |-> PermNamesIn(s),
   roles |-> IF s.links = {} THEN {origin[s.user]} ELSE RoleNamesIn(s)]

RightsIn(s) ==
  [user |-> s.user, left |-> Lifetime, perms |-> PermNamesIn(s),
   roles |-> RoleNamesIn(s)]

\* Mutant: a role or permission that is missing is not noticed.
IssueUnchecked(l, t) ==
  /\ login[l].pc = "issue"
  /\ token[t] = NoToken
  /\ token' = [token EXCEPT ![t] = RightsIn(login[l])]
  /\ login' = [login EXCEPT ![l] = CloseSession(@)]

(* A None among the objects has no name: AttributeError, a server error.   *)
IssueToken(l, t) ==
  LET s == login[l] IN
  /\ s.pc = "issue"
  /\ token[t] = NoToken
  /\ token' = IF NoName \in RoleNamesIn(s) \cup PermNamesIn(s) THEN token
              ELSE [token EXCEPT ![t] = RightsIn(s)]
  /\ login' = [login EXCEPT ![l] = CloseSession(@)]

AbortLogin(l) ==
  /\ login[l].pc # "idle"
  /\ login' = [login EXCEPT ![l] = CloseSession(@)]
  /\ UNCHANGED token

Enter(l) ==
  \/ \E u \in Users : LoadUser(l, u)
  \/ LoadLinks(l)
  \/ LoadRoles(l)
  \/ LoadGrants(l)
  \/ LoadPermissions(l)
  \/ \E t \in Tokens : IssueToken(l, t)
  \/ AbortLogin(l)

-----------------------------------------------------------------------------
(* The gates and the requests behind them.                                 *)

Valid(t)                == token[t].left > 0
RequireAnyRole(t, R)    == Valid(t) /\ token[t].roles \cap R # {}
RequirePermission(t, p) == Valid(t) /\ p \in token[t].perms

(* get_current_user: the account of the token, if it is active.            *)
CurrentUser(t) == {u \in Users : u = token[t].user /\ active[u]}

AdminCall(r) ==
  /\ \E t \in Tokens : RequireAnyRole(t, AdminRoles)
  /\ AdminRequest(r)
  /\ UNCHANGED <<active, login, token>>

(* A registration asks for no token, a write follows a gate passed before. *)
Background(r) ==
  /\ Write(r) \/ Abort(r)
  /\ UNCHANGED <<active, login, token>>

(* delete_user: not of oneself.                                            *)
DeleteUserRead(r, t, u) ==
  /\ RequirePermission(t, UsersDelete)
  /\ CurrentUser(t) \notin {{}, {u}}
  /\ active[u]
  /\ Begin(r, [Idle EXCEPT !.pc = "soft_delete", !.user = u])
  /\ UNCHANGED <<accounts, catalog, links, history, active, login, token>>

SoftDeleteUser(r) ==
  /\ At(r, "soft_delete")
  /\ active' = [active EXCEPT ![req[r].user] = FALSE]
  /\ Finish(r)
  /\ UNCHANGED <<accounts, catalog, links, history, login, token>>

(* Time passes; a token whose time is over is of no further use.           *)
Tick ==
  /\ token' = [t \in Tokens |->
                 IF token[t].left > 1 THEN [token[t] EXCEPT !.left = @ - 1]
                 ELSE NoToken]
  /\ UNCHANGED <<rbacVars, active, login>>

(***************************************************************************)
(* History of a login, this step included: what was true at some time      *)
(* since it began, and which links and grants were there all the time.     *)
(***************************************************************************)
Observe ==
  seen' = [l \in Logins |->
    IF login'[l].pc = "idle" THEN Nothing
    ELSE [links  |-> seen[l].links \cup LinksOf(login[l].user)',
          names  |-> seen[l].names \cup
                     {<<i, role'[i]>> : i \in RoleIds},
          perms  |-> seen[l].perms \cup
                     {<<p, perm'[p]>> : p \in {q \in PermIds : perm'[q] # NoName}},
          grants |-> seen[l].grants \cup
                     {<<g[1], g[2], perm'[g[2]]>> : g \in
                        {h \in RoleIds \X PermIds : h[2] \in GrantsOf(h[1])'}},
          held   |-> {i \in LinksOf(login[l].user)' :
                        login[l].pc = "idle" \/ i \in seen[l].held},
          kept   |-> {h \in RoleIds \X PermIds :
                        /\ h[2] \in GrantsOf(h[1])'
                        /\ login[l].pc = "idle" \/ h \in seen[l].kept}]]

AccessNext ==
  /\ \/ \E l \in Logins : Enter(l) /\ UNCHANGED <<rbacVars, active>>
     \/ \E r \in Requests : AdminCall(r) \/ Background(r)
     \/ \E r \in Requests, t \in Tokens, u \in Users : DeleteUserRead(r, t, u)
     \/ \E r \in Requests : SoftDeleteUser(r)
     \/ Tick
  /\ Observe

AccessSpec ==
  AccessInit /\ [][AccessNext]_accessVars /\ WF_token(Tick)

-----------------------------------------------------------------------------
(* Properties.                                                             *)

Loaded == [pc : {"idle", "links", "roles", "grants", "perms", "issue"},
           user : Users \cup {NoUser}, again : BOOLEAN,
           links : SUBSET RoleIds, fresh : SUBSET RoleIds,
           name : [RoleIds -> Names \cup {NoName}],
           grants : [RoleIds -> SUBSET PermIds],
           perms : [RoleIds -> SUBSET (PermNames \cup {NoName})],
           known : [PermIds -> PermNames \cup {NoName}]]

Token == [user : Users \cup {NoUser}, roles : SUBSET Names,
          perms : SUBSET PermNames, left : 0 .. Lifetime]

(***************************************************************************)
(* Rbac's types and constraints, kept while logins read; a token names its *)
(* user exactly while it is valid and never carries a None for a role or a *)
(* permission that was deleted under the login.                            *)
(***************************************************************************)
AccessTypeOK ==
  /\ TypeOK
  /\ active \in [Users -> BOOLEAN]
  /\ login \in [Logins -> Loaded]
  /\ token \in [Tokens -> Token]
  /\ \A t \in Tokens : token[t].user \in Users <=> token[t].left > 0

(***************************************************************************)
(* A token gives no right that was gone before its login began: of every   *)
(* role in it the user had the link, and the role its name, at some time   *)
(* during the request; of every permission the role had the grant, of an   *)
(* id that had the name.  The SELECTs are no snapshot, so not all of it    *)
(* need be true at once: a seeded permission can be deleted under the      *)
(* login and its id drawn again by create_permission, and only for such an *)
(* id may the grant have been one of a permission with another name.       *)
(***************************************************************************)
GrantSeen(i, n, was) ==
  \E g \in was.grants : /\ g[1] = i
                        /\ <<g[2], n>> \in was.perms
                        /\ g[3] = n \/ g[2] <= Len(SeedPerms)

RightsObserved ==
  \A l \in Logins : LET s == login[l] IN
     s.pc = "issue" /\ NoName \notin RoleNamesIn(s) \cup PermNamesIn(s) =>
        /\ s.links \subseteq seen[l].links
        /\ \A i \in s.links :
             /\ <<i, s.name[i]>> \in seen[l].names
             /\ \A n \in s.perms[i] : GrantSeen(i, n, seen[l])

(***************************************************************************)
(* And it lacks none that was there all the time: a role the user was      *)
(* linked to throughout the login is in the token, with every permission   *)
(* it was granted throughout, whatever the two passes found changed around *)
(* them, and none of these is a None that would end the login.             *)
(***************************************************************************)
RightsComplete ==
  \A l \in Logins : LET s == login[l] IN
     s.pc = "issue" =>
        \A i \in seen[l].held :
          /\ i \in s.links /\ s.name[i] # NoName
          /\ \A p \in PermIds : <<i, p>> \in seen[l].kept =>
               perm[p] # NoName /\ perm[p] \in s.perms[i]

NamesHeldBy(u) == {role[i] : i \in LinksOf(u)}

(***************************************************************************)
(* create_access_token: roles "are refreshed on token renewal".  Once a    *)
(* user is for good without an admin role, the tokens that still pass the  *)
(* administrators' gate run out.                                           *)
(***************************************************************************)
DemotionTakesEffect ==
  \A u \in Users :
     <>[](NamesHeldBy(u) \cap AdminRoles = {}) =>
        <>[](\A t \in Tokens :
               token[t].user = u => ~RequireAnyRole(t, AdminRoles))

(***************************************************************************)
(* Once a user is soft-deleted, which no route undoes, the access tokens   *)
(* it has run out, and no login or refresh gives it new ones, although the *)
(* gates of the administration routes never look at is_active.             *)
(***************************************************************************)
DeletionTakesEffect ==
  \A u \in Users :
     <>[](~active[u]) => <>[](\A t \in Tokens : token[t].user # u)

=============================================================================
