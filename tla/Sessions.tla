------------------------------ MODULE Sessions ------------------------------
(***************************************************************************)
(* Refresh-token sessions of the RBAC backend: login, refresh, logout,     *)
(* change_password and the soft delete of a user.                          *)
(*                                                                         *)
(* A request is a coroutine with a database session of its own; it loses   *)
(* the processor at every `await db.execute(...)` and `await               *)
(* db.commit()`.  Each such statement is one action here, so the actions   *)
(* of different requests interleave as the event loop (or several worker   *)
(* processes) may interleave them, under READ COMMITTED.  What a request   *)
(* has read stays in its slot: the ORM objects are not expired on commit   *)
(* and are used after later awaits.                                        *)
(*                                                                         *)
(* A one-row write and its COMMIT are one action, at the commit.  The bulk *)
(* UPDATE of revoke_all_user_tokens is two: its statement fixes the rows   *)
(* it will change, its COMMIT makes the change visible.                    *)
(***************************************************************************)
EXTENDS Naturals, FiniteSets

CONSTANTS
  Users,       \* rows of the users table (registered accounts)
  Passwords,   \* plain-text passwords a user may choose
  Requests,    \* slots for requests being served at the same time
  Jtis,        \* refresh-token identifiers uuid4 may draw
  NoUser, NoPassword, NoJti

ASSUME RequestsFinite == IsFiniteSet(Requests)

ASSUME NullsAreOutside ==
  NoUser \notin Users /\ NoPassword \notin Passwords /\ NoJti \notin Jtis

VARIABLES
  \* table users
  password,    \* the password whose hash is in users.password_hash
  legacy,      \* that hash is PBKDF2, which needs_rehash reports
  verified,    \* users.is_email_verified
  active,      \* users.is_active; deleted_at is set exactly when it is FALSE
  \* table refresh_tokens
  status,      \* "absent" (no row), "live" or "revoked" (is_revoked)
  owner,       \* refresh_tokens.user_id
  \* requests in progress
  req,         \* per slot: next statement and what the request has read
  \* history, read by no action of the program
  chain,       \* per token: where it comes from, see Unissued
  torn         \* users of whom a change_password stopped half-way

users   == <<password, legacy, verified, active>>
tokens  == <<status, owner>>
history == <<chain, torn>>
vars    == <<users, tokens, req, history>>

(***************************************************************************)
(* A slot holds the next statement of its request (pc), the account it     *)
(* acts for, the refresh token it has read, the password it was given and  *)
(* the rows a bulk UPDATE has selected.  predates and overlaps are         *)
(* history: the login this request's credentials go back to came before    *)
(* the last password change; the request, or one its token descends from,  *)
(* was in flight while a revoke_all_user_tokens ran.                       *)
(***************************************************************************)
Idle == [pc |-> "idle", user |-> NoUser, token |-> NoJti, pw |-> NoPassword,
         batch |-> {}, predates |-> FALSE, overlaps |-> FALSE]

(* The requests that may still insert a refresh token.                     *)
Issuing == {"rehash", "check_user", "revoke", "insert"}

PCs == Issuing \cup {"idle", "logout", "set_password", "revoke_all",
                     "commit_revoke", "soft_delete"}

(***************************************************************************)
(* History of a token: the token it was exchanged for, the two marks its   *)
(* request had, and whether its owner was already deactivated when its row *)
(* was inserted.                                                           *)
(***************************************************************************)
Unissued == [parent |-> NoJti, predates |-> FALSE, overlaps |-> FALSE,
             late |-> FALSE]

Init ==
  /\ password \in [Users -> Passwords]
  /\ legacy \in [Users -> BOOLEAN]
  /\ verified \in [Users -> BOOLEAN]
  /\ active = [u \in Users |-> TRUE]
  /\ status = [j \in Jtis |-> "absent"]
  /\ owner = [j \in Jtis |-> NoUser]
  /\ req = [r \in Requests |-> Idle]
  /\ chain = [j \in Jtis |-> Unissued]
  /\ torn = {}

InFlight(u) == {r \in Requests : req[r].pc \in Issuing /\ req[r].user = u}

(* Between the bulk UPDATE of u's tokens and its COMMIT.                   *)
BeingRevoked(u) ==
  \E r \in Requests : req[r].pc = "commit_revoke" /\ req[r].user = u

Finish(r) == req' = [req EXCEPT ![r] = Idle]

-----------------------------------------------------------------------------
(* The repository functions on refresh_tokens.                             *)

\* Mutant: the query has lost its is_revoked filter.
AnyRefreshTokenByJti(j) == status[j] # "absent"

GetRefreshTokenByJti(j) == status[j] = "live"

\* Mutant: the flag is set on the object, and the commit is missing.
ForgetRevokeRefreshToken(j) == UNCHANGED status

RevokeRefreshToken(j) == status' = [status EXCEPT ![j] = "revoked"]

\* Mutant: the bulk UPDATE leaves out tokens that a refresh has issued.
LoginTokensOf(u) ==
  {j \in Jtis : status[j] = "live" /\ owner[j] = u /\ chain[j].parent = NoJti}

LiveTokensOf(u) == {j \in Jtis : status[j] = "live" /\ owner[j] = u}

\* Mutant: an identifier is drawn again once its token is revoked.
RecycledJti(j) == status[j] # "live"

FreshJti(j) == status[j] = "absent"

-----------------------------------------------------------------------------
(* login_user.                                                             *)

(***************************************************************************)
(* get_user_by_email, and the checks up to is_active, on the row as read.  *)
(* A request with a wrong password writes nothing and is not a step.       *)
(***************************************************************************)
LoginRead(r, u) ==
  /\ req[r].pc = "idle"
  /\ verified[u]
  /\ active[u]
  /\ req' = [req EXCEPT ![r] =
               [Idle EXCEPT !.pc = IF legacy[u] THEN "rehash" ELSE "insert",
                            !.user = u, !.pw = password[u]]]
  /\ UNCHANGED <<users, tokens, history>>

(***************************************************************************)
(* The presented password is hashed again, with Argon2, and written over   *)
(* whatever password_hash holds by now.                                    *)
(***************************************************************************)
LoginRehash(r) ==
  /\ req[r].pc = "rehash"
  /\ password' = [password EXCEPT ![req[r].user] = req[r].pw]
  /\ legacy' = [legacy EXCEPT ![req[r].user] = FALSE]
  /\ req' = [req EXCEPT ![r].pc = "insert"]
  /\ UNCHANGED <<verified, active, tokens, history>>

\* Mutant: the new row is inserted without its user.
InsertOwnerless(r, j) ==
  /\ req[r].pc = "insert"
  /\ FreshJti(j)
  /\ status' = [status EXCEPT ![j] = "live"]
  /\ chain' = [chain EXCEPT ![j].parent = req[r].token]
  /\ Finish(r)
  /\ UNCHANGED <<users, owner, torn>>

(***************************************************************************)
(* create_refresh_token_record, the last write of a login and of a         *)
(* refresh.                                                                *)
(***************************************************************************)
CreateRefreshTokenRecord(r, j) ==
  /\ req[r].pc = "insert"
  /\ FreshJti(j)
  /\ status' = [status EXCEPT ![j] = "live"]
  /\ owner' = [owner EXCEPT ![j] = req[r].user]
  /\ chain' = [chain EXCEPT ![j] =
                 [parent |-> req[r].token, predates |-> req[r].predates,
                  overlaps |-> req[r].overlaps,
                  late |-> ~active[req[r].user]]]
  /\ Finish(r)
  /\ UNCHANGED <<users, torn>>

-----------------------------------------------------------------------------
(* refresh_tokens.                                                         *)

(* The token record is read; the JWT names its owner in `sub`.             *)
RefreshRead(r, j) ==
  /\ req[r].pc = "idle"
  /\ GetRefreshTokenByJti(j)
  /\ req' = [req EXCEPT ![r] =
               [Idle EXCEPT !.pc = "check_user", !.user = owner[j],
                  !.token = j, !.predates = chain[j].predates,
                  !.overlaps = chain[j].overlaps \/ BeingRevoked(owner[j])]]
  /\ UNCHANGED <<users, tokens, history>>

\* Mutant: a refresh does not look at is_active.
AnyUserMayRefresh(u) == TRUE

MayRefresh(u) == active[u]

(* The user is read; a deactivated one is refused.                         *)
RefreshCheckUser(r) ==
  /\ req[r].pc = "check_user"
  /\ IF MayRefresh(req[r].user)
     THEN req' = [req EXCEPT ![r].pc = "revoke"]
     ELSE Finish(r)
  /\ UNCHANGED <<users, tokens, history>>

(***************************************************************************)
(* The record read at the start is marked revoked, whatever has become of  *)
(* its row; this commit and the one of the new record are separate.        *)
(***************************************************************************)
RefreshRevoke(r) ==
  /\ req[r].pc = "revoke"
  /\ RevokeRefreshToken(req[r].token)
  /\ req' = [req EXCEPT ![r].pc = "insert"]
  /\ UNCHANGED <<users, owner, history>>

-----------------------------------------------------------------------------
(* logout_user: a token that is not live changes nothing.                  *)

LogoutRead(r, j) ==
  /\ req[r].pc = "idle"
  /\ GetRefreshTokenByJti(j)
  /\ req' = [req EXCEPT ![r] = [Idle EXCEPT !.pc = "logout", !.token = j]]
  /\ UNCHANGED <<users, tokens, history>>

LogoutRevoke(r) ==
  /\ req[r].pc = "logout"
  /\ RevokeRefreshToken(req[r].token)
  /\ Finish(r)
  /\ UNCHANGED <<users, owner, history>>

-----------------------------------------------------------------------------
(* change_password, for the bearer of a password-reset token.              *)

ChangeRead(r, u, p) ==
  /\ req[r].pc = "idle"
  /\ req' = [req EXCEPT ![r] =
               [Idle EXCEPT !.pc = "set_password", !.user = u, !.pw = p]]
  /\ UNCHANGED <<users, tokens, history>>

(* update_user_password.  From here on every session of u is out of date.  *)
SetPassword(r) ==
  LET u == req[r].user IN
  /\ req[r].pc = "set_password"
  /\ password' = [password EXCEPT ![u] = req[r].pw]
  /\ legacy' = [legacy EXCEPT ![u] = FALSE]
  /\ req' = [q \in Requests |->
               IF q = r THEN [req[q] EXCEPT !.pc = "revoke_all"]
               ELSE IF q \in InFlight(u)
                    THEN [req[q] EXCEPT !.predates = TRUE]
                    ELSE req[q]]
  /\ chain' = [j \in Jtis |->
                 IF j \in LiveTokensOf(u)
                 THEN [chain[j] EXCEPT !.predates = TRUE]
                 ELSE chain[j]]
  /\ UNCHANGED <<verified, active, tokens, torn>>

(* revoke_all_user_tokens: the UPDATE selects the tokens live just now.    *)
RevokeAllExecute(r) ==
  LET u == req[r].user IN
  /\ req[r].pc = "revoke_all"
  /\ req' = [q \in Requests |->
               IF q = r
               THEN [req[q] EXCEPT !.pc = "commit_revoke",
                                   !.batch = LiveTokensOf(u)]
               ELSE IF q \in InFlight(u)
                    THEN [req[q] EXCEPT !.overlaps = TRUE]
                    ELSE req[q]]
  /\ UNCHANGED <<users, tokens, history>>

RevokeAllCommit(r) ==
  /\ req[r].pc = "commit_revoke"
  /\ status' = [j \in Jtis |->
                  IF j \in req[r].batch THEN "revoked" ELSE status[j]]
  /\ Finish(r)
  /\ UNCHANGED <<users, owner, history>>

-----------------------------------------------------------------------------
(* delete_user, asked for by some other, administrating user.              *)

DeleteRead(r, u) ==
  /\ req[r].pc = "idle"
  /\ active[u]
  /\ req' = [req EXCEPT ![r] = [Idle EXCEPT !.pc = "soft_delete", !.user = u]]
  /\ UNCHANGED <<users, tokens, history>>

SoftDeleteUser(r) ==
  /\ req[r].pc = "soft_delete"
  /\ active' = [active EXCEPT ![req[r].user] = FALSE]
  /\ Finish(r)
  /\ UNCHANGED <<password, legacy, verified, tokens, history>>

-----------------------------------------------------------------------------
(***************************************************************************)
(* A request ends early at any await: the database fails, the client goes  *)
(* away, the process dies.  get_db rolls back what is not committed.       *)
(***************************************************************************)
Abort(r) ==
  /\ req[r].pc # "idle"
  /\ torn' = IF req[r].pc \in {"revoke_all", "commit_revoke"}
             THEN torn \cup {req[r].user} ELSE torn
  /\ Finish(r)
  /\ UNCHANGED <<users, tokens, chain>>

(* verify_user_email, called by the OTP handlers, which Otp models.        *)
VerifyUserEmail(u) ==
  /\ verified' = [verified EXCEPT ![u] = TRUE]
  /\ UNCHANGED <<password, legacy, active, tokens, req, history>>

Login(r) ==
  \/ \E u \in Users : LoginRead(r, u)
  \/ LoginRehash(r)
  \/ \E j \in Jtis : CreateRefreshTokenRecord(r, j)

Refresh(r) ==
  \/ \E j \in Jtis : RefreshRead(r, j)
  \/ RefreshCheckUser(r)
  \/ RefreshRevoke(r)

Logout(r) ==
  \/ \E j \in Jtis : LogoutRead(r, j)
  \/ LogoutRevoke(r)

ChangePassword(r) ==
  \/ \E u \in Users, p \in Passwords : ChangeRead(r, u, p)
  \/ SetPassword(r)
  \/ RevokeAllExecute(r)
  \/ RevokeAllCommit(r)

DeleteUser(r) ==
  \/ \E u \in Users : DeleteRead(r, u)
  \/ SoftDeleteUser(r)

Next ==
  \/ \E r \in Requests : \/ Login(r)
                         \/ Refresh(r)
                         \/ Logout(r)
                         \/ ChangePassword(r)
                         \/ DeleteUser(r)
                         \/ Abort(r)
  \/ \E u \in Users : VerifyUserEmail(u)

Spec == Init /\ [][Next]_vars

-----------------------------------------------------------------------------
(* Properties.                                                             *)

Slot == [pc : PCs, user : Users \cup {NoUser}, token : Jtis \cup {NoJti},
         pw : Passwords \cup {NoPassword}, batch : SUBSET Jtis,
         predates : BOOLEAN, overlaps : BOOLEAN]

Origin == [parent : Jtis \cup {NoJti}, predates : BOOLEAN,
           overlaps : BOOLEAN, late : BOOLEAN]

(* A request past its first read acts for a user, unless it is a logout,   *)
(* and holds the token or the password its next statements write.          *)
SlotOK(s) ==
  /\ s.pc \notin {"idle", "logout"} => s.user \in Users
  /\ s.pc \in {"check_user", "revoke", "logout"} => s.token \in Jtis
  /\ s.pc \in {"rehash", "set_password"} => s.pw \in Passwords
  /\ s.pc = "rehash" => s.token = NoJti

(***************************************************************************)
(* Types of the tables and the slots.  Every refresh token that has a row  *)
(* belongs to a user (the column is NOT NULL), and no request reaches a    *)
(* write without the value it writes.                                      *)
(***************************************************************************)
TypeOK ==
  /\ password \in [Users -> Passwords]
  /\ legacy \in [Users -> BOOLEAN]
  /\ verified \in [Users -> BOOLEAN]
  /\ active \in [Users -> BOOLEAN]
  /\ status \in [Jtis -> {"absent", "live", "revoked"}]
  /\ owner \in [Jtis -> Users \cup {NoUser}]
  /\ \A j \in Jtis : status[j] # "absent" => owner[j] \in Users
  /\ req \in [Requests -> Slot]
  /\ \A r \in Requests : SlotOK(req[r])
  /\ chain \in [Jtis -> Origin]
  /\ torn \in SUBSET Users

Children(j) == {k \in Jtis : chain[k].parent = j}

(***************************************************************************)
(* Rotation hands over: the refresh token that was presented is revoked    *)
(* before its successor has a row, so a crash between the two commits      *)
(* loses the session and never leaves both tokens usable                   *)
(* (refresh_tokens commits the revocation first).                          *)
(***************************************************************************)
NeverBothUsable ==
  \A k \in Jtis : chain[k].parent # NoJti => status[chain[k].parent] = "revoked"

(* The statements of a refresh after it has read the record.               *)
Rotating == {"check_user", "revoke", "insert"}

(* The refreshes that have read j's record and have not inserted yet.      *)
Holders(j) ==
  {r \in Requests : req[r].pc \in Rotating /\ req[r].token = j}

(***************************************************************************)
(* One refresh token is exchanged at most as often as there are requests   *)
(* in flight at once, exchanges under way included: each of them may have  *)
(* read the record before the first revocation committed, and after it     *)
(* nobody gets in.  README.md calls it rotation, one successor for one     *)
(* token; that is the bound for one request at a time.                     *)
(***************************************************************************)
FanOutBounded ==
  \A j \in Jtis :
     Cardinality(Children(j)) + Cardinality(Holders(j)) <= Cardinality(Requests)

ChangePending(u) ==
  \E r \in Requests : /\ req[r].pc \in {"revoke_all", "commit_revoke"}
                      /\ req[r].user = u

(***************************************************************************)
(* A usable refresh token that goes back to a login before the last        *)
(* password change has one of three excuses: change_password has not come  *)
(* to the commit of its revoke_all, or stopped before it, or the token     *)
(* descends from a login or refresh in flight while a revoke_all ran.      *)
(***************************************************************************)
SurvivorsExplained ==
  \A j \in Jtis :
     status[j] = "live" /\ chain[j].predates =>
        \/ ChangePending(owner[j])
        \/ owner[j] \in torn
        \/ chain[j].overlaps

LateTokens(u) == {j \in Jtis : chain[j].late /\ owner[j] = u}

(***************************************************************************)
(* Soft delete revokes no token and stops no request in flight; the tokens *)
(* issued for a user already deactivated are still no more than the        *)
(* requests that were past the is_active check: refresh lets no later one  *)
(* in, so the session cannot be kept alive.                                *)
(***************************************************************************)
LateTokensBounded ==
  \A u \in Users : Cardinality(LateTokens(u)) <= Cardinality(Requests)

(***************************************************************************)
(* A revoked refresh token stays revoked: no step of any request, not one  *)
(* working on a record it read earlier, brings it back.                    *)
(***************************************************************************)
RevocationIsFinal ==
  [][\A j \in Jtis : status[j] = "revoked" => status'[j] = "revoked"]_vars

-----------------------------------------------------------------------------
(* What the repository says and the program does not keep.                 *)

(***************************************************************************)
(* change_password: "Revoking all sessions forces re-authentication on all *)
(* devices after a password change."  Here of changes that ran to their    *)
(* end: a token from before is not usable.                                 *)
(***************************************************************************)
ReauthenticationForced ==
  \A j \in Jtis :
     status[j] = "live" /\ chain[j].predates =>
        ChangePending(owner[j]) \/ owner[j] \in torn

(***************************************************************************)
(* password.py and login_user: a rehash upgrades the scheme of the hash.   *)
(* The password itself changes only by a change_password.                  *)
(***************************************************************************)
OnlyChangeSetsPassword ==
  [][\A u \in Users : password'[u] # password[u] =>
        \E r \in Requests : req[r].pc = "set_password" /\ req[r].user = u]_vars

=============================================================================
