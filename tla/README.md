# Verification of the RBAC backend

TLA+ models of the FastAPI service under `src/app`, the TLC configurations that
check them on small instances, and TLAPS proofs of their properties for every
value of the constants. Paths below are relative to `src/`.

## The system

A request is a coroutine. It gets a database session of its own from `get_db`
(`app/core/database.py:71`), runs one service function, and loses the processor
at every `await`. There is no lock, no `SELECT ... FOR UPDATE`, no version column
and no compare-and-set anywhere: every decision is taken on a row as it was read
some awaits earlier, every repository function commits by itself, and the
isolation level is the database's default, READ COMMITTED. What one test, with
one client and one request at a time, shows about a handler is therefore not
what holds of two of them. That is what the models are about.

| Component | State | Operations | What makes it correct |
|---|---|---|---|
| Refresh-token sessions: `features/auth/service.py` (login, refresh, logout, change password), `models/refresh_token.py` | `refresh_tokens` (jti, user, is_revoked), `users.password_hash` | mint on login, rotate on refresh, revoke on logout, revoke all on password change | a revoked token never works again; a rotation never leaves two usable tokens; exchanges of one token, tokens that survive a password change and tokens minted for a deleted user are bounded and explained |
| One-time passwords: `features/auth/service.py` (register, verify, resend, forgot), `models/email_otp.py` | `email_otps` (user, purpose, is_used, attempts, created_at, expires_at) | create, invalidate, guess, accept | guesses, acceptances, unused codes and sends are bounded; verification and reset tokens come from a code that was shown |
| Registration: `register_user`, `register_admin` | `users`, `user_roles` | create an account, give it a role, send a code | one account per address; an account without its role is explained; nobody becomes an administrator by a race |
| Role and permission administration: `features/admin` | `roles`, `permissions`, `user_roles`, `role_permissions`, the sequences behind their ids | create, rename, delete, assign, revoke | default roles survive, referential integrity, a revocation takes back what it read and nothing newer |
| Access tokens and gates: `core/auth`, `core/middleware/auth.py` | roles and permissions inside a 15-minute JWT | load, issue, decode, gate a route | a token carries rights its user had while it was issued, and they run out with it |
| User accounts: `features/users` | `users.is_active`, `deleted_at`, `name` | read, rename, list, soft delete | a deleted user gets nothing more |
| HTTP pipeline: `main.py`, `core/middleware` | order of the middleware stack | dispatch a request through it | gates find a payload, preflights are answered, responses carry their headers |
| Database engine: `core/database.py` | pool of connections, one transaction per session | check out, roll back, return | connections come back, nobody waits while holding one, every request is answered |
| E-mail delivery: `core/services` | none | await SendGrid | what a request holds while it waits |
| Settings, schemas, responses, errors, logging, migrations, unused tables | none that a request changes | | |

How they interact: everything goes through the tables. Registration and the OTP
handlers make an account *verified*, which login asks for. `verify_otp` with the
purpose `password_reset` gives the reset token that `change_password` needs.
`change_password` revokes the rows that login and refresh insert. The soft
delete sets `is_active`, which login, refresh and `forgot_password` read once.
Role administration changes what the next access token will carry, and the
access token decides who may administer roles. All of them share one pool.

Hard behaviours: interleaving of requests at every await; stale reads used
after an await; several commits in one handler, with a crash or a disconnect
between any two; limits that are counted and enforced in separate statements;
clock edges of expiry and resend window; rights loaded by several SELECTs; ids
the migrations took from under a sequence; an e-mail awaited with a connection
in hand. `PROJECT.json` lists each one, at its line, under `hazards`.

## Modules

| Module | Contents |
|---|---|
| `Sessions` | login, refresh, logout, change_password, delete_user over `users` and `refresh_tokens` |
| `SessionLedger` | what `Sessions` promises: a ledger of tokens that are opened, renewed a bounded number of times and revoked for good |
| `SessionsRefinement` | the refinement mapping from `Sessions` to `SessionLedger` |
| `Otp` | register's first code, resend_otp, forgot_password, verify_otp over `email_otps` |
| `Rbac` | both registrations and every administration route that writes, over `users`, `roles`, `permissions` and the two link tables |
| `AccessTokens` | extends `Rbac`: logins that load rights, tokens that run out, the gates, the soft delete |
| `Serving` | a request through the middleware stack, its gate, its transactions and the connection pool |
| `MCSessions`, `MCOtp`, `MCRbac`, `MCAccess` | symmetry sets, seeds, and what only TLC evaluates |
| `Budget` | lemmas about bounds of the form "produced plus still to be produced stays within n" |
| `SessionsProofs`, `LedgerProofs`, `OtpProofs`, `GuessProofs`, `RbacProofs`, `AccessProofs`, `ServingProofs` | the theorems and their inductive invariants |

`AccessTokens` composes with `Rbac`: its next-state relation runs `Rbac`'s
administration requests behind the gate, over the same tables that its logins
read. `Sessions`, `Otp` and `Serving` share no table column with it that both
sides write, and are models of their own.

### Requests and statements

Every module has a variable per column it needs and a record per request slot
(`req[r]`, `login[l]`). The field `pc` of the slot names the next statement to
execute, the other fields hold what the request has read: the ORM object
(`expire_on_commit` is off, so it is never read again), the rows a bulk UPDATE
has selected, the plain password it was given. In `Sessions`, `Otp`, `Rbac` and
`AccessTokens` one action is one statement of the code that touches the database:

* a SELECT and the checks that follow it are one action, at the SELECT;
* a one-row write and its COMMIT are one action, at the commit (nobody else
  sees the row before, and the value written was fixed by an earlier read);
* a bulk UPDATE and its COMMIT are two: the UPDATE fixes the rows
  (`RevokeAllExecute`, `InvalidateExecute`), the COMMIT changes them
  (`RevokeAllCommit`, `InvalidateCommit`), and rows inserted in between are
  missed;
* `Abort` ends a request before any of its statements: a database error, a client
  that goes away, a process that dies. `get_db` rolls back, so only committed
  statements remain. There is no memory outside the database that a crash loses.

A refusal that writes nothing and holds nothing (a wrong password, an unknown
address, a malformed JWT) is not a step. Where a refused request already holds
a slot (`RefreshCheckUser`, `CountResends`, `VerifyRefuse`), the refusal is.

Two row locks are abstracted away: a second bulk UPDATE would wait for the first
one to commit and then find its rows already revoked or used. The models let it
select them too and write the same value once more, which ends in the same table.

History variables (`chain`, `torn`, `fails`, `accepts`, `unanswered`, `origin`,
`collisions`, `seen`, the field `by` of an assignment, `passed` in `Serving`, and
`predates`/`overlaps` in a session slot) record what happened; no guard reads
them. `seen` has, for each login, the links, names and grants there were at some
time since it began, and those there were all the time. A deleted link row
stays in `Rbac` as history, not live.

### What each module leaves out, and how

`Sessions` has no expiry of refresh tokens: it only takes a token away, so every
behaviour with expiry is one of the model in which the client stopped using that
token.

`Otp` has a clock (`now`, `Tick`) because both the life of a code and the resend
window decide what the handlers do. Whether a shown code is right is a free
choice of `VerifyCompare`, so the model counts guesses and contains no codes.
`Endpoints` narrows what clients call, to keep an instance small; the proofs
hold for every subset. So does `Routes` in `Rbac`.

`Rbac` merges the SELECTs of one administration handler that can only refuse
(404, 409) into one action, at the last of them. If one of the earlier ones
would have let a request through that is refused at the last, the request is
refused at its write by a constraint instead, and changes as little. `UNIQUE`
and `FOREIGN KEY` constraints decide at the write: a write they refuse is a
server error. `InsertRole` and `InsertPermission` draw their id from the
sequence, which the rows of migration 006 have not moved because they name
their ids. Descriptions, and the resource and action of a permission, are not in
the model; that another permission has the same resource and action is the
choice `clash`. The secret of `register_admin` is taken as checked.

`AccessTokens` starts with registered, verified accounts that have the role of
their registration. A login or refresh runs the SELECT chain of
`get_user_by_email` or `get_user_by_id` and then once more that of
`get_user_roles_and_permissions`, in a session that does not load again what it
holds: the name, the grants and the permissions of a role stay as first loaded,
and so does a permission whose id comes up again with another name. A row deleted
between two SELECTs is loaded as a `None` and ends the login in an
`AttributeError`. Administration requests need a token with an
administrator's role, `delete_user` one with the permission `users:delete` and
an active account; a request passes its gate once and then goes on without it.
`Tick` takes one unit off every token.

`Serving` abstracts a handler to a number of transactions, the last of which may
be open while an e-mail is sent, and a request to its way through the layers: down
through `PassPlainLayer`, `PassCors`, `PassAuth`, to `Route`, the handler
(`Connect` to `MailReturns`), out of `get_db` (`LeaveRoute`) and up through
`Respond`. A connection is taken at the first statement of a transaction and
given back at COMMIT or when the session closes.

External behaviour taken as given, each from the library the requirements pin:

* SQLAlchemy keeps one object per row in a session and does not reload what it
  holds; a many-to-one whose row is gone is `None`; the DELETE of a row that is
  gone is a warning, the UPDATE of one a `StaleDataError`.
* FastAPI 0.111 leaves a dependency with `yield`, and so closes the session,
  before the response goes back through the middleware.
* Starlette's `add_middleware` puts a layer around the earlier ones, and runs
  the handler for `Exception` outside all of them.
* PostgreSQL does not return to a sequence what a refused INSERT has drawn.

## What is checked

Deadlock checking is on in every passing run. A request whose insert finds no
free identifier in a small instance can still abort, and an idle system can
accept a request.

### Sessions

Run `sessions` (`MCSessions.cfg`, 221 thousand states): one account, one
password, two requests at once, three refresh tokens. Two requests are what every
race of this code needs; three tokens are one and the two successors two requests
can obtain for it. The properties relate tokens of one user only and no statement
touches two users, so a second account only adds behaviours that commute.

* `NeverBothUsable`: a presented refresh token is revoked before its successor has
  a row. A crash between the two commits costs a session, never doubles it.
* `FanOutBounded`: one token is exchanged at most once per concurrent request, the
  exchanges under way included. (With one request at a time that is the rotation
  the README of the repository describes; with two it is two.)
* `SurvivorsExplained`: a usable token from before the last password change has
  one of three reasons: the change has not come to its second commit, it ended
  before it, or the token's request was in flight while the UPDATE ran.
* `LateTokensBounded`: a deleted user is given at most one more refresh token per
  request that was past the `is_active` check.
* `RevocationIsFinal`: no step, not one that works on a stale record, makes a
  revoked token live.
* `ImplementsLedger`: `Sessions` implements `SessionLedger`. Forget the requests,
  and the table is a ledger: a token is opened for a user with an identifier
  nobody had, or renews a *revoked* token of the same user, at most
  `Cardinality(Requests)` times, and revocation is final. That one formula holds
  the order of the two commits of a refresh, the ownership of the successor and
  the bound together, of every interleaving.

### One-time passwords

Run `otp` (616 thousand states): one account, two requests, two codes, a limit of
one attempt and one resend, and time to let a code expire and leave the window.
Run `otp_guesses`: three requests guess at one code that allows three attempts.
Run `otp_sends`: register, resend and forgot compete for a limit of codes.
Small limits reach the boundary soonest; the theorems below hold for every limit.

* `AcceptsBounded`: a code is accepted at most once per concurrent request.
* `OnlyByCode`: an account made by `register_user` becomes verified, and gets a
  reset token, only after a code sent to it (and for the reset token, sent for a
  reset) was accepted, whatever the two purposes and the requests do together.
* `GuessBudget`: how many wrong codes one row answers. `otp.attempts += 1` writes
  the value read plus one, so a request that read 0 long ago sets the counter back
  to 1 and gives the others their attempts again. The count is still finite: with
  k requests at once and limit m it is less than the number of ways to choose m
  out of m + k. The instance reaches 19 = C(6, 3) - 1 for k = m = 3; for the
  configured m = 5, two requests at once get 20 guesses instead of 5.
* `UnusedBounded`: at most as many codes of a user and purpose are unused at a
  time as requests are served.
* `SendsBounded`: a resend window holds at most `otp_max_resends` + k - 1 codes
  (with a limit of zero still k, for register asks for none).
* `ExpiryCutsOff`: `expires_at` is compared once, when the row is read. After its
  expiry a code is answered, right or wrong, only to the requests that had read it
  before, once to each: answers given and requests that hold the row are together
  never more than at the step before.
* `TypeOK` includes that the attempts column never exceeds its limit: the lost
  update makes it too small, never too large.

### Roles, permissions and registration

Run `rbac` (740 thousand states): one address, which a user and an administrator
may try to register at the same time, two requests of any route, the two roles a
registration gives as seeded rows, one id and two interchangeable names more, one
permission id, two rows of `user_roles`, one of `role_permissions`. One id above
the seeds and two names are enough for a role to be created, renamed, assigned
and deleted while another request holds it; two rows are enough to revoke an
assignment and give it again under a request that has read the first. The seeded
permissions, which nothing protects, have been deleted in this instance; `access`
has one.

* `TypeOK`: the constraints hold after every interleaving: no assignment or grant
  names a role, permission or user that is gone, and no two roles have one name.
* `DefaultRolesKept`: rename and delete check the name they read and write later.
  The seeded roles nevertheless keep rows and names, and no other role ever bears
  one of these names: a race of create, rename and delete does not shift them.
* `AdminsExplained`: whoever has the admin role was given it by an administrator,
  or registered as one. Two registrations of one address do not add up to an
  ordinary account with the other's role.
* `RolelessExplained`: an account without the role of its registration is still
  registering, stopped between its commits, or was stripped of it by an
  administrator.
* `CollisionsBounded`: creations that fail on a seeded id are at most as many as
  the seeds, whatever fails or aborts in between.
* `NewerAssignmentSurvives`: an assignment disappears only by the request that
  read that very row, or with its role.
* `DrawnIdsAreNew`: handlers check a role or permission by id, await, and write by
  id. The id `create_role` or `create_permission` draws is one that no request
  holds and no row names, so such a write never lands on a newcomer. The
  sequences start below the seeds. For roles that is harmless, because the seeded
  ones cannot be deleted; a seeded permission can be, and then its id comes again.

### Access tokens and gates

Run `access` (494 thousand states): an administrator and another account, one
administration request, one login or refresh, one token. One permission is seeded,
granted to administrators, and may be deleted; its id is then drawn again for the
permission that `delete_user` asks for, which nobody was granted. The SELECT chain
of the login meets every assignment, revocation, deletion and creation at every
point. `Lifetime` is one tick, and steps of requests take no time, so a token
outlives any number of them.

* `AccessTypeOK`: the tables' constraints hold while logins read, and no token
  carries the `None` of a row deleted under its login.
* `RightsObserved`: no right in a token was gone before its login began. Of every
  role in it the user had the link, and the role the name, at some time during
  the login; of every permission the role had the grant. Not all at one time: the
  SELECTs are no snapshot. One case is weaker than it should be: if a seeded
  permission is deleted between the SELECT of the grants and that of the
  permissions, and its id drawn again, the token gets a permission its role was
  never granted. This instance reaches that case, and with it `delete_user`.
* `RightsComplete`: no right is lost. A role the user was linked to from the
  beginning of the login to its end is in the token with every permission granted
  to it all that time, and none of them is a `None` that ends the login,
  although the second pass keeps the objects of the first.
* `DemotionTakesEffect` (liveness): if a user is for good without an
  administrator's role, the tokens that pass the administrators' gate run out for
  good, although gates never look at the tables.
* `DeletionTakesEffect` (liveness): once a user is soft-deleted, which no route
  undoes, its tokens run out, and no login or refresh, not one under way, gives
  it tokens for ever.

### Serving

Run `serving` (67 thousand states): two requests of every kind (a preflight from a
listed and from another origin, protected, public, one that sends an e-mail, health
check), up to two
transactions each, one connection, with and without CORS. One connection and two
requests are the smallest exhausted pool; the second transaction is what lets a
handler ask for a connection again.

* `ServingTypeOK`: the pool lends no more connections than it has.
* `ConnectionsReturned`: no request holds a connection after its route is left,
  whichever way the handler ended, and none holds one while waiting for one.
* `GateFindsPayload`: the fallback 401 of `_get_token_payload` is never reached.
* `PreflightAnswered`: with origins configured the list decides on every preflight:
  one from a listed origin is allowed, `CORSMiddleware` refuses one from another
  (400), and none is refused for want of a token. That rests on the order of the
  layers as built, which is the reverse of the one in the docstring of
  `create_app`.
* `BareResponsesExplained`: a response without the security headers and request
  id is a server error, a 401 of `AuthMiddleware` or a preflight's.
* `EveryRequestAnswered` (liveness): every request that sends no e-mail is
  answered, even if requests whose e-mail never ends hold all connections.

### Where the code and its text disagree

Five runs (`expect: violation`) each state one sentence of the repository and show
a shortest behaviour that breaks it; `findings` quotes them.

| Run | Property | What happens |
|---|---|---|
| `sessions_reauthentication` | `ReauthenticationForced` | a login or refresh under way inserts its token after a password change has revoked all |
| `sessions_rehash` | `OnlyChangeSetsPassword` | a login that upgrades a legacy hash writes the old password over a new one |
| `otp_answer` | `VerificationAnswered` | the e-mail verification commits and then ends in a `NameError` |
| `rbac_role_ids` | `RolesCanBeCreated` | the first `create_role` draws the id of a seeded role |
| `serving_headers` | `HeadersOnEveryResponse` | the 401 of `AuthMiddleware` has no security headers |

What the repository says of one request at a time (a token is rotated once, a code
is accepted once, five guesses, three sends) is the case of one request slot of
`FanOutBounded`, `AcceptsBounded`, `GuessBudget` and `SendsBounded`, which say
what is left of it when several requests run at once.

### Fairness

`AccessSpec` assumes that time passes, `WF(Tick)`, and nothing of any
client or handler: tokens run out by the clock alone. `ServingSpec` assumes
`WF(Serve(r))` for each request: the event loop resumes a coroutine that can go on,
the database answers or fails, and `pool_timeout` (`settings.py`) expires, which
is why a request at its first statement always has a step to take. It does *not*
assume that `MailReturns` ever happens: `send_otp_email` sets no time limit, and
a client that arrives is not obliged to. No other module assumes fairness: their
properties are safety, and their handlers retry nothing.

## What is proved

All proofs are for any sets of users, tokens, rows, names and passwords (finite or
not), any finite set of request slots where a bound counts them
(`RequestsFinite`), any limits, lives and windows that are not negative
(`SettingsOK`; one of zero refuses or expires everything at once), any pool
(`PoolOK`) and any seeded roles, permissions and grants that name each other
properly (`SeedsOK`), any accounts, one per user, each registered for one of the
two roles (`AccountsOK`), and any token life (`LifetimeOK`); the null values are
assumed outside their sets (`NullsAreOutside`).

`SessionsProofs` proves the properties of the run `sessions` but the refinement.
`TypeInv` adds to `TypeOK` that what a request holds has a row. On top of it, one
inductive invariant for each question:

* `ExchangeInv` (theorems `HandOver`, `FanOut`): the successors of a token and the
  requests that hold its record and have not inserted yet are together no more
  than the slots, and a token is revoked before its holders insert. A bound on the
  successors alone would not be inductive: it says nothing of those still to come.
* `SurvivorInv` (`Survivors`): every stale token *and every request that still may
  insert one* is caught by a pending revocation or has its excuse.
* `LateInv` (`LateTokensCapped`): late tokens and admitted requests together are no
  more than the slots, and an active user has no late token.
* `Revocation` is an action property and needs only `TypeInv`.

`LedgerProofs` proves the refinement (`LedgerImplemented`): `TypeInv` and
`ExchangeInv` give the bound on renewals, and `OwnersAgree` is added, that a
request holds the record of a token of the user it will insert for. With these
every step of `Sessions` is an `Open`, a `Renew`, a `Revoke` or a stutter.

`OtpProofs` proves all properties of the runs `otp` and `otp_sends`. `TypeInv` adds
that rows belong to registered users. `Flow` lists the ways a step can move a slot
and `RowsKept` what it can do to a row; the invariants rest on these two:

* `AcceptsInv` (`Accepts`): acceptances of a row and requests about to accept it
  are together no more than the slots, and an unused row has none accepted.
* `Expiry` is an action property and needs only `TypeInv`: nobody joins the holders
  of an expired code (`NoneJoins`), and who answers is a holder no longer.
* `SendsInv` (`Sends`): codes in the window and requests past the check are within
  the limit; whoever passes leaves one place of the limit free.
* `UnusedInv` (`Unused`): for *every* set S of pending UPDATEs, the codes that would
  stay if exactly those committed, and the requests in S or at their insert, are no
  more than the slots. The quantifier over S is needed: two pending UPDATEs may
  have selected the same rows, so counting codes and requests alone is not inductive.
* `CodeInv` (`ByCode`): a request past `mark_otp_used` has had a code of its own
  user and purpose accepted.

`GuessProofs` proves the one property of `otp_guesses`, `GuessBudget` (theorem
`Guesses`), which no count of guesses alone can: a wrong code may lower the
counter. The value a slot's next write would start from is its worth for the row
(`Worth`). The profile of a row counts, for each value below the limit, the slots
worth no more than that. A wrong code takes its writer out of one of these counts
and changes none for a smaller value, so it lowers the profile in lexicographic
order; no other step raises it. `GuessInv` says that a row has answered no more
wrong codes than there are profiles above its present one. Profiles only climb from
value to value, and each can be read as a set of m out of m + k places
(`LaddersCounted`), which gives the bound.

`RbacProofs` proves all properties of the run `rbac`. `RbacInv` says of every slot
what its request has made sure of and no other request can undo (`Sure`: a role
about to be renamed or deleted is not a seeded one; a registration that is to
give a role has found the seeded row of that name), of the roles that ids above
the sequence are free or seeded (`RoleInv`, which bounds the collisions), and of
the link rows that one inserted by a registration is for the role the account
was registered for (`UserRoleInv`). That seeded rows never move is what makes a
role found by name still the right one at the INSERT. `Roleless` is then an
induction of its own over these. `RefInv` says that whatever a request or a link
row names, by id, was already given out (`RoleGiven`, `PermGiven`: seeded or below
the sequence); an id the sequence draws next is not, or was seeded, and seeded
roles are there already, so the INSERT fails. That is `DrawnIdsAreNew` (`IdsAreNew`).

`AccessProofs` proves all safety properties of the run `access`, and that two
invariants of `Rbac` hold beside logins and deletions too (`TablesStay`).
`AccessInv` adds to `RbacInv`, which every step of the composition keeps:

* `Backed`: whatever the session of a login holds, at any of its statements, is in
  `seen`; what only holds of a finished session is not inductive.
* `NamedOnce`: an id that was not seeded has borne one name since the login began,
  and stays below the sequence. With it the name loaded for a permission is the one
  the grant was for (`Rights`), except for seeded ids, as in `RightsObserved`.
* `TokenInv`: a token names its user exactly while it is valid, and has no `None`
  (`AccessTypes`).

`CompleteInv`, an induction over these, says how far a login has come with each
role and grant that was there all the time: it holds it, or the SELECT that will
load it is still to come (`RightsWhole`).

`ServingProofs` proves all safety properties of the run `serving`. `ServingInv`
states for each place on the way what a request there carries (`DownOK`, `InsideOK`,
`UpOK`: below which layer it has a payload, through which layers its response has
come), and counts the borrowers of the pool (`PoolInv`). A step changes one slot
(`OneSlot`), so each place is one lemma.

`Budget` holds the counting step the session and code proofs share.

Every invariant and every action property of a passing run is thereby a theorem,
and so is the refinement. Only model-checked are the three liveness properties
(`DemotionTakesEffect`, `DeletionTakesEffect`, `EveryRequestAnswered`), which rest
on fairness and are out of the prover's reach, and the runs of disagreements, where
a counterexample is the proof.

## Not modelled

* Renaming a user and listing users, roles and permissions: no other part reads
  what the one writes, and the others write nothing.
* The gates no route uses (`require_role`, `require_any_permission`,
  `require_all_permissions`, `get_current_admin_user`).
* The cryptography of passwords, codes and JWTs and the encoding of a token: a
  library's; the models take a verified token or hash as given.
* The text of e-mails, the shapes of requests and responses, loading of settings,
  logging: they hold no state a request changes. Running and reverting migrations.
* `UserSession` and `AuditLog`: tables that no code writes or reads.
* The rewriting of `DATABASE_URL` and `pool_recycle`.

## Plan

Done: `Sessions`, `Otp`, `Rbac` (with registration), `AccessTokens`, `Serving` and
`SessionLedger`, with the proofs above. Left: an `AuthFlow` composition of `Sessions`
and `Otp` over one users table, with the reset token as the link from `verify_otp`
to `change_password`.
