# OpenKey server: TLA+ specifications

The OpenKey server is a FastAPI application over PostgreSQL. It stores the
ciphertext of password vaults, lets several devices of an account synchronise
them, and keeps accounts, refresh tokens, organisations and shares. All of its
state that survives a request is in the database; every request is one
SQLAlchemy session and one transaction at READ COMMITTED (`app/db/session.py`),
and many requests run at once. The specifications here are about what those
requests do to each other.

## Inventory

| Component | State | Operations | Hard behaviour | Modelled in |
|---|---|---|---|---|
| Personal vault: sync (`api/sync.py`) | `collections`, `entries`, `attachments` rows: `revision`, `is_deleted`, `updated_at`, content; the cursor each client keeps | `POST /sync`: bulk select, last-write-wins upsert, flush, pull since the cursor, new cursor | decisions about rows that change before the flush; column-wise UPDATEs; rows that commit behind a cursor; lost replies; lock waits; overflow | `VaultSync`, abstract `VaultStore` |
| Personal vault: REST (`api/collections.py`, `entries.py`, `attachments.py`) | the same rows | create, patch, soft delete of one row | races with sync; unique violations | `VaultSync` |
| Accounts and sessions (`services/auth_service.py`, `api/auth.py`, `api/deps.py`) | `users` row, `refresh_tokens` rows | register, login, refresh with rotation and reuse wipe, logout, rekey, delete | concurrent refreshes, wipes missing tokens being inserted, merged rekeys, deadlocks, cascades | `AuthSessions` |
| Organisation membership (`api/orgs.py` 1-489) | `orgs`, `org_members` | create, invite, accept, change role, remove, revoke, leave | checks of a role or a status that changes before the commit; duplicate invitations | `OrgMembership` |
| Organisation content (`api/orgs.py` 490-798) | `org_collections`, `org_entries` | create, patch, soft delete | several members write one row; a membership or a collection that goes between its check and the commit | `OrgContent`, on top of `OrgMembership` |
| Shares (`api/shares.py`), and the deletion of accounts (`auth_service.py` 205-228) as far as it touches them | `shares`; who has an account | create, accept, revoke; delete an account | accept against revoke; accounts that go, and addresses that come back, between a look-up and the commit | `Shares` |
| Rate limiter (`rate_limit.py`) | per-process map from client and path to recent hits | `check` | window boundary, growth of the map | `RateLimiter` |
| Migrations and startup (`db/migrate.py`, `alembic/`, the lifespan of `main.py`) | schema, `alembic_version` | `run_migrations` in every process that starts | databases older than the revisions or wrongly stamped; a stop between two transactions; several processes at once | `Startup` |
| Configuration (`config.py`), normalisation (`schemas/vault_ids.py`) | none | validation | none | not modelled |

Components interact through rows of the database only: deleting an account
cascades to its vault, tokens, organisations and shares, and removes its
memberships; every other request first reads its `users` row
(`get_current_user`). The rate limiter stands in front of four `/auth` routes.

What makes each correct:

* vault: a push is last-write-wins by revision, takes effect as a whole or not at
  all, is answered item by item, may be sent twice; a device that keeps pulling
  sees every change, deletions included;
* sessions: rotation is one for one, a revoked token is never exchanged again, a
  wipe or a rekey ends the other sessions, no token outlives its account, the
  stored salt, hash and wrapped key belong together;
* membership: one owner, who is always active; nobody gets a role or comes back
  without somebody entitled to it having said so; one row per person;
* content: changed by members only, entries only in collections that exist, a
  deletion not undone by an overlapping edit;
* shares: addressed to one person for good, accepted by that person and revoked by
  the owner only; an account takes its shares with it;
* startup: wherever a start is cut off and whichever overlap, nobody serves an
  incomplete schema, every process serves in the end, and no start takes anything
  from those that serve already. Two kinds of wrongly stamped databases, which the
  recovery does not reach, are the exceptions;
* rate limiter: never more than the limit in any window, never a refusal below
  it, bounded memory.

## Modelling decisions

* **A request is a sequence of statements.** Each action is one statement (or the
  in-memory work between two), with the autoflush that precedes it. A plain
  select sees what is committed and the request's own writes. A write waits for
  the row locks of others and keeps its own to the commit.
* **An UPDATE writes the columns the session changed** against what it had read,
  and the identity map never refreshes a loaded object (SQLAlchemy's unit of
  work). `Column`, `Merged` and `Object` say this; they are the reason why
  overlapping requests mix.
* **The reply follows the commit**, as `get_db` runs to its end before the response
  is sent. (Newer FastAPI releases than the minimum in `requirements.txt` can run it after the response;
  the reply then promises something that is not yet committed.)
* **Contents are opaque.** `val` stands for every column but `revision` and
  `is_deleted`, references between rows included. The check that an entry's
  collection exists is therefore among the reasons of `Abort`.
* **One clock** gives the database's `now()` (start of the transaction) and the
  application's `now`, with distinct readings.
* A flush takes the row locks of one table in one step; the lists of one push name
  each uuid once; a device has one sync under way.
* **Rights are judged over the time of a request.** A handler checks memberships,
  collections and statuses once and writes later. What the code promises is that
  each check held at *some* moment of the request; `witnessed` (`OrgContent`) and
  `known` (`Shares`, `AuthSessions`) are histories kept for the properties only.
* **A schema is the set of features that tell databases apart**: the tables in four
  groups, three late columns as one, the indexes of revision 004, the two wide types
  of 005. Each revision chain, each repair, each `create_all` and each stamp is one
  transaction, begun with the read it depends on. A revision fails if what it
  creates is there, or if a table it refers to is not (`Refers`).
* In `AuthSessions` a token is a value that is issued once, an auth_hash is the pair
  of password and salt it was derived from, and a client that sends no new salt in
  a rekey derived the new hash with the old one.

## Modules

* `VaultData` - versions, bodies of requests, and how a body changes a version.
* `VaultStore` - what the vault promises: a map from uuids to versions, one atomic
  action per request.
* `VaultSync` - the vault as served. `db` is the committed state; for each request
  `pc`, `job` (what it was asked and its two stamps), `ses` (the session: rows as
  loaded, rows in memory, rows locked, steps left) and `rsp` (the reply so far);
  for each device `cursor` and `told` (what replies have shown it). `Load` is a
  bulk select with the upserts after it, `Flush` the INSERTs and UPDATEs, `Pull`
  and `Top` the selects of changes and of the newest stamp, `EditRow` a REST
  handler; `Reject`, `StatementError` and `Abort` are the error paths, `Lose` a
  reply that does not arrive.
* `AuthSessions` - the account row, the token rows with their lineage (`from`,
  `root`), and requests as statements; `Clash`, `Wants` and `Blocks` are the row
  locks, `Victim` the deadlock detector.
* `OrgMembership` - one organisation: `org` (its owner), `members` (rows by id),
  `registered` (the people with an account), and requests as statements.
  `CheckActor` reads the caller's membership, `ReadTarget` and `ReadInvited` the row
  in question, with every check the handler makes on it; `Flush` is the INSERT or
  UPDATE, which waits for row locks and unique keys, `Commit` merges the changed
  columns into the row as it is then.
* `OrgContent` - the rows of shared collections and entries: the collection an entry
  is in, and whether the row is deleted. EXTENDS `OrgMembership`: its next-state
  relation is a step of either, and a request is about members or about content.
  `CheckMember`, `CheckFolder` and `ReadItem` are the selects, in the order each
  handler makes them; `FlushItem` waits for the row lock, `CommitItem` writes the
  columns that differ from the row as loaded.
* `Shares` - accounts (`email`, `live`), the share rows, and requests as statements:
  `CheckUuid` and `FindRecipient` of create, `ReadShare` of accept and revoke,
  `SelectReceived` and `DeleteReceived` of an account's deletion; `Waits` and
  `Broken` are the row locks, the foreign keys and the unique key, `AfterDeletion`
  the cascade and SET NULL.
* `Startup` - `schema` and `version` of the database; for each process its stage
  `pc`, the `flags` it was told and what its open transaction has `seen`. `First`
  and `After` are the branches of `run_migrations`, `Upgradable` says when
  `command.upgrade` succeeds. `found` is a history of the database the first start
  met, for the properties to name the exceptions by.
* `RateLimiter` - `check` of one process; `log` is a history of the requests let
  through that the code does not keep, for the properties to speak of.
* `MC...` - the instances for TLC; `...Proofs` - the theorems, in a module for each
  of `VaultSync` (and `VaultSerialProofs`), `AuthSessions`, `OrgMembership`, `OrgContent`,
  `Shares`, `Startup` and `RateLimiter`.

## Runs

| Run | Question | Bounds and why they are enough |
|---|---|---|
| `VaultSync_races` | answers, atomicity of unraced commits, retries, types under every interleaving | two requests, two devices, a row in each of two tables, revisions to 2 (a push with 4 and a deletion at 2 overflow), four clock readings = both requests run to the end; races are between two requests, more tables repeat the same steps |
| `VaultSync_serial` | refinement of `VaultStore`; replicas are current | one request at a time, seven readings = three requests one after the other |
| `VaultSync_live` | every request ends | two requests that each may lock both rows: the smallest circle of waiting |
| `AuthSessions_races` | rotation, wipes, ownership, barrenness of revoked tokens | two requests, three tokens: a login, its rotation, and one more |
| `AuthSessions_circles` | every circle of waiting requests has two that wait for each other | three requests, the smallest circle that is no pair; an account with a token and its successor, so three rows to lock; one password and salt, which no lock depends on. `MayCircle` leaves out login and logout, and a registration only comes first: each takes its locks in one statement and holds nothing while it waits, so none is part of a circle |
| `AuthSessions_serial` | credentials agree; reuse and rekey end sessions | one request at a time, two passwords and salts |
| `OrgMembership_races` | the owner stays; memberships are personal; joining is one's own act; admins are peers | three rows: the owner's and two that can meet for one person. Two requests overlap while two people are about, the owner and one more; with a third, so that an admin can meet an admin, requests follow one another (`OverlapsOfTwo`) |
| `OrgContent_races` | members alone write; entries enter live collections; deletions stand | two people, one collection and one entry, two requests: both about content, or one of them about the members (see below) |
| `Shares_races` | addressees, statuses, no share with oneself, nothing left by a deletion | two requests, one share, three people, three registrations: an address that is deleted and registered again beside another account |
| `Startup_crashes` | schemas are complete before they are served, every process serves, no start takes anything from those that serve | three processes, two crashes, every database of `Init`: an empty one, 16 of the time before revisions, five versioned, and the four stamped ones (with or without the sharing tables and the late columns) at each of the five revisions; a third process sees the state between two others' transactions |
| `Startup_icons` | violation: a repaired database keeps a narrow icon column | two processes, no crash, the same databases |
| `RateLimiter_window` | the limit in every window; no refusal below it | two keys, limit and window 2, seven ticks: three windows one after the other |

`OrgContent_races` is constrained by `TwoOfInterest`. Two overlapping requests about
members are `OrgMembership_races`. Of the requests about members those that end or
change a membership overlap content; an invitation, its withdrawal, its acceptance
and the creation of the organisation come before or after, because they take no
right from anybody. Two overlapping requests about content are of two people: who
asks matters to the membership check only, and with both requests about content no
membership changes.

`CHECK_DEADLOCK FALSE` is set where a system may really be at its end: in `Shares`
when the ids are used up, in `Startup` when everybody serves.

`Startup_icons` ends in a violation, a disagreement between a statement of the
repository and what the code does: "TEXT: custom folder icons are
`custom:png:<base64>` (up to ~400 KB)" (`models/collection.py`). `_SCHEMA_REPAIRS` gives a
database that `create_all` made VARCHAR(255), and it is then stamped past revision 005,
which would have widened the column. In the recovery of a database stamped at 001 the
repairs come after revision 005 and narrow what it widened.

Other statements that the code does not keep were met while modelling; they are
consequences of the modelled steps, and no run is kept for them:

* "Recover from a bad stamp that skipped creating later tables/columns"
  (`migrate.py:100`), in two ways. The sign of a bad stamp is that `refresh_tokens` is
  missing, and the upgrade from a stamp at 001 creates it before the repairs run: a
  process that dies between the two, or a second one that starts there, leaves a
  database without the late columns in service (`ServedSchemaIsComplete` as an
  invariant is refuted). And on a database stamped at 001 or 002 without the sharing
  tables revision 003 refers to a table that is not there
  (`003_org_entries.py:48`): the upgrade fails on every start, before the recovery
  (`EveryWorkerServes` as a property is refuted). The properties of `Startup_crashes`
  name these two kinds of databases, `Unmarked` and `Dangling`, as the exceptions;
* "Older revision must not overwrite" (`tests/test_sync_lww.py:56`): of two overlapping
  pushes, the one that compared itself with the row as it was before the other
  committed writes over the higher revision;
* "Only org owners/admins can perform this action" (`orgs.py:110`): the role is read
  once, and a demotion that commits before the change does not stop it;
* "Invite is not pending" (`orgs.py:287`): an accept that has read the invitation
  before its revocation commits over it;
* "Revoke stops a pending accept" (README): the same, with the share ending as
  accepted; `StatusMovesRightly` says what remains true;
* "Reuse of an already-rotated refresh token revokes **all** refresh tokens for that
  user" (README): a refresh under way commits a token the wipe does not see.
  `AuthSessions_serial` checks the statement for requests that do not overlap;
* "Only the owner can promote admins" (`orgs.py:377`): an admin removes a member and
  invites the same address again with the role admin (`orgs.py:222`);
* "Bound in-process key growth" (`rate_limit.py:17`): the cleanup looks for empty
  deques (line 41), and a key that was ever used has none;
* DELETE of a shared collection is "(owner/admin)" (README), yet any member may
  PATCH it with `is_deleted`.

The serial runs (`Req` of one request) check properties that are true only when
requests do not overlap, and that take a sequence of requests to break. With
`Req = {r1, r2}` in their configurations TLC refutes
`ReplicaCurrent` (a row that commits behind a cursor), `CredentialsAgree` (two
rekeys that mix), `ReuseEndsTheLogin` and `RekeyEndsSessions` (a login that inserts its
token after the rekey selected those to revoke). `OnlyStrangersAreInvited` of
`OrgMembership` is of the same kind (two overlapping invitations of an address
without an account break it) and is left to its theorem.

## Fairness

`VaultSync!FairSpec`: weak fairness of each request's own next step. The server
carries on what it has begun, and need not fail. Locks are requested table by
table in the same order, so a waiting request is not overtaken for ever.
New requests, crashes and the passing of time are never fair.

`Startup!FairSpec`: weak fairness of each process's start. Docker starts a process
that has stopped (`docker-compose.yml`: `restart: unless-stopped`), and a start that
is under way goes on. Crashes are bounded by `MaxCrashes`; failed starts are not, so
that `EveryUpgradableDatabaseIsServed` excludes a restart loop on every database but
those whose stamp dangles (`Dangling`), which have one.

In `AuthSessions` requests do take their locks in different orders, and PostgreSQL
ends a circle by failing one of them. There the invariant `DeadlocksArePairs` stands for
liveness: a request has finitely many statements, and one that has its locks runs or
fails (the guards leave no third case), so it is enough that in every group of
requests under way somebody waits for nobody of the group, or two wait for each
other. It also justifies that the model's `Victim` looks at pairs only.

## Proofs

For every value of the constants, under the assumptions named in the modules
(typing of the constants, and that `Absent` is none of the values):

* `VaultSyncProofs`: `TypeCorrect`, `UnracedCommitsAreAtomic`, `RetriesChangeNothing`,
  `PushesAreAnswered`.
  The invariant behind them says of each request what its session holds at each
  step: rows in memory are the upsert of the pushed item over the row loaded, rows
  not yet loaded are absent, and revisions in a locked row fit the column. That
  pushes are answered needs the stamps too (`TimeOK`: a stamp a session has taken
  lies behind the clock and is not used twice) and what a reply already says
  (`Replies`: the rows shown are those held, and the new cursor covers them).
* `VaultSerialProofs`: the refinement of `VaultStore`, step by step.
  `UncontendedIsVaultStore` has requests overlap in any way in which no commit
  writes over a row that changed since it was read (`NoRace`);
  `SerialIsVaultStore` is the case of requests that follow one another, and
  `SerialReplicasAreCurrent` adds what the devices know: its invariant (`Serial`)
  says that the rows loaded are the committed ones and that the stamps of the
  request under way are newer than every cursor.
* `AuthSessionsProofs`: `TypeCorrect`, `RotationIsOneForOne`,
  `NoTokenOutlivesItsAccount`, `WipesCoverKnownTokens`, `RevokedTokensAreBarren`.
  The inductive invariant is the conjunction of the types, the properties, and for
  each request what its statement counter implies (`ReqOK`): the locks it holds,
  that a token it locked is as it read it, that the account row it locked is
  still there, and that the tokens it will revoke cover the known ones; `PairOK`
  says that two requests never hold clashing locks or issue the same token.
  Three more theorems are about promises that certain overlaps break:
  `RekeysEndSessions` (`[]RekeysAlone`: no login and no refresh during a rekey),
  `ReusesEndTheLogin` (`[]RefreshesApart`: no two refreshes at once) and
  `CredentialsStayTogether` (`[]RekeysApart`: no two rekeys at once; a rekey may be
  overlapped by everything else, since an account's id is never used again).
  `LocksNeverCircle` is for any number of requests what `AuthSessions_circles` shows for
  three: a circle of waiting requests contains two that wait for each other. Its invariant
  (`LocksInv`) says what each request holds at each statement (`Held`), that what a
  wipe or a rekey has selected is still stored (`SeenOK`), that a deletion and a
  rekey know each other's tokens (`OrderOK`), and gives every selection an age
  (`AgesOK`): whoever waits for a wipe has selected before it. So the youngest wipe
  of a supposed circle waits for a deletion, and that deletion and the rekey it
  waits for wait for each other.
* `OrgMembershipProofs`: `TypeCorrect`, `TheOwnerStays`, `MembershipsArePersonal`,
  `NobodyIsMadeAMember`. The properties speak of committed rows, which a commit
  mixes with what its request read long before; so the invariant says what each
  pending request may still write (`PendingOK`: never the owner's row, always under
  the row's own address, active only by the person's own request or over an active
  row), that what is flushed collides with no committed user_id (`FlushedOK`),
  and that two flushed requests write different rows and users (`PairOK`).
  `AdminsManageNoAdmins` is about what the handlers check at their start: a row that
  a request has loaded passed the checks of its operation (`LoadsOK`), so whoever
  changes an active admin's row without a right to had loaded it from before.
  `StrangersAreInvited` needs that no commit changes a row that another request has
  read and will write (`TargetsApart`) and that no two invitations of one address
  overlap (`InvitesApart`): then a row is still as its request has read it (`FreshOK`)
  and an address has one row (`StrangersOK`). `SerialInvitationsAreFirst` is the case
  of requests that follow one another.
* `OrgContentProofs`: `TypeCorrect`, `MembersAloneWrite`, `EntriesEnterLiveFolders`,
  `DeletionsStand`. The invariant says of each request which of its checks its step
  proves to have been witnessed (`WorkOK`), that the row it loaded suited it, that
  what holds now is witnessed, and that two flushed requests write different rows:
  so a column-wise UPDATE over a row that was deleted meanwhile cannot bring it back.
* `SharesProofs`: `TypeCorrect`, `NobodySharesWithThemselves`, `SharesStayAddressed`,
  `StatusesMoveRightly`, `DeletionsLeaveNothing`. The invariant describes what each
  pending request may still write: the owner it loaded, an address that is that of
  the account it names, a status its checks allow; that flushed requests write
  different rows and refer to accounts that no flushed deletion takes; and that a
  deletion's selected rows cover those known when it began.
* `StartupProofs`: `TypeCorrect`, `OnlyCompleteSchemasAreServed`,
  `StartsTakeNothingAway`. The invariant (`Inv`) says what a recorded revision means
  (with `refresh_tokens` present, all that it claims) and what a process at each
  stage may rely on whatever the others did since it read its flags; the second
  theorem adds when the icons can be wide (`IconsOK`). No assumption
  excludes a database of `Init`: the properties name the exceptions themselves.
* `RateLimiterProofs`: `TypeCorrect`, `WindowsHold`, `RefusalsAreJustified`. The
  invariant ties a deque to the history: it is the end of it, what comes before
  it has left the window, and any Limit + 1 successive times span more than the window.

A theorem of the form `Spec /\ []H => P` (or `[][H]_vars`) is about all behaviours
in which the overlaps H names do not happen, however many other requests do
overlap. H is no assumption on the code: without it the code breaks P, as TLC shows
with two overlapping requests (and, for `CredentialsAgree`, two passwords and salts). Every inductive invariant
was model-checked before it was proved.

Only model-checked: liveness (`EveryRequestEnds`, `EveryUpgradableDatabaseIsServed`), which is
out of the prover's reach.

## Not modelled

* Configuration (`config.py`): checked before there is any state. Normalisation of
  identifiers (`schemas/vault_ids.py`): a pure function on strings.
* Listings and downloads: they change nothing.
* Sync: pushes that name one uuid twice, the encoding of attachments, the float form
  of the cursor, skew between the clocks of database and application.
* The deletion of an account: its effect on memberships and on organisations it
  owned. A membership is deleted as a received share is, and an owned organisation
  goes by the same cascade as an owned share.
* In `Shares`, two overlapping deletions of one account are one deletion and one that
  waits and then finds nothing; two deletions that wait for each other are `Abort`.
  A share received after a deletion has selected its rows loses its account by the
  foreign key and keeps its address: `NothingLingers` speaks of those before.
* Startup: downgrades, which the server never runs.

## Plan

All the modules of the plan are written and proved about. What is left:

1. the deletion of accounts composed with `OrgMembership`;
2. a push that names a uuid twice, as a fold over its items.
