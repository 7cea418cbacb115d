# Echo News Center: formal models and proofs

TLA+ models of the server-side core of Echo News Center, TLC runs over small
instances of them, and TLAPS proofs that hold for instances of any size.
Everything is translated from the SQL migrations under `src/database/` and the
Python services under `src/backend/`, and from the news collector in
`src/scripts/news/`.

1. [The system](#1-the-system): components, state, interactions, hard behaviours
2. [The private draft write path](#2-the-private-draft-write-path-payloadrecovery-privatedraft)
3. [Identity and sessions](#3-identity-and-sessions-sessionauthority-sessionpolicy-sessionexpiry)
   and [the two together](#the-two-together-draftcommand-draftledger)
4. [The signed calls](#4-the-signed-calls-signedcalls-accountlink)
5. [The service pools](#5-the-service-pools-servicepolicies-servicepool)
6. [From a key set to a bound intent](#6-from-a-key-set-to-a-bound-intent-jwksfetch-signedidentity)
7. [The news run](#7-the-news-run-newscollector)
8. [The runs](#8-the-runs)
9. [Fairness](#9-fairness)
10. [The proofs](#10-the-proofs)
11. [What is not modelled](#11-what-is-not-modelled)
12. [Plan](#12-plan)

Running it, inside `tla/`:

    tlc -workers 2 -config MCPayloadRecovery_recovery.cfg MCPayloadRecovery.tla
    tlapm PayloadRecovery_proofs.tla

## 1. The system

The repository is a static preview (`preview/`), a news collector (`scripts/news/`)
and, by far the largest part, a backend in stages `p2_1b` to `p2_1c2d4c5c7b2b2b`:
PostgreSQL schemas with `SECURITY DEFINER` functions that carry the rules, and
Python boundaries that call them through restricted roles. A later stage revokes
`EXECUTE` on functions an earlier stage granted, so what is live is decided by the
last migration that touches a function.

| Component | State it keeps | Operations | Status |
|---|---|---|---|
| **A** Private draft write and payload recovery (`database/p2_1c2d3*`, `backend/p2_1c2d3d`) | attempt ledger, receipts, voice revision 1; bytes in an external store | reserve, stage, write (fresh or replay), commit, abandon, claim, discard, mark, list, sweep | modelled |
| **B** Write fence and private owner read (`p2_1c2d1`, `p2_1c2d4a`, `p2_1c2c3`) | none of its own; locks principal and session rows | fence a stamped command, read a COMMITTED draft | modelled |
| **C** Identity registry (`p2_1c2c`, `p2_1c2d4c4`, `p2_1c2d4c5c2` to `5c5b2`) | principals, sessions, activation_audit, session_rotations | provision, activate, change authority, first session, repeat login, rotate, logout | partly |
| **C'** Signed calls (`p2_1c2d4c5a` to `5c1`, and the boundaries of `5c3` to `5c5b2`) | one-use link proofs, external identities, Actors | issue a proof, provision a principal; first session, repeat login, rotate, logout around their functions | modelled |
| **D** Service pools (ten `*_pool.py` of one shape) | leased connections | lease, sanitize, check the catalogue, `BEGIN`/`SET LOCAL ROLE`, body, check the lease, commit, sanitize, return | modelled |
| **E** JWKS trust chain (`p2_1c2d4c5c7a` to `7b2b2b`) | frozen targets, sockets; the key-set snapshot and the configuration built from it | freeze an address set, dial, read a response, decide an envelope; validate, build, look up a kid | modelled |
| **F** Core schema and immutable history (`p2_1b`, `p2_1c`, `p2_1c2a`) | events, voices and their revisions, claims, evidence | append a revision, supersede, refuse update and delete | not modelled |
| **G** News collector (`scripts/news/collect.py`) | the published `news.json` | fetch feeds, merge with the last file, truncate, write, deploy | partly |
| **H** Preview (`preview/core.mjs`, `app.mjs`) | one `localStorage` document | load, add voice or room, follow, save | not modelled |
| Signed boundary (`p2_1c2b1`) | its configuration | verify a token, resolve the binding, bind a command into an intent | modelled |
| Contracts (`contracts/`), older executors (`p2_1c2d2b`, `3b`, `3c`) | - | JavaScript prototypes of the boundaries; executors without the ledger | superseded |
| CI, documents, assets | - | - | out |

**How they interact.** A request arrives at a signed boundary, which verifies a
token (with a key of E) into a bearer. Identity calls (C) take a connection of their
own pool (D) and run one sealed function in one transaction. A private write or
owner read (B) first resolves the bearer against the registry without locks, obtains
a *stamp* (principal, session, generation), and then runs its function, which calls
the *fence* as its first statement: it locks principal and session `FOR SHARE` and
checks the stamp against the locked rows. The write path (A) surrounds that one
transaction with others, and with calls of an external payload store that shares no
transaction with the database.

**What is hard here.**

- *A.* Two systems and no common transaction: an executor can stop between any two
  steps, its COMMIT can succeed with the answer lost, and its transaction can
  outlive the executor. Sweepers act on snapshots that are stale when used, and race
  the owner and each other. Correct: one canonical draft per idempotency key; a
  canonical payload is never removed and a loser's never promoted; no reader sees a
  draft that is not durable; every reservation ends.
- *B, C.* Seven operations as concurrent transactions over the same rows at READ
  COMMITTED; each reads its guards after waiting for locks, while time passes.
  Correct: one live session; no command outlives its authority; no return to an
  older bearer; lost acknowledgements are retried safely; no deadlock.
- *C'.* Calls of one account race for its advisory lock while bearers and proofs
  expire, on two clocks, and commits lose their answers. Correct: one Actor and one
  Principal per account; a proof spent once and by its own account; a refusal means
  that nothing was done.
- *D.* The catalogue is read query by query while an administrator may change it,
  sessions die at any point, bodies misbehave, and the reset can fail after the
  COMMIT. Correct: no lease runs over a drift that was there all along; no role,
  setting or open transaction reaches the next lease; every connection is lent once;
  the error says no more than is known.
- *E.* A hostile or slow server sends a response in any pieces; several addresses
  share one time budget; a snapshot is compared with its predecessor only, and
  replaced while requests are under way. Correct: a cut document is never taken for
  the whole one, only approved addresses are dialled, a kid that stays listed keeps
  its key, an intent names the key set its token was verified with, and trust ends.
- *F.* Revisions under immutability triggers.
- *G, H.* Partial failure of feeds, overlapping runs with different clocks; two tabs
  over one stored document.

`PROJECT.json` lists these as hazards, each at its line, with the properties that
would catch it.

## 2. The private draft write path: `PayloadRecovery`, `PrivateDraft`

`recoverable_private_voice_executor.py` (E below) and
`database/p2_1c2d3d/001_payload_recovery.sql` (S below).

### State

| Variable | In the code |
|---|---|
| `intent[a]` | the key (principal, request id) and request hash of one `execute()` call |
| `state[a]`, `reffed` | `private_payload_attempts.state`, and whether `payload_ref` is set |
| `receipt[r]` | `private_draft_receipts`, with the voice revision inserted beside it |
| `object[a]` | the store's object: absent, STAGED, COMMITTED, GONE |
| `horizon` | attempts 1..horizon have passed `recover_after` (created_at + 5 minutes) |
| `inflight` | attempts whose write transaction may still run in the database |
| `exec[a]` | the program counter of `execute()` |
| `job[w]` | the `recover_attempt()` call of an executor or sweeper, with its one possible nested call |
| `sweep[s]` | the rest of the batch of a `sweep()` |

`execute()` draws a fresh uuid4, so one attempt names one call and its executor.

### Actions

A step is one database statement, one store call, or the local decision after one.
`Reserve`, `Stage`, `SendWrite` are the three calls in the order of E:235-267.
`WriteFresh`, `WriteReplay`, `WriteConflict`, `WriteRejected` are the four ways the
write function can end; `LoseAnswer` takes the answer, not the transaction, so it
may still commit later. `Look`, `LookHeals`, `Relook`, `Abandon`, `Claim`,
`StoreCommit`, `AckCommit`, `FindStaged`, `StoreDiscard`, `AckDiscard` are
`recover_attempt()` between its statements: each acts on what was true at an earlier
step, as the code does. `ListRows`, `NextRow`, `Raise` are `sweep()`; one exception
drops the rest of the batch. `Report` is the last snapshot of `execute()`. `Stop`
and `StopSweep` are a crash or an unexpected exception at any point. `Age` moves the
clock past one `recover_after`.

Why these steps are atomic: the write function holds the advisory lock of its key
and the row lock of its attempt until COMMIT, which protects every row it reads.

Details of the code that need no step of their own: `except Exception` at E:284 is
unreachable because `_call` converts every exception; the comparison at E:312 can
only hold; `_finish_from_snapshot` (E:222-233) has no caller.

### The promise

`PrivateDraft` knows no ledger and no sweeper: a key is decided once, for a text
some call asked for; then its payload becomes durable, for ever; and a call gets a
receipt only if its own text was decided and is durable. Any call may be refused at
any time and a refusal says nothing about the outcome. `PayloadRecovery` implements
it with `draft` := hash of the receipt, `durable` := COMMITTED canonical objects,
`reply` := where `exec` ended.

### The finding

`NoOrphanStage` states the definition of DISCARDED in the ledger documentation
("deleted or absent"). Its run finds the counterexample: an executor reserves and
calls `stage()`, which takes longer than the five-minute lease; a sweeper claims the
row, `find_staged()` answers None, and the row becomes DISCARDED; the bytes arrive
afterwards. No sweep lists the row again, and the owner's write is refused by the
ledger (P2002), so its recovery sees DISCARDED and returns. Nothing wrong becomes
readable: the bytes stay in the store with no one left to remove them.

## 3. Identity and sessions: `SessionAuthority`, `SessionPolicy`, `SessionExpiry`

One account under concurrent transactions. Every lock, count and check of these
functions is per principal and a session key hashes (issuer, jti), so accounts do
not interact and one is enough.

### State

`clock` is `clock_timestamp()`; `rights`, `generation` are `principals.enabled`,
`writer_enabled` and `auth_version`; `activated` is the row in `activation_audit`;
`session` is the table `sessions` by key; `successor` is `session_rotations`.
`call[c]` is the transaction of a connection: operation, stage, bearer, the version
its caller knew, the session rows it has locked, and the session a rotation found.

### Steps of a transaction

`Begin` (lease, `BEGIN`), `LockPrincipal`, `LockSessions`, a decision (`Activate`,
`ChangeAuthority`, `Bootstrap`, `RepeatLogin`, `Rotate`, `Logout`, `Fence`) that
reads the rows and the clock under its locks, `Finish`, which reads the clock once
more, and `Commit`, when its writes become visible. `Abort` at any point stands for
every rejection, lock timeout and lost connection. `Tick` moves the clock between
any two of them. Lock modes are those of the code: `FOR UPDATE` on the principal for
account and session changes, `FOR SHARE` for logout and the fence; `FOR UPDATE` on
sessions for every session change and `FOR SHARE` for the fence.

Reading notes:

- The isolation level is READ COMMITTED: a statement that waited for a lock sees the
  row as last committed. Guards are therefore read at the decision.
- Rows a call locks are locked in one step. The calls that lock more than one
  session row, or in another mode, already hold the principal row exclusively, so no
  order among session rows can matter.
- The last clock sample of the SQL functions and `CLOCK_SQL` of the boundaries are
  one step: nothing changes between them but the time, and the later sample is the
  stricter one.
- Retries that change nothing (an activation, an authority change or a login found
  already made) are not steps of the registry, except where a replay still passes
  guards and answers: `Bootstrap`, `RepeatLogin` and `Rotate` keep their replay
  branch.
- `BeginCommand` is the lookup of `postgres_registry_adapter.py`: a snapshot without
  locks, which the fence checks again.
- `runtime_create_session` and direct `runtime_revoke_session` are granted to no
  service any more, and `runtime_change_principal_authority` only to an operator
  (`p2_1c2d4c5c2` line 202, `5c3` line 152, `5c4` line 38); only the last is an
  operation here.
- `renewal_contract.py` compares only `iat` on a replay; the SQL compares `iat` and
  `exp`. The model follows the SQL.

### The promise

`SessionPolicy` is the account without transactions: `Activate`, `ChangeAuthority`,
`Login`, `Rotate`, `Logout` as atomic steps, each at a *reading of the clock not in
the future*. That is all a transaction can promise: its last reading precedes its
COMMIT, and time passes in between. `SessionAuthority` implements it with the
identity mapping: each COMMIT that changes something is one policy step.

The policy accepts any reading of the clock that was taken, so it says nothing of a
reading taken too early. `SessionExpiry` does: it is `SessionAuthority` with one more
variable, `late`, the calls for which `RunOut` held when they obtained their last
lock: the bearer had expired, or the session behind a command, or every session that
a rotation could replace had expired, been revoked or fallen behind the generation.
`LateNeverCommits` says that none of them reaches its COMMIT. It is what the comment
"MUST sample wall clock AFTER potentially blocking lock acquisition"
(`001_write_fence.sql:64`) and the readings after the locks of the other functions
are for: with the clock of the transaction's start, all of these calls would pass.

### The two together: `DraftCommand`, `DraftLedger`

`PayloadRecovery` takes the write for one step and has no clock; `SessionAuthority`
has the fence and no draft. `DraftCommand` has what lies between: one principal's
writes and reads, statement by statement, under successive sessions.

| Variable | In the code |
|---|---|
| `now` | `clock_timestamp()` |
| `writer`, `generation`, `session[b]` | `principals`, and the session a bearer belongs to |
| `intent`, `attempt`, `reserved`, `receipt` | the attempt ledger with `created_at`, and the receipts |
| `holder[r]` | the advisory transaction lock of a key |
| `cmd[c]` | a command: its place, the stamp, the clock readings of its fence and of its lock, the rows its COMMIT will record, its answer |

`Lookup` makes the stamp from a snapshot without locks. Each of the two write
transactions and the read then starts with `Fence`, which keeps principal and
session shared until its end. `Reserve` inserts the attempt; `LockAttempt`,
`LockKey`, and then `Conflict`, `Replay`, or `Fresh` and `Append` are the write
function; `Append` fences again. `Commit` records what a transaction wrote,
`CommitUnknown` may, and `ConnectionFails` strikes before. `Abandon` is the owner's
retreat after a write was turned away. Around them are `OpenSession`, `Logout` and
`ChangeRights`, which need the rows free, `Claim`, which needs the row of the
attempt, and `Finalize`. Lookup and database share one clock here; two clocks are in
`SignedCalls`.

`DraftLedger` has the same rows and no transactions: reserve, decide, abandon,
finalize. That `DraftCommand` implements it is what justifies the single steps of
`PayloadRecovery`: neither a claim nor another write gets between the statements.

**The finding.** The fence samples the clock after its own locks, "MUST sample wall
clock AFTER potentially blocking lock acquisition" (`001_write_fence.sql:64`). The
write function then waits for the row of its attempt and for the lock of its key. A
fresh draft is fenced again after that; a replay is not, and answers with the
receipt. `p2_1c2d3c/README_TH.md:43` promises that an expired caller gets no receipt
for having succeeded before. The run `draft_expired` shows a command fenced before
its bearer's expiry, obtaining the lock of its key after it, and given the receipt.
It is the receipt of its own principal's draft, and revoked or disabled callers are
kept out by the row locks (`AuthorizedToCommit`).

## 4. The signed calls: `SignedCalls`, `AccountLink`

The Python boundaries of proof issue, provisioning, first session, repeat login,
rotation and logout have one shape, and the module is that shape with the two SQL
functions of the account link inside it. The four session functions are
`SessionAuthority`; here they answer or refuse.

State: `binding`, `principal`, `proof` are the rows of an account, `sessionWrites`
the session calls that have committed, `holder` the advisory transaction lock of an
account, `call[c]` one request. `now` is `clock_timestamp()`; `skew` is how far the
process's `time.time()` is ahead of it, because the boundary checks the bearer and
computes a proof's expiry by its own clock, and the database checks both again by
its.

Steps: `Ask` (body and bearer, by the process's clock), `Lease`; then `EnterIssue`,
`Lock`, `IssueProof` or `EnterProvision`, `Lock`, `ReadProof`, `Consume`,
`FinalCheck`, or `SessionFunction` / `SessionRefused`; then `ContractBroken` or
`CheckReceipt` (the database clock, read inside the transaction after every wait),
and `Commit` or `CommitUnknown`, whose answer `SERVICE_CONNECTION_UNAVAILABLE`
leaves open whether the change is durable. `ConnectionFails` may strike between any
two steps before the COMMIT. `Tick` runs in between.

Reading notes. The consumer that provisioning calls takes a row lock on the proof,
but it runs under the advisory lock of the proof's account, so it never waits. A
subject of 256 characters is told apart because issuing refuses it in the SQL and
provisioning in Python.

### The promise

`AccountLink` is the same calls without transactions, locks, clocks and boundaries.
A call asks (`Ask`), and is answered once (`Answer`). With the answer it has had its
whole effect or none: a proof for the account's Actor (`Link`), a proof spent by the
account's Principal (`Spend`), a change of its sessions (`Session`), or nothing
(`Fail`). Which of them may be is all the caller learns: a receipt is of an effect, a
refusal of none, and "unavailable" of either. `SignedCalls` implements it with the
rows as they are, `asked[c]` and `reply[c]` read off `call[c]`; only `Ask`, the
answers and the COMMITs are visible. `AccountLink` has no clock: that the windows were
open is `AnswerIsTrue`.

## 5. The service pools: `ServicePolicies`, `ServicePool`

Ten files `*_pool.py` were written one after another with the same lease and growing
checks. `ServicePolicies` is what differs, file by file: the size of the pool and of
its queue, the catalogue queries of `_validate_authority` in their order with the
drifts each can see, and the settings it makes again after `DISCARD ALL`.
`ServicePool` is the lease, run by any one of them (`service`).

| Variable | In the code |
|---|---|
| `pool`, `idle` | state of `psycopg_pool.ConnectionPool`, its idle connections |
| `catalog`, `defaults`, `changes` | what an administrator has changed, and how often |
| `live`, `tx`, `role` | of a connection: the session, its transaction status, its current role |
| `foreign`, `startup`, `dirty` | settings changed in the session, settings it was opened with, uncommitted writers |
| `pc`, `held`, `phase`, `step`, `error` | of a caller: where `lease()` is, before or after the body, which check |
| `wrote`, `durable` | callers whose body has written, whose write is committed |
| `standing` | drifts that have been there since the caller asked (for the properties) |

`GetIdle`, `Wait`, `Connect`, `Unavailable` are `pool.getconn()`. `Clean` is
`_sanitize` (rollback, `DISCARD ALL`, then its own `SET`s); `CheckPasses` and
`CheckFails` are `_validate_authority`, one query per step because the connection is
in autocommit and each query sees its own catalogue; `ResetBroken` is either one
interrupted. `Begin` / `BeginFails` open the transaction under the runtime role. The
body is any sequence of `Write`, `MisuseTransaction` (it commits, rolls back or
fails a statement itself), `SetSession`, `BodyRaises`. Its end is `LeaseChanged`
(the checks before COMMIT), `Commit` or `CommitUnknown`; then `Clean` and the checks
run again, and `PutConn` gives the connection back or discards it. A failure of the
second reset is reported as `POOL_RESET_FAILED`, and only when the lease had no
error of its own, as in the code. The environment is `Drift`, `Repair`,
`ChangeDefault` and `SessionLost`.

`SERVICE_LOGIN_REQUIRED`, `SERVICE_BASELINE_REQUIRED` and `NONIDLE_POOL_BASELINE`
test again what the reset just before them has made so on a session that was opened
as the service's own login. They cannot fail in the model and have no action; a reset
that does not get that far is `ResetBroken`.

`StandingDriftRefused` says exactly what a check that runs query by query can: no
body starts over a drift its own policy knows and that stood from the request on;
one that appears behind the check is seen by the next lease.

## 6. From a key set to a bound intent: `JwksFetch`, `SignedIdentity`

### One fetch

`Freeze` is the egress guard: one resolver answer, approved as a whole, becomes a
target. `Fetch` compares it with the pin again. The dialer tries the addresses in
sorted order within one budget: `Attempt`, `Connect`, `Handshake`, `AttemptFails`,
`DialEnds`, and `TimePasses` as its monotonic clock. The reader sends
(`SendRequest`) and frames: `Receive`, `EndOfStream`, `ReadTimesOut`, `SocketFails`,
`BodyRead`; then `Decide` is the envelope and the JSON object rules. The server is
`Deliver` (any further bytes) and `Hangup`.

Bytes are counted, not kept: a response is the length of its head and its body, the
length it states, its status, and what kind of thing is wrong with its headers or
its text, and how much white space a good text ends with (`blank`). That keeps
everything framing depends on (how much has arrived, whether the length is stated,
where the limits lie) and leaves out syntax. Without a stated length, a text that
lost no more than the white space at its end is still a JSON object, and accepted.

### Trust and binding

`fetched` is a document that has been fetched and not yet been built; `Refresh` is
`build_boundary_bundle` with the cached snapshot as `previous`: it validates the
document (`WellFormed`, `Acceptable`), makes the snapshot and the configuration, and
fails as a whole (`RefreshFails`), also when only the narrower kid syntax of
`Config` objects. `Restart` loses the snapshot, `NewEpoch` is an operator's
decision. A request is `Authenticate` (with the configuration it starts with),
`Resolve` or `ResolveNothing` (the registry's answer, later), `Bind`.

Nothing in `src/` calls the bridge periodically. The caller is modelled from its
arguments: it fetches, builds with the snapshot it has, and replaces both. `Decide`
is `decide_header_key`, which that caller would use to know when.

A snapshot is compared only with the one before it. `ListedKidKeepsItsKey` says what
that comparison gives: while a request waits for the registry, the bundle may be
replaced any number of times, but a kid that no acceptable document leaves out still
has the key it had when the request was verified. More the code does not promise: see
the second finding.

### The findings

`HardExpiryEndsTrust` states the trust contract's documentation: after the hard TTL
no cached key authorizes. The bridge checks that when it *builds* a bundle; a
`Boundary` has only keys and no expiry, so when refreshes fail it verifies as
before. The run `identity_expiry` shows one refresh, the clock at the hard expiry,
and a token verified and bound.

`OneKeyPerKid` states another rule of that documentation
(`p2_1c2d4c5c7a/README_TH.md:57` and `:112`, `p2_1c2d4c5c7b1/README_TH.md:51`):
within one trust epoch a kid does not silently change its key. A kid that is left out
of one document is forgotten, and its return with another key is accepted. The run
`identity_rebind` shows one process (`OneProcess`, without `Restart`) in one epoch that accepts k1 with a first key,
then a set without k1, then k1 with a second one, and two requests bound under k1 by
tokens of the two keys. A restart between the two would do the same, because the
first build after it has no previous snapshot.

## 7. The news run: `NewsCollector`

One workflow run at a time: `Start` (which cancels its predecessor), `ReadPrevious`
(the published snapshot, validated against today's registry), `Collect` (refuses a
snapshot of the future, drops what has left the window), `FeedRead` or `FeedFails`
per feed in registry order, `Finish` (status, newest records, validation of the
output), `Deploy`. A document is parsed as a whole, then merged row by row
(`MergeRow`). `JobFails` ends a run anywhere, `Commit` changes the registry,
`Tick` is a day. The clock of a runner may be a day behind.

The merge is kept whole: an item's record id, headline and date, the feeds that
reported it, first and last sight, and the revisions appended when the headline or
the date changes. What makes an item acceptable (scope words, address, text, XML) is
one bit, `fit`; a feed that cannot be read is `FeedFails`. `sources` of a snapshot is
its health list, the feeds of the registry that wrote it: `TypeOK` says that a next
run with that registry can read what is published.

## 8. The runs

| Run | Instance | Shows |
|---|---|---|
| `payload_recovery` | 2 attempts, 1 key, 2 texts, 1 sweeper, batch 1, fair | `LedgerMatchesReceipts`, `CanonicalPayloadKept`, `ReadableIsDurable`, `OnlyCanonicalCommitted`, `TriggersNeverFire`: no interleaving of a late write, a stale claim, a retry and a stop loses or misplaces a payload or makes a guard trigger fire; `ReceiptMeansDurable`, `ReplayLeavesNoStage`, `ImplementsPrivateDraft`, `EveryAttemptTerminates`: what a returned receipt promises, and that every reservation ends, wherever its executor stopped |
| `payload_orphan` | 1 attempt, 1 sweeper | violation: the finding above |
| `session_races` | 2 connections, 4 bearers over 3 keys, clock 0..3, 3 generations | `SingleLiveSession`, `FencedUntilCommit`, `NoDeadlock`, `NoLostAuthority`, `LineageIsAChain`, `NoRollback`, `LateNeverCommits`, `ImplementsSessionPolicy`: any two operations at once, sequences of rotations and logins, and calls that run out of time while they wait |
| `service_pool` | 2 callers, 1 connection, pools OwnerRead, Mutation, RepeatLogin; 2 drifts, 1 setting, 1 change, queue of 1 | `StandingDriftRefused`, `LentOnce`, `NothingLeaks`, `AnswerIsTrue`: what a lease runs over, keeps, leaves behind and answers |
| `identity_trust` | 8 documents, 4 tokens, 3 bindings, 1 request, clock 0..4, 2 epochs, TTLs 1 and 2 | `UseCachedIsUsable`, `OnlyPublishedKeys`, `IntentNamesItsKeys`, `ListedKidKeepsItsKey`: which keys are trusted, that snapshot, configuration and intent agree, and that a kid that stays listed keeps its key |
| `identity_rebind` | 3 documents, one of them without the kid, 2 requests, no restart, clock 0..2, 1 epoch | violation: the second finding of section 6 |
| `identity_expiry` | `identity_trust` with a rotation of two documents | violation: the first finding of section 6 |
| `jwks_fetch` | 4 pins, 6 answers, 34 responses, limits of 3 bytes, budget 3, chunk 2 | `DocumentIsThePinned`, `ContactsAreBounded`, `FetchEnds`: what is contacted, what passes for the document, and that a fetch ends |
| `signed_calls` | 3 calls, 2 accounts, 3 bearers, clock 0..4, process clock 1 behind or ahead | `OneActorOnePrincipal`, `AnswerIsTrue`, `ImplementsLink`: racing proofs and provisionings, expiry, cut commits, and that each call takes effect whole or not at all |
| `news_history` | 2 feeds, 2 registries, 5 documents, 3 ids, 4 runs, days 0..3, window 2, list of 2 | `HistoryIsTrue`, `HistoryIsKept`: what the published history tells, and what it keeps |
| `draft_command` | 2 commands (each a write or a read), 1 key, 2 texts, 2 successive bearers, clock 0..3, 2 generations, lease 1 | `AuthorizedToCommit`, `AnswersAgree`, `ImplementsLedger`: what a write or read is authorized by, what its answer says, and that its statements are one step of the ledger |
| `draft_expired` | the same with 1 text, 1 bearer, 1 generation | violation: the finding of section 3 |

Every property has a mutant in `PROJECT.json`: a plausible bug in one definition
(kept beside it as a "faulty variant") under which TLC finds the property violated.

**Why these bounds.** *Recovery:* all conflicts are between a canonical attempt and
a loser of the same key; two attempts give both roles to both, and two texts separate replay from conflict. Three workers may be at
one row: its owner, the executor that replays it, and the sweeper, each with a
snapshot that is stale when used; a second sweeper adds no role, and the theorems are
for any number. A batch of 1 already makes the second row wait for another sweep. The
sweeper is fair and part of all of it, so a loser may be cleaned up by somebody else.
*Sessions:* a conflict is between two transactions; the bearers end at
different readings of the clock, the third key gives a lineage a middle, and one key
twice with different lifetimes lets a replay be inexact. Three generations are an
activation and one authority change; that no number of changes brings an old session
back is `OneLiveSession` and `FenceIsHeld`. The first bearer ends inside the clock, so a
call can run out while it waits. *Pools:* one connection is what makes a
caller wait for another, inherit what the other left, and find it closed; the three
policies are the simplest, the one with the most guard checks, and one of the last
shape with seven settings; of the two drifts one is seen by every policy and one
only by those that know the guard role, and the one setting is made again by the
last shape only. *Trust:* in the documents one kid is always listed and
another comes, goes and comes back with another key; the others are a substitution
under the listed kid, a doubled kid, a kid that only one of the
two syntaxes allows, an entry for another use beside a good one, and a private key;
a clock of five readings puts a request before, between and after the two expiries.
*Fetch:* limits of three bytes and chunks of two put a response below, at and above
each limit, split a head from its body inside one chunk or not, and leave a
remainder; budget 3 lets a second address start with less. *Calls:* any of the three
calls may be of either account, so two may race with two proofs of one account, and
the third may present a proof that is not its own; a proof may end by its own
lifetime or with its bearer. *News:* a list of two is full with three ids; four runs
let a record be seen, missed, seen again and pushed out, and a window of two days is
left inside the four. *Commands:* two of one key are a winner and a loser, or a
writer and a reader; the second bearer outlives the first, so a stamp can lose its
session, its rights or its time; a lease of one lets a claim come between any two
statements. The proofs remove these bounds where there are any (section 10).

`CHECK_DEADLOCK FALSE`: the protocols end (all attempts, callers, requests, calls or
runs made, the fetch done, or the clock, the epochs and the generations at their
bounds). Deadlock between transactions is `NoDeadlock`.

Bounds in guards: `MaxAttempts`, `BatchLimit` (a parameter of the code), `MaxTime`,
`MaxGeneration` (stops authority changes), `MaxEpoch`, `MaxChanges`, `MaxRuns`;
`WaitingCap` lowers the pools' queue (8 or 12 in the code) so that it fills.
Symmetry is used only in runs that check no liveness, among elements that are only
compared for equality (connections, callers,
commands).

`TypeOK` is the theorem `TypesHold` of every module. Those of `JwksFetch`,
`SignedCalls`, `NewsCollector` and `DraftCommand`, which say more than shapes, are
also in runs.

## 9. Fairness

Two properties need any.

`EveryAttemptTerminates`: `FairSpec` assumes that the clock moves (`WF(Age)`), that
a sweeper takes its next step when it has one (`WF(RecoverStep \/ ListRows)`), and
that from some point on its sweeps are no longer interrupted. The scheduling of the
worker is outside this code: the README of `p2_1c2d3d` lists it as unknown, so it is
an assumption on the deployment. The third is necessary: `sweep()` gives up its
batch at the first exception, oldest row first, so one row that fails for ever would
starve those behind it. No fairness is assumed of executors; they may stop anywhere.

`FetchEnds`: `WF_vars(Step)`, the steps of the fetching process itself. Every wait
of it has a timeout (the rest of the budget for connect and handshake, the socket
timeout for a read), so it always takes a next step; nothing is assumed of the
server or of the network. The read has no total timeout, and ends because every
`recv` that returns adds at least one byte of a bounded response.

## 10. The proofs

All of these hold for every value of the constants that satisfies the named
assumptions.

| Module | Theorems |
|---|---|
| `PayloadRecovery_proofs` | `Invariance`, `TypesHold`, `LedgerAgrees`, `PayloadKept`, `ReadsAreDurable`, `LosersStayStaged`, `GuardsNeverFire`, `ReceiptsAreDurable`, `Refinement` (of `PrivateDraft`), `ReplaysAreClean` |
| `SessionAuthority_proofs` | `Invariance`, `TypesHold`, `OneLiveSession`, `FenceIsHeld`, `LineageHolds`, `LocksNeverCycle`, `AuthorityIsNotLost`, `NeverRollsBack`, `TransactionsImplementPolicy` (of `SessionPolicy`), `LateCallsEnd` (of `SessionExpiry`) |
| `DraftCommand_proofs` | `Invariance`, `TypesHold`, `AuthorizedUntilCommit`, `AnswersStayTrue`, `Refinement` (of `DraftLedger`) |
| `SignedCalls_proofs` | `Invariance`, `TypesHold`, `AnswersAreTrue`, `OneActorAndPrincipal`, `Refinement` (of `AccountLink`) |
| `ServicePool_proofs` | `Invariance`, `TypesHold`, `ConnectionsAreLentOnce`, `StandingDriftsAreRefused`, `SessionsAreClean`, `AnswersAreTrue` |
| `SignedIdentity_proofs` | `Invariance`, `TypesHold`, `ListedKeysStay`, `CachedKeysAreUsable`, `IntentsNameTheirKeys`, `KeysWerePublished` |
| `JwksFetch_proofs` | `Invariance`, `TypesHold`, `DocumentsArePinned`, `ContactsStayBounded` |
| `NewsCollector_proofs` | `Invariance`, `TypesHold`, `HistoriesAreTrue`, `HistoriesAreKept` |

So every invariant and every action property that a passing run checks is a theorem.

**Assumptions.** `BoundsAssumption` (natural bounds, a batch is not empty),
`SweepersAssumption` (sweepers are not attempt numbers), `UndecidedAssumption`;
`BearersAssumption` (`iat <= nbf < exp`, what the signed boundary accepts),
`GenerationsAssumption` (at least two generations), `SentinelsAssumption`;
`ServiceAssumption` (the pools are among the ten, callers are finitely many);
`SignedIdentityAssumption` (`SoftTtl < HardTtl`, the kids of `Config` are kids of
the trust contract, documents are sequences), `NoneAssumption`; `FetchAssumption`
(natural limits, a chunk is not empty); `CommandAssumption` and
`SignedCallsAssumption` (bounds are natural; `None`, an SQL NULL, is no row and no
call), `NewsAssumption` (the registry lists a feed, as `registry()` demands, ids sort,
`None` is no day). Clocks and counters keep their bounds as
parameters of any size.

**`PayloadRecovery`.** The safety properties are not inductive: they say nothing of
what a worker is about to do. `IInv` adds it in parts. `ReceiptInv`: a receipt names
a winner of its own key, and every winner has it. `SideInv`: once a recovery call is
past its snapshot, the row has already taken, for good, the side the call acts on
(winning for commit, losing for discard); stale snapshots are harmless because of
this. `ObjectInv`: what the store holds for a row in each state. `WriteInv`: a write
still in flight can win only over a staged payload, because nobody discards a
RESERVED row. `JobInv` says who may be recovering at all. `ReplaysAreClean` needs a
second invariant, `LoserInv`, that follows the losing attempt through recoveries
other workers run for it. The refinement maps `WriteFresh` to `Decide`,
`StoreCommit` to `Persist` (or a stutter), `Report` to `Grant` or `Refuse`, failures
to `Refuse`, and everything else to a stutter.

**`SessionAuthority`.** `IInv` has, besides types, `OneLive` and the lineage, three
ideas. `PrincipalLocks` and `SessionLocks`: two transactions never hold conflicting
locks, and a sharing transaction holds its own session's row. `DecisionInv`: what a
call decided by stays true until it commits, at a witness reading `t <= clock`; a
commit by another transaction cannot disturb it because that one would hold the
principal exclusively, or (logout against the fence) the session row. `SessionInv`:
lifetimes are not empty and no session is from a generation not yet reached, so an
authority change leaves no live session. `NoDeadlock` follows from the order of
locks: a call waiting for the principal holds nothing, and a call waiting for a
session waits only for one that is not itself waiting. `LateCallsEnd` adds
`LateInv`: a late call is at its decision and stays run out. Time only ends sessions,
and what commits beside a call that holds the principal is a logout or a command,
which opens none; so the call's own step can only be `Abort`.

**`ServicePool`.** `IInv` adds to types and `LentOnce`: `Cleaned`, an idle
connection, and one between its reset and `BEGIN` or its return, has the service's
role, no transaction and its policy's settings in order unless its session is dead;
`Checked`, the checks passed so far saw none of the drifts that have stood since the
request; `Phases`, before the body an error is only of the pool and after it never a
drift; `Writes`, where a body's writes are. That an answer cannot be mistaken needs
that no policy names a check like an exit error: `PoliciesAreNamed` goes through all
ten.

**`SignedIdentity`.** `Trusted` ties the configuration to the snapshot it was built
from, and snapshots to well-formed documents; `Lawful` follows each request by its
program counter: it holds the configuration it started with, and its token verified
under that. `KidsAreUnique` is a pigeonhole argument: `Cardinality(Kids(doc)) =
Len(doc)`, the code's test for duplicates, makes the choice in `Eligible` the only
one. `ListedKeysStay` is inductive with it: a
refresh compares with the cached snapshot, which every request under way agrees with,
and a restart leaves none under way.

**`JwksFetch`.** `Wire` bounds what has been read at each stage, `Frozen` keeps the
target equal to the pin and its addresses those of one approved answer, `Sockets`
has at most the peer's socket open, `Secured` says a peer has proved the pinned
host, and `Whole` that a body handed to the envelope is the whole one: as long as
stated, or ended by the server.

**`DraftCommand`.** `Staged` and `Attempted` tie a command's place to what its
transaction will write and to its row of the ledger: there is none before the
reservation, and while the write has it locked it stays RESERVED. `ReceiptInv`: a
receipt names the one winning attempt of its key. `LockInv` gives the lock of a key
to the write that took it until its end, so that what it `Found` (a receipt or none)
stays so up to the COMMIT. `Allowed` and `Truthful` are the two properties for one
command; the first is inductive because a logout and a change of rights need the rows
that every fenced command shares. The refinement maps each `Commit` that records
something, a `CommitUnknown` that did, the retreat, the claim and `Finalize` to one
step of the ledger each, and everything else to a stutter.

**`SignedCalls`.** `LockInv`: the advisory lock of an account is with the one link or
provisioning that took it, until its end. `RegistryInv`: one Actor, one Principal of
this Actor, and proofs that name both. `CallInv` follows a call: `Staged`, its place
and operation; `Prepared`, what it will write agrees with the registry as it is until
it commits, because only the holder of the lock changes these rows; `Owned`, whatever
bears a call's name was committed by it, and it was not told that it was refused;
`Promised`, what its receipt says, and that the last reading of the clock was inside
the bearer's window. The refinement maps a COMMIT that is kept to `Link`, `Spend` or
`Session`, every other answer to `Fail`, and the steps in between to a stutter; that a
new Principal gets the Actor the account has now, and not the one the proof was issued
for, needs `RegistryInv`.

**`NewsCollector`.** While a run is under way the site does not change, so what the
run has read (`run.previous`) is what is published (`Current`). `Merging`: the
records of the run have distinct ids and true histories, and each record of the site
that is still in the window is continued by one of them. The merge of one row keeps
this (`MergedOK`, from `ContinuedOK`), which is why `MergeRow` is a step of its own:
nothing has to be known of the rest of a document. That a record is only left out of
a full list (`LeftOutOfFullList`) takes, of the records left out, one with the fewest
newer ones: all of these are in the list.

**Only model-checked.** `EveryAttemptTerminates` and `FetchEnds`, because liveness
under fairness is outside the prover, and the four counterexamples.

## 11. What is not modelled

- Syntax: claims, headers, JSON, XML and HTML, URL and address rules, roles and
  grants beyond the drifts a pool's checks see. Their outcome is a field of a token,
  document, response or item. Signatures are the equality of keys.
- External: the payload store's internals (`stage()` is durable when it returns),
  `psycopg_pool`, PostgreSQL, the resolver, the servers, the workflow runner. Each
  is modelled from how the code uses it.
- In `DraftCommand`: the staged bytes and DISCARDED (`PayloadRecovery`), lock waits
  between two identity changes (`SessionAuthority`), a second principal. Every lock,
  key and row there is one principal's.
- Two behaviours have no property because they fail closed and break no promise;
  they are contained in runs: a process clock ahead of the database's gets
  every issue refused near the lifetime's end (`signed_calls`), and a feed that
  leaves the registry invalidates the published snapshot until someone starts over
  with `--bootstrap` (`news_history`).
- `identity_mutation_service.py`, which answers every error of its pool, one after
  the COMMIT included, `IDENTITY_MUTATION_REJECTED`; a list of functions fixed in a
  pool that later migrations have overtaken (a property of one deployed catalogue).
- F: single-row constraints and triggers without a caller in `src/` beyond the
  private draft's one revision, which `PayloadRecovery` has. H: a local
  demonstration. The executors of `p2_1c2d2b`, `3b`, `3c` are superseded:
  `p2_1c2d3d` revokes what they call. The owner-read adapter is one read behind the
  fence and the pool.
- Reviewer rights, which no function here grants.

## 12. Plan

1. An abstract specification of a pool of clean sessions that `ServicePool`
   implements.
2. `VoiceHistory` and `PreviewStore`, if a caller or a second tab makes them worth
   it.
