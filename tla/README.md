# A verification of icloud-mail

icloud-mail manages Apple *Hide My Email* addresses ("aliases") of several iCloud accounts, lends them to
client projects out of a *mailbox pool*, and collects the mail they receive. It is one Go process over one SQL
database; Apple and the mail servers are outside. This directory holds TLA+ models of it, the TLC
configurations that check them, and proofs checked by TLAPS. `PROJECT.json` maps every definition to its lines.

What makes the program hard is not any one function. An address is a scarce, one-way resource: it can be
consumed only once, its creation and deletion at Apple cannot be undone, the answer of either may be lost, and
Apple punishes asking too often for hours. Many actors work on the same rows: client requests, maintenance
loops, jobs, two or more polling instances, an operator, directory synchronisations, mail reads, and restarts.

## 1. The system

| Part | Source (`src/internal`) | State it keeps | Operations | Hard behaviour |
|---|---|---|---|---|
| mailbox pool | `store/pool.go`, `store/pool_commit_batch.go`, `httpserver/pool.go` | members, suspended members, leases, requests, projects | enrol, claim, renew, commit, release, expire, account switch | selection before the account lock; retries; rows that move between two tables; recycled addresses |
| alias retirement | `store/pool_retirement*.go`, `httpserver/pool_alias_retirement*.go` | jobs, items, one goroutine per job | request, delete at Apple, finalise, restore, review, reconcile, recover | a deletion with unknown outcome, crashes, two jobs and one lease |
| creation scheduler | `autocreate/manager.go`, `store/alias_creation_schedule.go`, `store/alias_creation_cadence.go` | per account: enabled, cycle, slot plan, next deadline, cooldown | poll, claim by compare-and-swap, correct, record, cool down, opt in and out, cadence upgrade | stale snapshots, slow writes, several instances |
| creation budgets | `store/apple_creation_budget.go`, `store/apple_creation_channel_budget.go`, `hmesync/creation_budget.go` | attempts per account and per channel, cooldowns in memory and in the database | charge, refuse, pause | rolling windows, restarts |
| alias creation | `hmesync/service.go`, `hmesync/account_channel.go`, `hmesync/alias_candidate_review.go`, `store/auto_alias.go`, `apple/account_protocol.go` | disabled candidates with provenance, Apple session | create, complete, save candidate, poll, confirm, resume, review, discard | lost answers, fallback between channels, lagging directories |
| directory synchronisation | `hmesync/service.go` (`SyncAliases`), `hmesync/directory_reconcile.go`, `store/alias_import.go`, `store/apple_directory_reconcile.go` | aliases of an account | read, cross-check, import, confirm, delete | acts on a read of some time ago |
| deletion at Apple | `hmesync/alias_delete_*.go` | a group per account with a cached directory and a rolling session | deactivate, delete, look again, throttle, checkpoint | gives up the account lock while it waits |
| jobs | `httpserver/admin_alias_delete_jobs.go`, `httpserver/alias_creation_jobs.go`, `store/alias_deletion_job.go`, `store/alias_creation_jobs.go` | one durable record and one goroutine per job | admit, work, save, finalise, stop, recover | saves that fail or fail and are done; rotation of credentials |
| Apple sessions | `hmesync/automatic_login*.go`, `store/auto_login.go`, `store/apple_session.go` | encrypted sessions, settings with a revision, retry state, deadlines in memory | log in, wait for a code, verify, publish | minutes of waiting beside the operator |
| mail synchronisation manager | `syncer/manager.go` | account and IMAP locks, slots, progress, queued jobs | rounds, continuations, manual jobs, notifications, shutdown | lock order, lock objects that come and go |
| mail synchronisation store | `store/imap_sync.go`, `store/archive.go`, `mail/archive_fetcher_v2.go` | cursors, messages, files | prepare, choose a batch, stage, publish, evict, reset | fetch without a lock, publish later; files beside the database |
| receiving on demand | `syncer/active_receiver*.go`, `syncer/mailbox_events.go`, `httpserver/pool.go` | a worker per active account, generations | pickup, notify, sleep, reconnect | lost wake-ups, joining a read in flight |
| seen flags | `syncer/seen_worker.go`, `store/seen.go` | tasks per message | list, mark, delete | tasks listed before the lock |
| start | `cmd/icloud-api/main.go`, `secure/`, `store/master_key.go`, `store/legacy_sqlite.go`, `publicimap/tls.go` | path, key and certificate files; key binding, import marker | load or create, bind, import, seal, bootstrap | several processes, a stop anywhere |
| protocol clients and parsing | `apple/`, `mail/` | none that is shared | HTTP, SRP, IMAP, MIME | input and output |
| servers and console | `httpserver/`, `publicimap/`, `web/` | sessions, views | decode, authenticate, render | around the operations above |

How they meet: the pool and retirement share the `pool_lock` row; alias and account writers take only the
account lock, so they run between a claim's selection and its commit. The scheduler calls alias creation,
which takes the account's operation lock, then its account lock, and charges the budgets. Directory
synchronisations, deletions and logins share the operation lock and the stored session; a deletion gives the
account lock up while it waits. Mail is read under a lock of the mailbox and one of a few connection slots, and
published against the versions it was prepared with, while account changes hold the account lock. The receiver
and the event watcher call the manager. Retirement and deletion jobs call the same Apple service.

What makes each part correct:

* *pool* - an address is held by one project at a time, consumed once in its history, known to nobody else, and
  given back when its lease runs out; a repeated request gets the same answer.
* *retirement* - nothing is called retired that still exists at Apple, nothing closed is lost, every job ends.
* *scheduler and budgets* - no deadline is used twice, runs keep their distance, a cooldown survives everything,
  and Apple is asked no more often than the ceilings say.
* *creation* - an address is written down before it is used, issued only if Apple made it, made once, and not
  forgotten while the directories are still catching up; places are not sold twice.
* *deletion and its jobs* - a row goes only on evidence, Apple deletes only what is still wanted, no session is
  worked with that was not stored, and the record of a job lacks at most one result, beside addresses that
  Apple's answers have hidden from it.
* *logins* - an automatic login neither overwrites what the operator did nor is forgotten.
* *mail* - none behind the cursor is missing, none of another mailbox is shown, content that was archived stays.
* *manager and receiver* - one holder per lock, no deadlock, a stop leaves nothing running, a pickup is neither
  told too early nor left waiting.
* *start* - however many processes start and stop, it is one installation.

## 2. Modules

| Module | What it is |
|---|---|
| `Pool` | the pool and the account and alias writers beside it |
| `PoolRetirement` | retirement jobs, their workers, Apple and crashes, composed with `Pool` (EXTENDS; every pool step is a step) |
| `PoolProofs` | the inductive invariants of both |
| `AutoCreate`, `AutoCreateProofs` | the schedule of one account, the polling managers and the account ledger |
| `AliasCreation`, `AliasCreationProofs` | one creation at a time on one account, the channel ledgers, and the directory synchronisation |
| `MailSync`, `MailSyncProofs` | reads of one account: preparation, choice of a batch, staging, publication, and what changes meanwhile |
| `LockService` | abstract: a lock per key with one holder |
| `AccountLocks` | the manager's reference-counted map of locks, shown to implement `LockService` |
| `SyncManager`, `SyncManagerProofs` | the manager, the seen worker and account changes, composed with `AccountLocks` (EXTENDS), which holds both maps of locks; the proofs of both |
| `ActiveReceiver`, `ReceiverProofs` | the shared receiver of one account and the pickups that wait for it |
| `AliasDeletion`, `AutoLogin`, `DeletionJob`, `CreationJob` | one group of deletions; automatic logins; the two kinds of job |
| `AppleOps`, `AppleOpsProofs` | the four of them together, with web pickups, account deletion and restarts |
| `Startup`, `StartupProofs` | processes starting over one data directory and one database; its inductive invariants |
| `MCPool`, `MCAutoCreate`, `MCAliasCreation`, `MCMailSync`, `MCSyncManager`, `MCActiveReceiver`, `MCAppleOps`, `MCStartup` | instances for TLC |

Each module begins with a comment that says what a row, a lock and an open transaction are in it.
Operators named as a faulty variant (`ClaimableAnyAddress`, `LookedOnce`, `KeepOfSuccess`, ...) stand before
the definition they would replace: each is a plausible mistake in that code and breaks exactly the property it
is listed with, so no property holds by the shape of the model.

**Pool.** Tables are functions from row ids; a missing row is `0` or `"none"`. All pool writers first lock the
single `pool_lock` row (`poolTx`), so each is one action, except the claim: `ClaimSelect` chooses candidates
before the account rows are locked and `ClaimCommit` / `ClaimAbort` finish, so that deletion and switching of
aliases fall in between, as they can in the code. `holders` is history: which projects were shown the current
credentials of an alias. Switching an account off moves membership to `pool_suspended_members` and back;
`WriteMembers` writes the table the account's state selects. Lease ids are the lowest unused numbers instead of
random strings.

**PoolRetirement.** `job`, `item` and the lease state are rows; `phase`, `todo`, `evidence`, `verdict` are the
goroutine's. Apple's deletion (`AppleDelete`) is separate from the transaction that records its outcome
(`RecordOutcome`), and the call may return an error whatever happened. `CrashRestart` drops the goroutine state
and runs the start-up pass. `ReadDirectory` is one read, `ApplyObservation` one transaction per item. An item's
snapshot of alias, account and address is not kept: a lease's alias id only ever changes to NULL and ids are not
reused, so the snapshot matches exactly when `leaseAlias` is not 0.

**AutoCreate.** One account, discrete clock. A manager works from a snapshot: `ListDue`, then
`RescheduleOverdue`, `RescheduleTooSoon` or `PrepareClaim`, whose writes are compare-and-swap
(`Unchanged(expected)`): `Reschedule`, `Claim`. After a claim it reads the clock again (`PrepareCorrection`,
`CorrectPlan`), calls the creation service (`ChargeAttempt`, `RefuseAttempt`, `ConfirmInstead`, `Answer`,
`PauseLedger`) and records (`RecordResult`, `CoolDown`, `SwitchOff`). The operator's switch reads its time first
and writes later (at most `MaxLag` ticks). `Boot` upgrades the cadence when `Install` changed it. Plans are
chosen nondeterministically among those the generator can produce.

**AliasCreation.** `apple` is what Apple did with each address (generated, live, gone); `rows` the aliases with the
provenance and review of candidates. A directory read returns any set of live addresses that contains every one
whose row is older than `Lag`, unless it was completed when already old (`late`). A run (`Begin` ...
`SaveCandidate`, `Confirm`) holds the operation and account locks; a synchronisation only the first until
`SyncCommit`, and operator edits only the second. Every request may be done by Apple and yet fail (`Uncertain`).
`CompleteNew` with its `"replay"` phase is the 5xx replay of `CompleteAccountAlias`.

**MailSync.** One account and its mailboxes (`box`, one per source, with a UIDVALIDITY), the cursor row, the
rows of archived messages and the files. A read is prepared from the account, its enabled aliases and the cursor
(`read`), fetched as one bounded batch (full, windowed, pinned or on behalf of one alias), staged file by file
and published by one transaction that compares the versions the read began with. Beside it the account and its
aliases are edited, another account's publication evicts content, and the process stops and starts; `owed` are
the aliases a message was for when it arrived, less those the read under way did not know.

**AccountLocks, LockService, SyncManager.** `AccountLocks` separates taking a reference (under the mutex of the map)
from competing for the token and from release, so that objects come and go between them. `SyncManager` extends it,
with the locks of accounts and of mailboxes as its keys, beside the connection slots, with one action per critical
section of its callers: turns of `Run` with continuations, manual jobs with batches and retries, notifications, the
seen worker, and an administrator who changes the account. Timeouts are left out: the runs show that none is needed.

**ActiveReceiver.** A worker that starts, connects, reads, fails, sleeps after its idle time, is cancelled and
removed; pickups that are admitted, join a read or ask for one, and wait for a generation; long pickups that
subscribe to the archive before they look at it. The generation counts from the last commit, so waiting pickups are
renumbered with it. The channel of wake-ups is not kept: a resting worker looks again at any time (`Stir`), as it
does by its ticker when a wake-up is lost. "Connected and read within five seconds" is one flag that may expire at
any time. The limit of workers, the webmail path and readers that publish beside the worker are left out.

**AliasDeletion, AutoLogin, DeletionJob, CreationJob, AppleOps.** One account and its iCloud web channel.
`AliasDeletion` is one group: `Enter` takes the account lock at first and after every wait, `Start` makes the checks
of an item, requests (`Sends`) are answered in every way with or without effect, and every answer's session is
checkpointed (`Keep`), which may fail. The owner's devices and the operator change things in between. `AutoLogin` is
the event loop (`event`, `deadline`, `active`) and one attempt with its three turns of the operation lock.
A commit of a login or of settings may be reported as failed, and then nobody is told of it (`untold`, until the
account is looked at again). `DeletionJob` keeps the record in the database and the worker's copy apart: each save may
fail, or fail and be done. `CreationJob` asks for one address after the other; a probe there stands for a whole
`AliasCreation` run, of which the job sees only the answer: a plain limit may hide an address that a replay refused
with 429 has dropped (`dropped`), and the job waits it out and goes on. In
`AppleOps` a behaviour is one of four scenes that say which of them meet: in the one with logins a group of
deletions is not cancelled, and only there may the stored session have lapsed before the first step.

**Startup.** A process goes through path, key, schema, the key's transaction with the import inside, missing
credentials, administrator and certificate; between any two steps it may stop, or another process may go on.
Random values are drawn from a small set and are new. A secret is the key it is encrypted under. Files are
created exclusively: the path file is created and written in two steps, the master key is published whole by a
link, and key and certificate of the IMAPS server are two steps.

## 3. Runs

Every passing run explores its whole state space; every action of every module fires in some run.

| Run | Question | Bounds |
|---|---|---|
| `pool` | Are leases, membership, history, credentials and jobs consistent under every interleaving? | two scenes: the pool from empty with 1 account, 2 addresses, 2 projects, 2 rows, 2 leases, claims of up to 2; and one used lease with 2 jobs beside every pool operation |
| `pool_small` | Does maintenance take back every expired lease, and every retirement job end? | one address with two request ids and TTL 2, so that a lease can be renewed and a recycled address leased again; one job over two used leases with what can upset it |
| `auto_create` | Is any slot used twice, any run too early, any cooldown or ceiling broken? | two scenes: 2 managers, 1 switch, time 6; 1 manager, 3 slow switches and an upgrade, time 7; 1 crash |
| `auto_create_reoptin` | (violated) Does a claimed run keep its distance after an opt-out and opt-in? | 1 manager, no crash |
| `alias_creation` | Are places, channels, candidates and cooldowns kept through lost answers? | 3 addresses for 2 places, 2 creations, 1 synchronisation, 1 event (crash, edit, session, removal), time 2 |
| `alias_creation_twice` | (violated) Does a run make at most one address? | 1 creation |
| `mail_sync` | Is mail skipped, misfiled, lost or wrongly paused? | five scenarios: windows (3 mails, 4 reads, 2 ticks), aliases, edits with a new UIDVALIDITY, reads for one alias, and stores with 2 sources, a failed publication, an eviction and a stop |
| `sync_manager` | Do locks implement the service, jobs end, and stops leave nothing? | 6 crews of two callers at two mailboxes, one connection, 2 batches' continuation, 1 retry, 3 lock objects |
| `seen_marks_own_source` | (violated) Does the seen worker mark tasks in their own mailbox only? | as before; two mailboxes with one UIDVALIDITY |
| `receiver` | Is a pickup told too early, or never? | an ordinary and a long pickup, 1 mail, 2 generations |
| `apple_ops` | Do deletions, logins, jobs, the operator and restarts keep rows, sessions and records true? | 2 addresses; per behaviour 1 group or 1 job of two, 1 recovery, 1 outside change, 1 login, 1 change of settings, 2 attempts of a job that wants 2 addresses and may have 2 of them hidden |
| `startup` | Is it one installation that comes up? | 2 processes in 3 kinds of scene (fresh, import, old), 3 random values, 1 stop, 2 states of the legacy database |

Why the bounds are enough to matter: two leases and two alias rows are what a double hand-out needs, two
projects what a leaked credential needs, and one address with two rows what recycling needs. Retirement starts
from used leases because reaching them through the pool first would spend the state space on what the first
scene checks; there one project alone is switched off and addresses are enrolled by hand. The clock values keep
the order of the real constants (slot gap below cycle, cooldown above the gap, listing lag below the review age,
hour as long as the cooldown) and run past each of them. Three addresses for two places let a candidate, an
import and an enabled alias compete. A deadlock or a double holder of locks taken in pairs needs two callers, an
object removed too early one that waits: the crews are all pairs of callers that share something. A read that
overtakes a pickup needs one mail and two generations. A group of two is the smallest with items before, at and
after a failure. Two processes and one stop are a race with a leftover; two stops were tried and hold as well.
Symmetry is declared only in runs without liveness. Deadlock checking is off because bounded counters let the
models stop.

Fairness is claimed in four modules and nowhere else. `Pool`: maintenance repeats every 15 seconds
(`RunPoolMaintenance`), so an expiry that is possible again and again happens (SF), and an open transaction ends
(WF). `PoolRetirement`: a worker's step happens if it stays or keeps becoming possible: a goroutine runs, each
Apple call has a deadline, and the pool lock is granted to whoever keeps asking. `SyncManager`: a caller that can
go on does (WF); a lock or a slot is granted to one who waits while it is free again and again (SF: Go channels
serve waiting senders in order); `Run` goes on (WF). Nothing is assumed of timeouts or of a stop. `Startup`: each
process is scheduled and started again whenever it ends (SF; `src/compose.yaml:6`, `restart: unless-stopped`; the
database grants its locks in order). The other modules claim safety only and assume none.

### Disagreements found

* `auto_create_reoptin`: `autocreate/manager.go:485` says database latency cannot leave the next deadline inside
  the minimum interval of a run's start. It can when the operator switches creation off and on while a claimed
  run is still before its second clock reading: the new plan was dated before the run started. The account
  ledger still refuses the attempt, so Apple is not asked too often (`RollingCeiling` holds).
* `alias_creation_twice`: `CompleteAccountAlias` replays a completion after a 5xx answer. If Apple had done it
  and the replay is refused with 429, the address is dropped as explicitly rejected and the run creates a
  second one on the other channel, against `hmesync/account_channel.go:380`. The first address stays live at
  Apple, unknown here until a synchronisation imports it. A creation job takes the same answer for a plain limit,
  waits and asks again; `MissingExplained` therefore counts these addresses apart.
* `seen_marks_own_source`: `store/account.go:317` says tasks of the old mailbox must not be replayed against the
  new one. The worker lists its tasks before it takes the account's lock, so tasks listed before a change are
  marked after it if both mailboxes have the same UIDVALIDITY.

### Observations that no run states

* A pickup that joins a read in flight may get one that listed the aliases before its alias existed.
* The first message of a new alias may fall behind the account's cursor; `docs/MAIL-SYNC-AMPLIFICATION-REVIEW.md:16`
  accepts this for history, and `owed` excludes it.
* After a full read that stopped part way, an active read without a pinned window filters mail older than 15
  minutes.
* An ambiguous commit error of `UpdateAccount` leaves the caller with the old archive directory and the new row.
* Eviction does not take the archive lock of the account it evicts from; a reader of content may meet it and mark
  content missing (`store/archive.go:736`). A leftover file of a web publication can block a later one
  (`store/archive.go:382`). `ContentKept` names the one race it leaves out (`raced`).
* A publication of webmail clears the pause for refused IMAP credentials.
* A worker of the event watcher that ended on refused credentials stays in the map until the account's identity
  or pause changes.
* Web pickups roll the stored session while a deletion waits, and may overwrite, or be overwritten by, a login.
* In `secure/admin_path.go:50` the branch for a path another process made is never taken, since
  `persistAdminPath` reports it as an error: the process that lost the race has to be started again.
* Two processes that import and bootstrap at once: the import is refused once the other has made an
  administrator; that is by design and is one of the cases `MustBeMended` names.
* A failed or ambiguous first write of a job, or of its last state, leaves an open record until a restart.

## 4. Proofs

All are for any number of the things named, from the assumptions of the modules alone.

* `PoolProofs` (any accounts, addresses, projects, requests, bounds): `PoolTypes`, `PoolSafety` (the inductive
  `PoolInv`), `MembershipIsSound`, `AddressConsumedOnce`, `CredentialsAreExclusive`, and `LeasesMoveForward`.
  The three safety properties are not inductive alone. `ConsumedOnce` speaks of addresses while membership
  speaks of alias rows: a commit consumes the address of a lease, and to know that no other lease of that
  address is live one needs that a lease with an alias carries its alias's address, that addresses are unique
  among rows, and that a deleted alias leaves neither membership nor a lease pointing at it (`RowsBound`). A
  claim that commits needs to know that what it picked is still available and unconsumed if it still exists
  (`ClaimSound`). One lemma per action, each split by conjunct; `SafeStep` collects them.
  `RequestsAreFulfilled` (`RequestFulfilled`) counts: a committed claim numbers its leases by a bijection from the
  aliases it picked, and the request of an open claim has no row yet and so, by the invariant, no lease.
* `PoolProofs` also of retirement (any number of jobs, of `RSpec`): `RetirementKeepsPool` (`PoolInv` again, now with
  the transactions of jobs), `RetiredAreGone` (`RetiredGone`), `JobsAreHonest` (`JobsHonest`). Their invariant
  `RetireInv` has, beside the two properties, what they need: `ItemsInv`, only leases that were issued have items,
  so a claim that commits cannot give a known lease a new address; `StatusInv`, a computed verdict "completed" is
  still true when it is written, although the directory may have settled items in between, because nothing reopens
  an item while its job's goroutine is closing; `EvidenceInv`, what a goroutine took for gone is an item of its job
  and stays gone at Apple until the outcome is recorded, which is what makes a transaction safe that trusts an
  Apple answer given before the pool lock was taken. `RetirementKeepsRequests` carries `RequestFulfilled` over.
* `SyncManagerProofs` first of the lock map alone (any callers, keys and objects): `LocksInvariant` - the
  references of an object count its users, and the map leads every user of a key to the same object - from which
  `LocksExclusive` and the refinement `LocksImplementService` follow: releasing the last reference removes
  nobody's object because counting shows that nobody is left. The count is kept by the cardinality lemmas of the
  library. Then of the manager (any accounts, slots, batches, retries): `ManagerUsesLocks` - it moves the maps by
  the operations of `AccountLocks` alone, so the theorems above hold under all of it (`ManagerServesLocks`);
  `ManagerStopsClean`, whose invariant says who counts as a job of the manager and that a stop is seen under the
  mutex of admission; and `ManagerProgressHonest`: `ProgressInv` names for every shown progress who will end it,
  which changes hands from a turn to its continuation and from a job to its retry.
* `ReceiverProofs` (any pickups, mails, generations): `ReceiverSeen` (`SeenBeforeAnswer`) needs for every pickup
  that the generation it waits for was, or will be, read after the mail it knows of; `ReceiverAttends`
  (`Attended`) that a worker with waiting pickups has a wake-up, a read or a later step left;
  `ReceiverLosesNoCommit` (`NoLostCommit`, `SleeperInv`) that a pickup that looked in vain had subscribed before, so
  that a commit of its mail has closed its channel, or is about to.
* `StartupProofs` (any processes, values, stops): `KeyIsOne`, `AddressIsOne`, `InstallationIsOne`
  (`OneInstallation`), `ImportIsExact` (`ImportExact`). `KeyInv` says that a stored key can be found again and
  that at most one process is in the key's transaction, `ImportInv` that what was read lies between the state
  the import began with and now, `AddressInv` that the writer of the path file is alone.
* `MailSyncProofs` (any mailboxes, messages, batches, edits, stops): `MailInvariant` (`MailInv`), `MailIsOwn`
  (`NoForeignMail`), `MailPauseIsCurrent` (`PauseIsCurrent`), `MailContentIsKept` (`ContentKept`),
  `FilingInvariant` (`FilingInv`), `MailIsFiled` (`FiledBehindCursor`). A publication trusts what it staged some
  time ago. The invariant `MailInv` says of every row that it is of the present source and, when available, that
  its file has the content it was committed with, in the directory or in the one a source change has set aside;
  of a publication that its staged files are in place and that what it would remove again belongs to no available
  row; and of a refusal that it was met with the credentials the read began with.
  `FilingInv` is what makes a cursor trustworthy, and has six parts: types; the mailboxes are in the order of
  arrival and owe mail only to stamps that were given out (`BoxInv`); cursors stay inside the mailbox, and behind
  the floor of one with a pinned window there is no mail older than that window (`CursorInv`, `WindowHolds`); a
  prepared read whose observation of the account still holds started from the present cursor and knows every
  alias that unread mail is owed to (`PreparedInv`); a fetched one passes only mail that is filed already or is in
  its result (`FetchedInv`); and the property itself. `IncrementalSound` and `TargetSound` say that a batch, a
  pinned or recovering window, a reset or a limited search leaves nothing out; they rest on lemmas about counting
  UIDs (`BeforeBounds`, `FirstUids`), where library theorems about finite sets and well-founded orders are used.
  Steps that begin no read, reach no mailbox and publish nothing are handled together: each is shown to be
  `Steady` (mail only arrives behind the rest, an edit makes every earlier observation stale or a stamp move on,
  what is filed for an alias that stays enabled remains filed), and `SteadyKeeps` shows that steady steps keep
  `FilingInv`. Only `PrepareFiles`, `FetchFiles` and `CommitFiles` then look at the read itself.
* `AppleOpsProofs` (any addresses, batches, selections, targets): nine theorems, about logins
  (`LoginIsNeverForgotten`, `LoginStateIsOwn`, `LoginNeverOverwrites`), deletions (`DeletionsKeepSession`,
  `RowsGoForCause`, `OnlyWantedAreDeleted`) and jobs (`JobResultsAudited`, `JobLossesExplained`,
  `EndedJobsAreLeftAlone`). `SharedInv` says in which phases an attempt or a group holds the two locks; `LoginInv`,
  `DeletionInv`, `CreationInv` and `JobInv` say of each part what it knows in each phase. That a session is not
  overwritten and that a group works with a fresh directory after a wait rest on the phases of `SharedInv`; that a
  record lacks at most one result (and, of creations, what limits at a replay have hidden) rests on `CopyInv` (the
  worker's copy is at most behind the row) and `LossInv` (what neither says is the item the group is at, or lost by
  one failed save).
* `AliasCreationProofs` (any addresses, places, delays): `CreationHolds` (the invariant), `CredentialsForMadeOnly`
  (`IssuedOnlyIfMade`), `OneCandidateAtATime` (`OneCandidatePerChannel`), `CandidatesKeepPlaces` (`PlacesKept`),
  `ThrottleOutlivesRestart` (`ThrottleRemembered`), `SynchronisationKeepsCandidates` (`KeepsLiveCandidates`).
  `RowsInv` ties a row to what Apple did with its address, `RunInv` a run's phase to the channels it found free,
  `ListedInv` a synchronisation's list to the ages of the rows it will judge. Places are kept by counting the rows
  that a run or an import adds (`FS_AddElement`). That the listing lag is below the review age is an assumption,
  and the exemption in `KeepsLiveCandidates` of candidates completed when already old is needed for it: Apple may
  not list those yet when they are reviewed.
* `AutoCreateProofs` (any managers, slots, limits, crashes, upgrades): `CeilingsKept` (`RollingCeiling`),
  `RunsKeepTheirDistance` (`SpacedBeforeReoptin`), `SlotsUsedOnce` (`SlotOnce`), `CooldownsAreServed`
  (`CooldownHonoured`). First lemmas about plans: what minimum, removal of the first deadline, shifting and
  correction do to the distances in a finite set of deadlines. `LedgerInv` says that the ledger still has every
  charged attempt of the present window although old rows are deleted, so that `WaitUntil` not after now means
  that fewer than `Limit` attempts are in the window and the last is `Gap` ago. `QuietInv` is about the schedule:
  the plan of the row lies `Gap` after every start and after the cooldown (`RowInv`); a draft lies after the
  deadline it replaces (`DraftOK`); a snapshot whose deadline is still that of the row is a snapshot of this plan
  (`SnapshotOK`), which is what makes a compare-and-swap of one deadline enough; a run that has claimed and not
  ended is no later than the row (`ExtendedOK`); and of two such runs one wrote the row when the other's deadline
  had passed (`Behind`), so that the slower one's correction fails. The last three hold while the operator has
  switched creation on at most once (`toggles <= 1`), and `SlotsUsedOnce` and `CooldownsAreServed` have that as a
  hypothesis, which they need: after a second opt-in a run that claimed under the old plan meets the new one.
  `StartsSpaced` is then false (`auto_create_reoptin`). With two polling loops so are the other two, which TLC
  finds in scenes outside the runs: the late run moves a new plan with the same first deadline back to its own
  plan, so that a slot is spent again (three slots); and it starts during a cooldown the new plan has stored (the
  ledger's own cooldown still stops the attempt when the throttled one was charged).

Only model-checked: liveness (`ExpiredReclaimed`, `JobEnds`, `JobsEnd`, `ComesUp`), which needs fairness and
ENABLED; and `SlotOnce` and `CooldownHonoured` for one polling loop after a second opt-in (the scene "operator" of
`auto_create`). The three properties of violated runs are false.

## 5. Plan

Done: all modules above, and proofs about every component. What would come next, in this order: the Apple Account
channel of deletions and its session renewal; several accounts sharing the two execution slots of the Apple service;
the limits on workers and jobs; the operator's reset of an administrator beside a login; `SlotOnce` and
`CooldownHonoured` proved for one polling loop and any number of opt-ins.

## 6. Not modelled

* `AutoCreate`: the daily limit (implied by 24 times the hourly one), failed database writes other than by a
  crash, manual probes (they touch neither schedule nor ledger). Disabling an account also switches its schedule
  off and is covered by `Disable`.
* `AliasCreation`: the account is enabled and its identity fixed; the account-wide ledger is `AutoCreate`'s; the
  change of the forwarding address before a create appears only as `FailRun`; the three transactions of a
  synchronisation's commit are one action under the account lock; an explicitly Web-only run is a run without an
  Apple Account session.
* `AppleOps`: the second channel, the two execution slots shared by accounts, addresses forwarded elsewhere and a
  directory of another account, changes of a local address, panics (they end as a cancelled call does), errors of
  finalizers, sessions without an expiry. `NeverForgotten` excepts an account whose last change was a commit that
  was reported as failed: it is looked at when anything else happens to it, or at the next start. A change of the
  account holds both locks and cannot fall into a wait; its deletion holds the account lock only and can. One
  deletion job with one selection; single manual creations.
* `Startup`: invalid settings of the administrator, the archive's start (in `MailSync`), writing the certificate
  files byte by byte. The check at the binding of a key reads the ciphertexts of mail accounts, web sessions,
  aliases and waiting keys; that an unbound database has no account sessions and no credentials for automatic login
  is an assumption (`StartupConstants`), for nothing would check them (`store/master_key.go:229`). A write to the
  legacy database after the last check and before the commit is lost.
* `SyncManager`: timeouts, the delay of retries, logging.
* The parts with status `not_modelled` in `PROJECT.json`: the counter of the pickup rate and the web console; and
  within the others protocol clients, parsers, request decoding and rendering, which are input and output, and
  the single schema migrations, which are sequential data conversion before any other actor runs.
