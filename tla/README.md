# A TLA+ verification of the content agency runtime

The repository is a multi-tenant service (`backend/agency_runtime`) that turns a
brief into a campaign with a pipeline of eight stations, stops at a human
*Greenlight*, and publishes the approved artifacts to X or Instagram. What it
promises is about authority: a run is executed once, decided once by a human,
and an approved artifact is posted at most once, whatever is retried, revoked,
disconnected or lost meanwhile; and about evidence: what was done, by whom, and
with whose permission stays in an audit ledger that survives a restore. These
modules state and check that.

Paths below are relative to `src/backend/agency_runtime/` unless they start
otherwise.

## Inventory

| Component | State | Operations | Interacts with |
|---|---|---|---|
| Social publication authority (`social_publication.py`) | none of its own | `execute`: validate, reserve, call the provider, verify, settle | connection store, intent store, X and Instagram |
| Publication intents (`social_publication_store.py`, `_postgres.py`) | rows: status, binding digest, idempotency digest, container, receipt | `reserve`, `record_container`, `complete`, `mark_unknown`, `mark_failed`, `reconcile_success`, `revoke_unused` | the authority, the endpoints that disconnect, revoke and reconcile |
| Social OAuth (`social_oauth*.py`, `api.py`) | pending authorizations, connections with encrypted tokens, a key ring | start, callback (consume the state, exchange it, connect), disconnect, bootstrap from the environment | providers, the publication authority |
| Orchestrator (`orchestrator.py`) | `_runs`, a table in memory shared by all threads of a replica | `create`, `start`, `advance`, `approve`, `reject`, `revoke`, `restore_run` | runtime service, worker |
| Runtime service (`api.py`, `RuntimeService`) | an RLock, tenant runtimes | `start`, `execute_one_queued_run`, `attach_*`, `_decide`, `revoke_greenlight`, `prepare_*`, `record_*_event` | everything below the HTTP layer |
| Run worker (`run_worker.py`) | a thread | polls `execute_one_queued_run` | runtime service |
| Run stores (`persistence.py`, `postgres.py`) | runs, audit events and chain heads, sessions, limit windows | `create`, `save` (compare the status), `command_lock`, ledger, session and quota operations | all of the above |
| Connection pool (`postgres.py`) | idle connections, their total, a condition variable | `connection`, release, discard, `close` | every thread of a replica on PostgreSQL |
| Model effect authority (`model_effect*.py`) | intents of model calls | `execute`, `reconcile_success`, `list_for_run` | model gateway, the approval of a run |
| Publication media (`publication_media*.py`) | media rows, signing keys | reserve, sign, attach, read by signed token, compensate | attachments of a run, Instagram |
| Audit integrity (`audit_integrity.py`) | a hash chain per tenant | append, complete, page, verify, checkpoint | the stores |
| Sessions and limits (`auth.py`, stores, `api.py`) | identities, sessions, CSRF digests, failure buckets, quota windows | log in, authenticate, resume, log out, count | every endpoint |
| Backup (`scripts/manage-runtime-backup.py`) | artifacts, manifests, a pointer | backup, verify, restore | the database |
| Connection watcher (`scripts/watch-social-connection-backups.py`) | a digest in a state file | poll, back up, note | the database, the backup script |
| Others | none that several actors change | model providers, trends, stations, tools, memory, evaluations, registries, serialization, observability, CLI, frontend, infrastructure | |

The hard behaviour: several threads and replicas serve one tenant; the calls to
providers may be lost or ambiguous; a process may die between any two
transactions; the orchestrator's table is shared by threads that hold different
locks; SQLite serializes what PostgreSQL does not; windows, sessions and
addresses expire while a request is under way; browsers send callbacks twice,
late or from another session; power fails between a rename and its flush. The
properties that make a component correct are, in a line each:

- publication: one provider call for one effect; a recorded success is real; an
  outcome is final; a reservation is settled, unless its request does not come to
  its end;
- runs: one worker at a time, stations executed once, a decision with its receipt
  and nothing after it, attachments that stay, no command that waits for ever;
- model effects: as publication; an output is never lost, and an approval covers
  every effect that it has listed;
- media: what a run carries has an address that answers, and keeps it; one
  attachment does not drop another;
- OAuth: an authorization is exchanged once, by the session that started it;
- sessions and limits: an ended session admits nothing, the last tab to resume is
  the trusted one, a window never admits more than its limit;
- audit: one chain per tenant, no event skipped by a page, a true checkpoint;
- pool: the bound, no lost wakeup, no checkout without end;
- backup: what is announced can be restored, and what is restored is there.

`PROJECT.json` lists the hazards at their lines.

## Modules

| Module | Models | Checked by |
|---|---|---|
| `SocialPublication` | the authority, its store, the endpoints around it, the provider | `MCSocialPublication` with `SocialPublication*.cfg`; proofs |
| `ModelEffect` | the authority of model calls, the attachment of outputs, the decision they block | `MCModelEffect` with `ModelEffect.cfg`; proofs |
| `EffectOnce` | what an effect authority promises, of an effect alone | refinement `ImplementsEffectOnce` of both, proved |
| `RunLifecycle` | one run: worker, lease, fence, locks, shared table, commands, receipts | `MCRunLifecycle` with `RunLifecycle*.cfg`; proofs |
| `PublicationMedia` | reservation, signing, attachment against decision and output, compensation | `MCPublicationMedia`; proofs |
| `SocialOAuth` | authorizations, connections, bootstrap, key ring | `MCSocialOAuth`; proofs |
| `AccessControl` | failure limits, sessions, quotas, CSRF, permission | `MCAccessControl`; proofs |
| `AuditLedger` | the chains, their completion, pages, verification | `MCAuditLedger`, and as part of `RuntimeBackup`; proofs there |
| `RuntimeBackup` | extends `AuditLedger` with backups, restores and the watcher | `MCRuntimeBackup`; proofs |
| `ConnectionPool` | the pool and its condition variable | `ConnectionPool.cfg`; proofs |
| a module each, named after it with `Proofs` | inductive invariants, lemmas and theorems about the eight modules marked so | tlapm |

Operators whose comment begins with *Slip* are mutated forms of the definition
that follows them, each a mistake the code could contain; no specification uses
them. They show that every property can fail.

A component is cut where others touch it. `SocialPublication` has the connection
as a version that is bound, removed and replaced (`SocialOAuth` says how it comes
about) and the Greenlight as granted or revoked (`RunLifecycle` says how).
`ModelEffect` and `PublicationMedia` have the run as status and artifacts, saved
under a comparison of the status as `RunLifecycle` has it. `RuntimeBackup`
composes two components in one state: backups are taken while the ledger grows.

### SocialPublication

The state is the rows of the intent store (`status`, `binding`, `failure`,
`contained`, `reconciled`, indexed by the idempotency key that found them), what
the authority reads elsewhere (`greenlight`, `connection`), the audit events,
what the provider has seen (`creates`) and done (`posts`), and for each request
thread where it is (`pc`) and what it has read so far (`key`, `target`).
Each transaction of the database and each request to the provider is one step,
so that every interleaving of threads and replicas is there:

- `BeginPublish`, `BindAccount`: `prepare_social_publication` reads the run and,
  later, the connection; `CheckConnection`, `Grant`/`Replay`: `execute` reads the
  connection again and reserves;
- `CreatePostX`; `CreateContainer`, `RecordContainer`, `PollContainer`,
  `PublishMedia`; `VerifyPost`: the requests, each answered `ok`, `rejected` (4xx),
  `ambiguous` (timeout, 5xx, malformed) or `unhandled` (below). A rejected request
  did nothing, one that is neither rejected nor `ok` may have posted: this is the
  assumption on the provider;
- `Complete`, `MarkUnknown`, `MarkFailed`: the settlements, each of which does
  nothing when the row is not pending any more;
- `SecretMissing` and `Escape`: the exceptions that `execute` does not catch. It
  settles the row when the tokens do not decrypt (`CredentialInvalid`), for a
  rejection, an unknown outcome and an error of httpx. Tokens that decrypt without
  a secret raise `SocialPublicationUnavailableError`, and an answer may make its
  reader raise a `TypeError`, `ValueError`, `UnicodeEncodeError` or
  `RecursionError`: the client is told 409 or 500, and the row stays pending;
- `Reconcile`, the three steps of a disconnect, `RevokeGreenlight` and
  `RevokePendingOfRun`, `Connect`, `RecordEvent`;
- `Crash`: a request ends between any two steps, its process having died or the
  database failed.

Two ghosts say why a row may be pending for ever. `abandoned` has the keys whose
executing request crashed or escaped; `overlooked` those that no revocation of
the Greenlight reaches, because they were reserved after it, or because the
request that had committed it crashed before it revoked.

Abstracted: an effect is a run, a channel and an account, since the other parts
of the binding digest are functions of these once a run is approved; receipts
and IDs of posts; clocks; the polling loop is its outcome. An operator who
reconciles has seen the post: the code trusts the evidence, so the model makes
it true. The two social events of a removed connection are one.

`EffectOnce` forgets keys and threads: an effect has an outcome and a count of
calls. `ImplementsEffectOnce` maps the status of the one row bound to an effect
to its outcome and `creates` to its calls, so every behaviour of the authority
is one of reserve, send, settle, revoke, reconcile, in an order `EffectOnce`
allows.

### ModelEffect

Rows as above, indexed by idempotency keys (`status`, `binding`, `receipt`), the
provider's count of calls per request, the stored run with the outputs attached
to it, its events, the locks of the services and of the attachments, and for each
thread what it has read (`document`, `listed`). `PrepareModelEffect`, `Grant` or
`Replay`, `CallProvider`, `Complete` or `MarkUnknown` are the authority;
`BeginAttach`, `RefuseAttach`, `SaveAttachment` the attachment of an output under
its lock, with the event; `BeginReconcile`, `Reconcile` the operator's evidence;
`BeginDecision`, `ListEffects`, `SaveDecision` a decision that lists the effects
of the run and is refused while one is unresolved or unattached. A call may be
answered by a completion, an error, or not at all, and a `Complete` may fail
before its commit or after. `ImplementsEffectOnce` is the same refinement.

### RunLifecycle

The state is the stored document (`db`), the audit ledger of receipts, the
objects in memory (`heap`), the entry of the run in the orchestrator of each
replica (`cache`), the locks held, and each thread's registers. `progress`
counts checkpoints: each station has two, one when it begins and one when it is
ready. A document in memory is an object that two threads may both refer to:
what one changes, the other saves. That is what the module is for.

- worker: `Poll`, `Claim` (execution lock, read, lease check), `SaveLease`,
  `RestoreRun`, `Advance` or `AdvanceFails`, `Checkpoint`;
- commands: `Request`, `Enter` (service lock), `BeginCommand` (command lock,
  replay or load), `Create`, `Insert`, `RestoreRun`, `Decide`, `SaveCommand`;
- environment: `ExpireLease`, `Abort` (an exception), `Crash` (a process),
  `DropLock` (the session of an advisory lock ends).

With SQLite `command_lock` is the lock of the store, so the worker and the
commands exclude each other; with PostgreSQL command locks are advisory, named,
and not the same for the worker and a decision. `SharedDatabase` selects.
`Workloads` gives the sets of workers, operations and faults that one behaviour
combines: a behaviour has one of them throughout.

Abstracted: one run; the contents of stations; a decision is one step from its
check to its object; refusals for the risk report, the reviewer or an unresolved
effect are nondeterministic.

### PublicationMedia

The rows of the media store (`media`), the runs with their artifacts, the
receipts of attachments, the signing keys of each replica and the clock. A
command is `Attach` or `Replay`, `Read`, `Insert` or `Reuse` (the reservation, or
the one an earlier attempt left), `Sign`, `Save` — or `SaveFails`,
`SaveUnanswered` — and `Compensate`; `Decide`, `SaveDecision` approve or reject;
`AttachOutput`, `SaveOutput` attach the output of a model effect: what matters
here is that this command too reads the run and saves all of it, under a lock of
the effect and a comparison of the status. On SQLite one process holds the
service lock through each of them; on PostgreSQL they overlap in two replicas. No
other code saves a run that awaits its Greenlight, but for a worker that has lost
its lease or its lock and saves a checkpoint late: that is left to `RunLifecycle`.

A token is the key that signed it, the media and the expiry; it `Resolves` when
it is that of a row that is `Live`, for the endpoint compares it with the row.
The ghost `unanswered` marks what a commit stored although its client was told
otherwise, `overwritten` the runs whose images the save of an output has changed.

### SocialOAuth

An authorization is a number in the order of the starts. `Start`, `RequestToken`
(X), `CreateSqlite` or `DeleteOlder` and `InsertState` (PostgreSQL, a statement
each), `AnswerStart`; `Callback`, `Consume`, `Decrypt`, `Exchange`, `Extend`,
`Upsert`, `AnswerCallback`; `ProviderFails`; `Disconnect`, `Delete`,
`AnswerDisconnect`; `Restart` under another key ring, with the bootstrap of the
environment's connections. Browsers may send any issued authorization again from
any session, at any time. A start that was answered supersedes the older ones:
they are consumed no more, but one consumed before may still finish its exchange.
`Restart` ends all threads together, although replicas restart one at a time; a
thread may stop for ever at any step anyway, which is all that safety sees of it.

### AccessControl

Tabs of one browser, each with one request at a time and the CSRF token it was
last given; they share the cookie. A request goes `Begin`, `Enforce` (is the
bucket full), `Record` (a failure) or on to `Create` or `Authenticate`,
`Consume` (the quota), `Authorize`, and then `Rotate` and `Receive`, `Verify`,
`Revoke` or `Deny`. Each store method is a step; requests interleave between
them, windows end and the service restarts with other identities. The two
backends differ where the code does: which buckets a purge empties, when a
window is over. The ghosts `recorded` and `admitted` count what the store
forgets. One constant is the length of both windows.

### AuditLedger and RuntimeBackup

A hash is the sequence of events it stands for, so that two hashes are equal
exactly when all they cover is. `rows`, `heads` and `serial` are the tables;
with SQLite an append is one step, with PostgreSQL it is `LockChain`,
`ReadHeadRow`, `Insert`, `CommitPostgres` or `Rollback`, and the serial is taken
before the commit. `Open` completes ledgers older than the chain and refuses one
that does not verify; `Page`, `ReadRows`, `Verify`, `Answer` are the auditors;
`Corrupt` alters or removes a row, which is what verification is there to see.

`RuntimeBackup` adds the files of the backup directory, the states a power loss
may bring back (`lost`, `undone`) and the tools: `Copy`, `Install`,
`FlushArtifact`, `Describe`, `Seal`, `Point`, `Record` for a backup by the
operator or the watcher, `RestoreSqlite` and `Sync` or `RestorePostgres`, and
`Fails`, `Killed`, `PowerLoss`. It assumes that the operator keeps the service
stopped until a restore is reported, that the file system orders renames in a
journal, that auditors begin again after a restore, and that there is one
watcher. Checksums and sizes are part of `Loads`.

### ConnectionPool

Idle connections, the total, the connections the server has open, and where
each thread is. What is done under the condition's lock is one step, and so is
each call to the server. `notify` wakes any one waiter; a deadline may pass at
any time. Every step is `Step(t)`, `DeadlinePasses(t)`, `Close` or `CloseIdle`.

## Runs

| Run | Question | Bounds |
|---|---|---|
| `social_publication` | all the safety of the publication authority, and refinement | 2 threads, 2 keys, 1 run, Instagram, 2 accounts, crashes; 1.7 million states |
| `social_live` | what is not abandoned settles; revocation drains | 2 threads, 1 key, both channels, crashes; 0.9 million states |
| `run_lifecycle` | SQLite: queued runs and commands end | 1 worker, 2 clients, 2 artifacts, 2 checkpoints, 1 fault |
| `run_replicas` | PostgreSQL: one lease, stations once, decisions with receipts and nothing after them | 2 replicas; 2 workers with 2 faults, or every command with lost locks and 1 fault; 1.35 million states |
| `model_effect` | outputs last, events and approvals cover them, refinement | 2 threads of 1 replica, 2 keys, 2 requests, 2 pieces of evidence, 2 faults |
| `publication_media` | addresses answer; what decisions, attachments, outputs and compensations may undo of each other | 2 replicas, 3 bindings of 2 images, 2 keys, 2 key rings, 1 crash, clock 0..1; 3.8 million states |
| `social_oauth` | exchanged once, by its session, unless superseded; true events | 2 sessions, 2 requests, 2 starts, 1 restart, 1 disconnect, clock 0..1 |
| `access_control` | quotas, failure limits, the latest tab | 2 tabs, 3 keys, both backends, windows of 2 ticks, clock 0..3, 2 tokens, 1 restart |
| `runtime_backup` | chains, pages and checkpoints; backups that load, restores that last | three workloads: the ledger alone (3 events, 2 tenants, 1 corruption), with a backup, a restore and a power loss, and with operator and watcher, 3 changes of connections and a power loss |
| `connection_pool` | the bound, wakeups, the end of checkouts | 4 threads, sizes 1 to 2 |

Two threads are enough to overlap any two requests, and a third request follows
on a thread that has finished; two keys let one effect be retried under another
key, two accounts change the binding between two reads. In `run_lifecycle` two
checkpoints make one station, begun and finished; `failed`, the last checkpoint
and those between are all reached. In `run_replicas` two faults are a crash and
its repetition in the recovery. In `connection_pool` two threads may wait while
two hold the only connections. In `access_control` the limits are 1 and 2, so
that a bucket is exhausted while another one has room, and three ticks hold a
window and its boundary. In `social_oauth` one start supersedes another. In
`publication_media` two bindings share an image, so that one finds the other's
row, and a replica may restart from either ring under the other. Counters need no bound other than those named as constants: `creates` is at
most one, and each lease is followed by a checkpoint or a fault. Symmetry is
used only in runs without liveness, over sets whose members no definition tells
apart.

Deadlock is not checked in `model_effect`, `access_control` and `social_oauth`:
there the bounds on faults, on the clock, on tokens and on starts end the
behaviours. In the other runs TLC looks for deadlocks too.

`run_lifecycle` and `run_replicas` cut the program along what the code keeps:
outputs are kept on SQLite only (`attachment_lost` below), leases are
exclusive as long as the execution lock is kept (`two_active_workers`), and
commands meet no worker in `run_replicas` since they may take its object
(`decision_unreceipted`). `model_effect` has one replica for the first reason:
with two, a lost update leaves an event whose output the run has not, so
`EventsHaveOutputs` fails.

Two runs are expected to fail, each with a disagreement between the code and
what a document of the repository says:

| Run | What happens |
|---|---|
| `audit_alarm` | SQLite: a verification reads rows and head under two acquisitions of the lock; the worker saves between them, and a whole chain is reported as broken |
| `decision_unreceipted` | PostgreSQL: a command approves the object the worker is about to save; the approval is stored by the checkpoint, without a receipt |

Further disagreements have a configuration, which TLC finds violated when it is
run by hand:

| Configuration | Property | What happens |
|---|---|---|
| `SocialPublicationFailed.cfg` | `FailedMeansNoPost` | the lookup of a new post is answered 4xx; the intent becomes `failed` although the post exists, and cannot be reconciled (`social_publication.py:287`; `docs/runbooks/social-publication-authority.md:56`) |
| `SocialPublicationRevoked.cfg` | `RevokedMeansUnused` | a disconnect or revocation marks an executing intent `revoked`; its thread posts without looking again, and its receipt is refused (`social_publication_store.py:301`; line 59 of the same runbook) |
| `SocialPublicationStale.cfg` | `RevocationInvalidatesIntents` | the Greenlight is checked before the reservation and never again: revoked in between, it still publishes (`api.py:3866`) |
| `SocialPublicationPending.cfg` | `PossiblePostsAreSettled` | an answer that comes after the post was made raises what `execute` does not catch (`social_publication.py:295`): the row stays pending, and only an `unknown` one is reconciled; lines 57 and 75 of the runbook say that an ambiguous answer or a malformed lookup leaves `unknown` |
| `RunLifecycleLost.cfg` | `AttachmentsAreKept` | *attachment_lost*: two replicas attach two outputs; the second save erases the first, whose event then blocks its repair (`api.py:1747`) |
| `PublicationMediaErased.cfg` | `AttachmentsLastUntilDecision` | *attachment_erased*: one replica attaches an image while another attaches the output of a model effect to the document as it was before: the run awaits its Greenlight without the image, whose receipt exists (`api.py:1747`, `postgres.py:1306`) |
| `RunLifecycleSession.cfg` | `LeaseIsExclusive` | *two_active_workers*: the session of the execution lock ends and the lease expires: two workers execute, and the late one saves over the other, since no save compares the fence (`api.py:937`) |

## Observations

Behaviours of the code that the modules show and no property forbids.

Runs and effects:

- A process that dies after a committed revocation leaves its pending intents
  out of its reach, since a replayed command does not revoke.
- A request that dies, or ends with an exception `execute` does not catch, leaves
  its row pending: nothing resumes, expires or reconciles it, and every retry is
  refused. Only a disconnect or a revocation takes it to `revoked`, whether its
  post exists or not.
- With the instance of `decision_unreceipted` the fencing token also decreases: a
  command puts a document read before the lease in the table and the worker
  saves it.
- A creation whose INSERT fails leaves the run in the orchestrator, and every
  retry is refused until a restart.
- A pending model effect that a crash left blocks the approval of its run:
  nothing calls `revoke_unused`, and only an unknown outcome is reconciled.
- The replay of a reconciled model effect records `model.effect_succeeded` beside
  `model.effect_reconciled`.

Media:

- `reserve` returns a row that was revoked or has expired; the retry attaches it,
  and the run carries an address that is answered 404 and can get no other image.
- When the answer to a commit is lost, the compensation revokes the media that
  the run carries; `CompensationSparesAttached` excepts this case (`unanswered`).
- On PostgreSQL an approval in one replica, or the output of a model effect, may
  drop an attachment that another one has just saved, although the receipt of the
  attachment exists. `OnlyOverlapsDropAttachments` says what remains: nothing is
  dropped on SQLite, nothing by another attachment unless such an output came
  before, nothing after a decision.
- The endpoint that revokes media calls `service.revoke_publication_media`, which
  no class defines; the model has no such action.
- A reservation that a crash left blocks the same image with another alt text.

OAuth and access:

- On PostgreSQL two starts of one session may leave two states to consume.
- A callback under way when its channel is disconnected stores its connection
  afterwards, and the order of the events may differ from that of the writes. A
  crash between the two leaves a connection without an event.
- A bootstrap at a restart undoes a disconnect, without a new event.
- A state encrypted under a key that has left the ring is consumed and fails.
- A login whose user name does not match records no failed authentication.
- Fixed windows admit up to `2 * limit - 1` requests in an interval of their
  length; `QuotaIsKept` states this bound.

Backups:

- Two watchers may note a new digest beside an older pointer.
- A temporary file left behind, or a backup that takes too long, ends the watcher.
- A restore that takes connections back, then a crash between pointer and state,
  leaves the state ahead of what is backed up.
- A corrupt ledger is backed up, and refused only when it is restored; with
  PostgreSQL it is verified after the target was filled.

## Fairness

`social_live` assumes weak fairness of each thread's next step: every call to the
database or a provider has a time limit, so a request being served ends. Requests may
crash, or end with an exception that is not handled: what such a request held
stays pending, for the code has nothing that would resume it. So the properties
except the rows it abandoned, and `RevocationDrains` only those of them that the
revocation did not reach either.

`run_lifecycle` assumes strong fairness of the worker's poll, of the worker's
steps and of each command's steps: a thread that waits for a lock which is
released again and again gets it. The code gets this from the worker's pause
between two polls (0.35 s) and from requests that do not follow each other
without a gap, not from the RLock, which is not fair. Leases expire. Nothing is
assumed of clients or of faults, of which there are finitely many.

`connection_pool` assumes that a thread that can take a step takes it, that the
deadline of a checkout passes, and that `close` comes to the end of its loop;
nothing of the order in which `notify` wakes, which may pass a waiter over for
ever: the deadline ends its checkout all the same.

## Proofs

Each module of proofs is about the module it is named after and leaves the
constants open: any sets of threads, replicas, keys, runs and so on, any bounds,
both backends. A theorem `P == Spec => []Inv` covers every instance that
satisfies the assumptions of its module, which TLC evaluates on every run.

| Module | Theorem | Property |
|---|---|---|
| `SocialPublicationProofs` | `TypeCorrect` | `TypeOK` |
| | `AtMostOneProviderCall` | `OneProviderCall` |
| | `ExclusiveExecution` | `OneExecutor` |
| | `SuccessesAreReal` | `SuccessIsReal` |
| | `FailuresBeforeLookup` | `FailedBeforeLookup` |
| | `ContainersComeFirst` | `ContainerBeforePost` |
| | `NothingElseAbandons` | `OnlyLostRequestsAbandon` |
| | `RevocationsReachIntents` | `RevocationsReach` |
| | `Implementation` | `ImplementsEffectOnce` |
| `ModelEffectProofs` | `TypeCorrect` | `TypeOK` |
| | `AttachedAreDurable` | `OutputsAreDurable` |
| | `EventsAreBacked` | `EventsHaveOutputs`, if `OneReplica` |
| | `ApprovalsCover` | `ApprovalCoversWhatItListed` |
| | `Implementation` | `ImplementsEffectOnce` |
| `RunLifecycleProofs` | `TypeCorrect` | `TypeOK`, if `SessionsLast` |
| | `ExclusiveLease` | `LeaseIsExclusive`, if `SessionsLast` |
| | `StationsOnce` | `StationsRunOnce`, if `SessionsLast` and `WorkersApart` |
| | `ReceiptedOnce` | `DecisionsAreReceipted`, likewise |
| | `BundleIsFixed` | `DecidedBundleIsFixed`, likewise |
| | `AttachmentsKept` | `AttachmentsAreKept`, with SQLite |
| `PublicationMediaProofs` | `AddressesResolve` | `AttachedAddressesResolve` |
| | `DecisionsCover` | `DecisionsCoverTheirArtifacts` |
| | `AttachmentsStay` | `OnlyOverlapsDropAttachments` |
| | `CompensationSpares` | `CompensationSparesAttached` |
| `SocialOAuthProofs` | `ExchangedOnce` | `ExchangesHappenOnce` |
| | `ConnectionsBelong` | `ConnectionsAreOfTheirSession` |
| | `EventsTellTheTruth` | `EventsAreTrue` |
| | `SupersededStay` | `SupersededAreRefused` |
| `AccessControlProofs` | `EndedRefused` | `EndedSessionsAreRefused` |
| | `LatestTrusted` | `LatestTabIsTrusted` |
| | `QuotaKept` | `QuotaIsKept` |
| | `FailuresLimited` | `FailuresAreLimited` |
| `RuntimeBackupProofs` | `AnnouncedLoad` | `AnnouncedBackupsLoad` |
| | `StateIsTrue` | `StateIsBackedUp` |
| | `RestoredStay` | `RestoresLast` |
| | `ChainsWhole` | `ChainsAreWhole` |
| | `PagesComplete` | `PagesMissNothing` |
| | `RestoredOpen` | `RestoredLedgersOpen` |
| | `CheckpointsTrue` | `CheckpointsAreTrue` |
| `ConnectionPoolProofs` | `ExactTotal` | `TotalIsExact` |
| | `BoundedConnections` | `ConnectionsAreBounded` |
| | `WakeupsAreKept` | `NoLostWakeup` |

Each also has a theorem `Invariant` (`LeaseInvariant` and `DocumentInvariant` in
`RunLifecycleProofs`; a second one, `LimitInvariant`, in `AccessControlProofs`
and `LedgerInvariant` in `RuntimeBackupProofs`) that its inductive invariant
holds in every reachable state; the invariants were checked with TLC before they
were proved. None of the properties is inductive by itself. The three `TypeOK`,
`OneExecutor`, `TotalIsExact`, `AttachmentsAreKept` and `EndedSessionsAreRefused`
are proved and in no run. There is one lemma
for each action, and the action properties and refinements follow from the
invariant and the actions.

**Publication.** That a thread may send its request because nobody has yet
depends on how rows, threads and the provider hang together. `IInv` says it: a
row and its binding come together and bindings are unique; only an effect with a
row has calls; a thread that executes holds the row bound to its target, alone;
before its call the effect has none, after an accepted one it has one post; the
status and the phase of a failure bound the posts; a thread about to report an
event has the row that justifies it. `LostInv`, proved beside it, says who is left
to settle a pending row and to revoke it: a thread that executes leaves its row
settled or abandoned, and the thread that has revoked the Greenlight reaches every
intent reserved before. `Implementation` maps the one row bound to
an effect to its outcome: a grant is a reservation, a creation is a send, each
settlement, revocation and reconciliation is the step of that name or changes
nothing the mapping sees.

**Model effects.** `IInv` ties each row to the calls of its request and to the
thread that executes it, an attached output to the row that has stored it, and
what a thread has read (`document`, `listed`) to what the run and the rows can
have become since: rows only move forward, so what was listed as attached stays
so. `EventsHaveOutputs` needs that no save is lost, for which the lock of the
service must be one: `OneReplica` says that all threads have one home. With two
replicas TLC finds it violated, as said under *Runs*.

**Runs.** The proof has two levels, for the code keeps two kinds of promise.

`LInv` is about locks, objects and leases. A worker between `SaveLease` and
`Checkpoint` has the execution lock, so there is at most one; the status it read
is still the stored one and runnable, since every command that saves compares
the status with one that no queued or running run has; hence owner and fence are
its own. What makes it inductive is which objects are *unshared*: until it is
put in the table, an object that a worker has loaded is known to nobody else
(`PrivateInv`), which in turn needs that an object in use is never taken for a
new one (`FreshIsUnused`, by counting objects, threads and replicas). `LInv` is
proved under `SessionsLast`: where lock sessions can end, no worker runs. The
hypothesis is needed, as `RunLifecycleSession.cfg` shows.

`DInv` relates the objects to the stored run. No two threads have the same
object, and the object in the table is that of the thread which will use it next
(`OwnInv`); the document of a worker is at the stored checkpoint until it
advances; a decided or revoking document has the stored artifacts; receipts and
status agree (`ReceiptInv`); with SQLite the attachments in the ledger are those
stored (`AttachInv`). It is proved under `WorkersApart` as well: with PostgreSQL
the workload has no workers or no decisions. This is needed too: it is what
`decision_unreceipted` violates. With SQLite both hypotheses follow from
`StoreAssumption`, for the one store lock excludes workers and commands
(`OneCritical`), and so does `AttachmentsAreKept`, which `RunLifecycleLost.cfg`
refutes for PostgreSQL. Every workload of `run_lifecycle` and `run_replicas`
satisfies the hypotheses of the properties it checks.

**Media.** A row never changes but to be revoked, so an address signed from a
row is the address of that row for ever; attachments under way in two replicas
are of different runs; and an image that a command has reserved itself is seen by
no one else until it has been saved. The last is what lets a compensation revoke
it. `OnlyOverlapsDropAttachments` needs that the document which a command is about
to save has all the images of the run (`UpToDate`). That holds on SQLite, where a
replica that does something is the only one (`Serving`), and for an attachment to
a run whose images no output has changed (`Ordered`): only a decision can save it
meanwhile, which ends its wait.

**OAuth.** A consumed authorization is never deleted and never consumed again:
the transaction that deletes one that was not consumed holds its row until it
commits. `IInv` ties each callback to the authorization it consumed and each
start to those it supersedes. `RequestAssumption` makes the threads finite, so
that the events of all of them can be counted against what they did.

**Access.** There are two invariants, of the sessions and of the limits.

`IInv`: a request whose session ended during it stays with a dead session; the
session of a login under way is not yet anybody's; the tab that was last given a
token of the browser's session holds the token stored.

`LimitInv` describes each bucket by its window. A bucket of requests, or of
failures with PostgreSQL, is *opened* by a window that has counted all that was
let through since it began, or *closed*: nothing was let through at this time of
the clock (`Metered`, `Windowed`). With SQLite the rows of a bucket
are the failures of the sliding window (`Slides`). The bound of `QuotaIsKept`,
twice the limit less one, is that of two adjacent windows and is not inductive:
`Opened` and `Closed` also say that less than the limit was let through, as long
ago as a window reaches, before this one. A
total over a stretch of time is the cardinality of a set of pairs (`Total`), so
that the facts about totals follow from those about finite sets.

**Backups.** `IInv` speaks of the backup directory as it is and of every
directory that a power loss may bring back: the backups that were reported have
their artifact and their manifest in all of them, and, while nobody restores,
none of them has a state file ahead of the backup its pointer names. It also says
what a tool may rely on at each place (the files it has flushed, the digest the
watcher has read), that no two tools work on one backup, and that a restore which
was reported leaves nothing to undo. `ToolAssumption` says that the watcher and
the operator's command are two tools, `BackupAssumption` gives the types of a
workload's bounds.

**Ledger.** It is proved as a part of `RuntimeBackup`, whose restores and power
losses replace it; `LedgerInv` has the parts that follow.

- Of a database, `Intact`: its rows have different numbers, none above the last
  that was given out; and it is *fresh*, without any hash, or *headed*, each head
  being what was committed. Nothing is said of the hashes of the rows, which may
  have been altered, unless none was: then the ledger is fresh or *whole*.
  `CopyInv` says the same of every backup and of what a power loss may bring
  back. A restore trusts a copy that verifies, whatever happened to its original:
  a headed ledger which verifies is whole (`HeldIsSound`).
- Of a thread (`Appends`): from the lock to the commit it is the only one that
  extends the chain; the head it has read is the stored one; the number of its
  row is above those of the tenant's rows and of every page read, and no other
  thread has the same (`Pending`). This gives `PagesMissNothing`: numbers commit
  out of order, but not those of one tenant.
- Of the log of a replaced database (`QuietInv`): while a power loss can take a
  restore back, nothing was served, so there is none.

`CheckpointsTrue` needs no whole chain: rows that verify against the stored head
say what the head says, and that is what was committed, even where the head was
read after the rows. Rows are sorted by rank: the i-th row is the one that i rows
do not exceed (`InOrder`); a one-to-one map of a finite set into a set of the
same size is onto (`RankOnto`), so a sorted set is a sequence of all its rows, and
a greater row is appended to it (`InOrderAdd`). Completion changes neither
numbers nor events, so it changes no hash that is computed from them
(`CompletedFacts`). The assumptions are those of `AuditLedger`: an event has one
tenant, the events of a legacy are finitely many, `None` and `Forged` are no
events, and `None` is no writer, for it stands for a free lock.

**Pool.** Everything the pool promises counts threads at some of their program
points: those that hold a place of the total, a connection of the server, or a
claim on one. `IInv` is `Counts`, the equations and bounds between these counts
and the variables, and `Shape`, what a closed pool has not, with the claims that
exist while somebody waits. `ConnectionsAreBounded` is not inductive, for the
place is taken before the connection exists; nor is `NoLostWakeup`, for `notify`
must be known to move a waiter to the threads it counts. Two lemmas about counts,
`GotoCounts` for a step of one thread and `NotifyCounts` for a step that also
wakes another, turn each action into arithmetic. The assumptions are
`ThreadAssumption` (the threads are finitely many) and `SizeAssumption`
(`MinSize <= MaxSize`, and `MaxSize` positive), as the constructor requires.

`NoneAssumption` says in each module that `None` is none of the values it stands
beside; it has no counterpart in the code, where `None` is of a type of its own.

Every safety property of a passing run, invariant or action property, is stated
by a theorem, and so are both refinements. Checked only: `ReservationsSettle`,
`RevocationDrains`, `QueuedRunsEnd`, `CommandsEnd` and `CheckoutsEnd`, liveness
under fairness, which the prover does not reach. The hypotheses in the table are
part of the theorems; what TLC checks has them by its workloads.

## Plan

1. A bound on `LeaseIsExclusive` without `SessionsLast`: what a worker that has
   lost its lock may still overwrite.
2. The monotonicity of the fence, under the hypotheses of `DocumentInvariant`.

## Not modelled

- Model providers: the gateway is `CallProvider` and its answers; the registry of
  providers is static, and the arithmetic of costs has no state.
- Schema migrations but for the completion of the audit chain: each is one
  transaction at the start of a process.
- Trends, integrations and the registries: read only.
- Memory: observations are appended and no decision reads them.
- Stations, tools, evaluations, serialization: deterministic functions from data
  to data that the properties do not tell apart.
- The signature of a checkpoint and the cipher of tokens, but for the key they
  need: cryptography is assumed to work.
- The loss of the session of an attachment's advisory lock in
  `PublicationMedia`, and the dependence of a PostgreSQL timestamp on the time
  zone of the session.
- Observability, command line, packaging, frontend, and the other scripts and
  infrastructure: no durable state, or a sequence of steps that one operator runs
  alone.
