# TLA+ verification of the defense tracker

The repository is a desktop-and-cloud application for collecting, writing and
publishing reports. Its V9 core keeps every document encrypted: devices hold the
keys, a Supabase project holds ciphertext, and devices exchange changes through an
append-only log of encrypted events. Around it are a service that runs jobs and
publishes to WeChat, a Feishu bot, and the scripts that deploy releases. These
modules specify the parts that keep state, TLC checks them on small instances, and
TLAPS proves most of their properties for instances of every size.

Paths below are relative to `src/`. Migrations are named by the last four digits of
their number (`0027` is `supabase/migrations/202608280027_...`). `PROJECT.json` maps
every definition to the lines it translates, and lists the components, the runs,
the mutations, the hazards and the theorems.

1. Inventory — 2. Modules — 3. Runs — 4. Proofs — 5. What is not modelled — 6. Plan

## 1. Inventory

### 1.1 The parts and their state

| Part | Code | State | Module |
|---|---|---|---|
| Cloud sync log | `0001`, `0010`, `0020`, `0030` | `record_heads`, `record_versions`, `sync_events`, `conflicts` | `SyncCloud`, abstractly `RecordHistory` |
| Cloud key rotation | `0007` | `organizations.key_version`, `key_rotations`, rewrapped entries | `SyncCloud` |
| Devices that synchronise | `v9/repository.py`, `v9/service.py`, `v9/cloud.py`, `v9/api.py` | SQLite: rows, outbox, cursor, applied events, conflicts, blocks, quarantine | `SyncSystem` |
| First snapshot import | `0011`, `v9/repository.py:1359-1722` | an import session on each side | `SnapshotImport` |
| Local keys | `v9/crypto.py`, `v9/service.py`, `v9/repository.py` | vault, wrapped keys of rows, envelopes, recovery code | `KeyRing` |
| Enrollment of desktops | `0015`, `0021`, `0025`, `0026`, `v9/api.py`, `v9/service.py` | devices and envelopes in the cloud, the cloud context of a desktop | `Enrollment` |
| Session with the cloud | `v9/supabase_client.py` | token in memory, vault file, file of a login attempt | `CloudSession` |
| Own AI keys | `0024`, `v9/ai_credentials.py`, `v9/api.py`, `app.py` | stored credential, its envelopes, the active key of a process | `Credentials` |
| Publication board | `v9/publication.py`, `v9/service.py:2334-2722` | documents, items, snapshots, audit events | `Publication` |
| Signed objects in the cloud | `0008`, `0012`, `0013` | workflow, object rows, ciphertext, deletion tickets | `SignedObjects` |
| Alerts and cases | `v9/service.py:1988-2330`, `v9/workflow.py` | alerts, cases, record references | `Casework` |
| Agent jobs | `v9/orchestration.py`, `v9/service.py` | one job record | `AgentJobs` |
| Background jobs | `app.py`, `report_agent.py`, `consulting_agent.py` | job rows, thread pool, stripe locks | `BackgroundJobs` |
| Daily budgets | `user_state.py`, `app.py` | ledgers and reservations of a day | `DailyBudgets` |
| Accounts, seats, sessions | `0015`, `0016`, `0021`, `0026`, `0027`, `0030` | accounts, memberships, requests, seat ledger, devices, sessions | `Membership` |
| Invitation workers | `0022`, `supabase/functions/invite-member` | lease and attempt of a request, the worker | `Provisioning` |
| Access applications | `0023`, `0028`, `supabase/functions/access-applications` | one application of an address | `Provisioning`, `AccessRetention` |
| WeChat publishing | `wechat_publisher.py`, `wechat_runtime.py` | a row of the ledger, the runs | `WechatLedger` |
| Feishu webhook | `feishu_cloud.py`, `feishu_webhook_security.py` | event rows, admission slots, workers | `FeishuWebhook` |
| Release switch | `deploy/mvp/bin/*` | Portal and backend documents, markers, intent, scripts | `ReleaseSwitch` |

### 1.2 How they interact

A user's edit is one SQLite transaction that replaces the encrypted row and adds an
outbox entry. A sync request runs `run_sync_cycle` on a thread of the local server:
it pushes every due outbox entry through an RPC, then pulls one page of the log after
the device's cursor and applies it event by event. Each repository call is a
transaction; nothing is held from one call to the next, and the server is threaded
(`launcher.py:228`). In the cloud each RPC is one PostgreSQL transaction; pushes of
one record are serialised by the row of `record_heads`, pushes of one event id by an
advisory lock, pushes and rotations by the organization's row, and everything that
changes a membership by that row as well.

The edge functions are workers around those RPCs: they claim an invitation under a
lease, ask the Auth service to create an account, and report. The WeChat publisher
and the Feishu bot are processes around a SQLite ledger of theirs. The release
scripts write small JSON documents and a marker beside each, one rename at a time.

### 1.3 What is hard about it

Concurrent edits of one base; answers lost after the commit; retries and the end of
retries; crashes between two transactions; requests that overlap on one device;
cursors that are drawn before the transaction that carries them commits; versions
frozen on a branch and the way back; a rotation racing with pushes; transactions that
wait for a lock while the time they took for now stands still; workers that report
late, for an earlier attempt or an earlier application; a lease that runs out under
its holder; a storage delete that spans an external call; workflow steps that check
in one transaction and write in another. `PROJECT.json` lists each at its line, with
the properties aimed at it.

### 1.4 What makes each part correct

* Cloud log: one line of versions per record that ends at its head; a version that
  lost the race is kept with a conflict; settling a conflict moves on; every version
  is under the organization's key.
* Devices: the cursor passes only what was processed, what was processed is on the
  device, the outbox tells the truth about the cloud, devices converge, an edit names
  the version it was made from, cycles end.
* Import: a device that takes its import for complete agrees with the cloud; one that
  is frozen can always resume.
* Keys: every record opens with the vault; vault, recovery envelope and devices agree
  on the current key; a recovery code that was shown keeps restoring; an active
  desktop holds the key all others hold; a signed-out session stays out; a person's
  own AI key is borrowed by nobody else.
* Publication: what is signed was ready; signatures and recalls have their audit
  event and no event lies; the objects of a signed version stay whole.
* Alerts and jobs: an alert makes one case, no call takes a job past a gate it has not
  reached, a cancelled background job has no call under way once the cancellation is
  answered, a day's ledger is the sum of its reservations.
* Accounts: seats are counted exactly and nothing that counts goes without one,
  access ends with the membership, an owner remains, an application is called invited
  only of an invitation that went out, the lease of a worker ends by its worker, and
  a purge takes the address.
* WeChat, Feishu, releases: nobody submits over a claim; a lease is its holder's; a
  released line only grows, the stack can always be recovered, and a container serves
  only what it is compatible with, but after an install that compares nothing.

## 2. Modules

A module is one component: state, one action per handler or transaction, the
next-state relation, the properties. Operators commented "Mutant" or "Mutation of"
are never used by a specification: each is the definition below it with a plausible
mistake, and replacing the definition by it makes the property fail that is meant to
catch that mistake. `...Proofs` modules hold theorems and extend what they are about.

| Module | Extends | Instance | Theorems in |
|---|---|---|---|
| `RecordHistory` | | (refined by `SyncCloud`) | `SyncCloudProofs` |
| `SyncCloud` | | `MCSyncCloud` | `SyncCloudProofs` |
| `SyncSystem` | `SyncCloud` | `MCSyncSystem`, `MCDevices` | `SystemProofs` |
| `Enrollment`, `CloudSession` | | `MCDevices` | `DeviceProofs` |
| `KeyRing`, `SnapshotImport`, `BackgroundJobs`, `SignedObjects`, `Credentials` | | `MCDesktop` | `DesktopProofs` |
| `Publication` | | `MCServices` | `PublicationProofs` |
| `Casework`, `AgentJobs`, `WechatLedger`, `FeishuWebhook` | | `MCServices` | `ServiceProofs` |
| `ReleaseSwitch` | | `MCServices` | `ReleaseProofs` |
| `DailyBudgets` | | `MCServices` | `ServiceProofs` |
| `Membership`, `Provisioning`, `AccessRetention` | each the one before | `MCAccounts` | `MembershipProofs` |

`MCDevices`, `MCDesktop` and `MCServices` hold parts that share no state. A behaviour
there has a `part`, chosen from `Parts` when it begins, and only that part moves, so
what TLC explores is the union of the parts and not their product.

### 2.1 `SyncCloud` and `RecordHistory`

`heads`, `versions`, `events` and `conflicts` are the tables; `nextCursor` is the
identity column of `sync_events`. A push is two steps because the code makes it two:
`Push` holds the locks (`LocksFree`), makes every check (`Admissible`), decides
(`FollowsHead`) and draws its cursor; then the quota trigger waits for the user's and
the organization's usage rows, and the transaction later becomes visible as a whole
(`Commit`) or not at all (`Rollback`, the cursor stays spent). `open` holds the
transactions in between. A push of a recorded event id changes nothing: its answer is
read from `events`. `Resolve` is `resolve_conflict` with a new version,
`ResolveWithHead` its other success. `BeginRotation`, `StageRewrap` and
`CommitRotation` are the rotation functions; `SetEnvelopes` stands for everything
that adds devices or seals the new key for them, which `commit_key_rotation` looks at
as one condition. Ciphertext and hash are abstracted by the version identifier,
deletion by a version like any other.

`RecordHistory` is what the cloud promises: each record has a tip, a line of versions,
branches, and settled branches. `KeepsHistory` instantiates it with what the tables
say of a record.

### 2.2 `SyncSystem`

A device is its SQLite tables: `local` (row: version number, content, cloud version),
`outbox`, `seen` and `cursor`, `kept` (conflicts), `blocked` (`sync_blocks`),
`quarantine`. Threads: `draft` is an update between its read and its put, `cycle[c]`
the program counter and locals of a sync request, `resolving` a resolution waiting
for its answer. Every repository call is one step.

| Action | Code |
|---|---|
| `Create`, `BeginUpdate`, `FinishUpdate`, `RefuseUpdate` | `create_record`, `update_record`, refusal by `put_record` |
| `StartCycle`, `SendPush`, `MarkSent`, `MarkConflicted` | `export_outbox`, `push`, `mark_outbox_sent`, `mark_outbox_conflicted` |
| `PushRefused`, `PushAborted`, `PushLost` | `mark_outbox_failed` after a refusal, a rollback, a lost request or answer |
| `Pull`, `Accept`, `SkipSeen`, `Quarantine`, `EndCycle`, `AbandonCycle` | the page, the cursor check, duplicates, quarantine, the end, an error or a crash |
| `Decide`, `WriteRecord`, `WriteConflict`, `RecordEvent` | `apply_remote_event`: what it reads, its put, `record_sync_event` |
| `SendResolution`, `FinishResolution`, `LoseResolution` | `conflicts/<id>/resolve` and `clear_sync_block` |

Time is abstracted: any request may fail, and a waiting retry may or may not be due.
`Threaded` says whether one device serves several requests at once, as the server
allows, or one at a time, as one careful user would issue them.

### 2.3 `Enrollment`

How a desktop comes to hold the cloud's key. State: the cloud's devices (`remote`),
memberships and `envelopes`; `context`, the cloud device context of each desktop with
its mark on disk; `vault` and `localKey`; `call[q]`, what a request has read. A route
is a sequence of calls to the cloud and of local transactions, each a step:
`AskSelf`, `ReadContext`, `Register`, `BindSelf`, `ReadVersion`, `ReadDevice`,
`ReadEnvelope`, `PutEnvelope`, `OpenEnvelope`, `Activate`, `RemoveMark` are
`devices/self` (`v9/api.py`, `v9/service.py`); `AskApprove`, `Seal`, `Pair` the
approval; `ResolveContext`, `EnterSession`, `SameVersion`, `StillListed` the check
before every cloud call; `PrepareManifest`, `MarkManifest`, `Bootstrap` the founder's;
`CommitCloudRotation`, `SealRotation`, `RotateLocally` what happens to keys meanwhile;
`Expel` and `JoinAgain` to members; `EndCall` ends a request anywhere. A key is named
by who made it and for which version.

### 2.4 `CloudSession`

`memory` is the access token, `tokenFile` the refresh token in the vault file, `pkce`
the file of the login attempt, `lock` the client's lock. `Refresh`, `Validate`,
`Save`, `Set` are the refresh and the login from the service's answer to memory;
`LogOut`, `ClearMemory`, `ClearVault` the sign-out, whose last step holds no lock;
`Age` lets the access token run out, `Restart` keeps the files only. A session stands
for its tokens: which of a session's refresh tokens is in the file is not followed.

### 2.5 `KeyRing`

The organization's keys on one desktop: `vault` by version, rows wrapped under a key,
envelopes for members and devices, the recovery envelope and the codes that were
shown. Routes are several transactions: first start, `Register` of a device, approval,
recovery, revocation with its rotation, and record creation and edits, whose key is
read before the row is written. `StoreNew` puts the new key into the vault before
`Commit` rewraps (`v9/service.py:3579`). A key names its maker, so two rotations that
store different keys under one version can be told apart. `overlapped` says that two
requests were under way at once.

### 2.6 `SnapshotImport`

`row`, `edits` and `session` on the device, `imports` and the accepted versions in the
cloud, `request[q]` a route under way. `Request(q)` covers both routes step by step:
reading the manifest, counting, beginning, queueing, completing, aborting on each
side, with lost answers (`MaxLost`) and requests that end anywhere. `Write` is a local
edit, `PushSnapshot` and `PushEdit` what the cycle sends, `TheyPush` and `Pull`
another device.

### 2.7 `BackgroundJobs`

`jobRow` is the table, `waiting` the queue of the pool, `stripe` the locks,
`worker[w]` and `caller[q]` the threads. `Create` with an idempotency key, `SubmitJob`
and `QueueFull`, `ClaimJob`, `TakeStripe`, `Authorize` (the last look at the row before
the call), `SaveResult`, `NoteResult`, `Between`, `FinishJob`, `Raise`,
`HandleFailure`, `Leave`; `Control` and `Barrier` are a cancellation or a block, which
answers only after it held the stripe; `Restart` fails what was under way. The two
kinds of job differ in what may be retried (`FailureRetryable`).

### 2.8 `SignedObjects`

The objects of one publishable record in the cloud: `metadata` (rows), `stored`
(ciphertext), the workflow with its published versions, tickets with what each is
`about`. Functions under the organization's row are one action each; an upload
(`BeginUpload`, `EndUpload`) and a storage delete (`OpenStorageDelete`,
`CommitStorageDelete`, `FailStorageDelete`) are two, because they hold nothing in
between but what the code holds. Hashes are what they are hashes of.

### 2.9 `Credentials`

`credential` and `wraps` are the rows of a user's own key and of its envelopes,
`machine` the user's devices, `signedIn` the session of a machine, `active` the key in
the memory of a process and who borrows it. `ask[q]` is a route, one step for each
call to the cloud; people may sign in and out in between (`CompleteSignIn`,
`SignOut`). `CheckCaller`, `CheckIdentity` and `VerifyRemote` are the checks before a
key is installed, lent or deleted.

### 2.10 `Publication`

`documents`, `items` and `audit` are rows by type; `drafts` and `outbox` their entries
in `sync_outbox`, one for every version ever put, so they are also the history that
the properties speak of. `task[t]` holds what the request on thread `t` has read and
`pc[t]` its step. A request is as many steps as it has transactions: `BeginCreate`,
`BeginMove`, `BeginSign`, `BeginRecall`, `BeginEdit` the first reads; `ReadDocument`
and `ReadHash` the two reads of `_record_with_hash`; `Prepare` and `RefuseStale` the
comparison with a fresh read; `PutCreated`, `PutMoved`, `FinishEdit` a `put_record`
that compares nothing; `CommitSign` and `CommitRecall` the atomic put that does.
`_workflow_lock` is held by signing and recalling only. A body stands for a
document's content and its hash.

### 2.11 `Casework`, `AgentJobs`, `WechatLedger`, `FeishuWebhook`

* `Casework`: `materialize_rule_hits` and `triage_alert` with every transaction of
  theirs under `_workflow_lock`, edits over the record routes without it, and
  `Restart` anywhere. `stops` counts the stops, of which a duplicate may come.
* `AgentJobs`: a call reads the job, computes from what it read, compares the version
  (`PrepareJob`) and puts without comparing (`PutJob`). The type `job` is no workflow
  type (`v9/service.py:115`, `:2981`), so the generic record routes create and replace
  a job like any record (`v9/api.py:2584`, `:2612`), and a pull replaces it by what
  another device stored: `JobsInit`, `WriteRecord` and `ApplyRemote` take such a
  content from `JobContents`. The `done` of a job is its history: the phases it
  advanced from, the gates approved, and whether a content came from outside.
* `WechatLedger`: `row` is the edition's row, `run[p]` a process: read, reserve,
  draft, claim, submit, complete or doubt, poll. The platform's answer may be lost
  and a process may die anywhere; `LeaseOver` lets another find its claim.
* `FeishuWebhook`: `store` is the deduplication table with its oldest `completed`
  rows purged when it is full, `inflight` the admission counter, `jobs` deliveries
  with the lease and the slot they hold. `ProcessStops` loses the jobs, not the store.

### 2.12 `ReleaseSwitch`

The documents, markers and intent on disk, the scripts with the writes they still have
before them, the lock of a deployment, the container that serves. A script is a
sequence of writes, each atomic because the code renames; it may end after any of
them. `release-state.py` is the operators that plan those writes.
`install-supabase-app.sh` runs inside a release, behind its gates, and by itself
(`StartInstall`; so `start-supabase.sh:44` runs it): under the same lock, with the
same writes, but comparing no wires. `apart` is the history of that: such an install
activated a backend under a Portal of another wire, and neither a release nor a
rollback has compared the wires since.

### 2.13 `DailyBudgets`

`ledger` and `reserved` are the two tables; every step is one transaction:
`ReserveCall`, `ReserveTokens`, `GiveBack`, `SettleCall`, `SettleTokens`, and the
releases. The day may turn, the limits be configured anew, and the program end
between any two; `Start` releases what its predecessor left.

### 2.14 `Membership`, `Provisioning`, `AccessRetention`

`Membership` is one organization: accounts, memberships, invitation requests, the seat
ledger with its triggers, devices and sessions. Every function that changes a
membership locks the organization's row first, so it is one action; what stands still
while it waits is time, so each call has a `lag` that says which of now(), the start
of its transaction and the arrival of the call it saw before an expiry. `Reserve`,
`Release`, `Sweep`, `OnMembership` and `OnRequestClosed` are the ledger functions and
the two capacity triggers of `0027`.

The lag matters for who calls, too. A call is checked for a managing role and a live
session before it waits (`Admitted`, `MayActOn`; the functions of `0021` around those of
`0015`), and its role is read again under the lock (`ActiveAs`). The role of a caller
whose membership has ended meanwhile is null, and neither `not in ('owner','admin')`
nor `<> 'owner'` is true of null, so nothing is raised and the call goes ahead. Two
owners who revoke each other are kept apart by the count of owners alone (`LastOwner`).
`boundAs` is history: the managing roles in which a user has had a session, hence may
have a call that still waits. How long a call may wait is not bounded.

`Provisioning` is a worker around it. `worker[w]` is what a call of
`provisionInvitation` knows: the request, the application it was started for, the
attempt it claimed, the result of the Auth service. `Claim`, `InviteAddress`,
`Finish`, `FinishStale`, `FinishClosed`, `Compensate`, `RecordCompensation` and
`FinishApplication` are its calls; `Stop` ends it anywhere; `LeaseEnds` is time.

`AccessRetention` adds filing under the daily limit and the purge of `0028`. The purge
is one function in the database and one action: the requests that lapsed and that of
an approval nobody carries out close, their seats come back, the fence of an attempt
goes unless its lease runs, and the application loses its address once decided.

## 3. Runs

| Run | Instance | Checks |
|---|---|---|
| `cloud` | `MCSyncCloud`: 1 record, 4 versions and events, 5 cursors, 1 rotation | `LinearHistory`, `BranchesKept`, `ResolutionFollowsHead`, `KeysUniform`, and `KeepsHistory`: refinement of `RecordHistory` |
| `devices` | `MCDevices`: 2 devices, 5 identifiers, one request at a time, 1 fault; 2 desktops, 2 calls; 2 session threads, 2 logins | `SeenIsStored`, `OutboxTruthful`, `Converged`, `RowNamesItsVersion`, `NoStaleOverwrite`; `ActiveHoldsKey`, `NeverRollsBack`; `SignedOutStaysOut` |
| `overlap` | `MCSyncSystem`: 2 cycles on one device, 1 on the other, overlapping requests, an event that does not authenticate | `NoSkippedEvent` |
| `live` | `MCSyncSystem`: 2 devices, 3 identifiers, 1 fault, fairness | `CycleEnds` |
| `accounts` | `MCAccounts`: 2 addresses, 2 invitations, 2 workers, 2 devices, 2 sessions, 2 seats | `LedgerExact`, `SeatsFollow`, `AccessFollowsMembership`, `OwnerRemains`, `InvitedWasInvited`, `LeaseIsItsWorkers`, `AddressIsForgotten` |
| `services` | `MCServices`: seven parts | `AuditComplete`, `SnapshotsReady`; `OneCasePerAlert`; `NothingSkipped`; `ClaimIsItsOwners`; `LeaseIsItsHolders`; `LineageKept`, `Recoverable`, `CompatibleServed`; `LedgerMatches` |
| `desktop` | `MCDesktop`: five parts | `KeysUsable`, `CodesStayGood`; `ImportFaithful`, `FrozenCanResume`; `BarrierHolds`; `SignedObjectsKept`, `StrayIsHeld`; `KeyStaysWithPerson` |
| `gap` | 2 records, 2 identifiers, no fault | violates `NoSkippedEvent` |
| `unsent` | 1 record, 3 identifiers, overlapping requests, no fault | violates `UnsentEditKeepsRow` |
| `overwritten` | part `publication` of `MCServices`, 6 requests | violates `SnapshotIsFinal` |
| `lostkey` | part `keys` of `MCDesktop` | violates `FailedRotationHarmless` |
| `compensated` | `MCAccounts`, 1 worker, nothing expires | violates `SparesMembers` |

### 3.1 Bounds

* Identifiers of versions are drawn one for each edit or resolution: two let two
  devices edit one base, three add a branch, four an edit on the branch, five a
  resolution after it. In `devices` a fault happens, or all five are used
  (`FaultOrLast`). `PageSize` 2 makes pages end before the log does. `MaxAttempts` is
  the number of retries before an entry is final: 0 and 1 stand for the five delays.
  `MaxFaults` bounds lost requests, lost answers, rollbacks and crashes together.
  `MaxCursor` leaves room for rollbacks. Two records are needed only where
  transactions on different records matter: `gap`.
* `OneRotates` and `OneChecks` in `MCDevices`: the local and the cloud's key are not
  both rotated (the two could then share a version, which 3.4 tells of), and of calls
  that only read and check, one is under way.
* `MCAccounts` follows two invitations while no worker is needed (`NoWorkYet`) and one
  when workers meet over it (`OneInvitation`); two workers meet over the first
  application while it is new, one worker meets an older or a later one
  (`OneAtLaterTimes`, `Busy`). Two claims let an attempt be overtaken by the next, two
  filings let a worker report for an earlier one, one filing a day makes the limit
  bite. Calls of someone revoked while they waited are followed while no worker is
  needed (`NoWorkYet`); the proofs have them beside workers too. Two seats and two
  invitations beside the founder make the ledger full.
* `MCDesktop`: two requests on the key ring overlap once (`OneOverlap`), two of the
  credentials meet once and one of the persons has one machine (`OneAtHome`,
  `OneMeeting`); all jobs share one stripe (`OneStripe`), the case in which they can
  wait for one another.
* `MCServices`: bodies are two ready texts and one that is not; create, move, sign and
  recall are four requests and the fifth is an edit or a move beside them; three cases
  for two alerts leave one duplicate for the one stop; two contents of a job
  may come from outside, and a job reaches version 9, the version in which one that
  every call advances succeeds; three releases of two wire contracts, three
  generations, one loss of a marker; two days with limits that change.

Deadlock is not checked: with identifiers, versions and requests bounded, every
behaviour ends when they are used up. Symmetry sets hold values that the module only
compares for equality; `live`, the one run of a liveness property, uses none.

### 3.2 Fairness

`LiveSpec` assumes weak fairness of each cycle's steps (a server thread that can run
does) and of commits (the database finishes transactions). Nothing is assumed of
users, of the order of threads, or of faults. Both are used: a cycle waits for a push
on its record to finish, and for its own.

### 3.3 What the violated runs show

* `gap`: two devices push different records; the transaction with the smaller cursor
  commits last. A device that pulls in between advances past it, and
  `pull_sync_events` never returns it again.
* `unsent`: `apply_remote_event` asks for unsent edits, an edit is saved, and the
  remote body is put over its row; no conflict is kept.
* `overwritten`: a move checks an item and its version; a signature of that version
  commits; the move's `put_record` replaces it, and the snapshot is gone from the row.
* `lostkey`: two revocations at once store two new keys under one version; the one
  that is refused has already replaced the key of the one that is committed.
* `compensated`: a worker whose invitation was cancelled is told to undo the account
  it created; meanwhile the address is invited again and accepted, and the worker
  deletes a member's account.

The passing properties are as strong as the code allows, and their text says where
they stop. `SeenIsStored`, `NoStaleOverwrite`, `RowNamesItsVersion` and `Converged`
hold while a device serves one request at a time. On the threaded server an edit that
was checked before a cycle's write puts version 2 over version 3 (the same missing
compare-and-put as in `overwritten`). `Converged` allows a device whose answer was
lost to file its own event as a conflict, so it holds the cloud's head in a conflict,
not in the row, until its user decides. `OneCasePerAlert` allows one more case for each
stop between a record and its reference. `LeaseIsItsWorkers` and `OwnerRemains` are
stated while no account of a member was deleted, which `compensated` shows to happen:
an account deleted under an inviting member leaves requests without an inviter, and
the next claim ends the lease of a worker under way. `NothingSkipped` speaks of contents
that `transition_agent_job` alone has made, and of how a job succeeds afterwards: what a
client stores as a job over the generic routes, one that succeeded included, the code
takes as it is. `CompatibleServed` excepts a backend that was installed by itself under
a Portal of another wire, until a release or a rollback compares them again.

### 3.4 Seen while modelling, not run

Each of these is a behaviour of a module here that contradicts what one would expect
of the code, or a property defined here that no run checks because it fails for a
reason already shown, or only outside the bounds.

* Sync: a frozen record may have no legal resolution (`BlockedCanResolve`,
  `v9/service.py:3298`); an edit whose retries are used up is not counted as unsent
  (`UnsentEditKeepsRow` even one request at a time, `v9/repository.py:1724`); a device
  that already holds the change can be told of a conflict (`v9/service.py:3429`).
* Board: signing reads a document's content and hash in two reads, so a receipt may
  have the hash of a text that was never checked (`ReceiptMatches`,
  `v9/service.py:2343`); `RecallKeepsSnapshot` and `JoinedByInvitation` hold.
* Casework and jobs: a case created just before a stop has no alert that names it
  (`NoOrphanCase`, `v9/service.py:2063`); a job that succeeded can be overwritten by a
  call that read it before (`v9/orchestration.py:117`), and a client can store one as
  succeeded that passed no gate (`v9/api.py:2584`, `:2612`); a job stays
  running if the write of its failure fails too.
* WeChat: an uncertain edition can be submitted again (`SubmittedOnce`,
  `wechat_publisher.py:1523-1530`); a reservation may change the text (`:1199`).
* Feishu: an event is answered before its job has run, and a process that stops then
  leaves an event nobody handles (`AnsweredIsHandled`,
  `feishu_webhook_security.py:915`).
* Accounts: the call of an owner or admin who was revoked while it waited for the
  organization's row goes ahead (`0015:205-215`, `:486-505`, `:792-815`, `:898-920`): it
  may invite, pair a device or revoke a member.
* Releases: an install by itself can put the backend under a Portal of another wire
  (`install-supabase-app.sh:343-357`, `start-supabase.sh:44`, as
  `docs/MVP_DEPLOY.md:146-159` has it run); the first release has no recovery once its
  marker is lost; a rotation that
  is staging cannot be aborted in the cloud (`0007:505`).
* Keys: an edit between `list_records` and the commit of a rotation gets the old
  body's wrapped key (`v9/repository.py:2213`); a record created across a rotation
  stays under the old key and blocks later rotations (`v9/service.py:3539`); a device
  paired while its member is revoked stays active (`v9/service.py:3060`); a stop
  between `add_device` and `put_key_envelope` leaves a device without an envelope.
* Enrollment: `commit_key_rotation` compares the number of envelopes, not whose they
  are (`EnvelopesComplete`, `0007:692-703`); a local rotation between the founder's
  manifest and its activation makes the activation impossible; a local rotation of the
  organization that is bound to the cloud makes its cloud calls refused, and an
  approval after a later cloud rotation can seal the local key as the cloud's
  (`v9/api.py:1693-1728`); the desktop of a member who is invited again keeps a revoked
  identity and cannot register (`0026`); a session changed between manifest and
  activation is refused for ever; nothing in this repository calls the cloud's rotation.
* Import: a device frozen against a cloud that is not empty stays frozen
  (`v9/api.py:1857-1867`); a staged import whose answer was lost and whose records were
  then edited cannot complete (`StagingCanResume`).
* Sessions: a login that races a refresh can leave memory and vault with different
  sessions; a login still being accepted can restore a session that was signed out
  meanwhile.
* AI keys: `put_user_ai_credential` has a variable with the name of a column it reads
  (`credential_id`, `0024:412`, `:433`, `:464`), which PL/pgSQL refuses as ambiguous
  unless it is configured otherwise; `Credentials` follows what the statements say. A
  rewrap that races a deletion creates the credential again; deleting and entering anew
  starts at version 1, so another machine's old key still passes its verification
  (`app.py:1283-1295`); a deletion under a session that changed after
  `_business_context` deletes the other person's credential (`v9/api.py:1346-1355`);
  rewrapping a wrapped device, and saving again after a lost answer, are refused
  (`WrapsCurrent`).
* Objects: an object of a record that has no workflow row can never be deleted
  (`0013:926`, `:1262`); a storage delete that rolls back after the external delete
  leaves a row without bytes.
* Budgets: usage above the estimate makes the settlement fail, so a paid answer is
  lost and its reservation is released at the next start (`user_state.py:560`); a
  paid call that failed is released; a second process that imports `user_state`
  releases the reservations of the first.

## 4. Proofs

Every theorem holds for any sets and any values of the bounds that satisfy the
assumptions of its module. Those say that null and the other markers are no elements
of the sets they are used with, that bounds are numbers (positive where a zero would
leave nothing to run), and that sets that are counted are finite; they are named
`...Assumption` in the module that declares the constants, and TLC evaluates them on
the runs. Two are about choices of the model: identifiers of `SyncSystem` are numbers
because devices draw them (`DevicesAssumption`), and a key that is not there is no key
(`NoKeyAssumption`).

Every safety property of a passing run is proved; the one liveness property is not (4.10).

### 4.1 The cloud (`SyncCloudProofs`)

`TypeCorrect`, `LineIsLinear`, `NothingDropped`, `ResolutionMovesOn`,
`RotationComplete` and `Refinement` (`Spec => KeepsHistory`) rest on `Invariance`,
`Spec => []CloudInv`. None of the properties is inductive, for one reason: a
transaction decides when it is opened and acts when it commits. `CloudInv` adds what
keeps its decision valid: `LocksHeld` (open transactions have different records and
event ids), `DecisionStands` (what each found is still so), `HeadOnLine`,
`ConflictsBehindHead`, `BranchesStored`, and `RotationPossible`. A commit disturbs
only its own record, and there `AcceptedFollows` and `VersionIsNew` say where its
version goes. The refinement maps an accepted commit to `Extend`, or to `Settle` if it
resolves an open branch; any other commit to `Fork`; a settlement with the recorded
head to `Settle` or a stutter; everything else to a stutter.

### 4.2 The devices (`SystemProofs`)

Layers, each used by the next:

| Layer | Says | Theorems |
|---|---|---|
| `BaseInv` | what a thread works through exists, so every step is a step of `SyncCloud` or leaves it alone | `CloudIsSyncCloud`, `OutboxTellsTruth` |
| `IdInv` | an identifier names one request for ever, so an answer found in the log is the answer to the request that asks | |
| `StoredInv`, with `~Threaded` | what a request of a device read still holds when it writes | `EventsAreStored`, `RowsOnlyAdvance` |
| `ShownInv`, with `~Threaded` | what a row shows and names | `DevicesConverge`, `EditsBuildOnTheRow` |
| `PageInv`, for one record | no hole in what a device reads | `OneRecordIsReadWhole` |

The hypotheses are necessary: the same properties fail on the threaded server (3.3),
and `gap` shows `NoSkippedEvent` failing with two records.

### 4.3 Desktops and the cloud's key (`DeviceProofs`)

`NoSessionComesBack` rests on `SessionInv`, which names for every place where a
signed-out session still lies the thread that is going to clear it. `ContextsOnlyAdvance`
rests on `EnrollInv` (rows of the cloud, contexts and what a request read stay in
step); `ActiveKeysAgree` adds `KeyInv`, who can have made the key of a version, and is
stated while only one of the two organizations is rotated (`OneIsRotated`): with both
rotated it is false, as 3.4 tells, and the run has the same bound.

### 4.4 The desktop's parts (`DesktopProofs`)

* `SignedStaysWhole`, `StraysAreHeld` from `ObjectsInv`: of the tickets about one object
  at most one is not cancelled, a row that is gone never comes back, and nothing under
  way is about an object of a publication.
* `CodesRestore`, `KeysStayUsable` from `RingInv`: what a request that runs alone has
  read. `KeysUsable` is stated until requests overlap, and `lostkey` shows why.
* `ImportIsFaithful`, `FrozenResumes` from `SnapshotInv`, which counts: as many
  versions were accepted as the session has, for records that are not yet sent.
* `BarrierAlwaysHolds`: a call under way holds its stripe and found its job running.
* `KeyIsNobodyElses` from `KeysAreOwn`: everything a request carries is its own
  person's, or is checked before it is used.

### 4.5 Board and services (`PublicationProofs`, `ServiceProofs`)

What a signature freezes was read steps before it is written, and rows change in
between, so nothing about rows can carry `AuditIsComplete` and `SignedWasReady`.
`TasksSound` says what a request may still rely on at each of its steps: entries of
the outbox, which only grows. `RowsLogged` makes it true at the reading, and
`UnsignedBare` keeps moves harmless.

`NothingIsSkipped` holds although nothing stops calls, client writes and pulls from
overwriting each other: `JobsInv` says of everything that may yet replace the job that
it has earned its phase or carries a content from outside, and that what succeeded did
so by the gate or came that way.
`ClaimsEndByOwner` (`ClaimInv`), `AlertsHaveOneCase` (`CaseworkInv`: counts of cases,
of stops and of those who are between a record and its reference), `LeasesEndByHolder`
and `SlotsAreExact` (`WebhookInv`: a token is drawn once, so whoever holds it is alone).

### 4.6 Releases (`ReleaseProofs`)

`LineOnlyGrows` rests on `LineInv`: of what a script has before it at most one write
is the Portal's document, and it extends the established line by one release.

`ServedIsCompatible` and `AlwaysRecoverable` rest on `SwitchInv`. A script may end
before any of its writes, so neither is inductive: what the disk, the rows and the
container say at one moment does not tell what the script that runs is about to do.
`WorldSound` says what holds whether or not a script runs: one backend is active
(`RowsSound`), documents name releases and have their marker (`LinesSound`), nothing
comes up where nothing was switched to (`NothingServedYet`), what may come up speaks the
active wire (`Compatible`, while the two are not `apart`), and an intent can be
completed and, once committed, finds its target in the container (`IntentSound`).
`ScriptSound` says of the script that runs which release it is about (`NamesSound`),
what it has made sure of (`PathSound`), which wires it has compared (`WiresSound`), and,
the key to the proof, that **what it has yet to write is what the same command would
write if it began now** (`WritesSound`): so one that is cut off leaves a world in which
the command, or the recovery, can begin again. `AbsentAssumption` says that a missing
file is not itself a release, a document, a marker or an intent.

### 4.7 Accounts (`MembershipProofs`)

`LedgerIsExact`, `SeatsFollowMembers`, `AccessIsRevoked` and `AnOwnerRemains` rest on
`MembershipInv`. The seat count is a cardinality; `HeldTaken`, `HeldFreed` and
`HeldRenewed` say what one, several or no reservation more does to it, and
`ReserveBalanced`, `ReleaseBalanced` and `SweepBalanced` that each function of the
ledger keeps it exact, so that the clamp at zero is never needed. `ViaSound` is the
strengthening: a membership names a request that was accepted, no two the same, and
an invited one names one; without it the trigger of a closing request could free the
seat of a membership it is not about.

`AnOwnerRemains` says what `LastOwner` does alone: the caller of `RevokeMember` may be
anyone who once managed, no member any more included, and the proof uses nothing of
him.

`AccountsStaySound` carries the four to the whole system with workers and purges
(`RetentionSpec`), whose invariant is `RetentionInv`. What it adds:

* `RequestsNamed`: behind an accepted request is a user, an open one has an address.
* `LeaseSound`: a lease runs only for an attempt under way, at a request that `Stands`:
  while no account of a member was deleted, an open one has an inviter who may still
  invite. A claim that finds none is what could end another's lease. A late call can
  make a request whose inviter may not invite, but no claim of it ever succeeds, and
  revoking an inviter who may cancels what he asked for (`StandsLast`). With it the
  purge, which spares leased requests, ends no lease.
* `RowSound`: a worker was started for this filing or an earlier one, not for one that
  is pending, and says "invited" for this filing's approved request only if it went
  out. `WentOut` only grows: provisioned, accepted, or cancelled after its time.

From it `InvitedWentOut`, `LeasesEndByWorker` and `PurgeForgets`. Steps of `Membership`
disturb workers only through requests (`RequestsLast`: no request loses its user,
reopens, grows young again, or ceases to stand), which is why one lemma per action
suffices.

### 4.8 Daily budgets (`ServiceProofs`)

`LedgerAlwaysMatches` rests on `BudgetInv`, which adds to the ledger's rows what a call
has reserved at each of its steps (`ReservedByStep`): a reservation never replaces
another, and one that is open names its day, so settling it days later corrects the
row it was taken from. A sum of amounts is the number of their units (`Units`), a
cardinality, so that `SumIs` can say what one reservation more or less does to it;
`RowChanges` that a step on one row leaves every other row's sum alone, and
`StartKeeps` that a recovery takes from each row exactly what is still reserved. With
it the guard of `Start`, which stands for the error `BUDGET_LEDGER_CORRUPT`, is always true.

### 4.9 How the proofs are laid out

One lemma per action (`...Keeps`, `...Steps`), one step per conjunct that the action
can disturb, a lemma that combines them over the next-state relation, and a short
temporal theorem. Facts about operators (`To`, `Amended`, `Conclude`, `Reserve`, ...)
are lemmas of their own.

### 4.10 What is only model-checked

* `CycleEnds`: liveness under fairness is out of the prover's reach, and so is
  `ENABLED`.
* The properties that `violation` runs refute, and those that hold on the threaded
  server or with several records only within the bounds of their run: the theorems of
  4.2 and 4.3 say which hypotheses they need.

## 5. What is not modelled

`PROJECT.json` gives each part's status and reason. In short: ciphers, rule evaluation,
document intake, rendering, searches and user interfaces are pure functions or wiring;
the daily quota of the cloud appears only as a reason for a transaction to roll back;
the administrator's repair functions act outside the protocol; local migration and
backup are one-shot file work; of access applications the hourly and global rate
buckets, the audits and their deletion after 179 days are left out, and so is a purged
request of which the account exists already, whose state the purge sets like any
other's. Of a deleted account, the call that still waits when a new account of the same
address is a member. Of conflicts, the retry of a resolution that is already recorded,
which succeeds again and thaws the device's record (`0010:128-212`), and the local route
that applies one event given by the client instead of a pull (`/sync/push`,
`v9/api.py:2806`). Of jobs, tombstones, and the outbox that makes a pull keep a job
aside. Of deployment, the tree of Edge Functions, which `install-supabase-app.sh
--prepare-functions` switches ahead of an install, and the start of the database's
containers. `Edit` in `Casework` keeps the status of an alert and its case, which the
client sends back. What several modules look at (a device, a membership) is modelled in
each as far as that module needs it; the composition that is checked is `SyncSystem`
over `SyncCloud` and `AccessRetention` over `Provisioning` over `Membership`.

## 6. Plan

1. An abstract specification of the accounts (who has access, and why) refined by
   `AccessRetention`, as `RecordHistory` is by `SyncCloud`.
2. The devices of the legacy web application (`auth_devices.py`), and local migration
   and backup, as modules beside `CloudSession`.
