----------------------------- MODULE SyncSystem -----------------------------
(***************************************************************************)
(* Several devices of one organization synchronising through SyncCloud.    *)
(*                                                                         *)
(* A device is its SQLite repository: the current encrypted record, the    *)
(* outbox, the applied events and inbound cursor, the local conflicts, the *)
(* sync blocks and the quarantine.  Three kinds of thread work on it, all  *)
(* in request handlers of a threaded server and none holding a lock from   *)
(* one repository call to the next: an editor (update_record reads, then   *)
(* puts), sync cycles (run_sync_cycle), and conflict resolution.  Each     *)
(* repository call is one SQLite transaction and one step here.            *)
(*                                                                         *)
(* Time is abstracted: a request may fail at any moment, and an entry that *)
(* waits for its retry delay may or may not be due when a cycle looks.     *)
(***************************************************************************)
EXTENDS SyncCloud, FiniteSetsExt

CONSTANTS Devices,      \* devices of the organization
          Cycles,       \* threads that run sync cycles
          DeviceOf,     \* the device each of them works on
          MaxAttempts,  \* length of RETRY_DELAYS_SECONDS
          PageSize,     \* events per pull
          MaxFaults,    \* bound on lost requests, rollbacks and crashes
          Threaded,     \* whether requests to one device overlap
          Corrupt       \* versions whose ciphertext does not authenticate

ASSUME DevicesAssumption ==
  /\ DeviceOf \in [Cycles -> Devices]
  /\ MaxAttempts \in Nat /\ MaxFaults \in Nat /\ PageSize \in Nat \ {0}
  /\ Threaded \in BOOLEAN
  /\ VersionIds \subseteq Nat \ {0} /\ EventIds = VersionIds
  /\ Corrupt \subseteq VersionIds
  /\ MaxVersion # 0

VARIABLES
  lastId,      \* identifiers drawn so far (uuid4 of versions and events)
  faults,      \* faults so far
  body,        \* body[v]: the edit whose content version v carries
  local,       \* local[d][r]: the row of encrypted_records
  outbox,      \* outbox[d]: the rows of sync_outbox
  seen,        \* seen[d]: event ids in the device's sync_events
  cursor,      \* cursor[d]: sync_cursor
  kept,        \* kept[d]: rows of the device's conflicts table
  blocked,     \* blocked[d]: records with an unresolved row in sync_blocks
  quarantine,  \* quarantine[d]: cursors in sync_quarantine
  draft,       \* draft[d]: an update between its read and its put
  resolving,   \* resolving[d]: a resolution waiting for the cloud
  cycle        \* cycle[c]: program counter and locals of run_sync_cycle

deviceVars == <<local, outbox, seen, cursor, kept, blocked, quarantine>>
threadVars == <<draft, resolving, cycle>>
envVars == <<lastId, body, faults>>
sysVars == <<vars, envVars, deviceVars, threadVars>>

NoRecord == [ver |-> 0, body |-> Null, cv |-> Null]
NoDraft  == [rec |-> Null, ver |-> 0]
NoPlan   == [does |-> "nothing", mine |-> Null]
Idle     == [pc |-> "idle", after |-> 0, queue |-> {}, page |-> {},
             plan |-> NoPlan]

SystemInit ==
  /\ Init
  /\ lastId = 0
  /\ faults = 0
  /\ body = [v \in VersionIds |-> Null]
  /\ local = [d \in Devices |-> [r \in Records |-> NoRecord]]
  /\ outbox = [d \in Devices |-> {}]
  /\ seen = [d \in Devices |-> {}]
  /\ cursor = [d \in Devices |-> 0]
  /\ kept = [d \in Devices |-> {}]
  /\ blocked = [d \in Devices |-> {}]
  /\ quarantine = [d \in Devices |-> {}]
  /\ draft = [d \in Devices |-> NoDraft]
  /\ resolving = [d \in Devices |-> {}]
  /\ cycle = [c \in Cycles |-> Idle]

-----------------------------------------------------------------------------
(* Editing: create_record and update_record                                *)

Fault == faults < MaxFaults /\ faults' = faults + 1

CanDraw == lastId + 1 \in VersionIds

\* The requests a device is serving.
Busy(d) ==
  {c \in Cycles : DeviceOf[c] = d /\ cycle[c].pc # "idle"}
    \cup (IF draft[d] # NoDraft THEN {"draft"} ELSE {})
    \cup (IF resolving[d] # {} THEN {"resolving"} ELSE {})

\* The server is threaded; one window with one user may still issue one
\* request at a time.
MayStart(d) == Threaded \/ Busy(d) = {}

\* Mutation of Enqueue: a record has one entry in the outbox.
EnqueueFirst(d, q) ==
  IF \E o \in outbox[d] : o.req.rec = q.rec THEN outbox
  ELSE [outbox EXCEPT ![d] =
          @ \cup {[req |-> q, state |-> "pending", attempts |-> 0]}]

Enqueue(d, q) ==
  [outbox EXCEPT ![d] =
     @ \cup {[req |-> q, state |-> "pending", attempts |-> 0]}]

\* put_record of a local edit: one SQLite transaction that replaces the row
\* without comparing versions, and queues the event.
PutEdit(d, r, ver) ==
  LET v == lastId + 1 IN
  /\ CanDraw
  /\ r \notin blocked[d]
  /\ lastId' = v
  /\ body' = [body EXCEPT ![v] = v]
  /\ local' = [local EXCEPT ![d][r] = [ver |-> ver, body |-> v, cv |-> v]]
  /\ outbox' = Enqueue(d, [id |-> v, rec |-> r, op |-> "write", ver |-> ver,
                           vid |-> v, base |-> local[d][r].cv, key |-> 1])
  /\ UNCHANGED <<vars, faults, seen, cursor, kept, blocked, quarantine>>

\* A new record has an identifier no device has used.
Create(d, r) ==
  /\ MayStart(d)
  /\ \A x \in Devices : \A o \in outbox[x] : o.req.rec # r
  /\ PutEdit(d, r, 1)
  /\ UNCHANGED threadVars

\* The update is checked against the version the user saw and encrypted.
BeginUpdate(d, r) ==
  /\ MayStart(d)
  /\ draft[d] = NoDraft
  /\ local[d][r].ver \in 1..(MaxVersion - 1)
  /\ CanDraw
  /\ draft' = [draft EXCEPT ![d] = [rec |-> r, ver |-> local[d][r].ver + 1]]
  /\ UNCHANGED <<vars, envVars, deviceVars, resolving, cycle>>

FinishUpdate(d) ==
  /\ draft[d] # NoDraft
  /\ PutEdit(d, draft[d].rec, draft[d].ver)
  /\ draft' = [draft EXCEPT ![d] = NoDraft]
  /\ UNCHANGED <<resolving, cycle>>

\* put_record refuses a record that is blocked, or there is no id to draw.
RefuseUpdate(d) ==
  /\ draft[d] # NoDraft
  /\ draft[d].rec \in blocked[d] \/ ~CanDraw
  /\ draft' = [draft EXCEPT ![d] = NoDraft]
  /\ UNCHANGED <<vars, envVars, deviceVars, resolving, cycle>>

-----------------------------------------------------------------------------
(* run_sync_cycle, upload half                                             *)

Entry(d, id) == CHOOSE o \in outbox[d] : o.req.id = id

Mark(d, id, state, attempts) ==
  [outbox EXCEPT ![d] = {IF o.req.id = id
                         THEN [o EXCEPT !.state = state, !.attempts = attempts]
                         ELSE o : o \in @}]

\* list_outbox with those retries whose delay is over; a cycle sends them in
\* the order of their creation.
StartCycle(c, due) ==
  LET d == DeviceOf[c] IN
  /\ cycle[c].pc = "idle" /\ MayStart(d)
  /\ due \subseteq {o \in outbox[d] : o.state = "retry"}
  /\ cycle' = [cycle EXCEPT ![c] =
       [pc |-> "push", after |-> cursor[d], page |-> {}, plan |-> NoPlan,
        queue |-> {o.req : o \in {p \in outbox[d] : p.state = "pending"}
                                   \cup due}]]
  /\ UNCHANGED <<vars, envVars, deviceVars, draft, resolving>>

Sending(c, pcs) == cycle[c].pc \in pcs /\ cycle[c].queue # {}
NextToSend(c) ==
  CHOOSE q \in cycle[c].queue : \A p \in cycle[c].queue : q.id <= p.id
SentOne(c) ==
  [cycle EXCEPT ![c].queue = @ \ {NextToSend(c)}, ![c].pc = "push"]

\* The request reaches the cloud, which opens a transaction for it.
SendPush(c) ==
  /\ Sending(c, {"push"})
  /\ Push(NextToSend(c))
  /\ cycle' = [cycle EXCEPT ![c].pc = "await"]
  /\ UNCHANGED <<envVars, deviceVars, draft, resolving>>

Answer(q) == CHOOSE e \in events : e.req.id = q.id

\* Mutation of MarkSent: every answer counts as success.
MarkSentAnyway(c) ==
  LET d == DeviceOf[c]
      q == NextToSend(c)
  IN
  /\ Sending(c, {"push", "await"})
  /\ Recorded(q.id) /\ Answer(q).req = q
  /\ outbox' = Mark(d, q.id, "sent", Entry(d, q.id).attempts)
  /\ cycle' = SentOne(c)
  /\ UNCHANGED <<vars, envVars, local, seen, cursor, kept, blocked, quarantine,
                 draft, resolving>>

\* The answer "applied" arrives, of this attempt or of an earlier one.
MarkSent(c) ==
  LET d == DeviceOf[c]
      q == NextToSend(c)
  IN
  /\ Sending(c, {"push", "await"})
  /\ Recorded(q.id) /\ Answer(q).req = q /\ Answer(q).applied
  /\ outbox' = Mark(d, q.id, "sent", Entry(d, q.id).attempts)
  /\ cycle' = SentOne(c)
  /\ UNCHANGED <<vars, envVars, local, seen, cursor, kept, blocked, quarantine,
                 draft, resolving>>

\* Mutation of MarkConflicted: the row moves back, the record is not frozen.
MarkConflictedUnfrozen(c) ==
  LET d == DeviceOf[c]
      q == NextToSend(c)
  IN
  /\ Sending(c, {"push", "await"})
  /\ Recorded(q.id) /\ Answer(q).req = q /\ ~Answer(q).applied
  /\ outbox' = Mark(d, q.id, "conflict", Entry(d, q.id).attempts)
  /\ local' = IF local[d][q.rec].cv = q.vid
              THEN [local EXCEPT ![d][q.rec].cv = q.base]
              ELSE local
  /\ cycle' = SentOne(c)
  /\ UNCHANGED <<vars, envVars, seen, cursor, kept, blocked, quarantine, draft,
                 resolving>>

\* The answer "not applied" arrives: the record is frozen, and if the branch
\* is still its row, the row goes back to the branch's base.
MarkConflicted(c) ==
  LET d == DeviceOf[c]
      q == NextToSend(c)
  IN
  /\ Sending(c, {"push", "await"})
  /\ Recorded(q.id) /\ Answer(q).req = q /\ ~Answer(q).applied
  /\ outbox' = Mark(d, q.id, "conflict", Entry(d, q.id).attempts)
  /\ local' = IF local[d][q.rec].cv = q.vid
              THEN [local EXCEPT ![d][q.rec].cv = q.base]
              ELSE local
  /\ blocked' = [blocked EXCEPT ![d] = @ \cup {q.rec}]
  /\ cycle' = SentOne(c)
  /\ UNCHANGED <<vars, envVars, seen, cursor, kept, quarantine, draft,
                 resolving>>

\* mark_outbox_failed: after the last delay of the table, a person decides.
MarkFailed(c) ==
  LET d == DeviceOf[c]
      o == Entry(d, NextToSend(c).id)
  IN
  /\ outbox' = IF o.attempts >= MaxAttempts
               THEN Mark(d, o.req.id, "manual", o.attempts)
               ELSE Mark(d, o.req.id, "retry", o.attempts + 1)
  /\ cycle' = SentOne(c)
  /\ UNCHANGED <<vars, lastId, body, local, seen, cursor, kept, blocked,
                 quarantine, draft, resolving>>

\* Mutation of PushRefused: only a refusal of the key version is handled.
PushRefusedForKey(c) ==
  /\ Sending(c, {"push"})
  /\ LocksFree(NextToSend(c))
  /\ ~Recorded(NextToSend(c).id) /\ ~KeyCurrent(NextToSend(c))
  /\ MarkFailed(c)
  /\ UNCHANGED faults

\* The cloud refuses the event.
PushRefused(c) ==
  /\ Sending(c, {"push"})
  /\ LET q == NextToSend(c) IN
     /\ LocksFree(q)
     /\ IF Recorded(q.id) THEN Answer(q).req # q ELSE ~Admissible(q)
  /\ MarkFailed(c)
  /\ UNCHANGED faults

\* The transaction was rolled back, and the device hears of it.
PushAborted(c) ==
  /\ Sending(c, {"await"})
  /\ ~Recorded(NextToSend(c).id)
  /\ \A t \in open : t.req # NextToSend(c)
  /\ MarkFailed(c)
  /\ UNCHANGED faults

\* The request never arrives, or its answer is lost.
PushLost(c) ==
  /\ Sending(c, {"push", "await"})
  /\ Fault
  /\ MarkFailed(c)

-----------------------------------------------------------------------------
(* run_sync_cycle, download half                                           *)

\* pull_sync_events: the first committed events after the cursor.
Page(after) ==
  LET later == {e \in events : e.cursor > after}
  IN {e \in later : Cardinality({f \in later : f.cursor < e.cursor}) < PageSize}

Pull(c) ==
  /\ cycle[c].pc = "push" /\ cycle[c].queue = {}
  /\ cycle' = [cycle EXCEPT ![c].pc = "apply", ![c].page = Page(cycle[c].after)]
  /\ UNCHANGED <<vars, envVars, deviceVars, draft, resolving>>

\* The events of a page are taken in the order of their cursors.
Current(c) ==
  CHOOSE e \in cycle[c].page : \A f \in cycle[c].page : e.cursor <= f.cursor
NextEvent(c) ==
  [cycle EXCEPT ![c].page = @ \ {Current(c)}, ![c].pc = "apply"]

EndCycle(c) ==
  /\ cycle[c].pc = "apply"
  /\ cycle[c].page # {} => Current(c).cursor <= cursor[DeviceOf[c]]
  /\ cycle' = [cycle EXCEPT ![c] = Idle]
  /\ UNCHANGED <<vars, envVars, deviceVars, draft, resolving>>

\* The pull or a repository call raises, or the process is killed: what the
\* thread committed stays, what it held is gone.
AbandonCycle(c) ==
  /\ cycle[c].pc # "idle"
  /\ Fault
  /\ cycle' = [cycle EXCEPT ![c] = Idle]
  /\ UNCHANGED <<vars, lastId, body, deviceVars, draft, resolving>>

\* The event must lie beyond the device's cursor, or the batch stops.
Accept(c) ==
  /\ cycle[c].pc = "apply" /\ cycle[c].page # {}
  /\ Current(c).cursor > cursor[DeviceOf[c]]
  /\ cycle' = [cycle EXCEPT ![c].pc = "check"]
  /\ UNCHANGED <<vars, envVars, deviceVars, draft, resolving>>

\* Another thread has processed the event since.
SkipSeen(c) ==
  /\ cycle[c].pc = "check"
  /\ Current(c).req.id \in seen[DeviceOf[c]]
  /\ cycle' = NextEvent(c)
  /\ UNCHANGED <<vars, envVars, deviceVars, draft, resolving>>

\* Mutation of Quarantine: the cursor passes the event, nothing is kept.
DropUntrusted(c) ==
  /\ cycle[c].pc = "check"
  /\ Current(c).req.id \notin seen[DeviceOf[c]]
  /\ Current(c).req.vid \in Corrupt
  /\ cursor' = [cursor EXCEPT ![DeviceOf[c]] = Max({@, Current(c).cursor})]
  /\ cycle' = NextEvent(c)
  /\ UNCHANGED <<vars, envVars, local, outbox, seen, kept, blocked, quarantine,
                 draft, resolving>>

\* An event that cannot be authenticated is set aside and the cursor passes
\* it, in one transaction.
Quarantine(c) ==
  LET d == DeviceOf[c] IN
  /\ cycle[c].pc = "check"
  /\ Current(c).req.id \notin seen[d]
  /\ Current(c).req.vid \in Corrupt
  /\ quarantine' = [quarantine EXCEPT ![d] = @ \cup {Current(c).cursor}]
  /\ cursor' = [cursor EXCEPT ![d] = Max({@, Current(c).cursor})]
  /\ cycle' = NextEvent(c)
  /\ UNCHANGED <<vars, envVars, local, outbox, seen, kept, blocked, draft,
                 resolving>>

HasPendingOutbox(d, r) ==
  \E o \in outbox[d] : o.req.rec = r /\ o.state \in {"pending", "retry"}

SameContent(q, row) == q.ver = row.ver /\ body[q.vid] = row.body

\* Mutation of Held: a branch beside the head needs no handling.
HeldOrBranch(d, e) == ~e.applied \/ SameContent(e.req, local[d][e.req.rec])

\* The row already has the event's content.
Held(d, e) == e.applied /\ SameContent(e.req, local[d][e.req.rec])

\* Mutation of Competes: only unsent edits compete.
CompetesUnsent(d, e) == ~e.applied \/ HasPendingOutbox(d, e.req.rec)

\* The event is a branch, or the row is as new or holds an unsent edit.
Competes(d, e) ==
  LET row == local[d][e.req.rec] IN
  \/ ~e.applied
  \/ /\ row # NoRecord
     /\ e.req.ver <= row.ver \/ HasPendingOutbox(d, e.req.rec)

\* What apply_remote_event will do, from the row and outbox it reads first.
PlanFor(d, e) ==
  [does |-> IF Held(d, e) THEN "nothing"
            ELSE IF Competes(d, e) THEN "keep" ELSE "put",
   mine |-> local[d][e.req.rec].body]

Decide(c) ==
  LET d == DeviceOf[c]
      plan == PlanFor(d, Current(c))
  IN
  /\ cycle[c].pc = "check"
  /\ Current(c).req.id \notin seen[d]
  /\ Current(c).req.vid \notin Corrupt
  /\ cycle' = [cycle EXCEPT ![c].plan = plan,
                ![c].pc = IF plan.does = "nothing" THEN "record" ELSE "write"]
  /\ UNCHANGED <<vars, envVars, deviceVars, draft, resolving>>

\* put_record without an outbox entry.
WriteRecord(c) ==
  LET d == DeviceOf[c]
      q == Current(c).req
  IN
  /\ cycle[c].pc = "write" /\ cycle[c].plan.does = "put"
  /\ local' = [local EXCEPT ![d][q.rec] =
       [ver |-> q.ver, body |-> body[q.vid], cv |-> q.vid]]
  /\ cycle' = [cycle EXCEPT ![c].pc = "record"]
  /\ UNCHANGED <<vars, envVars, outbox, seen, cursor, kept, blocked,
                 quarantine, draft, resolving>>

\* put_conflict keeps the event's ciphertext and the row's, as it was read.
WriteConflict(c) ==
  LET d == DeviceOf[c]
      q == Current(c).req
  IN
  /\ cycle[c].pc = "write" /\ cycle[c].plan.does = "keep"
  /\ kept' = [kept EXCEPT ![d] = @ \cup
       {[rec |-> q.rec, mine |-> cycle[c].plan.mine, remote |-> q.vid]}]
  /\ cycle' = [cycle EXCEPT ![c].pc = "record"]
  /\ UNCHANGED <<vars, envVars, local, outbox, seen, cursor, blocked,
                 quarantine, draft, resolving>>

\* record_sync_event marks the event and moves the cursor, never backwards.
RecordEvent(c) ==
  LET d == DeviceOf[c] IN
  /\ cycle[c].pc = "record"
  /\ seen' = [seen EXCEPT ![d] = @ \cup {Current(c).req.id}]
  /\ cursor' = [cursor EXCEPT ![d] = Max({@, Current(c).cursor})]
  /\ cycle' = NextEvent(c)
  /\ UNCHANGED <<vars, envVars, local, outbox, kept, blocked, quarantine, draft,
                 resolving>>

-----------------------------------------------------------------------------
(* Conflict resolution                                                     *)

\* The event must carry the device's current row, follow the cloud's head,
\* and be one the device queued or one made for the purpose.
ResolutionEvents(d, c) ==
  LET row == local[d][c.rec]
      v == lastId + 1
  IN {o.req : o \in {p \in outbox[d] :
                       p.req.rec = c.rec /\ SameContent(p.req, row)}}
     \cup (IF CanDraw /\ row.ver \in 1..MaxVersion
           THEN {[id |-> v, rec |-> c.rec, op |-> "write", ver |-> row.ver,
                  vid |-> v, base |-> heads[c.rec].vid, key |-> 1]}
           ELSE {})

\* The device that asks notes whether its record was blocked.
Await(d, q) ==
  /\ resolving[d] = {}
  /\ resolving' = [resolving EXCEPT ![d] =
       {[req |-> q, wasBlocked |-> q.rec \in blocked[d]]}]

SendResolution(d, c, q) ==
  /\ MayStart(d) /\ Await(d, q)
  /\ \/ Resolve(c, q)
     \/ Recorded(q.id) /\ Answer(q).req = q /\ ResolveWithHead(c, Answer(q))
  /\ IF q.id = lastId + 1
     THEN lastId' = q.id /\ body' = [body EXCEPT ![q.vid] = local[d][c.rec].body]
     ELSE UNCHANGED <<lastId, body>>
  /\ UNCHANGED <<faults, deviceVars, draft, cycle>>

\* The answer arrives; clear_sync_block thaws the record and makes the
\* resolution the base of its next edit.
FinishResolution(d) ==
  \E x \in resolving[d] :
    /\ Recorded(x.req.id)
    /\ resolving' = [resolving EXCEPT ![d] = {}]
    /\ IF x.wasBlocked /\ x.req.rec \in blocked[d]
       THEN /\ blocked' = [blocked EXCEPT ![d] = @ \ {x.req.rec}]
            /\ local' = [local EXCEPT ![d][x.req.rec].cv = x.req.vid]
       ELSE UNCHANGED <<blocked, local>>
    /\ UNCHANGED <<vars, envVars, outbox, seen, cursor, kept, quarantine, draft,
                   cycle>>

\* The request or its answer is lost, or the process was killed.
LoseResolution(d) ==
  /\ resolving[d] # {}
  /\ Fault
  /\ resolving' = [resolving EXCEPT ![d] = {}]
  /\ UNCHANGED <<vars, lastId, body, deviceVars, draft, cycle>>

-----------------------------------------------------------------------------

CloudCommit ==
  /\ \E t \in open : Commit(t)
  /\ UNCHANGED <<envVars, deviceVars, threadVars>>

CloudRollback ==
  /\ Fault
  /\ \E t \in open : Rollback(t)
  /\ UNCHANGED <<lastId, body, deviceVars, threadVars>>

CycleStep(c) ==
  \/ SendPush(c) \/ MarkSent(c) \/ MarkConflicted(c)
  \/ PushRefused(c) \/ PushAborted(c)
  \/ Pull(c) \/ Accept(c) \/ SkipSeen(c) \/ Quarantine(c) \/ Decide(c)
  \/ WriteRecord(c) \/ WriteConflict(c) \/ RecordEvent(c)
  \/ EndCycle(c)

CycleFault(c) == PushLost(c) \/ AbandonCycle(c)

DeviceStep(d) ==
  \/ \E r \in Records : Create(d, r) \/ BeginUpdate(d, r)
  \/ FinishUpdate(d) \/ RefuseUpdate(d)
  \/ \E c \in conflicts : \E q \in ResolutionEvents(d, c) :
       SendResolution(d, c, q)
  \/ FinishResolution(d) \/ LoseResolution(d)

SystemNext ==
  \/ CloudCommit \/ CloudRollback
  \/ \E d \in Devices : DeviceStep(d)
  \/ \E c \in Cycles :
       \/ CycleStep(c) \/ CycleFault(c)
       \/ \E due \in SUBSET outbox[DeviceOf[c]] : StartCycle(c, due)

SystemSpec == SystemInit /\ [][SystemNext]_sysVars

-----------------------------------------------------------------------------
(* Properties                                                              *)

Rows == [ver : 0..MaxVersion, body : VersionIds \cup {Null},
         cv : VersionIds \cup {Null}]

SystemTypeOK ==
  /\ TypeOK
  /\ local \in [Devices -> [Records -> Rows]]
  /\ \A d \in Devices : \A o \in outbox[d] :
       /\ o.req \in Requests
       /\ o.state \in {"pending", "retry", "manual", "sent", "conflict"}
       /\ o.attempts \in 0..MaxAttempts
  /\ seen \in [Devices -> SUBSET EventIds]
  /\ cursor \in [Devices -> 0..MaxCursor]
  /\ blocked \in [Devices -> SUBSET Records]
  /\ \A c \in Cycles :
       cycle[c].pc \in {"idle", "push", "await", "apply", "check", "write",
                        "record"}

\* What the cursor has passed was processed: no event of the log is skipped,
\* whatever requests fail or processes die (run_sync_cycle stops a batch at
\* the first event it cannot process).
NoSkippedEvent ==
  \A d \in Devices, e \in events :
    e.cursor <= cursor[d] =>
      e.req.id \in seen[d] \/ e.cursor \in quarantine[d]

\* An event is only recorded as processed once its content is on the device:
\* in the record's row or a later one, or in a conflict beside it; a crash
\* between the two transactions of apply_remote_event loses nothing.  While a
\* device serves one request at a time.
SeenIsStored ==
  \A d \in Devices, e \in events : e.req.id \in seen[d] =>
    \/ e.applied /\ local[d][e.req.rec].ver >= e.req.ver
    \/ \E k \in kept[d] : k.remote = e.req.vid

\* The outbox tells the truth about the cloud after any number of lost
\* answers and retries: "sent" means on the record's line, "conflict" means
\* kept as a branch.
OutboxTruthful ==
  \A d \in Devices : \A o \in outbox[d] :
    /\ o.state = "sent" =>
         \E e \in events : e.req = o.req /\ e.applied
    /\ o.state = "conflict" =>
         \E e \in events : e.req = o.req /\ ~e.applied

Undelivered(d, r) ==
  {o \in outbox[d] : o.req.rec = r /\ o.state \notin {"sent", "conflict"}}

\* Devices converge: one that has processed every event of a record, has
\* nothing left to deliver for it and is not frozen on it shows the cloud's
\* head, or holds that head in a conflict for its user to decide.  While a
\* device serves one request at a time.
Converged ==
  \A d \in Devices, r \in Records :
    (/\ Applied(r) # {} /\ \A e \in events : e.req.rec = r => e.req.id \in seen[d]
     /\ Undelivered(d, r) = {} /\ r \notin blocked[d] /\ Busy(d) = {})
    => \/ /\ local[d][r].ver = heads[r].ver
          /\ local[d][r].body = body[heads[r].vid]
       \/ \E k \in kept[d] : k.remote = heads[r].vid

\* The base the next edit will name is the version the row carries, so an
\* edit of a record that is not frozen is never built on another one.
RowNamesItsVersion ==
  \A d \in Devices, r \in Records :
    r \notin blocked[d] /\ local[d][r] # NoRecord =>
      \A v \in versions : v.rec = r /\ v.vid = local[d][r].cv =>
        v.ver = local[d][r].ver /\ body[v.vid] = local[d][r].body

\* A stale version never replaces the current one on a device: a row only
\* changes its content to that of a later version.  While a device serves one
\* request at a time.
NoStaleOverwrite ==
  [][\A d \in Devices, r \in Records :
       local'[d][r].body # local[d][r].body
         => local'[d][r].ver > local[d][r].ver]_sysVars

\* While a device holds an edit of a record it has not sent, a remote body
\* goes to its conflicts and leaves the row alone (apply_remote_event).
UnsentEditKeepsRow ==
  [][\A c \in Cycles :
       WriteRecord(c) =>
         \A o \in outbox[DeviceOf[c]] :
           o.req.rec = Current(c).req.rec =>
             o.state \in {"sent", "conflict"}]_sysVars

\* A device frozen on a branch can thaw: some event that carries its current
\* row would resolve the open conflict.
BlockedCanResolve ==
  \A d \in Devices : \A r \in blocked[d] : \A c \in conflicts :
    c.rec = r /\ c.resolution = Null /\ CanDraw /\ resolving[d] = {} =>
      \E q \in ResolutionEvents(d, c) :
        \/ Admissible(q) /\ FollowsHead(q)
        \/ \E e \in events : e.req = q /\ e.applied /\ q.vid = heads[r].vid

\* A thread that serves a sync request runs on, and so does the database;
\* nothing promises that a user starts another cycle, or that faults happen.
LiveSpec ==
  /\ SystemSpec
  /\ \A c \in Cycles : WF_sysVars(CycleStep(c))
  /\ WF_sysVars(CloudCommit)

\* A sync cycle ends, whatever other devices hold locks on and whatever the
\* cloud refuses: no push waits for an answer that cannot come.
CycleEnds == \A c \in Cycles : cycle[c].pc # "idle" ~> cycle[c].pc = "idle"

=============================================================================
