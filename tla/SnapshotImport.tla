---------------------------- MODULE SnapshotImport ----------------------------
(***************************************************************************)
(* The first import of a desktop's records into an empty cloud             *)
(* organization: a session on the device that freezes its records, a       *)
(* session in the cloud that takes nothing but the announced versions, and *)
(* the two requests that drive them (bootstrap-snapshot and                *)
(* bootstrap-snapshot/complete).  Each local transaction and each call of  *)
(* the cloud is a step; any call may lose its answer and any request may   *)
(* end between two steps.                                                  *)
(*                                                                         *)
(* A body is a number and stands for a version's content, its hash and the *)
(* identifiers that are derived from them; 0 is no row, no head and no     *)
(* base.  A manifest is the set of pairs of a record and its body.         *)
(***************************************************************************)
EXTENDS Integers, Sequences, FiniteSets

CONSTANTS Existing,     \* records of the device, sent to a cloud it had before
          New,          \* records the device may create
          Theirs,       \* records of another device
          Importers,    \* threads of the server
          MaxWritten, MaxImports, MaxLost

ASSUME SnapshotAssumption ==
    /\ Existing \cap New = {} /\ Theirs \cap (Existing \cup New) = {}
    /\ IsFiniteSet(Existing) /\ {MaxWritten, MaxImports, MaxLost} \subseteq Nat

VARIABLES row,       \* encrypted_records: the body of each record
          known,     \* encrypted_records.cloud_version_id
          edits,     \* sync_outbox: ordinary entries that are not sent
          staged,    \* initial_snapshot_map and its entry in the outbox
          session,   \* initial_snapshot_sessions
          head,      \* record_heads in the cloud
          imports,   \* private.snapshot_imports and their items, oldest first
          answered,  \* pushed snapshots whose answer has arrived
          import,    \* requests under way
          edited, lost,   \* bodies drawn, answers lost
          slipped    \* history: a write came between a manifest and its session

deviceState == <<row, known, edits, staged, session, edited, slipped>>
cloudState  == <<head, imports>>
snapshotVars == <<row, known, edits, staged, session, head, imports, answered, import,
                  edited, lost, slipped>>

Tracked == Existing \cup New \cup Theirs
Elsewhere == 0 - 1      \* a version only the former cloud knows

NoTask == [op |-> "none", at |-> "none", manifest |-> {}, id |-> 0, accepted |-> 0]

SnapshotInit ==
    /\ row = [r \in Tracked |-> IF r \in Existing THEN 1 ELSE 0]
    /\ known = [r \in Tracked |-> IF r \in Existing THEN Elsewhere ELSE 0]
    /\ edits = {} /\ staged = [r \in Tracked |-> [body |-> 0, state |-> "none"]]
    /\ session = [state |-> "none", manifest |-> {}]
    /\ head = [r \in Tracked |-> 0] /\ imports = <<>> /\ answered = {}
    /\ import = [q \in Importers |-> NoTask]
    /\ edited = 1 /\ lost = 0 /\ slipped = FALSE
-----------------------------------------------------------------------------
(* _assert_initial_snapshot_queueable: no ordinary entry waits, failed or   *)
(* branched.                                                                *)
Queueable == edits = {}

(* A record that was staged before still has the body it was staged with.   *)
MappingHolds == \A r \in Tracked : staged[r].state # "none" => staged[r].body = row[r]

LocalManifest == {<<r, row[r]>> : r \in {x \in Tracked : row[x] # 0}}

Staging == {i \in DOMAIN imports : imports[i].status = "staging"}
HeadSet == {<<r, head[r]>> : r \in {x \in Tracked : head[x] # 0}}

(* begin_snapshot_import for the manifest m: the one that is staging, the   *)
(* last that was completed, or a new one while there is no head.            *)
Resumes(m, i) ==
    IF Staging # {} THEN i \in Staging /\ imports[i].manifest = m
    ELSE /\ i \in DOMAIN imports /\ imports[i].manifest = m
         /\ imports[i].status = "completed"
         /\ \A j \in i + 1 .. Len(imports) : imports[j].status # "completed"

OpensAnew(m) ==
    /\ Staging = {} /\ HeadSet = {} /\ Len(imports) < MaxImports
    /\ \A i \in DOMAIN imports : ~Resumes(m, i)
-----------------------------------------------------------------------------
Step(q, t) == import' = [import EXCEPT ![q] = t]
Lose == lost < MaxLost /\ lost' = lost + 1

Start(q, op) ==
    /\ import[q] = NoTask
    /\ Step(q, [NoTask EXCEPT !.op = op, !.at = "manifest"])
    /\ UNCHANGED <<deviceState, cloudState, answered, lost>>

(* build_initial_snapshot_manifest; a completion also looks at its entries. *)
ReadManifest(q) ==
    /\ import[q].at = "manifest" /\ Queueable /\ MappingHolds
    /\ Step(q, [import[q] EXCEPT !.manifest = LocalManifest,
                                 !.at = IF @ = "manifest" /\ import[q].op = "bootstrap"
                                        THEN "local" ELSE "count"])
    /\ UNCHANGED <<deviceState, cloudState, answered, lost>>

(* get_initial_snapshot_completion: as many entries as records, all sent.   *)
(* Mutant: that the entries are there is enough. *)
CountPresent(q) ==
    /\ import[q].at = "count"
    /\ Cardinality({r \in Tracked : staged[r].state # "none"}) = Cardinality(import[q].manifest)
    /\ Step(q, [import[q] EXCEPT !.at = "remote"])
    /\ UNCHANGED <<deviceState, cloudState, answered, lost>>

Count(q) ==
    /\ import[q].at = "count"
    /\ Cardinality({r \in Tracked : staged[r].state # "none"}) = Cardinality(import[q].manifest)
    /\ \A r \in Tracked : staged[r].state \in {"none", "sent"}
    /\ Step(q, [import[q] EXCEPT !.at = "remote"])
    /\ UNCHANGED <<deviceState, cloudState, answered, lost>>

(* begin_initial_snapshot_session: from here on the device's writes are     *)
(* frozen.                                                                  *)
BeginLocal(q) ==
    /\ import[q].at = "local"
    /\ session.state = "active" => session.manifest = import[q].manifest
    /\ session' = [state |-> "active", manifest |-> import[q].manifest]
    /\ Step(q, [import[q] EXCEPT !.at = "remote"])
    /\ UNCHANGED <<row, known, edits, staged, edited, slipped, cloudState, answered, lost>>

(* begin_snapshot_import, and its answer unless it is lost.                 *)
AfterBegin(q, i) ==
    [import[q] EXCEPT !.id = i, !.accepted = Cardinality(imports'[i].items),
                      !.at = IF @ = "remote" /\ import[q].op = "bootstrap"
                             THEN "queue" ELSE "complete"]

BeginRemote(q) ==
    LET m == import[q].manifest
    IN  /\ import[q].at = "remote"
        /\ \E i \in 1 .. MaxImports :
              /\ \/ Resumes(m, i) /\ UNCHANGED imports
                 \/ /\ OpensAnew(m) /\ i = Len(imports) + 1
                    /\ imports' = Append(imports, [manifest |-> m, items |-> {},
                                                   status |-> "staging"])
              /\ \/ Step(q, AfterBegin(q, i)) /\ UNCHANGED lost
                 \/ Lose /\ Step(q, NoTask)
        /\ UNCHANGED <<deviceState, head, answered>>

(* queue_initial_snapshot: what was never staged is, what is in manual      *)
(* state starts again.                                                      *)
Queue(q) ==
    /\ import[q].at = "queue" /\ Queueable
    /\ staged' = [r \in Tracked |->
           IF row[r] # 0 /\ staged[r].state = "none" THEN [body |-> row[r], state |-> "queued"]
           ELSE IF staged[r].state = "manual" THEN [staged[r] EXCEPT !.state = "queued"]
           ELSE staged[r]]
    /\ Step(q, NoTask)
    /\ UNCHANGED <<row, known, edits, session, edited, slipped, cloudState, answered, lost>>

(* It refused: an import that has accepted nothing is given up on both      *)
(* sides, another stays.                                                    *)
QueueRefused(q) ==
    /\ import[q].at = "queue" /\ ~Queueable
    /\ Step(q, IF import[q].accepted = 0 THEN [import[q] EXCEPT !.at = "abort"] ELSE NoTask)
    /\ UNCHANGED <<deviceState, cloudState, answered, lost>>

AbortRemote(q) ==
    LET i == import[q].id
    IN  /\ import[q].at = "abort"
        /\ \/ imports[i].status = "aborted" /\ UNCHANGED imports
           \/ /\ imports[i].status = "staging" /\ imports[i].items = {} /\ HeadSet = {}
              /\ imports' = [imports EXCEPT ![i].status = "aborted"]
        /\ \/ Step(q, [import[q] EXCEPT !.at = "thaw"]) /\ UNCHANGED lost
           \/ Lose /\ Step(q, NoTask)
        /\ UNCHANGED <<deviceState, head, answered>>

AbortLocal(q) ==
    /\ import[q].at = "thaw"
    /\ session' = IF session.state = "active" /\ session.manifest = import[q].manifest
                  THEN [session EXCEPT !.state = "aborted"] ELSE session
    /\ Step(q, NoTask)
    /\ UNCHANGED <<row, known, edits, staged, edited, slipped, cloudState, answered, lost>>

(* complete_snapshot_import: the accepted versions are the announced ones   *)
(* and they are the heads.                                                  *)
Complete(q) ==
    LET i == import[q].id
    IN  /\ import[q].at = "complete"
        /\ \/ imports[i].status = "completed" /\ UNCHANGED imports
           \/ /\ imports[i].status = "staging"
              /\ imports[i].items = imports[i].manifest /\ HeadSet = imports[i].items
              /\ imports' = [imports EXCEPT ![i].status = "completed"]
        /\ \/ Step(q, [import[q] EXCEPT !.at = "finish"]) /\ UNCHANGED lost
           \/ Lose /\ Step(q, NoTask)
        /\ UNCHANGED <<deviceState, head, answered>>

(* complete_initial_snapshot_session. *)
Finish(q) ==
    /\ import[q].at = "finish"
    /\ session' = IF session.state = "active" /\ session.manifest = import[q].manifest
                  THEN [session EXCEPT !.state = "completed"] ELSE session
    /\ Step(q, NoTask)
    /\ UNCHANGED <<row, known, edits, staged, edited, slipped, cloudState, answered, lost>>

(* A refusal, an error or the end of the process. *)
EndRequest(q) ==
    /\ import[q] # NoTask /\ Step(q, NoTask)
    /\ UNCHANGED <<deviceState, cloudState, answered, lost>>
-----------------------------------------------------------------------------
(* _put_record of the user's writes, frozen by an active session.  The base *)
(* of an edit is the staged version while that waits.                       *)
Frozen == session.state = "active"

(* Mutant: nothing is frozen. *)
WriteAnyway(r) ==
    LET b == edited + 1
        base == IF staged[r].state = "queued" THEN staged[r].body ELSE known[r]
    IN  /\ edited < MaxWritten
        /\ row' = [row EXCEPT ![r] = b] /\ known' = [known EXCEPT ![r] = b]
        /\ edits' = edits \cup {[rec |-> r, body |-> b, base |-> base]}
        /\ edited' = b
        /\ slipped' = (slipped \/ \E q \in Importers : import[q].at = "local")
        /\ UNCHANGED <<staged, session, cloudState, answered, import, lost>>

Write(r) ==
    LET b == edited + 1
        base == IF staged[r].state = "queued" THEN staged[r].body ELSE known[r]
    IN  /\ ~Frozen /\ edited < MaxWritten
        /\ row' = [row EXCEPT ![r] = b] /\ known' = [known EXCEPT ![r] = b]
        /\ edits' = edits \cup {[rec |-> r, body |-> b, base |-> base]}
        /\ edited' = b
        /\ slipped' = (slipped \/ \E q \in Importers : import[q].at = "local")
        /\ UNCHANGED <<staged, session, cloudState, answered, import, lost>>

(* A push of an edit, which an import blocks. *)
PushEdit(e) ==
    /\ Staging = {} /\ head[e.rec] = e.base
    /\ head' = [head EXCEPT ![e.rec] = e.body]
    /\ edits' = edits \ {e}
    /\ UNCHANGED <<row, known, staged, session, imports, answered, import, edited, lost,
                   slipped>>

(* A push of a staged version: capture_snapshot_import_item takes it if an  *)
(* import is staging and has room; a recorded one is answered again.        *)
Pushed(r) == \E i \in DOMAIN imports : <<r, staged[r].body>> \in imports[i].items

Accepted(r, i) ==
    /\ head[r] = 0 /\ i \in Staging
    /\ Cardinality(imports[i].items) < Cardinality(imports[i].manifest)

PushSnapshot(r) ==
    /\ staged[r].state = "queued"
    /\ \/ Pushed(r) /\ UNCHANGED cloudState
       \/ /\ ~Pushed(r)
          /\ \E i \in DOMAIN imports :
                /\ Accepted(r, i)
                /\ imports' = [imports EXCEPT ![i].items = @ \cup {<<r, staged[r].body>>}]
          /\ head' = [head EXCEPT ![r] = staged[r].body]
    /\ \/ answered' = answered \cup {r} /\ UNCHANGED lost
       \/ Lose /\ UNCHANGED answered
    /\ UNCHANGED <<deviceState, import>>

(* mark_outbox_sent of a snapshot entry. *)
MarkSent(r) ==
    /\ r \in answered /\ answered' = answered \ {r}
    /\ staged' = [staged EXCEPT ![r].state = "sent"]
    /\ known' = IF row[r] = staged[r].body THEN [known EXCEPT ![r] = staged[r].body] ELSE known
    /\ UNCHANGED <<row, edits, session, cloudState, import, edited, lost, slipped>>

(* mark_outbox_failed, when the retries are used up. *)
GiveUp(r) ==
    /\ staged[r].state = "queued" /\ r \notin answered
    /\ staged' = [staged EXCEPT ![r].state = "manual"]
    /\ UNCHANGED <<row, known, edits, session, cloudState, answered, import, edited, lost,
                   slipped>>

(* Another device of the organization writes, and this one pulls it: a      *)
(* remote write is not frozen.                                              *)
TheyPush(r) ==
    /\ Staging = {} /\ head[r] = 0 /\ edited < MaxWritten
    /\ head' = [head EXCEPT ![r] = edited + 1] /\ edited' = edited + 1
    /\ UNCHANGED <<row, known, edits, staged, session, imports, answered, import, lost, slipped>>

Pull(r) ==
    /\ head[r] # 0 /\ row[r] # head[r]
    /\ row' = [row EXCEPT ![r] = head[r]] /\ known' = [known EXCEPT ![r] = head[r]]
    /\ slipped' = (slipped \/ \E q \in Importers : import[q].at = "local")
    /\ UNCHANGED <<edits, staged, session, cloudState, answered, import, edited, lost>>
-----------------------------------------------------------------------------
Request(q) ==
    \/ \E op \in {"bootstrap", "complete"} : Start(q, op)
    \/ ReadManifest(q) \/ Count(q) \/ BeginLocal(q) \/ BeginRemote(q)
    \/ Queue(q) \/ QueueRefused(q) \/ AbortRemote(q) \/ AbortLocal(q)
    \/ Complete(q) \/ Finish(q) \/ EndRequest(q)

SnapshotNext ==
    \/ \E q \in Importers : Request(q)
    \/ \E r \in Existing \cup New : Write(r) \/ PushSnapshot(r) \/ MarkSent(r) \/ GiveUp(r)
    \/ \E e \in edits : PushEdit(e)
    \/ \E r \in Theirs : TheyPush(r) \/ Pull(r)

SnapshotSpec == SnapshotInit /\ [][SnapshotNext]_snapshotVars
-----------------------------------------------------------------------------
(* A device that takes its import for complete agrees with the cloud, which *)
(* accepted exactly its manifest, and knows of each record a version that   *)
(* its next edit can follow (0011:287-390, repository.py:1935-1972).        *)
ImportFaithful ==
    session.state = "completed" =>
        /\ \E i \in DOMAIN imports :
               /\ imports[i].status = "completed" /\ imports[i].manifest = session.manifest
               /\ imports[i].items = session.manifest
        /\ \A r \in Tracked : row[r] # 0 => known[r] # Elsewhere

(* A device that is frozen can go on: its records are still those of its    *)
(* session, and the cloud resumes or opens an import of just these.  As     *)
(* long as nothing but imports was written to the cloud and no write came   *)
(* between a manifest and its session (api.py:1836-1941).                   *)
Thawable ==
    /\ LocalManifest = session.manifest /\ MappingHolds /\ Queueable
    /\ \/ \E i \in DOMAIN imports : Resumes(session.manifest, i)
       \/ Staging = {} /\ HeadSet = {}

OnlyImported == HeadSet \subseteq UNION {imports[i].items : i \in DOMAIN imports}

FrozenCanResume == (Frozen /\ ~slipped /\ OnlyImported) => Thawable

(* "Make a first ciphertext snapshot resumable" (0011:1): while the cloud   *)
(* stages an import and no request is under way, the device can go on.      *)
StagingCanResume ==
    (Frozen /\ Staging # {} /\ \A q \in Importers : import[q] = NoTask) => Thawable
=============================================================================
