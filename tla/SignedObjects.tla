--------------------------- MODULE SignedObjects ---------------------------
(***************************************************************************)
(* The encrypted objects of one publishable record in the cloud: their     *)
(* metadata in encrypted_objects, their ciphertext in the object storage, the  *)
(* workflow that signs the record together with them, and the tickets by   *)
(* which an administrator deletes one (migrations 0008, 0012 and 0013).    *)
(*                                                                         *)
(* Every function that changes a workflow or a ticket holds the            *)
(* organization's row, and pushes and new objects hold it shared, so each  *)
(* is one action.  Two things are not: an upload writes its ciphertext     *)
(* after the policy let it in, and a storage delete is a transaction that  *)
(* spans the external delete and holds nothing but its ticket.  Until it   *)
(* commits, the others see the ticket and the ciphertext as they were.     *)
(*                                                                         *)
(* Content hashes and manifest hashes are abstracted by what they are the  *)
(* hashes of, the version and the set of objects; drafts count as editing; *)
(* callers have the role an editor or an approver needs.                   *)
(***************************************************************************)
EXTENDS Integers, Sequences, FiniteSets

CONSTANTS Objects,       \* object identifiers, each with its path and hash
          Admins,        \* owners and administrators
          MaxRecordVersions,  \* bound on the versions of the record
          MaxUploads,    \* bound on the uploads of one object at once
          MaxTickets     \* bound on the tickets issued

ASSUME ObjectsAssumption ==
  /\ MaxRecordVersions \in Nat /\ MaxUploads \in Nat /\ MaxTickets \in Nat

VARIABLES headVersion, newest, openConflicts,     \* record_heads, record_versions, conflicts
          flow, bound, manifest,       \* workflow_states
          publications,                \* signed_publication_versions and _objects
          versionOf, metadata, stored, \* encrypted_objects, ever and now; storage.objects
          uploading,                   \* how many uploads of an object were let in
          about, by, status,           \* encrypted_object_delete_requests
          rowGone, expired, unconfirmed,
          deleting,                    \* tickets a storage delete holds
          admins                       \* the administrators that still are

recordVars == <<headVersion, newest, openConflicts>>
flowVars   == <<flow, bound, manifest, publications>>
fileVars   == <<versionOf, metadata, stored, uploading>>
ticketVars == <<about, by, status, rowGone, expired, unconfirmed, deleting>>
objectVars == <<recordVars, flowVars, fileVars, ticketVars, admins>>

RecordVersions == 1..MaxRecordVersions       \* 0 is no version
Tickets  == 1..MaxTickets        \* in the order of created_at
Issued   == 1..Len(about)
Active   == {"requested", "storage_deleted", "orphaned"}

ObjectsTypeOK ==
  /\ headVersion \in 0..MaxRecordVersions /\ newest \in 0..MaxRecordVersions
  /\ openConflicts \subseteq RecordVersions
  /\ flow \in {"none", "editing", "pending_approval", "signed", "recalled"}
  /\ bound \in 0..MaxRecordVersions /\ manifest \subseteq Objects
  /\ publications \subseteq [version : RecordVersions, objects : SUBSET Objects]
  /\ versionOf \in [Objects -> 0..MaxRecordVersions] /\ metadata \subseteq Objects
  /\ stored \subseteq Objects /\ uploading \in [Objects -> 0..MaxUploads]
  /\ about \in Seq(Objects) /\ by \in Seq(Admins) /\ Len(about) = Len(by)
  /\ deleting \subseteq Issued /\ admins \subseteq Admins
  /\ status \in [Tickets -> Active \cup {"none", "completed", "cancelled"}]
  /\ rowGone \in [Tickets -> BOOLEAN] /\ expired \in [Tickets -> BOOLEAN]
  /\ unconfirmed \in [Tickets -> BOOLEAN]

ObjectsInit ==
  /\ headVersion = 0 /\ newest = 0 /\ openConflicts = {}
  /\ flow = "none" /\ bound = 0 /\ manifest = {} /\ publications = {}
  /\ versionOf = [o \in Objects |-> 0] /\ metadata = {} /\ stored = {}
  /\ uploading = [o \in Objects |-> 0]
  /\ about = <<>> /\ by = <<>> /\ deleting = {} /\ admins = Admins
  /\ status = [t \in Tickets |-> "none"]
  /\ rowGone = [t \in Tickets |-> FALSE]
  /\ expired = [t \in Tickets |-> FALSE]
  /\ unconfirmed = [t \in Tickets |-> FALSE]

-----------------------------------------------------------------------------
(* The record's versions.  A signed record takes no version at all.        *)

PushHead ==
  /\ flow # "signed" /\ newest < MaxRecordVersions
  /\ newest' = newest + 1 /\ headVersion' = newest'
  /\ UNCHANGED <<openConflicts, flowVars, fileVars, ticketVars, admins>>

PushBranch ==
  /\ flow # "signed" /\ headVersion # 0 /\ newest < MaxRecordVersions
  /\ newest' = newest + 1 /\ openConflicts' = openConflicts \cup {newest'}
  /\ UNCHANGED <<headVersion, flowVars, fileVars, ticketVars, admins>>

ResolveConflict(c) ==
  /\ flow # "signed" /\ newest < MaxRecordVersions
  /\ newest' = newest + 1 /\ headVersion' = newest' /\ openConflicts' = openConflicts \ {c}
  /\ UNCHANGED <<flowVars, fileVars, ticketVars, admins>>

-----------------------------------------------------------------------------
(* The workflow.                                                           *)

Protected(v) == flow \in {"pending_approval", "signed", "recalled"} /\ bound = v

SignedObject(o) == \E p \in publications : o \in p.objects
SignedVersion(v) == \E p \in publications : p.version = v

ObjectsOf(v) == {o \in metadata : versionOf[o] = v}

\* Mutant: the manifest is compared with the storage, the tickets are not.
ManifestStored(v) == ObjectsOf(v) \subseteq stored

\* physical_count = object_count, and no deletion of the version's objects.
ManifestComplete(v) ==
  /\ ObjectsOf(v) \subseteq stored
  /\ ~\E t \in Issued : versionOf[about[t]] = v /\ status[t] \in Active

\* The first state, and editing on from every state that allows it.
ReturnToEditing ==
  /\ headVersion # 0 /\ flow # "signed"
  /\ flow' = "editing" /\ bound' = 0 /\ manifest' = {}
  /\ UNCHANGED <<recordVars, publications, fileVars, ticketVars, admins>>

SubmitForApproval ==
  /\ flow = "editing" /\ ManifestComplete(headVersion)
  /\ flow' = "pending_approval" /\ bound' = headVersion /\ manifest' = ObjectsOf(headVersion)
  /\ UNCHANGED <<recordVars, publications, fileVars, ticketVars, admins>>

Sign ==
  /\ flow = "pending_approval" /\ ManifestComplete(headVersion)
  /\ bound = headVersion /\ manifest = ObjectsOf(headVersion) /\ openConflicts = {}
  /\ flow' = "signed"
  /\ publications' = publications \cup {[version |-> bound, objects |-> ObjectsOf(bound)]}
  /\ UNCHANGED <<recordVars, bound, manifest, fileVars, ticketVars, admins>>

Recall ==
  /\ flow = "signed"
  /\ flow' = "recalled"
  /\ UNCHANGED <<recordVars, bound, manifest, publications, fileVars, ticketVars, admins>>

-----------------------------------------------------------------------------
(* Objects and their uploads.                                              *)

\* A ticket that has touched its object: its identifiers are used up.
Spent(t, o) == about[t] = o /\ (status[t] # "cancelled" \/ rowGone[t])

Addable(v) == ~Protected(v) /\ ~SignedVersion(v)

AddObject(o, v) ==
  /\ o \notin metadata /\ v <= newest /\ Addable(v)
  /\ ~\E t \in Issued : Spent(t, o)
  /\ metadata' = metadata \cup {o} /\ versionOf' = [versionOf EXCEPT ![o] = v]
  /\ UNCHANGED <<recordVars, flowVars, stored, uploading, ticketVars, admins>>

BeginUpload(o) ==
  /\ o \in metadata \ stored /\ uploading[o] < MaxUploads
  /\ ~Protected(versionOf[o]) /\ ~SignedObject(o)
  /\ ~\E t \in Issued : Spent(t, o)
  /\ uploading' = [uploading EXCEPT ![o] = @ + 1]
  /\ UNCHANGED <<recordVars, flowVars, versionOf, metadata, stored, ticketVars, admins>>

EndUpload(o) ==
  /\ uploading[o] > 0
  /\ uploading' = [uploading EXCEPT ![o] = @ - 1]
  /\ stored' \in {stored, stored \cup {o}}
  /\ UNCHANGED <<recordVars, flowVars, versionOf, metadata, ticketVars, admins>>

\* What the policy for downloads lets a member read.
Downloadable(o) ==
  /\ o \in stored \cap metadata
  /\ ~\E t \in Issued :
        about[t] = o /\ (status[t] \in {"storage_deleted", "orphaned", "completed"} \/ rowGone[t])

-----------------------------------------------------------------------------
(* Deletion: a ticket, the storage delete, and the end of the row.          *)

\* Another administrator's ticket that still counts.
HeldByOther(t, a) == by[t] # a /\ ~expired[t] /\ by[t] \in admins

\* A ticket that was only requested gives way to the new one.
BeginDelete(a, o) ==
  /\ a \in admins /\ o \in metadata \cap stored /\ Len(about) < MaxTickets
  /\ ~Protected(versionOf[o]) /\ ~SignedObject(o)
  /\ LET old == {t \in Issued : about[t] = o /\ status[t] \in Active} IN
       /\ \A t \in old : t \notin deleting /\ status[t] = "requested" /\ ~HeldByOther(t, a)
       /\ status' = [t \in Tickets |-> IF t \in old THEN "cancelled"
                                       ELSE IF t = Len(about) + 1 THEN "requested" ELSE status[t]]
       /\ about' = Append(about, o) /\ by' = Append(by, a)
  /\ UNCHANGED <<recordVars, flowVars, fileVars, rowGone, expired, unconfirmed, deleting, admins>>

CancelDelete(a, t) ==
  /\ a \in admins /\ t \notin deleting /\ status[t] = "requested"
  /\ status' = [status EXCEPT ![t] = "cancelled"]
  /\ UNCHANGED <<recordVars, flowVars, fileVars, about, by, rowGone, expired,
                 unconfirmed, deleting, admins>>

\* The policy reads the newest ticket of the path that was not cancelled.
Newest(t) == \A u \in (t + 1)..Len(about) : about[u] = about[t] => status[u] = "cancelled"

\* Mutant: a completed ticket is over, whatever was uploaded since.
DeletableUntilDone(t) ==
  /\ Newest(t) /\ ~SignedObject(about[t])
  /\ \/ status[t] = "requested" /\ ~expired[t] /\ flow # "none"
        /\ about[t] \in metadata /\ ~Protected(versionOf[about[t]])
     \/ status[t] = "orphaned" /\ about[t] \notin metadata

\* can_delete_encrypted_storage_object, for an administrator.  A ticket that
\* is storage_deleted admits only the transaction that made it so.
Deletable(t) ==
  /\ Newest(t) /\ ~SignedObject(about[t])
  /\ \/ status[t] = "requested" /\ ~expired[t] /\ flow # "none"
        /\ about[t] \in metadata /\ ~Protected(versionOf[about[t]])
     \/ status[t] \in {"orphaned", "completed"} /\ about[t] \notin metadata

\* can_select_encrypted_storage_delete: a delete reads the row before.
Selectable(o) ==
  \E t \in Issued : /\ about[t] = o /\ status[t] # "cancelled"
                    /\ status[t] = "requested" => ~expired[t]

OpenStorageDelete(a, t) ==
  /\ a \in admins /\ t \in Issued \ deleting
  /\ about[t] \in stored /\ Selectable(about[t]) /\ Deletable(t)
  /\ deleting' = deleting \cup {t}
  /\ UNCHANGED <<recordVars, flowVars, fileVars, about, by, status, rowGone, expired,
                 unconfirmed, admins>>

CommitStorageDelete(t) ==
  /\ t \in deleting
  /\ deleting' = deleting \ {t}
  /\ stored' = stored \ {about[t]}
  /\ status' = [status EXCEPT ![t] = IF @ = "completed" THEN @ ELSE "storage_deleted"]
  /\ unconfirmed' = [unconfirmed EXCEPT ![t] = TRUE]
  /\ UNCHANGED <<recordVars, flowVars, versionOf, metadata, uploading, about, by, rowGone, expired,
                 admins>>

FailStorageDelete(t) ==
  /\ t \in deleting
  /\ deleting' = deleting \ {t}
  /\ UNCHANGED <<recordVars, flowVars, fileVars, about, by, status, rowGone, expired,
                 unconfirmed, admins>>

\* finalize_encrypted_object_delete: the row goes; a ciphertext that is there
\* again leaves the ticket orphaned, or completed if it was.  A ticket whose
\* storage delete has not committed is refused.
Finalizable(t) ==
  /\ status[t] \in Active \cup {"completed"}
  /\ status[t] = "requested" => about[t] \notin stored
  /\ status[t] # "completed" => flow # "none"
  /\ about[t] \in metadata => ~Protected(versionOf[about[t]]) /\ ~SignedObject(about[t])

FinalizeDelete(a, t) ==
  LET there == about[t] \in stored IN
  /\ a \in admins /\ t \in Issued \ deleting /\ Finalizable(t)
  /\ metadata' = metadata \ {about[t]}
  /\ rowGone' = [rowGone EXCEPT ![t] = TRUE]
  /\ status' = [status EXCEPT ![t] = IF @ = "completed" \/ ~there THEN "completed"
                                     ELSE "orphaned"]
  /\ unconfirmed' = [unconfirmed EXCEPT ![t] = @ /\ there]
  /\ UNCHANGED <<recordVars, flowVars, versionOf, stored, uploading, about, by, expired, deleting,
                 admins>>

TicketExpires(t) ==
  /\ status[t] = "requested" /\ ~expired[t]
  /\ expired' = [expired EXCEPT ![t] = TRUE]
  /\ UNCHANGED <<recordVars, flowVars, fileVars, about, by, status, rowGone,
                 unconfirmed, deleting, admins>>

\* A membership ends or changes its role.
LoseAdmin(a) ==
  /\ a \in admins /\ admins # {a}
  /\ admins' = admins \ {a}
  /\ UNCHANGED <<recordVars, flowVars, fileVars, ticketVars>>

\* What list_pending_encrypted_object_deletes shows an administrator.
Listed(t) == \/ status[t] \in Active
             \/ status[t] = "completed" /\ (about[t] \in stored \/ unconfirmed[t])

ObjectsNext ==
  \/ PushHead \/ PushBranch \/ \E c \in openConflicts : ResolveConflict(c)
  \/ ReturnToEditing \/ SubmitForApproval \/ Sign \/ Recall
  \/ \E o \in Objects : BeginUpload(o) \/ EndUpload(o)
  \/ \E o \in Objects, v \in RecordVersions : AddObject(o, v)
  \/ \E a \in Admins, o \in Objects : BeginDelete(a, o)
  \/ \E a \in Admins, t \in Issued :
        CancelDelete(a, t) \/ OpenStorageDelete(a, t) \/ FinalizeDelete(a, t)
  \/ \E t \in Issued : CommitStorageDelete(t) \/ FailStorageDelete(t) \/ TicketExpires(t)
  \/ \E a \in Admins : LoseAdmin(a)

ObjectsSpec == ObjectsInit /\ [][ObjectsNext]_objectVars

-----------------------------------------------------------------------------
(* What was signed stays whole: every object of a signed version can still  *)
(* be downloaded, whatever tickets, storage deletes and late uploads were   *)
(* under way when it was submitted, and a version that is signed again is   *)
(* signed with the same objects (0013, capture_signed_publication and the   *)
(* three guards it relies on).                                              *)
SignedObjectsKept ==
  /\ \A p \in publications : \A o \in p.objects : Downloadable(o)
  /\ \A p, q \in publications : p.version = q.version => p.objects = q.objects

(* A ciphertext that an upload left behind after its object was deleted is  *)
(* never out of reach: a ticket lists it for the administrators, and lets   *)
(* one of them delete it again, at once or after a finalize.                *)
StrayIsHeld ==
  \A o \in stored \ metadata :
    \E t \in Issued :
      /\ about[t] = o /\ rowGone[t] /\ Listed(t)
      /\ Deletable(t) \/ status[t] = "storage_deleted"

=============================================================================
