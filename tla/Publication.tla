---------------------------- MODULE Publication ----------------------------
(***************************************************************************)
(* Documents and the publication board of one device: an item is created   *)
(* from a document, moved between the columns of the board, signed and     *)
(* recalled.  Signing freezes the document into the item.                  *)
(*                                                                         *)
(* Requests run on the threads of the local server.  Reads and writes of   *)
(* one request are separate transactions of the local database, and a      *)
(* document is read twice, once for its content and once for its hash.     *)
(* Only sign and recall take the service's workflow lock, and only they    *)
(* write with the version they expect compared inside the transaction;     *)
(* a move or an edit compares it in an earlier read.                       *)
(*                                                                         *)
(* Abstracted: a body stands for the whole content of a document and for   *)
(* its hash, and is fresh for every edit (the content carries its time).   *)
(* Ready is what validate_document accepts.  Position, title, source index *)
(* and the version shown on the board are left out, and so are callers     *)
(* without the permission, who change nothing.                             *)
(***************************************************************************)
EXTENDS Naturals

CONSTANTS Items,       \* record identifiers of publication items
          Documents,   \* record identifiers of documents
          Bodies,      \* contents of documents
          Ready,       \* the contents validate_document calls ready
          Threads,     \* requests served at once
          MaxVersion,  \* bound on the versions of a record
          MaxRequests, \* bound on the requests that are served
          None

ASSUME BodiesAssumption == Ready \subseteq Bodies /\ None \notin Bodies
ASSUME RecordsAssumption == None \notin Items \cup Documents
ASSUME BoundsAssumption == MaxVersion \in Nat /\ MaxRequests \in Nat

Movable == {"evidence_needed", "editing", "pending_approval"}
Frozen == {"signed", "recalled"}
Kinds == {"none", "create", "move", "sign", "recall", "edit"}

\* What signing freezes: the content, and a receipt that names the document,
\* its version and its hash.
Snapshots == [document : Documents, version : 1..MaxVersion, body : Bodies,
              hash : Bodies]

Contents == [document : Documents, status : Movable \cup Frozen,
             snapshot : Snapshots \cup {None}]

VARIABLES documents,  \* encrypted_records of type document
          items,      \* encrypted_records of type publication_item
          drafts,     \* sync_outbox entries of documents
          outbox,     \* sync_outbox entries of publication items
          audit,      \* encrypted_records of type audit_event
          conflicts,  \* records with a conflict of kind stale_write
          pc,         \* the step each thread is at
          task,       \* the request of each thread and what it has read
          served      \* requests begun so far

tables == <<documents, items, drafts, outbox, audit, conflicts>>
vars == <<documents, items, drafts, outbox, audit, conflicts, pc, task, served>>

Steps == {"idle", "document", "hash", "prepare", "put", "audit"}

\* A row of documents, and a row of items, that may not be there.
DocumentRows == [version : 0..MaxVersion, body : Bodies \cup {None}]
ItemRows == [version : 0..MaxVersion, content : Contents \cup {None}]

NoDocument == [version |-> 0, body |-> None]

\* expected is the version the client saw, content what the item will hold
\* (before signing adds to it), draft and hash the two reads of the document.
Tasks == [kind : Kinds, item : Items \cup {None},
          document : Documents \cup {None}, expected : 0..MaxVersion,
          content : Contents \cup {None}, draft : DocumentRows,
          hash : Bodies \cup {None}]

Request(kind, i, d, n, c) ==
  [kind |-> kind, item |-> i, document |-> d, expected |-> n, content |-> c,
   draft |-> NoDocument, hash |-> None]

Idle == Request("none", None, None, 0, None)

TypeOK ==
  /\ documents \in [Documents -> DocumentRows]
  /\ items \in [Items -> ItemRows]
  /\ drafts \subseteq [document : Documents, version : 1..MaxVersion,
                       body : Bodies]
  /\ outbox \subseteq [item : Items, version : 1..MaxVersion,
                       content : Contents]
  /\ audit \subseteq [action : {"created", "moved", "signed", "recalled"},
                      item : Items, receipt : Snapshots \cup {None}]
  /\ conflicts \subseteq Items \cup Documents
  /\ pc \in [Threads -> Steps]
  /\ task \in [Threads -> Tasks]
  /\ served \in 0..MaxRequests

Init ==
  /\ documents = [d \in Documents |-> NoDocument]
  /\ items = [i \in Items |-> [version |-> 0, content |-> None]]
  /\ drafts = {}
  /\ outbox = {}
  /\ audit = {}
  /\ conflicts = {}
  /\ pc = [t \in Threads |-> "idle"]
  /\ task = [t \in Threads |-> Idle]
  /\ served = 0

-----------------------------------------------------------------------------
(* Shared by the requests.                                                 *)

\* A thread takes up a request, goes on with it, and is done with it.
Take(t, at, request) ==
  /\ pc[t] = "idle"
  /\ served < MaxRequests
  /\ served' = served + 1
  /\ pc' = [pc EXCEPT ![t] = at]
  /\ task' = [task EXCEPT ![t] = request]

GoTo(t, at) == pc' = [pc EXCEPT ![t] = at] /\ UNCHANGED <<task, served>>

Leave(t) ==
  /\ pc' = [pc EXCEPT ![t] = "idle"]
  /\ task' = [task EXCEPT ![t] = Idle]
  /\ UNCHANGED served

WithStatus(c, s) == [c EXCEPT !.status = s]

WorkflowLockFree == \A t \in Threads : task[t].kind \notin {"sign", "recall"}

Fresh(b) == \A e \in drafts : e.body # b

\* put_record on a document: the row and its outbox entry.  What the row
\* holds is not looked at.
PutDraft(d, n, b) ==
  /\ documents' = [documents EXCEPT ![d] = [version |-> n, body |-> b]]
  /\ drafts' = drafts \cup {[document |-> d, version |-> n, body |-> b]}

\* put_record on an item.
PutItem(i, n, c) ==
  /\ items' = [items EXCEPT ![i] = [version |-> n, content |-> c]]
  /\ outbox' = outbox \cup {[item |-> i, version |-> n, content |-> c]}

\* The record an expected version is about.
Target(t) == IF task[t].kind = "edit" THEN task[t].document ELSE task[t].item

CurrentVersion(t) ==
  IF task[t].kind = "edit" THEN documents[task[t].document].version
                           ELSE items[task[t].item].version

-----------------------------------------------------------------------------
(* Documents.                                                              *)

CreateDocument(d, b) ==
  /\ documents[d].version = 0 /\ MaxVersion > 0
  /\ Fresh(b)
  /\ PutDraft(d, 1, b)
  /\ UNCHANGED <<items, outbox, audit, conflicts, pc, task, served>>

BeginEdit(t, d, n) ==
  /\ n \in 1..documents[d].version /\ n < MaxVersion
  /\ Take(t, "prepare", Request("edit", None, d, n, None))
  /\ UNCHANGED tables

FinishEdit(t, b) ==
  /\ task[t].kind = "edit" /\ pc[t] = "put"
  /\ Fresh(b)
  /\ PutDraft(task[t].document, task[t].expected + 1, b)
  /\ Leave(t)
  /\ UNCHANGED <<items, outbox, audit, conflicts>>

-----------------------------------------------------------------------------
(* Reading: the first read of each request on the board, then the document *)
(* content, then its hash, then the checks on what was read.               *)

BeginCreate(t, d) ==
  /\ documents[d].version > 0
  /\ Take(t, "document", Request("create", None, d, 0, None))
  /\ UNCHANGED tables

BeginMove(t, i, n, s) ==
  /\ n \in 1..items[i].version /\ n < MaxVersion
  /\ items[i].content.status \in Movable
  /\ Take(t, "document", Request("move", i, items[i].content.document, n,
                                 WithStatus(items[i].content, s)))
  /\ UNCHANGED tables

BeginSign(t, i, n) ==
  /\ WorkflowLockFree
  /\ n \in 1..items[i].version /\ n < MaxVersion
  /\ Take(t, "document", Request("sign", i, items[i].content.document, n,
                                 items[i].content))
  /\ UNCHANGED tables

RecallRefused(i) == items[i].content.status # "signed"

BeginRecall(t, i, n) ==
  /\ WorkflowLockFree
  /\ n \in 1..items[i].version /\ n < MaxVersion
  /\ ~RecallRefused(i)
  /\ Take(t, "prepare", Request("recall", i, items[i].content.document, n,
                                WithStatus(items[i].content, "recalled")))
  /\ UNCHANGED tables

ReadDocument(t) ==
  /\ pc[t] = "document"
  /\ pc' = [pc EXCEPT ![t] = "hash"]
  /\ task' = [task EXCEPT ![t].draft = documents[task[t].document]]
  /\ UNCHANGED <<tables, served>>

\* Mutation of Passes: signing trusts the check made when the item was moved.
PassesOnMove(k) ==
  /\ k.kind = "sign" => k.content.status = "pending_approval"
  /\ k.kind = "move" /\ k.content.status = "pending_approval"
       => k.draft.body \in Ready

\* The checks between the reads and the preparation of the new version.
Passes(k) ==
  /\ k.kind = "sign" => k.content.status = "pending_approval"
  /\ k.kind \in {"move", "sign"} /\ k.content.status = "pending_approval"
       => k.draft.body \in Ready

ReadHash(t) ==
  /\ pc[t] = "hash"
  /\ Passes(task[t])
  /\ pc' = [pc EXCEPT ![t] = IF task[t].kind = "create" THEN "put"
                                                         ELSE "prepare"]
  /\ task' = [task EXCEPT ![t].hash = documents[task[t].document].body]
  /\ UNCHANGED <<tables, served>>

\* _prepare_record_update: the current row is read again and compared with
\* the version the client expects; a stale write is kept as a conflict.
Prepare(t) ==
  /\ pc[t] = "prepare"
  /\ CurrentVersion(t) = task[t].expected
  /\ GoTo(t, "put")
  /\ UNCHANGED tables

RefuseStale(t) ==
  /\ pc[t] = "prepare"
  /\ CurrentVersion(t) # task[t].expected
  /\ conflicts' = conflicts \cup {Target(t)}
  /\ Leave(t)
  /\ UNCHANGED <<documents, items, drafts, outbox, audit>>

-----------------------------------------------------------------------------
(* Writing.                                                                *)

\* A new item has a random identifier.
PutCreated(t, i) ==
  /\ task[t].kind = "create" /\ pc[t] = "put"
  /\ items[i].version = 0 /\ MaxVersion > 0
  /\ PutItem(i, 1, [document |-> task[t].document,
                    status |-> IF task[t].draft.body \in Ready
                                 THEN "editing" ELSE "evidence_needed",
                    snapshot |-> None])
  /\ pc' = [pc EXCEPT ![t] = "audit"]
  /\ task' = [task EXCEPT ![t].item = i]
  /\ UNCHANGED <<documents, drafts, audit, conflicts, served>>

PutMoved(t) ==
  /\ task[t].kind = "move" /\ pc[t] = "put"
  /\ PutItem(task[t].item, task[t].expected + 1, task[t].content)
  /\ GoTo(t, "audit")
  /\ UNCHANGED <<documents, drafts, audit, conflicts>>

\* The audit event of a creation or a move is a transaction of its own.
RecordAudit(t) ==
  /\ pc[t] = "audit"
  /\ audit' = audit \cup
       {[action |-> IF task[t].kind = "create" THEN "created" ELSE "moved",
         item |-> task[t].item, receipt |-> None]}
  /\ Leave(t)
  /\ UNCHANGED <<documents, items, drafts, outbox, conflicts>>

\* put_records_atomically: nothing is written unless the row still has the
\* version the client expects; the audit event is in the same transaction.
CommitTransition(t, content, action, receipt) ==
  /\ pc[t] = "put"
  /\ items[task[t].item].version = task[t].expected
  /\ PutItem(task[t].item, task[t].expected + 1, content)
  /\ audit' = audit \cup
       {[action |-> action, item |-> task[t].item, receipt |-> receipt]}
  /\ Leave(t)
  /\ UNCHANGED <<documents, drafts, conflicts>>

SnapshotOf(k) == [document |-> k.document, version |-> k.draft.version,
                  body |-> k.draft.body, hash |-> k.hash]

SignedContent(k) == [document |-> k.content.document, status |-> "signed",
                     snapshot |-> SnapshotOf(k)]

\* Mutation of CommitSign: the audit event is left to a transaction of its own.
CommitSignAlone(t) ==
  /\ task[t].kind = "sign" /\ pc[t] = "put"
  /\ items[task[t].item].version = task[t].expected
  /\ PutItem(task[t].item, task[t].expected + 1, SignedContent(task[t]))
  /\ GoTo(t, "audit")
  /\ UNCHANGED <<documents, drafts, audit, conflicts>>

CommitSign(t) ==
  /\ task[t].kind = "sign"
  /\ CommitTransition(t, SignedContent(task[t]), "signed",
                      SnapshotOf(task[t]))

CommitRecall(t) ==
  /\ task[t].kind = "recall"
  /\ CommitTransition(t, task[t].content, "recalled", None)

\* An error ends a request at any step and releases the lock: a check that
\* fails, a put the repository refuses (a frozen or blocked record, a version
\* that has moved on).  A crash of the program ends them all.
Fail(t) ==
  /\ pc[t] # "idle"
  /\ Leave(t)
  /\ UNCHANGED tables

-----------------------------------------------------------------------------
Begin(t) ==
  \/ \E d \in Documents : BeginCreate(t, d)
  \/ \E d \in Documents, n \in 1..MaxVersion : BeginEdit(t, d, n)
  \/ \E i \in Items, n \in 1..MaxVersion :
       \/ \E s \in Movable : BeginMove(t, i, n, s)
       \/ BeginSign(t, i, n)
       \/ BeginRecall(t, i, n)

Step(t) ==
  \/ ReadDocument(t)
  \/ ReadHash(t)
  \/ Prepare(t)
  \/ RefuseStale(t)
  \/ \E b \in Bodies : FinishEdit(t, b)
  \/ \E i \in Items : PutCreated(t, i)
  \/ PutMoved(t)
  \/ RecordAudit(t)
  \/ CommitSign(t)
  \/ CommitRecall(t)

Next ==
  \/ \E d \in Documents, b \in Bodies : CreateDocument(d, b)
  \/ \E t \in Threads : Begin(t) \/ Step(t) \/ Fail(t)

Spec == Init /\ [][Next]_vars

-----------------------------------------------------------------------------
(* Properties.                                                             *)

\* A signature or a recall and its audit event are stored together, whatever
\* fails or runs beside them: no signed or recalled item without its event,
\* and no event without the item version it tells of.
AuditComplete ==
  /\ \A e \in outbox : e.content.status \in Frozen =>
       \E a \in audit : a.action = e.content.status /\ a.item = e.item
                          /\ (a.action = "signed"
                                => a.receipt = e.content.snapshot)
  /\ \A a \in audit : a.action \in Frozen =>
       \E e \in outbox : e.item = a.item /\ e.content.status = a.action
                           /\ (a.action = "signed"
                                 => e.content.snapshot = a.receipt)

\* What was signed had been checked: the frozen content is ready, and is the
\* version of the document that the receipt names, although the document can
\* be edited after it was sent for approval and while it is being signed.
SnapshotsReady ==
  \A e \in outbox : e.content.snapshot # None =>
    LET s == e.content.snapshot IN
      /\ s.body \in Ready
      /\ [document |-> s.document, version |-> s.version, body |-> s.body]
           \in drafts

\* A recall keeps the snapshot of a signature of the same item.
RecallKeepsSnapshot ==
  \A e \in outbox : e.content.status = "recalled" =>
    \E f \in outbox : f.item = e.item /\ f.content.status = "signed"
                        /\ f.content.snapshot = e.content.snapshot

\* A signed or recalled item keeps its snapshot from then on.
SnapshotIsFinal ==
  [][\A i \in Items :
       items[i].version > 0 /\ items[i].content.status \in Frozen
         => items'[i].content.snapshot = items[i].content.snapshot]_vars

\* The hash in a receipt is the hash of the content it was signed with.
ReceiptMatches ==
  \A e \in outbox : e.content.snapshot # None =>
    e.content.snapshot.hash = e.content.snapshot.body

=============================================================================
