------------------------- MODULE PublicationProofs -------------------------
(***************************************************************************)
(* Proofs about Publication, for any items, documents, bodies and number   *)
(* of requests served at once.                                             *)
(*                                                                         *)
(* None of the properties is inductive alone: what a signature freezes and *)
(* what a recall keeps was read several steps before it is written, and    *)
(* other requests write in between.  TaskSound says what stays true of the *)
(* values a request has read: they are entries of the outbox, which only   *)
(* grows.                                                                  *)
(***************************************************************************)
EXTENDS Publication, TLAPS

\* A document of which the outbox holds a version.
Written(d) == \E e \in drafts : e.document = d

\* What a request holds once it has read the document.
DraftRead(k) ==
  [document |-> k.document, version |-> k.draft.version, body |-> k.draft.body]
    \in drafts

\* What a request knows at a step of its own.
TaskSound(k, at) ==
  \/ /\ k = Idle /\ at = "idle"
  \/ /\ k.kind = "edit" /\ at \in {"prepare", "put"}
     /\ k.document \in Documents /\ k.expected < MaxVersion
  \/ /\ k.kind = "create" /\ at \in {"document", "hash", "put", "audit"}
     /\ k.document \in Documents /\ Written(k.document)
     /\ at # "document" => DraftRead(k)
     /\ at = "audit" => k.item \in Items
  \/ /\ k.kind \in {"move", "sign"} /\ at # "idle"
     /\ k.document \in Documents /\ Written(k.document)
     /\ k.item \in Items /\ k.expected < MaxVersion
     /\ k.content \in Contents /\ k.content.document = k.document
     /\ k.kind = "move" => /\ k.content.status \in Movable
                           /\ k.content.snapshot = None
     /\ at # "document" => DraftRead(k)
     /\ k.kind = "sign" =>
          /\ at # "audit"
          /\ at \notin {"document", "hash"} =>
               k.draft.body \in Ready /\ k.hash \in Bodies
  \/ /\ k.kind = "recall" /\ at \in {"prepare", "put"}
     /\ k.item \in Items /\ k.expected < MaxVersion
     /\ k.content \in Contents /\ k.content.status = "recalled"
     /\ Written(k.content.document)
     /\ \E f \in outbox : f.item = k.item /\ f.content.status = "signed"
                            /\ f.content.snapshot = k.content.snapshot

TasksSound == \A t \in Threads : TaskSound(task[t], pc[t])

\* Every row is one of its outbox entries.
RowsLogged ==
  /\ \A d \in Documents : documents[d].version > 0 =>
       [document |-> d, version |-> documents[d].version,
        body |-> documents[d].body] \in drafts
  /\ \A e \in drafts : documents[e.document].version > 0
  /\ \A i \in Items : items[i].version > 0 =>
       [item |-> i, version |-> items[i].version,
        content |-> items[i].content] \in outbox
  /\ \A e \in outbox : Written(e.content.document)

\* Only a signed or recalled item has a snapshot.
UnsignedBare ==
  \A e \in outbox : e.content.status \in Movable => e.content.snapshot = None

BoardInv ==
  /\ TypeOK
  /\ TasksSound
  /\ RowsLogged
  /\ UnsignedBare
  /\ AuditComplete
  /\ SnapshotsReady
  /\ RecallKeepsSnapshot

-----------------------------------------------------------------------------
\* The state with no request is a state of a thread.
LEMMA IdleIsTask == Idle \in Tasks /\ TaskSound(Idle, "idle")
  BY BoundsAssumption
     DEF Idle, Request, Tasks, Kinds, DocumentRows, NoDocument, TaskSound

\* The initial state satisfies the invariant.
LEMMA InitInv == Init => BoardInv
<1> SUFFICES ASSUME Init PROVE BoardInv
  OBVIOUS
<1>1. TypeOK
  BY IdleIsTask, BoundsAssumption
     DEF Init, TypeOK, DocumentRows, ItemRows, NoDocument, Steps
<1>2. TasksSound
  BY IdleIsTask DEF Init, TasksSound
<1>3. RowsLogged /\ UnsignedBare
  BY DEF Init, RowsLogged, UnsignedBare, NoDocument
<1>4. AuditComplete /\ SnapshotsReady /\ RecallKeepsSnapshot
  BY DEF Init, AuditComplete, SnapshotsReady, RecallKeepsSnapshot
<1> QED
  BY <1>1, <1>2, <1>3, <1>4 DEF BoardInv

\* The outbox only grows, so what a request has read stays there.
LEMMA SoundStays ==
  ASSUME NEW k, NEW at, TaskSound(k, at),
         drafts \subseteq drafts', outbox \subseteq outbox'
  PROVE  TaskSound(k, at)'
  BY DEF TaskSound, Written, DraftRead

\* A step of one thread that ends in a sound state keeps all threads sound.
LEMMA OneThread ==
  ASSUME BoardInv, drafts \subseteq drafts', outbox \subseteq outbox',
         NEW t \in Threads, NEW k \in Tasks, NEW at \in Steps,
         TaskSound(k, at)',
         task' = [task EXCEPT ![t] = k], pc' = [pc EXCEPT ![t] = at]
  PROVE  TasksSound' /\ task' \in [Threads -> Tasks] /\ pc' \in [Threads -> Steps]
<1>1. task' \in [Threads -> Tasks] /\ pc' \in [Threads -> Steps]
  BY DEF BoardInv, TypeOK
<1>2. ASSUME NEW u \in Threads PROVE TaskSound(task[u], pc[u])'
  <2>1. PICK j, step : j = task'[u] /\ step = pc'[u]
    OBVIOUS
  <2>2. CASE u = t
    <3>1. j = k /\ step = at
      BY <2>1, <2>2 DEF BoardInv, TypeOK
    <3> QED
      BY <2>1, <3>1 DEF TaskSound, Written, DraftRead
  <2>3. CASE u # t
    <3>1. j = task[u] /\ step = pc[u]
      BY <2>1, <2>3 DEF BoardInv, TypeOK
    <3>2. TaskSound(j, step)
      BY <3>1 DEF BoardInv, TasksSound
    <3>3. TaskSound(j, step)'
      BY <3>2, SoundStays
    <3> QED
      BY <2>1, <3>3 DEF TaskSound, Written, DraftRead
  <2> QED
    BY <2>2, <2>3
<1> QED
  BY <1>1, <1>2 DEF TasksSound

\* A step that leaves the tables alone and one thread in a sound state.
LEMMA ReadingStep ==
  ASSUME BoardInv, UNCHANGED tables, served' \in 0..MaxRequests,
         NEW t \in Threads, NEW k \in Tasks, NEW at \in Steps,
         TaskSound(k, at),
         task' = [task EXCEPT ![t] = k], pc' = [pc EXCEPT ![t] = at]
  PROVE  BoardInv'
<1>1. TaskSound(k, at)'
  BY SoundStays DEF tables
<1>2. TasksSound' /\ TypeOK'
  BY <1>1, OneThread DEF BoardInv, TypeOK, tables
<1>3. RowsLogged' /\ UnsignedBare'
  BY DEF BoardInv, RowsLogged, UnsignedBare, Written, tables
<1>4. AuditComplete' /\ SnapshotsReady' /\ RecallKeepsSnapshot'
  BY DEF BoardInv, AuditComplete, SnapshotsReady, RecallKeepsSnapshot, tables
<1> QED
  BY <1>2, <1>3, <1>4 DEF BoardInv

-----------------------------------------------------------------------------
\* A row of an item that has been written.
LEMMA ItemRow ==
  ASSUME BoardInv, NEW i \in Items, items[i].version > 0
  PROVE  /\ items[i].content \in Contents
         /\ items[i].content.document \in Documents
         /\ Written(items[i].content.document)
         /\ items[i].content.status \in Movable
              => items[i].content.snapshot = None
         /\ [item |-> i, version |-> items[i].version,
             content |-> items[i].content] \in outbox
<1>1. [item |-> i, version |-> items[i].version,
       content |-> items[i].content] \in outbox
  BY DEF BoardInv, RowsLogged
<1>2. items[i].content \in Contents
  BY <1>1 DEF BoardInv, TypeOK
<1>3. items[i].content.document \in Documents
  BY <1>2 DEF Contents
<1>4. /\ Written(items[i].content.document)
      /\ items[i].content.status \in Movable => items[i].content.snapshot = None
  BY <1>1 DEF BoardInv, RowsLogged, UnsignedBare
<1> QED
  BY <1>1, <1>2, <1>3, <1>4

\* A row of a document of which the outbox holds a version.
LEMMA DocumentRow ==
  ASSUME BoardInv, NEW d \in Documents, Written(d)
  PROVE  /\ documents[d] \in DocumentRows
         /\ documents[d].body \in Bodies
         /\ [document |-> d, version |-> documents[d].version,
             body |-> documents[d].body] \in drafts
<1>1. documents[d].version > 0
  BY DEF BoardInv, RowsLogged, Written
<1>2. [document |-> d, version |-> documents[d].version,
       body |-> documents[d].body] \in drafts
  BY <1>1 DEF BoardInv, RowsLogged
<1>3. documents[d].body \in Bodies
  BY <1>2 DEF BoardInv, TypeOK
<1> QED
  BY <1>2, <1>3 DEF BoardInv, TypeOK

\* A well-typed request is one of a thread's.
LEMMA RequestTyped ==
  ASSUME NEW kind \in Kinds, NEW i \in Items \cup {None},
         NEW d \in Documents \cup {None}, NEW n \in 0..MaxVersion,
         NEW c \in Contents \cup {None}
  PROVE  Request(kind, i, d, n, c) \in Tasks
  BY BoundsAssumption DEF Request, Tasks, DocumentRows, NoDocument

\* Every request begins in a sound state.
LEMMA BeginStep ==
  ASSUME BoardInv, NEW t \in Threads, Begin(t)
  PROVE  BoardInv'
<1> USE BoundsAssumption
<1>1. ASSUME NEW at \in Steps, NEW k \in Tasks, TaskSound(k, at),
             Take(t, at, k), UNCHANGED tables
      PROVE  BoardInv'
  <2>1. served' \in 0..MaxRequests
    BY <1>1 DEF Take, BoardInv, TypeOK
  <2> QED
    BY <1>1, <2>1, ReadingStep DEF Take
<1>2. ASSUME NEW d \in Documents, BeginCreate(t, d) PROVE BoardInv'
  <2> DEFINE k == Request("create", None, d, 0, None)
  <2>1. k \in Tasks
    BY RequestTyped DEF Kinds
  <2>2. Written(d)
    BY <1>2 DEF BoardInv, RowsLogged, BeginCreate, Written
  <2>3. TaskSound(k, "document")
    BY <2>2 DEF TaskSound, Request
  <2> QED
    BY <1>1, <1>2, <2>1, <2>3 DEF BeginCreate, Steps
<1>3. ASSUME NEW d \in Documents, NEW n \in 1..MaxVersion, BeginEdit(t, d, n)
      PROVE BoardInv'
  <2> DEFINE k == Request("edit", None, d, n, None)
  <2>1. k \in Tasks
    BY RequestTyped DEF Kinds
  <2>2. TaskSound(k, "prepare")
    BY <1>3 DEF TaskSound, Request, BeginEdit
  <2> QED
    BY <1>1, <1>3, <2>1, <2>2 DEF BeginEdit, Steps
<1>4. ASSUME NEW i \in Items, NEW n \in 1..MaxVersion, NEW s \in Movable,
             BeginMove(t, i, n, s)
      PROVE BoardInv'
  <2> DEFINE c == WithStatus(items[i].content, s)
             k == Request("move", i, items[i].content.document, n, c)
  <2>1. items[i].version > 0
    BY <1>4 DEF BeginMove, BoardInv, TypeOK, ItemRows
  <2>2. /\ items[i].content \in Contents /\ items[i].content.snapshot = None
        /\ items[i].content.document \in Documents
        /\ Written(items[i].content.document)
    BY <1>4, <2>1, ItemRow DEF BeginMove
  <2>3. /\ c \in Contents /\ c.status \in Movable /\ c.snapshot = None
        /\ c.document = items[i].content.document
    BY <2>2 DEF Contents, WithStatus
  <2>4. k \in Tasks
    BY <2>2, <2>3, RequestTyped DEF Kinds
  <2>5. TaskSound(k, "document")
    BY <1>4, <2>2, <2>3 DEF TaskSound, Request, BeginMove
  <2> QED
    BY <1>1, <1>4, <2>4, <2>5 DEF BeginMove, Steps
<1>5. ASSUME NEW i \in Items, NEW n \in 1..MaxVersion, BeginSign(t, i, n)
      PROVE BoardInv'
  <2> DEFINE c == items[i].content
             k == Request("sign", i, c.document, n, c)
  <2>1. items[i].version > 0
    BY <1>5 DEF BeginSign, BoardInv, TypeOK, ItemRows
  <2>2. c \in Contents /\ c.document \in Documents /\ Written(c.document)
    BY <2>1, ItemRow
  <2>3. k \in Tasks
    BY <2>2, RequestTyped DEF Kinds
  <2>4. TaskSound(k, "document")
    BY <1>5, <2>2 DEF TaskSound, Request, BeginSign
  <2> QED
    BY <1>1, <1>5, <2>3, <2>4 DEF BeginSign, Steps
<1>6. ASSUME NEW i \in Items, NEW n \in 1..MaxVersion, BeginRecall(t, i, n)
      PROVE BoardInv'
  <2> DEFINE c == WithStatus(items[i].content, "recalled")
             k == Request("recall", i, items[i].content.document, n, c)
  <2>1. items[i].version > 0
    BY <1>6 DEF BeginRecall, BoardInv, TypeOK, ItemRows
  <2>2. /\ items[i].content \in Contents
        /\ items[i].content.document \in Documents
        /\ Written(items[i].content.document)
        /\ [item |-> i, version |-> items[i].version,
            content |-> items[i].content] \in outbox
    BY <2>1, ItemRow
  <2>3. /\ c \in Contents /\ c.status = "recalled"
        /\ c.snapshot = items[i].content.snapshot
        /\ c.document = items[i].content.document
    BY <2>2 DEF Contents, WithStatus, Frozen
  <2>4. k \in Tasks
    BY <2>2, <2>3, RequestTyped DEF Kinds
  <2>5. items[i].content.status = "signed"
    BY <1>6 DEF BeginRecall, RecallRefused
  <2>6. \E f \in outbox : f.item = i /\ f.content.status = "signed"
                            /\ f.content.snapshot = c.snapshot
    BY <2>2, <2>3, <2>5
  <2>7. TaskSound(k, "prepare")
    BY <1>6, <2>2, <2>3, <2>6 DEF TaskSound, Request, BeginRecall
  <2> QED
    BY <1>1, <1>6, <2>4, <2>7 DEF BeginRecall, Steps
<1> QED
  BY <1>2, <1>3, <1>4, <1>5, <1>6 DEF Begin

-----------------------------------------------------------------------------
\* Reading on, refusing and failing leave the tables but conflicts alone.
LEMMA ReadStep ==
  ASSUME BoardInv, NEW t \in Threads,
         \/ ReadDocument(t) \/ ReadHash(t) \/ Prepare(t) \/ Fail(t)
  PROVE  BoardInv'
<1> DEFINE k == task[t]
<1>0. k \in Tasks /\ TaskSound(k, pc[t]) /\ served \in 0..MaxRequests
  BY DEF BoardInv, TypeOK, TasksSound
<1>1. CASE ReadDocument(t)
  <2> DEFINE j == [k EXCEPT !.draft = documents[k.document]]
  <2>1. /\ k.kind \in {"create", "move", "sign"}
        /\ k.document \in Documents /\ Written(k.document)
    BY <1>0, <1>1 DEF ReadDocument, TaskSound
  <2>2. /\ documents[k.document] \in DocumentRows
        /\ [document |-> k.document, version |-> documents[k.document].version,
            body |-> documents[k.document].body] \in drafts
    BY <2>1, DocumentRow
  <2>3. j \in Tasks
    BY <1>0, <2>2 DEF Tasks
  <2>4. /\ j.kind = k.kind /\ j.document = k.document /\ j.item = k.item
        /\ j.expected = k.expected /\ j.content = k.content
        /\ j.draft = documents[k.document]
    BY <1>0 DEF Tasks
  <2>5. TaskSound(j, "hash")
    BY <1>0, <1>1, <2>1, <2>2, <2>4 DEF TaskSound, DraftRead, ReadDocument
  <2>6. task' = [task EXCEPT ![t] = j] /\ pc' = [pc EXCEPT ![t] = "hash"]
    BY <1>1 DEF ReadDocument
  <2> QED
    BY <1>0, <1>1, <2>3, <2>5, <2>6, ReadingStep DEF ReadDocument, Steps
<1>2. CASE ReadHash(t)
  <2> DEFINE j == [k EXCEPT !.hash = documents[k.document].body]
             at == IF k.kind = "create" THEN "put" ELSE "prepare"
  <2>1. /\ k.kind \in {"create", "move", "sign"}
        /\ k.document \in Documents /\ Written(k.document)
    BY <1>0, <1>2 DEF ReadHash, TaskSound
  <2>2. documents[k.document].body \in Bodies
    BY <2>1, DocumentRow
  <2>3. j \in Tasks
    BY <1>0, <2>2 DEF Tasks
  <2>4. /\ j.kind = k.kind /\ j.document = k.document /\ j.item = k.item
        /\ j.expected = k.expected /\ j.content = k.content
        /\ j.draft = k.draft /\ j.hash = documents[k.document].body
    BY <1>0 DEF Tasks
  <2>5. k.kind = "sign" => k.draft.body \in Ready
    BY <1>2 DEF ReadHash, Passes
  <2>6. TaskSound(j, at)
    BY <1>0, <1>2, <2>1, <2>2, <2>4, <2>5
       DEF TaskSound, DraftRead, ReadHash
  <2>7. task' = [task EXCEPT ![t] = j] /\ pc' = [pc EXCEPT ![t] = at]
    BY <1>2 DEF ReadHash
  <2> QED
    BY <1>0, <1>2, <2>3, <2>6, <2>7, ReadingStep DEF ReadHash, Steps
<1>3. CASE Prepare(t)
  <2>1. TaskSound(k, "put")
    BY <1>0, <1>3 DEF TaskSound, DraftRead, Prepare
  <2>2. task' = [task EXCEPT ![t] = k] /\ pc' = [pc EXCEPT ![t] = "put"]
    BY <1>3 DEF Prepare, GoTo, BoardInv, TypeOK
  <2> QED
    BY <1>0, <1>3, <2>1, <2>2, ReadingStep DEF Prepare, GoTo, Steps
<1>4. CASE Fail(t)
  BY <1>0, <1>4, ReadingStep, IdleIsTask DEF Fail, Leave, Steps
<1> QED
  BY <1>1, <1>2, <1>3, <1>4

\* A thread that is done is in a sound state.
LEMMA LeaveStep ==
  ASSUME BoardInv, NEW t \in Threads, Leave(t),
         drafts \subseteq drafts', outbox \subseteq outbox'
  PROVE  /\ TasksSound' /\ task' \in [Threads -> Tasks]
         /\ pc' \in [Threads -> Steps] /\ served' \in 0..MaxRequests
<1>1. TaskSound(Idle, "idle")'
  BY IdleIsTask, SoundStays
<1> QED
  BY <1>1, IdleIsTask, OneThread DEF Leave, Steps, BoardInv, TypeOK

\* A version of a document, written with its outbox entry.
LEMMA DraftWritten ==
  ASSUME BoardInv, NEW d \in Documents, NEW n \in 1..MaxVersion,
         NEW b \in Bodies, PutDraft(d, n, b),
         UNCHANGED <<items, outbox, audit>>
  PROVE  /\ RowsLogged' /\ UnsignedBare' /\ AuditComplete'
         /\ SnapshotsReady' /\ RecallKeepsSnapshot'
         /\ drafts \subseteq drafts'
         /\ documents' \in [Documents -> DocumentRows]
         /\ drafts' \subseteq [document : Documents, version : 1..MaxVersion,
                               body : Bodies]
<1> DEFINE e == [document |-> d, version |-> n, body |-> b]
<1>0. drafts' = drafts \cup {e} /\ documents' = [documents EXCEPT
                                     ![d] = [version |-> n, body |-> b]]
  BY DEF PutDraft
<1>1. /\ documents' \in [Documents -> DocumentRows]
      /\ drafts' \subseteq [document : Documents, version : 1..MaxVersion,
                            body : Bodies]
  BY <1>0, BoundsAssumption DEF BoardInv, TypeOK, DocumentRows
<1>2. RowsLogged'
  <2>1. ASSUME NEW x \in Documents, documents'[x].version > 0
        PROVE  [document |-> x, version |-> documents'[x].version,
                body |-> documents'[x].body] \in drafts'
    BY <1>0, <2>1 DEF BoardInv, TypeOK, RowsLogged
  <2>2. \A f \in drafts' : documents'[f.document].version > 0
    BY <1>0 DEF BoardInv, TypeOK, RowsLogged
  <2>3. /\ \A i \in Items : items'[i].version > 0 =>
             [item |-> i, version |-> items'[i].version,
              content |-> items'[i].content] \in outbox'
        /\ \A f \in outbox' : Written(f.content.document)'
    BY <1>0 DEF BoardInv, RowsLogged, Written
  <2> QED
    BY <2>1, <2>2, <2>3 DEF RowsLogged
<1>3. UnsignedBare' /\ AuditComplete' /\ SnapshotsReady' /\ RecallKeepsSnapshot'
  BY <1>0 DEF BoardInv, UnsignedBare, AuditComplete, SnapshotsReady,
              RecallKeepsSnapshot
<1> QED
  BY <1>0, <1>1, <1>2, <1>3

\* A version of an item, written with its outbox entry.
LEMMA ItemWritten ==
  ASSUME BoardInv, NEW i \in Items, NEW n \in 1..MaxVersion,
         NEW c \in Contents, PutItem(i, n, c), UNCHANGED <<documents, drafts>>,
         Written(c.document),
         c.status \in Movable => c.snapshot = None,
         c.snapshot # None =>
           /\ c.snapshot.body \in Ready
           /\ [document |-> c.snapshot.document, version |-> c.snapshot.version,
               body |-> c.snapshot.body] \in drafts,
         c.status = "recalled" =>
           \E f \in outbox : f.item = i /\ f.content.status = "signed"
                               /\ f.content.snapshot = c.snapshot
  PROVE  /\ RowsLogged' /\ UnsignedBare' /\ SnapshotsReady'
         /\ RecallKeepsSnapshot'
         /\ outbox \subseteq outbox'
         /\ items' \in [Items -> ItemRows]
         /\ outbox' \subseteq [item : Items, version : 1..MaxVersion,
                               content : Contents]
<1> DEFINE e == [item |-> i, version |-> n, content |-> c]
<1>0. outbox' = outbox \cup {e} /\ items' = [items EXCEPT
                                     ![i] = [version |-> n, content |-> c]]
  BY DEF PutItem
<1>1. /\ items' \in [Items -> ItemRows]
      /\ outbox' \subseteq [item : Items, version : 1..MaxVersion,
                            content : Contents]
  BY <1>0, BoundsAssumption DEF BoardInv, TypeOK, ItemRows
<1>2. RowsLogged'
  <2>1. ASSUME NEW x \in Items, items'[x].version > 0
        PROVE  [item |-> x, version |-> items'[x].version,
                content |-> items'[x].content] \in outbox'
    BY <1>0, <2>1 DEF BoardInv, TypeOK, RowsLogged
  <2>2. \A f \in outbox' : Written(f.content.document)'
    BY <1>0 DEF BoardInv, RowsLogged, Written
  <2> QED
    BY <2>1, <2>2 DEF BoardInv, RowsLogged
<1>3. UnsignedBare' /\ SnapshotsReady' /\ RecallKeepsSnapshot'
  BY <1>0 DEF BoardInv, UnsignedBare, SnapshotsReady, RecallKeepsSnapshot
<1> QED
  BY <1>0, <1>1, <1>2, <1>3

\* A signature or recall written together with its audit event.
LEMMA EventWritten ==
  ASSUME AuditComplete, NEW i, NEW n, NEW c, NEW r,
         c.status \in Frozen, c.status = "signed" => r = c.snapshot,
         outbox' = outbox \cup {[item |-> i, version |-> n, content |-> c]},
         audit' = audit \cup {[action |-> c.status, item |-> i, receipt |-> r]}
  PROVE  AuditComplete'
<1> DEFINE e == [item |-> i, version |-> n, content |-> c]
           a == [action |-> c.status, item |-> i, receipt |-> r]
           Tells(b, f) == /\ b.action = f.content.status /\ b.item = f.item
                          /\ b.action = "signed" => b.receipt = f.content.snapshot
<1>1. e \in outbox' /\ a \in audit' /\ Tells(a, e)
  OBVIOUS
<1>2. ASSUME NEW f \in outbox', f.content.status \in Frozen
      PROVE  \E b \in audit' : Tells(b, f)
  <2>1. CASE f = e
    BY <2>1, <1>1
  <2>2. CASE f \in outbox
    BY <2>2, <1>2 DEF AuditComplete
  <2> QED
    BY <2>1, <2>2
<1>3. ASSUME NEW b \in audit', b.action \in Frozen
      PROVE  \E f \in outbox' : Tells(b, f)
  <2>1. CASE b = a
    BY <2>1, <1>1
  <2>2. CASE b \in audit
    BY <2>2, <1>3 DEF AuditComplete
  <2> QED
    BY <2>1, <2>2
<1> QED
  BY <1>2, <1>3 DEF AuditComplete

\* Writing keeps the invariant.
LEMMA WriteStep ==
  ASSUME BoardInv, NEW t \in Threads,
         \/ RefuseStale(t) \/ \E b \in Bodies : FinishEdit(t, b)
         \/ \E i \in Items : PutCreated(t, i)
         \/ PutMoved(t) \/ RecordAudit(t) \/ CommitSign(t) \/ CommitRecall(t)
  PROVE  BoardInv'
<1> USE BoundsAssumption
<1> DEFINE k == task[t]
<1>0. k \in Tasks /\ TaskSound(k, pc[t])
  BY DEF BoardInv, TypeOK, TasksSound
<1>1. CASE RefuseStale(t)
  <2>1. Target(t) \in Items \cup Documents
    BY <1>0, <1>1 DEF RefuseStale, Target, TaskSound
  <2>2. TasksSound' /\ TypeOK'
    BY <1>1, <2>1, LeaveStep DEF RefuseStale, BoardInv, TypeOK
  <2>3. RowsLogged' /\ UnsignedBare'
    BY <1>1 DEF RefuseStale, BoardInv, RowsLogged, UnsignedBare, Written
  <2>4. AuditComplete' /\ SnapshotsReady' /\ RecallKeepsSnapshot'
    BY <1>1 DEF RefuseStale, BoardInv, AuditComplete, SnapshotsReady,
                RecallKeepsSnapshot
  <2> QED
    BY <2>2, <2>3, <2>4 DEF BoardInv
<1>2. ASSUME NEW b \in Bodies, FinishEdit(t, b) PROVE BoardInv'
  <2>1. k.document \in Documents /\ k.expected + 1 \in 1..MaxVersion
    BY <1>0, <1>2 DEF FinishEdit, TaskSound, Tasks, Idle, Request
  <2>2. PutDraft(k.document, k.expected + 1, b)
        /\ UNCHANGED <<items, outbox, audit, conflicts>> /\ Leave(t)
    BY <1>2 DEF FinishEdit
  <2>3. /\ RowsLogged' /\ UnsignedBare' /\ AuditComplete'
        /\ SnapshotsReady' /\ RecallKeepsSnapshot'
        /\ drafts \subseteq drafts'
        /\ documents' \in [Documents -> DocumentRows]
        /\ drafts' \subseteq [document : Documents, version : 1..MaxVersion,
                              body : Bodies]
    BY <2>1, <2>2, DraftWritten
  <2>4. TasksSound' /\ TypeOK'
    BY <2>2, <2>3, LeaveStep DEF BoardInv, TypeOK
  <2> QED
    BY <2>3, <2>4 DEF BoardInv
<1>3. ASSUME NEW i \in Items, PutCreated(t, i) PROVE BoardInv'
  <2> DEFINE c == [document |-> k.document,
                   status |-> IF k.draft.body \in Ready
                                THEN "editing" ELSE "evidence_needed",
                   snapshot |-> None]
  <2>1. /\ k.kind = "create" /\ pc[t] = "put" /\ k.document \in Documents
        /\ Written(k.document) /\ DraftRead(k)
    BY <1>0, <1>3 DEF PutCreated, TaskSound, Idle, Request
  <2>2. c \in Contents /\ c.status \in Movable /\ c.snapshot = None
    BY <2>1 DEF Contents, Movable
  <2>3. PutItem(i, 1, c) /\ 1 \in 1..MaxVersion
        /\ UNCHANGED <<documents, drafts, audit, conflicts, served>>
    BY <1>3 DEF PutCreated
  <2>4. /\ RowsLogged' /\ UnsignedBare' /\ SnapshotsReady'
        /\ RecallKeepsSnapshot' /\ outbox \subseteq outbox'
        /\ items' \in [Items -> ItemRows]
        /\ outbox' \subseteq [item : Items, version : 1..MaxVersion,
                              content : Contents]
    <3>1. c.status # "recalled" /\ c.document = k.document
      OBVIOUS
    <3> HIDE DEF c
    <3> QED
      BY <2>1, <2>2, <2>3, <3>1, ItemWritten
  <2>5. PICK j \in Tasks : /\ j = [k EXCEPT !.item = i] /\ j.kind = k.kind
                          /\ j.document = k.document
                          /\ j.draft = k.draft /\ j.item = i
    <3> DEFINE moved == [k EXCEPT !.item = i]
    <3>1. /\ moved \in Tasks /\ moved.kind = k.kind
          /\ moved.document = k.document
          /\ moved.draft = k.draft /\ moved.item = i
      BY <1>0 DEF Tasks
    <3> QED
      BY <3>1
  <2>6. TaskSound(j, "audit")
    BY <2>1, <2>5 DEF TaskSound, DraftRead
  <2>7. TaskSound(j, "audit")'
    BY <2>3, <2>4, <2>6, SoundStays
  <2>8. task' = [task EXCEPT ![t] = j] /\ pc' = [pc EXCEPT ![t] = "audit"]
    BY <1>3, <2>5 DEF PutCreated
  <2>9. TasksSound' /\ TypeOK'
    BY <2>3, <2>4, <2>5, <2>7, <2>8, OneThread DEF BoardInv, TypeOK, Steps
  <2>10. AuditComplete'
    BY <2>2, <2>3 DEF BoardInv, AuditComplete, PutItem, Frozen, Movable
  <2> QED
    BY <2>4, <2>9, <2>10 DEF BoardInv
<1>4. CASE PutMoved(t)
  <2>1. /\ k.kind = "move" /\ pc[t] = "put" /\ k.item \in Items
        /\ k.content \in Contents /\ k.content.document = k.document
        /\ Written(k.document) /\ k.content.status \in Movable
        /\ k.content.snapshot = None /\ k.expected + 1 \in 1..MaxVersion
    BY <1>0, <1>4 DEF PutMoved, TaskSound, Idle, Request, Tasks
  <2>2. PutItem(k.item, k.expected + 1, k.content)
        /\ UNCHANGED <<documents, drafts, audit, conflicts, served, task>>
    BY <1>4 DEF PutMoved, GoTo
  <2>3. /\ RowsLogged' /\ UnsignedBare' /\ SnapshotsReady'
        /\ RecallKeepsSnapshot' /\ outbox \subseteq outbox'
        /\ items' \in [Items -> ItemRows]
        /\ outbox' \subseteq [item : Items, version : 1..MaxVersion,
                              content : Contents]
    BY <2>1, <2>2, ItemWritten DEF Movable
  <2>4. TaskSound(k, "audit")
    BY <1>0, <2>1 DEF TaskSound, DraftRead, Idle, Request
  <2>5. TaskSound(k, "audit")'
    BY <2>2, <2>3, <2>4, SoundStays
  <2>6. task' = [task EXCEPT ![t] = k] /\ pc' = [pc EXCEPT ![t] = "audit"]
    BY <1>4 DEF PutMoved, GoTo, BoardInv, TypeOK
  <2>7. TasksSound' /\ TypeOK'
    BY <1>0, <2>2, <2>3, <2>5, <2>6, OneThread DEF BoardInv, TypeOK, Steps
  <2>8. AuditComplete'
    BY <2>1, <2>2 DEF BoardInv, AuditComplete, PutItem, Frozen, Movable
  <2> QED
    BY <2>3, <2>7, <2>8 DEF BoardInv
<1>5. CASE RecordAudit(t)
  <2> DEFINE a == [action |-> IF k.kind = "create" THEN "created" ELSE "moved",
                   item |-> k.item, receipt |-> None]
  <2>1. k.item \in Items
    BY <1>0, <1>5 DEF RecordAudit, TaskSound
  <2>2. audit' = audit \cup {a} /\ Leave(t)
        /\ UNCHANGED <<documents, items, drafts, outbox, conflicts>>
    BY <1>5 DEF RecordAudit
  <2>3. TasksSound' /\ TypeOK'
    BY <2>1, <2>2, LeaveStep DEF BoardInv, TypeOK
  <2>4. RowsLogged' /\ UnsignedBare' /\ SnapshotsReady' /\ RecallKeepsSnapshot'
    BY <2>2 DEF BoardInv, RowsLogged, UnsignedBare, Written, SnapshotsReady,
                RecallKeepsSnapshot
  <2>5. AuditComplete'
    BY <2>2 DEF BoardInv, AuditComplete, Frozen
  <2> QED
    BY <2>3, <2>4, <2>5 DEF BoardInv
<1>6. CASE CommitSign(t)
  <2> DEFINE snap == SnapshotOf(k)
             c == SignedContent(k)
  <2>1. /\ k.kind = "sign" /\ pc[t] = "put" /\ k.item \in Items
        /\ k.document \in Documents /\ Written(k.document)
        /\ k.content \in Contents /\ k.content.document = k.document
        /\ k.expected + 1 \in 1..MaxVersion
        /\ DraftRead(k) /\ k.draft.body \in Ready /\ k.hash \in Bodies
    BY <1>0, <1>6 DEF CommitSign, CommitTransition, TaskSound, Idle, Request,
                      Tasks
  <2>2. k.draft.version \in 1..MaxVersion
    BY <2>1 DEF DraftRead, BoardInv, TypeOK
  <2>3. snap \in Snapshots
    BY <2>1, <2>2, BodiesAssumption DEF SnapshotOf, Snapshots
  <2>4. /\ c \in Contents /\ c.status = "signed" /\ c.snapshot = snap
        /\ c.document = k.document
    BY <2>1, <2>3 DEF SignedContent, Contents, Frozen
  <2>5. /\ snap.body \in Ready
        /\ [document |-> snap.document, version |-> snap.version,
            body |-> snap.body] \in drafts
    BY <2>1 DEF SnapshotOf, DraftRead
  <2>6. /\ PutItem(k.item, k.expected + 1, c) /\ Leave(t)
        /\ audit' = audit \cup {[action |-> "signed", item |-> k.item,
                                 receipt |-> snap]}
        /\ UNCHANGED <<documents, drafts, conflicts>>
    BY <1>6 DEF CommitSign, CommitTransition
  <2> HIDE DEF c, snap
  <2>7. /\ RowsLogged' /\ UnsignedBare' /\ SnapshotsReady'
        /\ RecallKeepsSnapshot' /\ outbox \subseteq outbox'
        /\ items' \in [Items -> ItemRows]
        /\ outbox' \subseteq [item : Items, version : 1..MaxVersion,
                              content : Contents]
    BY <2>1, <2>4, <2>5, <2>6, ItemWritten DEF Movable
  <2>8. TasksSound' /\ TypeOK'
    BY <2>1, <2>3, <2>6, <2>7, LeaveStep DEF BoardInv, TypeOK
  <2>9. AuditComplete'
    <3>1. PICK r : r = snap
      OBVIOUS
    <3>2. /\ outbox' = outbox \cup {[item |-> k.item,
                                     version |-> k.expected + 1, content |-> c]}
          /\ audit' = audit \cup {[action |-> c.status, item |-> k.item,
                                   receipt |-> r]}
          /\ c.status \in Frozen /\ r = c.snapshot /\ AuditComplete
      BY <2>4, <2>6, <3>1 DEF PutItem, Frozen, BoardInv
    <3> QED
      BY <3>2, EventWritten
  <2> QED
    BY <2>7, <2>8, <2>9 DEF BoardInv
<1>7. CASE CommitRecall(t)
  <2> DEFINE c == k.content
  <2>1. /\ k.kind = "recall" /\ pc[t] = "put" /\ k.item \in Items
        /\ c \in Contents /\ c.status = "recalled" /\ Written(c.document)
        /\ k.expected + 1 \in 1..MaxVersion
    BY <1>0, <1>7 DEF CommitRecall, CommitTransition, TaskSound, Idle, Request,
                      Tasks
  <2>2. PICK f \in outbox : /\ f.item = k.item /\ f.content.status = "signed"
                            /\ f.content.snapshot = c.snapshot
    BY <1>0, <2>1 DEF TaskSound, Idle, Request
  <2>3. c.snapshot # None =>
          /\ c.snapshot.body \in Ready
          /\ [document |-> c.snapshot.document, version |-> c.snapshot.version,
              body |-> c.snapshot.body] \in drafts
    BY <2>2 DEF BoardInv, SnapshotsReady
  <2>4. /\ PutItem(k.item, k.expected + 1, c) /\ Leave(t)
        /\ audit' = audit \cup {[action |-> "recalled", item |-> k.item,
                                 receipt |-> None]}
        /\ UNCHANGED <<documents, drafts, conflicts>>
    BY <1>7 DEF CommitRecall, CommitTransition
  <2>5. /\ RowsLogged' /\ UnsignedBare' /\ SnapshotsReady'
        /\ RecallKeepsSnapshot' /\ outbox \subseteq outbox'
        /\ items' \in [Items -> ItemRows]
        /\ outbox' \subseteq [item : Items, version : 1..MaxVersion,
                              content : Contents]
    BY <2>1, <2>2, <2>3, <2>4, ItemWritten DEF Movable
  <2>6. TasksSound' /\ TypeOK'
    BY <2>1, <2>4, <2>5, LeaveStep DEF BoardInv, TypeOK
  <2>7. AuditComplete'
    <3>1. /\ outbox' = outbox \cup {[item |-> k.item,
                                     version |-> k.expected + 1, content |-> c]}
          /\ audit' = audit \cup {[action |-> c.status, item |-> k.item,
                                   receipt |-> None]}
          /\ c.status \in Frozen /\ c.status # "signed" /\ AuditComplete
      BY <2>1, <2>4 DEF PutItem, Frozen, BoardInv
    <3> HIDE DEF c
    <3> QED
      BY <3>1, EventWritten
  <2> QED
    BY <2>5, <2>6, <2>7 DEF BoardInv
<1> QED
  BY <1>1, <1>2, <1>3, <1>4, <1>5, <1>6, <1>7

-----------------------------------------------------------------------------
\* The invariant holds in every reachable state.
THEOREM BoardInvariance == Spec => []BoardInv
<1>1. BoardInv /\ [Next]_vars => BoardInv'
  <2> SUFFICES ASSUME BoardInv, [Next]_vars PROVE BoardInv'
    OBVIOUS
  <2>1. ASSUME NEW d \in Documents, NEW b \in Bodies, CreateDocument(d, b)
        PROVE  BoardInv'
    <3>1. /\ PutDraft(d, 1, b) /\ 1 \in 1..MaxVersion
          /\ UNCHANGED <<items, outbox, audit, conflicts, pc, task, served>>
      BY <2>1, BoundsAssumption DEF CreateDocument
    <3>2. /\ RowsLogged' /\ UnsignedBare' /\ AuditComplete'
          /\ SnapshotsReady' /\ RecallKeepsSnapshot'
          /\ drafts \subseteq drafts'
          /\ documents' \in [Documents -> DocumentRows]
          /\ drafts' \subseteq [document : Documents, version : 1..MaxVersion,
                                body : Bodies]
      BY <3>1, DraftWritten
    <3>3. TasksSound'
      BY <3>1, <3>2, SoundStays
         DEF BoardInv, TasksSound, TaskSound, Written, DraftRead
    <3>4. TypeOK'
      BY <3>1, <3>2 DEF BoardInv, TypeOK
    <3> QED
      BY <3>2, <3>3, <3>4 DEF BoardInv
  <2>2. ASSUME NEW t \in Threads, Begin(t) PROVE BoardInv'
    BY <2>2, BeginStep
  <2>3. ASSUME NEW t \in Threads, Step(t) \/ Fail(t) PROVE BoardInv'
    BY <2>3, ReadStep, WriteStep DEF Step
  <2>4. CASE UNCHANGED vars
    BY <2>4 DEF vars, BoardInv, TypeOK, TasksSound, TaskSound, Written,
                DraftRead, RowsLogged, UnsignedBare, AuditComplete,
                SnapshotsReady, RecallKeepsSnapshot
  <2> QED
    BY <2>1, <2>2, <2>3, <2>4 DEF Next
<1> QED
  BY InitInv, <1>1, PTL DEF Spec

\* The tables and the requests always hold what their types allow.
THEOREM BoardTyped == Spec => []TypeOK
  BY BoardInvariance, PTL DEF BoardInv

\* A signature or a recall is never stored without its audit event, nor the
\* event without it.
THEOREM AuditIsComplete == Spec => []AuditComplete
  BY BoardInvariance, PTL DEF BoardInv

\* What is signed is a checked version of the document, whatever is edited or
\* moved meanwhile.
THEOREM SignedWasReady == Spec => []SnapshotsReady
  BY BoardInvariance, PTL DEF BoardInv

\* A recall keeps what was signed.
THEOREM RecallIsFaithful == Spec => []RecallKeepsSnapshot
  BY BoardInvariance, PTL DEF BoardInv

=============================================================================
