----------------------------- MODULE DesktopProofs -----------------------------
(***************************************************************************)
(* Proofs about the parts a desktop keeps: the guards of signed objects,   *)
(* the local key ring, the import of a first snapshot, the background jobs *)
(* and the users' own keys for an AI provider.                             *)
(***************************************************************************)
EXTENDS KeyRing, SnapshotImport, BackgroundJobs, SignedObjects, Credentials,
        FiniteSetTheorems, TLAPS

-----------------------------------------------------------------------------
(* The objects of a signed record.                                          *)

Finished == {"storage_deleted", "orphaned", "completed"}

(* What a ticket says of its object: when its row is gone the object has no *)
(* metadata and never has again, and of the tickets about one object at     *)
(* most one is not cancelled.                                               *)
TicketsHold ==
  /\ Len(about) <= MaxTickets
  /\ \A t \in Issued : status[t] # "none"
  /\ \A t \in Tickets : rowGone[t] => /\ t \in Issued /\ status[t] \in Finished
                                      /\ about[t] \notin metadata
  /\ \A t \in Issued : status[t] \in {"orphaned", "completed"} => rowGone[t]
  /\ \A t \in deleting : status[t] \in {"requested", "orphaned", "completed"}
  /\ \A t, u \in Issued : t # u /\ about[t] = about[u] =>
                             status[t] = "cancelled" \/ status[u] = "cancelled"

(* A publication has the objects of its version, and nothing that is under   *)
(* way is about one of them.                                                *)
PublishedWhole ==
  /\ flow # "none" => headVersion # 0
  /\ \A p \in publications : p.objects = ObjectsOf(p.version)
  /\ \A p \in publications : \A o \in p.objects :
        /\ o \in stored
        /\ \A t \in Issued : about[t] = o => status[t] = "cancelled"

(* A ciphertext, there or on its way, has its metadata or a ticket that     *)
(* took them away.                                                          *)
Strays ==
  \A o \in Objects :
    o \in stored \/ uploading[o] > 0 =>
      o \in metadata \/ \E t \in Issued : about[t] = o /\ rowGone[t]

ObjectsInv == ObjectsTypeOK /\ TicketsHold /\ PublishedWhole /\ Strays

LEMMA IssuedIs ==
  ASSUME ObjectsInv
  PROVE  \E n \in 0 .. MaxTickets : /\ n = Len(about) /\ n = Len(by) /\ Issued = 1 .. n
                                    /\ \A t \in 1 .. n : about[t] \in Objects
<1> USE ObjectsAssumption
<1>1. about \in Seq(Objects) /\ by \in Seq(Admins) /\ Len(about) = Len(by)
      /\ Len(about) <= MaxTickets
  BY DEF ObjectsInv, ObjectsTypeOK, TicketsHold
<1>2. PICK n \in Nat : n = Len(about)
  BY <1>1
<1>3. \A t \in 1 .. n : about[t] \in Objects
  BY <1>1, <1>2
<1> QED
  BY <1>1, <1>2, <1>3 DEF Issued

LEMMA IssuedTickets == ObjectsInv => Issued \subseteq Tickets
  BY IssuedIs, ObjectsAssumption DEF Tickets

LEMMA ObjectsBegin == ObjectsInit => ObjectsInv
<1> SUFFICES ASSUME ObjectsInit PROVE ObjectsInv
  OBVIOUS
<1> USE ObjectsAssumption
<1>1. Issued = {} /\ Len(about) = 0 /\ Len(by) = 0
  BY DEF ObjectsInit, Issued
<1>2. ObjectsTypeOK
  BY <1>1 DEF ObjectsInit, ObjectsTypeOK, Active
<1>3. TicketsHold
  BY <1>1 DEF ObjectsInit, TicketsHold
<1>4. PublishedWhole /\ Strays
  BY <1>1 DEF ObjectsInit, PublishedWhole, Strays
<1> QED
  BY <1>2, <1>3, <1>4 DEF ObjectsInv

LEMMA RecordSteps ==
  ASSUME ObjectsInv, PushHead \/ PushBranch \/ \E c \in openConflicts : ResolveConflict(c)
  PROVE  ObjectsInv'
<1> USE ObjectsAssumption
<1>1. /\ UNCHANGED <<flowVars, fileVars, ticketVars, admins>>
      /\ newest < MaxRecordVersions /\ newest' = newest + 1
      /\ headVersion' = newest' \/ (headVersion # 0 /\ headVersion' = headVersion)
      /\ openConflicts' \subseteq openConflicts \cup {newest'}
  BY DEF PushHead, PushBranch, ResolveConflict
<1>2. /\ newest' \in RecordVersions /\ newest' \in 0 .. MaxRecordVersions
      /\ headVersion' \in 0 .. MaxRecordVersions /\ headVersion' # 0
  BY <1>1 DEF ObjectsInv, ObjectsTypeOK, RecordVersions
<1>3. ObjectsTypeOK'
  BY <1>1, <1>2
  DEF ObjectsInv, ObjectsTypeOK, flowVars, fileVars, ticketVars, Issued
<1>4. TicketsHold'
  BY <1>1 DEF ObjectsInv, TicketsHold, fileVars, ticketVars, Issued
<1>5. PublishedWhole'
  BY <1>1, <1>2
  DEF ObjectsInv, PublishedWhole, flowVars, fileVars, ticketVars, Issued, ObjectsOf
<1>6. Strays'
  BY <1>1 DEF ObjectsInv, Strays, fileVars, ticketVars, Issued
<1> QED
  BY <1>3, <1>4, <1>5, <1>6 DEF ObjectsInv

LEMMA FlowSteps ==
  ASSUME ObjectsInv, ReturnToEditing \/ SubmitForApproval \/ Recall
  PROVE  ObjectsInv'
<1> USE ObjectsAssumption
<1>1. /\ UNCHANGED <<recordVars, publications, fileVars, ticketVars, admins>>
      /\ flow' \in {"editing", "pending_approval", "recalled"} /\ headVersion # 0
      /\ bound' \in {0, headVersion, bound} /\ manifest' \in {{}, ObjectsOf(headVersion), manifest}
  BY DEF ReturnToEditing, SubmitForApproval, Recall, ObjectsInv, PublishedWhole
<1>2. ObjectsOf(headVersion) \subseteq Objects
  BY DEF ObjectsOf, ObjectsInv, ObjectsTypeOK
<1>3. ObjectsTypeOK'
  BY <1>1, <1>2 DEF ObjectsInv, ObjectsTypeOK, recordVars, fileVars, ticketVars, Issued
<1>4. TicketsHold'
  BY <1>1 DEF ObjectsInv, TicketsHold, fileVars, ticketVars, Issued
<1>5. PublishedWhole'
  BY <1>1
  DEF ObjectsInv, PublishedWhole, recordVars, fileVars, ticketVars, Issued, ObjectsOf
<1>6. Strays'
  BY <1>1 DEF ObjectsInv, Strays, fileVars, ticketVars, Issued
<1> QED
  BY <1>3, <1>4, <1>5, <1>6 DEF ObjectsInv

LEMMA SignStep ==
  ASSUME ObjectsInv, Sign
  PROVE  ObjectsInv'
<1> USE ObjectsAssumption
<1>1. /\ UNCHANGED <<recordVars, bound, manifest, fileVars, ticketVars, admins>>
      /\ flow' = "signed" /\ flow = "pending_approval" /\ bound = headVersion
      /\ ManifestComplete(bound)
      /\ publications' = publications \cup {[version |-> bound, objects |-> ObjectsOf(bound)]}
  BY DEF Sign
<1>2. bound \in RecordVersions /\ ObjectsOf(bound) \in SUBSET Objects
  BY <1>1 DEF ObjectsInv, ObjectsTypeOK, PublishedWhole, RecordVersions, ObjectsOf
<1>3. ObjectsTypeOK'
  BY <1>1, <1>2 DEF ObjectsInv, ObjectsTypeOK, recordVars, fileVars, ticketVars, Issued
<1>4. TicketsHold'
  BY <1>1 DEF ObjectsInv, TicketsHold, fileVars, ticketVars, Issued
<1>5. ASSUME NEW o \in ObjectsOf(bound)
      PROVE  o \in stored /\ \A t \in Issued : about[t] = o => status[t] = "cancelled"
  <2>1. o \in stored /\ o \in metadata /\ versionOf[o] = bound
    BY <1>1 DEF ManifestComplete, ObjectsOf
  <2>2. ASSUME NEW t \in Issued, about[t] = o PROVE status[t] = "cancelled"
    <3>1. status[t] \notin Active
      BY <1>1, <2>1, <2>2 DEF ManifestComplete
    <3>2. t \in Tickets
      BY IssuedIs DEF Tickets
    <3>3. status[t] \notin {"completed", "none"}
      BY <2>1, <2>2, <3>2 DEF ObjectsInv, TicketsHold
    <3> QED
      BY <3>1, <3>2, <3>3 DEF ObjectsInv, ObjectsTypeOK, Active
  <2> QED
    BY <2>1, <2>2
<1>6. PublishedWhole'
  <2>1. ASSUME NEW p \in publications'
        PROVE  /\ p.objects = ObjectsOf(p.version)
               /\ \A o \in p.objects : /\ o \in stored
                                       /\ \A t \in Issued : about[t] = o => status[t] = "cancelled"
    BY <1>1, <1>5 DEF ObjectsInv, PublishedWhole
  <2>2. headVersion' # 0
    BY <1>1 DEF ObjectsInv, PublishedWhole, recordVars
  <2> QED
    BY <1>1, <2>1, <2>2 DEF PublishedWhole, fileVars, ticketVars, Issued, ObjectsOf
<1>7. Strays'
  BY <1>1 DEF ObjectsInv, Strays, fileVars, ticketVars, Issued
<1> QED
  BY <1>3, <1>4, <1>6, <1>7 DEF ObjectsInv

LEMMA AddObjectStep ==
  ASSUME ObjectsInv, NEW o \in Objects, NEW v \in RecordVersions, AddObject(o, v)
  PROVE  ObjectsInv'
<1> USE ObjectsAssumption
<1>1. /\ UNCHANGED <<recordVars, flowVars, stored, uploading, ticketVars, admins>>
      /\ o \notin metadata /\ ~SignedVersion(v)
      /\ ~\E t \in Issued : Spent(t, o)
      /\ metadata' = metadata \cup {o} /\ versionOf' = [versionOf EXCEPT ![o] = v]
  BY DEF AddObject, Addable
<1>2. ObjectsTypeOK'
  BY <1>1
  DEF ObjectsInv, ObjectsTypeOK, RecordVersions, recordVars, flowVars, ticketVars, Issued
<1>3. TicketsHold'
  <2>1. ASSUME NEW t \in Tickets, rowGone[t] PROVE about[t] \notin metadata'
    BY <1>1, <2>1 DEF ObjectsInv, TicketsHold, Spent
  <2> QED
    BY <1>1, <2>1 DEF ObjectsInv, TicketsHold, ticketVars, Issued
<1>4. PublishedWhole'
  <2>1. ASSUME NEW p \in publications PROVE p.objects = ObjectsOf(p.version)'
    <3>1. p.version # v /\ p.objects = ObjectsOf(p.version)
      BY <1>1 DEF SignedVersion, ObjectsInv, PublishedWhole
    <3>2. \A x \in Objects : /\ x # o => versionOf'[x] = versionOf[x]
                             /\ x = o => versionOf'[x] = v
      BY <1>1 DEF ObjectsInv, ObjectsTypeOK
    <3> QED
      BY <1>1, <3>1, <3>2 DEF ObjectsOf, ObjectsInv, ObjectsTypeOK
  <2> QED
    BY <1>1, <2>1 DEF ObjectsInv, PublishedWhole, recordVars, flowVars, ticketVars, Issued, ObjectsOf
<1>5. Strays'
  BY <1>1 DEF ObjectsInv, Strays, ticketVars, Issued
<1> QED
  BY <1>2, <1>3, <1>4, <1>5 DEF ObjectsInv

LEMMA UploadSteps ==
  ASSUME ObjectsInv, NEW o \in Objects, BeginUpload(o) \/ EndUpload(o)
  PROVE  ObjectsInv'
<1> USE ObjectsAssumption
<1>1. /\ UNCHANGED <<recordVars, flowVars, versionOf, metadata, ticketVars, admins>>
      /\ o \in metadata \/ uploading[o] > 0
      /\ stored' \in {stored, stored \cup {o}}
      /\ \/ uploading' = [uploading EXCEPT ![o] = @ + 1] /\ uploading[o] < MaxUploads
         \/ uploading' = [uploading EXCEPT ![o] = @ - 1] /\ uploading[o] > 0
  BY DEF BeginUpload, EndUpload
<1>2. uploading' \in [Objects -> 0 .. MaxUploads]
      /\ \A x \in Objects : x # o => uploading'[x] = uploading[x]
  <2>1. uploading[o] \in 0 .. MaxUploads /\ uploading \in [Objects -> 0 .. MaxUploads]
    BY DEF ObjectsInv, ObjectsTypeOK
  <2>2. PICK k \in 0 .. MaxUploads : uploading' = [uploading EXCEPT ![o] = k]
    BY <1>1, <2>1
  <2> QED
    BY <2>1, <2>2
<1>3. ObjectsTypeOK'
  BY <1>1, <1>2
  DEF ObjectsInv, ObjectsTypeOK, recordVars, flowVars, ticketVars, Issued
<1>4. TicketsHold'
  BY <1>1 DEF ObjectsInv, TicketsHold, ticketVars, Issued
<1>5. PublishedWhole'
  BY <1>1
  DEF ObjectsInv, PublishedWhole, recordVars, flowVars, ticketVars, Issued, ObjectsOf
<1>6. Strays'
  BY <1>1, <1>2 DEF ObjectsInv, Strays, ticketVars, Issued
<1> QED
  BY <1>3, <1>4, <1>5, <1>6 DEF ObjectsInv

LEMMA BeginDeleteStep ==
  ASSUME ObjectsInv, NEW a \in Admins, NEW o \in Objects, BeginDelete(a, o)
  PROVE  ObjectsInv'
<1> USE ObjectsAssumption
<1>1. PICK n \in 0 .. MaxTickets :
         /\ n = Len(about) /\ n = Len(by) /\ Issued = 1 .. n
         /\ \A t \in 1 .. n : about[t] \in Objects
  BY IssuedIs
<1> DEFINE old == {t \in Issued : about[t] = o /\ status[t] \in Active}
<1>2. /\ UNCHANGED <<recordVars, flowVars, fileVars, rowGone, expired, unconfirmed, deleting, admins>>
      /\ o \in metadata /\ o \in stored /\ n < MaxTickets /\ ~SignedObject(o)
      /\ \A t \in old : t \notin deleting /\ status[t] = "requested"
      /\ status' = [t \in Tickets |-> IF t \in old THEN "cancelled"
                                      ELSE IF t = n + 1 THEN "requested" ELSE status[t]]
      /\ about' = Append(about, o) /\ by' = Append(by, a)
  BY <1>1 DEF BeginDelete
<1>3. /\ about' \in Seq(Objects) /\ by' \in Seq(Admins) /\ Len(about') = n + 1 /\ Len(by') = n + 1
      /\ Issued' = 1 .. (n + 1) /\ about'[n + 1] = o
      /\ \A t \in 1 .. n : about'[t] = about[t]
  BY <1>1, <1>2 DEF ObjectsInv, ObjectsTypeOK, Issued
<1>4. \A t \in Tickets : \/ t \in 1 .. n /\ t \in old /\ status'[t] = "cancelled"
                         \/ t = n + 1 /\ status'[t] = "requested"
                         \/ t \notin old /\ t # n + 1 /\ status'[t] = status[t]
  <2>1. ASSUME NEW t \in old PROVE t \in 1 .. n
    BY <1>1
  <2>2. \A t \in old : t \in 1 .. n
    BY <2>1
  <2> HIDE DEF old
  <2>3. \A t \in Tickets : status'[t] = IF t \in old THEN "cancelled"
                                      ELSE IF t = n + 1 THEN "requested" ELSE status[t]
    BY <1>2
  <2> QED
    BY <2>2, <2>3
<1>5. 1 .. n \subseteq Tickets /\ n + 1 \in Tickets
  BY <1>1, <1>2 DEF Tickets
<1>6. \A t \in 1 .. n : about[t] = o => status'[t] = "cancelled"
  <2> SUFFICES ASSUME NEW t \in 1 .. n, about[t] = o, t \notin old PROVE status[t] = "cancelled"
    BY <1>1, <1>4, <1>5
  <2>1. status[t] \notin Active /\ status[t] # "none"
    BY <1>1 DEF ObjectsInv, TicketsHold
  <2>2. status[t] # "completed"
    BY <1>1, <1>2, <1>5 DEF ObjectsInv, TicketsHold
  <2> QED
    BY <1>5, <2>1, <2>2 DEF ObjectsInv, ObjectsTypeOK, Active
<1>7. ObjectsTypeOK'
  <2>1. status' \in [Tickets -> Active \cup {"none", "completed", "cancelled"}]
    BY <1>2, <1>4 DEF ObjectsInv, ObjectsTypeOK, Active
  <2>2. deleting' \subseteq Issued'
    BY <1>1, <1>2, <1>3 DEF ObjectsInv, ObjectsTypeOK
  <2> QED
    BY <1>2, <1>3, <2>1, <2>2 DEF ObjectsInv, ObjectsTypeOK, recordVars, flowVars, fileVars
<1>8. TicketsHold'
  <2>1. \A t \in Issued' : status'[t] # "none"
    BY <1>1, <1>3, <1>4, <1>5 DEF ObjectsInv, TicketsHold
  <2>2. \A t \in Tickets : rowGone[t] =>
           t \in 1 .. n /\ status'[t] = status[t] /\ about'[t] = about[t]
    <3> SUFFICES ASSUME NEW t \in Tickets, rowGone[t]
                 PROVE  t \in 1 .. n /\ status'[t] = status[t] /\ about'[t] = about[t]
      OBVIOUS
    <3>1. t \in 1 .. n /\ about[t] \notin metadata
      BY <1>1 DEF ObjectsInv, TicketsHold
    <3> QED
      BY <1>1, <1>2, <1>3, <1>4, <3>1
  <2>3. \A t \in Issued' : status'[t] \in {"orphaned", "completed"} => rowGone[t]
    BY <1>1, <1>3, <1>4, <1>5 DEF ObjectsInv, TicketsHold
  <2>4. \A t \in deleting : status'[t] \in {"requested", "orphaned", "completed"}
    BY <1>1, <1>2, <1>4, <1>5 DEF ObjectsInv, ObjectsTypeOK, TicketsHold
  <2>5. ASSUME NEW t \in 1 .. n + 1, NEW u \in 1 .. n + 1, t # u, about'[t] = about'[u]
        PROVE  status'[t] = "cancelled" \/ status'[u] = "cancelled"
    <3>1. CASE t = n + 1 \/ u = n + 1
      BY <1>3, <1>6, <2>5, <3>1
    <3>2. CASE t \in 1 .. n /\ u \in 1 .. n
      <4>1. status[t] = "cancelled" \/ status[u] = "cancelled"
        BY <1>1, <1>3, <2>5, <3>2 DEF ObjectsInv, TicketsHold
      <4> QED
        BY <1>4, <1>5, <3>2, <4>1
    <3> QED
      BY <1>1, <3>1, <3>2
  <2>6. Len(about') <= MaxTickets
    BY <1>1, <1>2, <1>3
  <2>7. \A t \in Tickets : rowGone[t] => t \in Issued' /\ status'[t] \in Finished /\ about'[t] \notin metadata
    BY <1>1, <1>3, <2>2 DEF ObjectsInv, TicketsHold
  <2> QED
    BY <1>2, <1>3, <2>1, <2>3, <2>4, <2>5, <2>6, <2>7 DEF TicketsHold, fileVars
<1>9. PublishedWhole'
  <2>1. ASSUME NEW p \in publications, NEW x \in p.objects, NEW t \in 1 .. n + 1, about'[t] = x
        PROVE  status'[t] = "cancelled"
    <3>1. x # o
      BY <1>2 DEF SignedObject
    <3>2. t \in 1 .. n
      BY <1>1, <1>3, <2>1, <3>1
    <3>3. status[t] = "cancelled"
      BY <1>1, <1>3, <2>1, <3>2 DEF ObjectsInv, PublishedWhole
    <3> QED
      BY <1>1, <1>4, <1>5, <3>2, <3>3
  <2>2. \A v : ObjectsOf(v)' = ObjectsOf(v)
    BY <1>2 DEF fileVars, ObjectsOf
  <2>3. \A p \in publications' : p \in publications /\ p.objects = ObjectsOf(p.version)'
    BY <1>2, <2>2 DEF ObjectsInv, PublishedWhole, flowVars
  <2>4. (flow' # "none" => headVersion' # 0) /\ stored' = stored
    BY <1>2 DEF ObjectsInv, PublishedWhole, flowVars, recordVars, fileVars
  <2>5. \A p \in publications' : \A x \in p.objects :
           /\ x \in stored'
           /\ \A t \in Issued' : about'[t] = x => status'[t] = "cancelled"
    BY <1>3, <2>1, <2>3, <2>4 DEF ObjectsInv, PublishedWhole
  <2> QED
    BY <2>3, <2>4, <2>5 DEF PublishedWhole
<1>10. Strays'
  <2>1. \A t \in Issued : t \in Issued' /\ about'[t] = about[t]
    BY <1>1, <1>3
  <2> QED
    BY <1>2, <2>1 DEF ObjectsInv, Strays, fileVars
<1> QED
  BY <1>7, <1>8, <1>9, <1>10 DEF ObjectsInv

(* A ticket has at most one step before it is cancelled or finished, and a   *)
(* step of it leaves the others as they are.                                *)
LEMMA TicketSteps ==
  ASSUME ObjectsInv, NEW t \in Issued,
         \/ \E a \in Admins : CancelDelete(a, t) \/ OpenStorageDelete(a, t)
         \/ FailStorageDelete(t) \/ TicketExpires(t)
  PROVE  ObjectsInv'
<1> USE ObjectsAssumption
<1>1. t \in Tickets
  BY IssuedIs DEF Tickets
<1>2. /\ UNCHANGED <<recordVars, flowVars, fileVars, about, by, rowGone, unconfirmed, admins>>
      /\ \/ /\ t \notin deleting /\ status[t] = "requested"
            /\ status' = [status EXCEPT ![t] = "cancelled"]
         \/ status' = status
      /\ \/ deleting' \subseteq deleting
         \/ /\ deleting' = deleting \cup {t} /\ status' = status
            /\ status[t] \in {"requested", "orphaned", "completed"}
      /\ expired' = expired \/ expired' = [expired EXCEPT ![t] = TRUE]
  BY DEF CancelDelete, OpenStorageDelete, FailStorageDelete, TicketExpires, Deletable
<1>3. /\ status' \in [Tickets -> Active \cup {"none", "completed", "cancelled"}]
      /\ \A u \in Tickets : \/ status'[u] = status[u]
                            \/ /\ u = t /\ t \notin deleting /\ deleting' \subseteq deleting
                              /\ status[u] = "requested" /\ status'[u] = "cancelled"
  BY <1>1, <1>2 DEF ObjectsInv, ObjectsTypeOK, Active
<1>4. Issued' = Issued /\ Issued \subseteq Tickets
  BY <1>2, IssuedIs DEF Issued, Tickets
<1>5. ObjectsTypeOK'
  BY <1>1, <1>2, <1>3, <1>4 DEF ObjectsInv, ObjectsTypeOK, recordVars, flowVars, fileVars
<1>6. TicketsHold'
  <2>1. \A u \in deleting' : status'[u] \in {"requested", "orphaned", "completed"}
    BY <1>2, <1>3, <1>4 DEF ObjectsInv, ObjectsTypeOK, TicketsHold
  <2>2. \A u \in Tickets : rowGone[u] => status'[u] = status[u]
    BY <1>3 DEF ObjectsInv, TicketsHold, Finished
  <2>3. \A u \in Issued : /\ status'[u] # "none"
                          /\ status'[u] \in {"orphaned", "completed"} => status'[u] = status[u]
                          /\ status[u] = "cancelled" => status'[u] = "cancelled"
    BY <1>3, <1>4 DEF ObjectsInv, TicketsHold
  <2>4. \A u, w \in Issued : u # w /\ about[u] = about[w] =>
           status'[u] = "cancelled" \/ status'[w] = "cancelled"
    BY <2>3 DEF ObjectsInv, TicketsHold
  <2>5. \A u \in Issued : status'[u] \in {"orphaned", "completed"} => rowGone'[u]
    BY <1>2, <2>3 DEF ObjectsInv, TicketsHold
  <2>6. \A u \in Tickets : rowGone[u] =>
           u \in Issued /\ status'[u] \in Finished /\ about[u] \notin metadata
    BY <2>2 DEF ObjectsInv, TicketsHold
  <2> QED
    BY <1>2, <1>4, <2>1, <2>3, <2>4, <2>5, <2>6 DEF ObjectsInv, TicketsHold, fileVars
<1>7. PublishedWhole'
  <2>1. \A u \in Issued : status[u] = "cancelled" => status'[u] = "cancelled"
    BY <1>3, <1>4
  <2> QED
    BY <1>2, <1>4, <2>1
    DEF ObjectsInv, PublishedWhole, recordVars, flowVars, fileVars, ObjectsOf
<1>8. Strays'
  BY <1>2, <1>4 DEF ObjectsInv, Strays, fileVars
<1> QED
  BY <1>5, <1>6, <1>7, <1>8 DEF ObjectsInv

LEMMA CommitDeleteStep ==
  ASSUME ObjectsInv, NEW t \in Issued, CommitStorageDelete(t)
  PROVE  ObjectsInv'
<1> USE ObjectsAssumption
<1>1. t \in Tickets
  BY IssuedIs DEF Tickets
<1>2. /\ UNCHANGED <<recordVars, flowVars, versionOf, metadata, uploading, about, by, rowGone,
                     expired, admins>>
      /\ t \in deleting /\ deleting' = deleting \ {t} /\ stored' = stored \ {about[t]}
      /\ status' = [status EXCEPT ![t] = IF @ = "completed" THEN @ ELSE "storage_deleted"]
      /\ unconfirmed' = [unconfirmed EXCEPT ![t] = TRUE]
  BY DEF CommitStorageDelete
<1>3. /\ status' \in [Tickets -> Active \cup {"none", "completed", "cancelled"}]
      /\ \A u \in Tickets : u # t => status'[u] = status[u]
      /\ status[t] \in {"requested", "orphaned", "completed"}
      /\ status'[t] = IF status[t] = "completed" THEN "completed" ELSE "storage_deleted"
  BY <1>1, <1>2 DEF ObjectsInv, ObjectsTypeOK, TicketsHold, Active
<1>4. Issued' = Issued /\ Issued \subseteq Tickets
  BY <1>2, IssuedIs DEF Issued, Tickets
<1>5. ObjectsTypeOK'
  BY <1>1, <1>2, <1>3, <1>4 DEF ObjectsInv, ObjectsTypeOK, recordVars, flowVars
<1>6. TicketsHold'
  <2>1. \A u \in Tickets : rowGone[u] => status'[u] \in Finished
    BY <1>3 DEF ObjectsInv, TicketsHold, Finished
  <2>2. \A u \in Issued : /\ status'[u] # "none"
                          /\ status'[u] \in {"orphaned", "completed"} => status'[u] = status[u]
                          /\ status[u] = "cancelled" => status'[u] = "cancelled"
    BY <1>3, <1>4 DEF ObjectsInv, TicketsHold
  <2>3. \A u \in deleting' : status'[u] = status[u] /\ u \in deleting
    BY <1>2, <1>3, <1>4 DEF ObjectsInv, ObjectsTypeOK
  <2> QED
    BY <1>2, <1>4, <2>1, <2>2, <2>3 DEF ObjectsInv, TicketsHold
<1>7. PublishedWhole'
  <2>1. \A u \in Issued : status[u] = "cancelled" => status'[u] = "cancelled"
    BY <1>3, <1>4
  <2>2. \A p \in publications : about[t] \notin p.objects
    BY <1>3 DEF ObjectsInv, PublishedWhole
  <2> QED
    BY <1>2, <1>4, <2>1, <2>2 DEF ObjectsInv, PublishedWhole, recordVars, flowVars, ObjectsOf
<1>8. Strays'
  BY <1>2, <1>4 DEF ObjectsInv, Strays
<1> QED
  BY <1>5, <1>6, <1>7, <1>8 DEF ObjectsInv

LEMMA FinalizeStep ==
  ASSUME ObjectsInv, NEW a \in Admins, NEW t \in Issued, FinalizeDelete(a, t)
  PROVE  ObjectsInv'
<1> USE ObjectsAssumption
<1>1. t \in Tickets /\ about[t] \in Objects
  BY IssuedIs DEF Tickets
<1>2. /\ UNCHANGED <<recordVars, flowVars, versionOf, stored, uploading, about, by, expired,
                     deleting, admins>>
      /\ t \notin deleting /\ status[t] \in Active \cup {"completed"}
      /\ metadata' = metadata \ {about[t]} /\ rowGone' = [rowGone EXCEPT ![t] = TRUE]
      /\ \E s \in {"completed", "orphaned"} : status' = [status EXCEPT ![t] = s]
  BY DEF FinalizeDelete, Finalizable
<1>3. unconfirmed' \in [Tickets -> BOOLEAN]
  <2>1. PICK b : unconfirmed' = [unconfirmed EXCEPT ![t] = unconfirmed[t] /\ b]
    BY DEF FinalizeDelete
  <2> QED
    BY <1>1, <2>1 DEF ObjectsInv, ObjectsTypeOK
<1>4. /\ status' \in [Tickets -> Active \cup {"none", "completed", "cancelled"}]
      /\ \A u \in Tickets : u # t => status'[u] = status[u]
      /\ status'[t] \in {"completed", "orphaned"}
      /\ rowGone' \in [Tickets -> BOOLEAN] /\ rowGone'[t]
      /\ \A u \in Tickets : u # t => rowGone'[u] = rowGone[u]
  BY <1>1, <1>2 DEF ObjectsInv, ObjectsTypeOK, Active
<1>5. Issued' = Issued /\ Issued \subseteq Tickets
  BY <1>2, IssuedIs DEF Issued, Tickets
<1>6. status[t] # "cancelled"
  BY <1>2 DEF Active
<1>7. ObjectsTypeOK'
  BY <1>1, <1>2, <1>3, <1>4, <1>5 DEF ObjectsInv, ObjectsTypeOK, recordVars, flowVars
<1>8. TicketsHold'
  <2>1. \A u \in Tickets : rowGone'[u] =>
           u \in Issued /\ status'[u] \in Finished /\ about[u] \notin metadata'
    BY <1>2, <1>4 DEF ObjectsInv, TicketsHold, Finished
  <2>2. \A u \in Issued : /\ status'[u] # "none"
                          /\ status'[u] \in {"orphaned", "completed"} => rowGone'[u]
                          /\ status[u] = "cancelled" => status'[u] = "cancelled"
    BY <1>4, <1>5, <1>6 DEF ObjectsInv, TicketsHold
  <2>3. \A u \in deleting : status'[u] = status[u]
    BY <1>2, <1>4, <1>5 DEF ObjectsInv, ObjectsTypeOK
  <2>4. \A u, w \in Issued : u # w /\ about[u] = about[w] =>
           status'[u] = "cancelled" \/ status'[w] = "cancelled"
    BY <2>2 DEF ObjectsInv, TicketsHold
  <2>5. \A u \in Issued : status'[u] \in {"orphaned", "completed"} => rowGone'[u]
    BY <2>2 DEF ObjectsInv, TicketsHold
  <2>6. \A u \in deleting : status'[u] \in {"requested", "orphaned", "completed"}
    BY <2>3 DEF ObjectsInv, TicketsHold
  <2> QED
    BY <1>2, <1>5, <2>1, <2>2, <2>4, <2>5, <2>6 DEF ObjectsInv, TicketsHold
<1>9. PublishedWhole'
  <2>1. \A u \in Issued : status[u] = "cancelled" => status'[u] = "cancelled"
    BY <1>4, <1>5, <1>6
  <2>2. \A p \in publications : about[t] \notin p.objects
    BY <1>6 DEF ObjectsInv, PublishedWhole
  <2>3. \A p \in publications : ObjectsOf(p.version)' = p.objects
    BY <1>2, <2>2 DEF ObjectsInv, PublishedWhole, ObjectsOf
  <2> QED
    BY <1>2, <1>5, <2>1, <2>3 DEF ObjectsInv, PublishedWhole, recordVars, flowVars
<1>10. Strays'
  BY <1>2, <1>4, <1>5 DEF ObjectsInv, Strays
<1> QED
  BY <1>7, <1>8, <1>9, <1>10 DEF ObjectsInv

LEMMA ObjectsStep == ObjectsInv /\ [ObjectsNext]_objectVars => ObjectsInv'
<1> SUFFICES ASSUME ObjectsInv, [ObjectsNext]_objectVars PROVE ObjectsInv'
  OBVIOUS
<1>1. CASE \E a \in Admins : LoseAdmin(a)
  <2>1. UNCHANGED <<recordVars, flowVars, fileVars, ticketVars>> /\ admins' \subseteq admins
    BY <1>1 DEF LoseAdmin
  <2> QED
    BY <2>1 DEF ObjectsInv, ObjectsTypeOK, TicketsHold, PublishedWhole, Strays, recordVars,
                flowVars, fileVars, ticketVars, Issued, ObjectsOf
<1>2. CASE UNCHANGED objectVars
  BY <1>2 DEF ObjectsInv, ObjectsTypeOK, TicketsHold, PublishedWhole, Strays, recordVars,
              flowVars, fileVars, ticketVars, objectVars, Issued, ObjectsOf
<1> QED
  BY <1>1, <1>2, RecordSteps, FlowSteps, SignStep, AddObjectStep, UploadSteps, BeginDeleteStep,
     TicketSteps, CommitDeleteStep, FinalizeStep DEF ObjectsNext

(* Signatures, uploads and deletions keep the account of what every ticket  *)
(* and every publication says of the objects.                               *)
THEOREM ObjectsInvHolds == ObjectsSpec => []ObjectsInv
<1> QED
  BY ObjectsBegin, ObjectsStep, PTL DEF ObjectsSpec

(* SignedObjectsKept for any number of objects, administrators, uploads and *)
(* tickets: a delete or an upload that was under way when the record was    *)
(* signed takes nothing from it (0013, the guards of the ticket functions   *)
(* and of capture_signed_publication).                                      *)
THEOREM SignedStaysWhole == ObjectsSpec => []SignedObjectsKept
<1>1. ASSUME ObjectsInv PROVE SignedObjectsKept
  <2>1. ASSUME NEW p \in publications, NEW o \in p.objects PROVE Downloadable(o)
    <3>1. /\ o \in stored /\ o \in metadata
          /\ \A t \in Issued : about[t] = o => status[t] = "cancelled"
      BY <1>1 DEF ObjectsInv, PublishedWhole, ObjectsOf
    <3>2. \A t \in Issued : about[t] = o => ~rowGone[t]
      BY <1>1, <3>1, IssuedTickets DEF ObjectsInv, TicketsHold, Finished
    <3> QED
      BY <3>1, <3>2 DEF Downloadable
  <2> QED
    BY <1>1, <2>1 DEF SignedObjectsKept, ObjectsInv, PublishedWhole
<1> QED
  BY <1>1, ObjectsInvHolds, PTL

(* StrayIsHeld likewise: an upload that ended after its object was deleted  *)
(* leaves nothing that no ticket lets an administrator delete               *)
(* (list_pending_encrypted_object_deletes and the policy of the storage).   *)
THEOREM StraysAreHeld == ObjectsSpec => []StrayIsHeld
<1>1. ASSUME ObjectsInv PROVE StrayIsHeld
  <2> SUFFICES ASSUME NEW o \in stored \ metadata
               PROVE  \E t \in Issued : /\ about[t] = o /\ rowGone[t] /\ Listed(t)
                                        /\ Deletable(t) \/ status[t] = "storage_deleted"
    BY DEF StrayIsHeld
  <2>1. PICK t \in Issued : about[t] = o /\ rowGone[t]
    BY <1>1 DEF ObjectsInv, ObjectsTypeOK, Strays
  <2>2. status[t] \in Finished
    BY <1>1, <2>1, IssuedTickets DEF ObjectsInv, TicketsHold
  <2>3. Listed(t)
    BY <2>1, <2>2 DEF Listed, Finished, Active
  <2>4. ~SignedObject(o)
    BY <1>1 DEF SignedObject, ObjectsInv, PublishedWhole, ObjectsOf
  <2>5. Newest(t)
    <3>1. PICK n \in 0 .. MaxTickets : n = Len(about) /\ Issued = 1 .. n
      BY <1>1, IssuedIs
    <3>2. \A u \in (t + 1) .. n : u \in Issued /\ u # t
      BY <3>1, ObjectsAssumption
    <3> QED
      BY <1>1, <2>2, <3>1, <3>2 DEF Newest, ObjectsInv, TicketsHold, Finished
  <2> QED
    BY <2>1, <2>2, <2>3, <2>4, <2>5 DEF Deletable, Finished
<1> QED
  BY <1>1, ObjectsInvHolds, PTL

-----------------------------------------------------------------------------
(* The key ring.                                                            *)

KeyNumbers == 0 .. MaxKeys
Rows == [body : Nat, kv : KeyNumbers, wrap : [body : Nat, kv : KeyNumbers, key : KeyNumbers]]
Users == Members \cup {Owner}

Pairings == [state : {"none", "open", "over"}, user : Users \cup {Nil}]

(* The number of transactions of each request.                              *)
StepCount == [create |-> 3, update |-> 3, pair |-> 4, recover |-> 5, rotate |-> 6]

Tasks == [op : {"idle", "create", "update", "pair", "recover", "rotate"}, at : 0 .. 6,
          rec : Records \cup {Nil}, user : Users \cup {Nil}, dev : Devices \cup {Nil},
          org : KeyNumbers, key : KeyNumbers, kept : [Records -> Rows], devs : SUBSET Devices]

RingTypeOK ==
    /\ boot \in 0 .. BootSteps /\ acknowledged \in BOOLEAN /\ orgVersion \in KeyNumbers
    /\ vault \in [Versions -> KeyNumbers] /\ recovery \in [Versions -> KeyNumbers]
    /\ rows \in [Records -> Rows]
    /\ devUser \in [Devices -> Users \cup {Nil}]
    /\ devStatus \in [Devices -> {"none", "active", "revoked"}]
    /\ sealed \in [Devices -> [Versions -> KeyNumbers]]
    /\ shown \subseteq [v : Versions, key : KeyNumbers]
    /\ member \in [Members -> {"none", "active", "revoked"}]
    /\ pairing \in Pairings /\ task \in [Requests -> Tasks]
    /\ drawn \in KeyNumbers /\ written \in Nat /\ overlapped \in BOOLEAN

(* What a request under way has been given and has read, whatever others do.*)
TaskProper(t) ==
    /\ t.at \in 1 .. StepCount[t.op]
    /\ t.at > 1 => t.org # 0
    /\ t.op \in {"create", "update"} => t.rec \in Records
    /\ t.op \in {"pair", "recover"} => t.dev \in Devices /\ t.user \in Users
    /\ t.op = "rotate" => /\ t.user \in Members \cup {Nil}
                          /\ t.user = Nil => t.dev \in Devices
    /\ t.op = "rotate" /\ t.at = 6 => t.key # 0 /\ t.org < MaxKeys

UnderWay == \A q \in Requests : task[q].op # "idle" => acknowledged /\ TaskProper(task[q])

(* Until the code is acknowledged there is only what the first start made.  *)
Booting ==
    ~acknowledged =>
        /\ orgVersion = IF boot = 0 THEN 0 ELSE 1
        /\ \A v \in Versions : /\ vault[v] = IF v = 1 /\ boot > 2 THEN 1 ELSE 0
                               /\ recovery[v] = IF v = 1 /\ boot > 5 THEN 1 ELSE 0
                               /\ \A d \in Devices :
                                      sealed[d][v] = IF d = Desktop /\ v = 1 /\ boot > 4
                                                     THEN 1 ELSE 0
        /\ \A d \in Devices : devStatus[d] = IF d = Desktop /\ boot > 1 THEN "active" ELSE "none"
        /\ \A r \in Records : rows[r] = NoRow
        /\ shown = {} /\ overlapped = FALSE

Acknowledged == acknowledged => boot = BootSteps /\ orgVersion # 0

CodesKept == \A c \in shown : recovery[c.v] = c.key /\ c.key # 0

(* The rest holds while requests come one after the other.                  *)
Sound ==
    /\ vault[orgVersion] # 0 /\ recovery[orgVersion] = vault[orgVersion]
    /\ \A r \in Records : rows[r] # NoRow =>
           rows[r].kv = orgVersion /\ Opens(vault[orgVersion], rows[r])
    /\ \A d \in Devices :
           \/ sealed[d][orgVersion] = 0
           \/ devStatus[d] = "active" /\ sealed[d][orgVersion] = vault[orgVersion]
    /\ \A v \in Versions : v > orgVersion =>
           recovery[v] = 0 /\ \A d \in Devices : sealed[d][v] = 0

(* What the one request under way has read is still so.                     *)
HasKey(t) ==
    \/ t.op \in {"create", "update"} /\ t.at = 3
    \/ t.op = "pair" /\ t.at = 4
    \/ t.op = "recover" /\ t.at > 2
    \/ t.op = "rotate" /\ t.at \in 3 .. 5

HasDevice(t) ==
    \/ t.op = "pair" /\ t.at > 2
    \/ t.op = "recover" /\ t.at = 5

Knows(t) ==
    /\ t.at > 1 => t.org = orgVersion
    /\ HasKey(t) => t.key = vault[orgVersion]
    /\ HasDevice(t) => devStatus[t.dev] = "active"
    /\ t.op = "rotate" /\ t.at < 5 => Revoked(t) \subseteq t.devs
    /\ t.op = "rotate" /\ t.at > 3 => t.kept = rows
    /\ t.op = "rotate" /\ t.at > 4 => t.devs \subseteq ActiveDevices \ Revoked(t)
    /\ t.op = "rotate" /\ t.at = 6 => vault[orgVersion + 1] = t.key

OneByOne ==
    acknowledged /\ ~overlapped =>
        /\ Sound
        /\ \A q \in Requests : task[q].op # "idle" => Knows(task[q])
        /\ \A p, q \in Requests : task[p].op # "idle" /\ task[q].op # "idle" => p = q

RingInv == RingTypeOK /\ UnderWay /\ Booting /\ Acknowledged /\ CodesKept /\ OneByOne

-----------------------------------------------------------------------------
TaskMoves(q, n) ==
    /\ n \in Tasks /\ task' \in [Requests -> Tasks] /\ task'[q] = n
    /\ \A p \in Requests : p # q => task'[p] = task[p]

(* n is what t becomes by its step.                                         *)
Follows(t, n) ==
    \/ n = Idle
    \/ /\ t.at < StepCount[t.op] /\ n.at = t.at + 1 /\ n.op = t.op
       /\ n.rec = t.rec /\ n.user = t.user /\ n.dev = t.dev /\ n.org = t.org
       /\ n.key = t.key /\ n.kept = t.kept /\ n.devs = t.devs

LEMMA IdleTask == Idle \in Tasks /\ Idle.op = "idle" /\ NoRow \in Rows
<1>1. NoRow \in Rows
  BY KeyRingAssumption DEF NoRow, Rows, KeyNumbers
<1>2. PICK k \in [Records -> Rows] : k = [r \in Records |-> NoRow]
  BY <1>1
<1>3. PICK none \in KeyNumbers : none = 0 /\ none \in 0 .. 6
  BY KeyRingAssumption DEF KeyNumbers
<1>4. Idle = [op |-> "idle", at |-> none, rec |-> Nil, user |-> Nil, dev |-> Nil,
              org |-> none, key |-> none, kept |-> k, devs |-> {}]
  BY <1>2, <1>3 DEF Idle
<1>5. Idle \in Tasks
  BY <1>2, <1>3, <1>4 DEF Tasks
<1> QED
  BY <1>1, <1>5 DEF Idle

LEMMA Counts ==
  ASSUME NEW op \in {"create", "update", "pair", "recover", "rotate"}
  PROVE  StepCount[op] \in 3 .. 6 /\ Len(Steps[op]) = StepCount[op]
<1>1. CASE op \in {"create", "update"}
  <2>1. Steps[op] = <<"org", "load", "put">> /\ StepCount[op] = 3
    BY <1>1 DEF Steps, StepCount
  <2> QED
    BY <2>1
<1>2. CASE op = "pair"
  <2>1. Steps[op] = <<"org", "register", "load", "seal">> /\ StepCount[op] = 4
    BY <1>2 DEF Steps, StepCount
  <2> QED
    BY <2>1
<1>3. CASE op = "recover"
  <2>1. Steps[op] = <<"org", "code", "restore", "register", "seal">> /\ StepCount[op] = 5
    BY <1>3 DEF Steps, StepCount
  <2> QED
    BY <2>1
<1>4. CASE op = "rotate"
  <2>1. Steps[op] = <<"org", "load", "records", "devices", "store", "commit">> /\ StepCount[op] = 6
    BY <1>4 DEF Steps, StepCount
  <2> QED
    BY <2>1
<1> QED
  BY <1>1, <1>2, <1>3, <1>4

LEMMA TaskIs ==
  ASSUME RingInv, NEW q \in Requests, task[q].op # "idle"
  PROVE  /\ task[q] \in Tasks /\ TaskProper(task[q]) /\ acknowledged
         /\ task[q].at \in 1 .. StepCount[task[q].op]
         /\ task[q].op \in {"create", "update", "pair", "recover", "rotate"}
  BY DEF RingInv, RingTypeOK, UnderWay, TaskProper, Tasks

LEMMA WhereAt ==
  ASSUME RingInv, NEW q \in Requests, NEW step, At(q, step)
  PROVE  LET t == task[q]
         IN  /\ t.op # "idle"
             /\ step = "org" => t.at = 1
             /\ step = "load" => \/ t.op \in {"create", "update", "rotate"} /\ t.at = 2
                                 \/ t.op = "pair" /\ t.at = 3
             /\ step = "put" => t.op \in {"create", "update"} /\ t.at = 3
             /\ step = "register" => \/ t.op = "pair" /\ t.at = 2
                                     \/ t.op = "recover" /\ t.at = 4
             /\ step = "seal" => \/ t.op = "pair" /\ t.at = 4
                                 \/ t.op = "recover" /\ t.at = 5
             /\ step = "code" => t.op = "recover" /\ t.at = 2
             /\ step = "restore" => t.op = "recover" /\ t.at = 3
             /\ step = "records" => t.op = "rotate" /\ t.at = 3
             /\ step = "devices" => t.op = "rotate" /\ t.at = 4
             /\ step = "store" => t.op = "rotate" /\ t.at = 5
             /\ step = "commit" => t.op = "rotate" /\ t.at = 6
<1>1. task[q].op # "idle" /\ Steps[task[q].op][task[q].at] = step
  BY DEF At
<1>2. PICK op, at : op = task[q].op /\ at = task[q].at
  OBVIOUS
<1>3. /\ op \in {"create", "update", "pair", "recover", "rotate"} /\ at \in 1 .. StepCount[op]
      /\ Steps[op][at] = step
  BY <1>1, <1>2, TaskIs
<1>4. CASE op \in {"create", "update"}
  <2>1. at \in {1, 2, 3} /\ Steps[op] = <<"org", "load", "put">>
    BY <1>3, <1>4 DEF StepCount, Steps
  <2>2. step = IF at = 1 THEN "org" ELSE IF at = 2 THEN "load" ELSE "put"
    BY <1>3, <2>1
  <2> QED
    BY <1>1, <1>2, <1>4, <2>1, <2>2
<1>5. CASE op = "pair"
  <2>1. at \in {1, 2, 3, 4} /\ Steps[op] = <<"org", "register", "load", "seal">>
    BY <1>3, <1>5 DEF StepCount, Steps
  <2>2. step = IF at = 1 THEN "org" ELSE IF at = 2 THEN "register"
               ELSE IF at = 3 THEN "load" ELSE "seal"
    BY <1>3, <2>1
  <2> QED
    BY <1>1, <1>2, <1>5, <2>1, <2>2
<1>6. CASE op = "recover"
  <2>1. at \in {1, 2, 3, 4, 5} /\ Steps[op] = <<"org", "code", "restore", "register", "seal">>
    BY <1>3, <1>6 DEF StepCount, Steps
  <2>2. step = IF at = 1 THEN "org" ELSE IF at = 2 THEN "code" ELSE IF at = 3 THEN "restore"
               ELSE IF at = 4 THEN "register" ELSE "seal"
    BY <1>3, <2>1
  <2> QED
    BY <1>1, <1>2, <1>6, <2>1, <2>2
<1>7. CASE op = "rotate"
  <2>1. /\ at \in {1, 2, 3, 4, 5, 6}
        /\ Steps[op] = <<"org", "load", "records", "devices", "store", "commit">>
    BY <1>3, <1>7 DEF StepCount, Steps
  <2>2. step = IF at = 1 THEN "org" ELSE IF at = 2 THEN "load" ELSE IF at = 3 THEN "records"
               ELSE IF at = 4 THEN "devices" ELSE IF at = 5 THEN "store" ELSE "commit"
    BY <1>3, <2>1
  <2> QED
    BY <1>1, <1>2, <1>7, <2>1, <2>2
<1> QED
  BY <1>3, <1>4, <1>5, <1>6, <1>7

LEMMA Advances ==
  ASSUME RingInv, NEW q \in Requests, task[q].op # "idle",
         NEW t \in Tasks, t.op = task[q].op, t.at = task[q].at, Advance(q, t)
  PROVE  \E n : TaskMoves(q, n) /\ Follows(t, n)
<1>1. t.op \in {"create", "update", "pair", "recover", "rotate"} /\ t.at \in 1 .. StepCount[t.op]
  BY TaskIs
<1>2. Len(Steps[t.op]) = StepCount[t.op] /\ StepCount[t.op] \in 3 .. 6
  BY <1>1, Counts
<1>3. task \in [Requests -> Tasks]
  BY DEF RingInv, RingTypeOK
<1>4. CASE t.at = StepCount[t.op]
  <2>1. task' = [task EXCEPT ![q] = Idle]
    BY <1>2, <1>4 DEF Advance
  <2> QED
    BY <1>3, <2>1, IdleTask DEF TaskMoves, Follows
<1>5. CASE t.at # StepCount[t.op]
  <2>1. PICK k \in 0 .. 6 : k = t.at + 1
    BY <1>1, <1>2, <1>5
  <2>2. PICK n : n = [t EXCEPT !.at = k]
    OBVIOUS
  <2>3. task' = [task EXCEPT ![q] = n]
    BY <1>2, <1>5, <2>1, <2>2 DEF Advance
  <2>4. n \in Tasks
    BY <2>1, <2>2 DEF Tasks
  <2>5. n.at = k /\ n.op = t.op /\ n.rec = t.rec /\ n.user = t.user /\ n.dev = t.dev
        /\ n.org = t.org /\ n.key = t.key /\ n.kept = t.kept /\ n.devs = t.devs
    BY <2>2 DEF Tasks
  <2> QED
    BY <1>1, <1>2, <1>3, <1>5, <2>1, <2>3, <2>4, <2>5 DEF TaskMoves, Follows
<1> QED
  BY <1>4, <1>5

LEMMA RingWorkKeeps ==
  ASSUME RingInv, NEW q \in Requests, task[q].op # "idle", NEW n, TaskMoves(q, n),
         UNCHANGED <<boot, acknowledged, overlapped>>, RingTypeOK', CodesKept',
         orgVersion' # 0, n.op # "idle" => TaskProper(n),
         ~overlapped /\ Sound /\ Knows(task[q])
             => /\ Sound'
                /\ n.op # "idle" => Knows(n)'
  PROVE  RingInv'
<1>1. acknowledged /\ boot = BootSteps
  BY TaskIs DEF RingInv, Acknowledged
<1>2. UnderWay'
  BY <1>1 DEF RingInv, UnderWay, TaskMoves
<1>3. Booting' /\ Acknowledged'
  BY <1>1 DEF Booting, Acknowledged
<1>4. OneByOne'
  <2> SUFFICES ASSUME ~overlapped
               PROVE  /\ Sound'
                      /\ \A p \in Requests : task'[p].op # "idle" => Knows(task[p])'
                      /\ \A p, r \in Requests : task'[p].op # "idle" /\ task'[r].op # "idle"
                                                   => p = r
    BY DEF OneByOne
  <2>1. Sound /\ Knows(task[q]) /\ \A p \in Requests : p # q => task[p].op = "idle"
    BY <1>1 DEF RingInv, OneByOne
  <2>2. \A p \in Requests : p # q => task'[p].op = "idle"
    BY <2>1 DEF TaskMoves
  <2> QED
    BY <2>1, <2>2 DEF TaskMoves
<1> QED
  BY <1>2, <1>3, <1>4 DEF RingInv

(* A step that only reads.                                                  *)
readVars == <<boot, acknowledged, orgVersion, vault, rows, devUser, devStatus, sealed, recovery,
              shown, member, pairing, drawn, written, overlapped>>

LEMMA ReadKeeps ==
  ASSUME RingInv, NEW q \in Requests, task[q].op # "idle", NEW n, TaskMoves(q, n),
         UNCHANGED readVars, n.op # "idle" => TaskProper(n),
         ~overlapped /\ Sound /\ Knows(task[q]) => (n.op # "idle" => Knows(n))
  PROVE  RingInv'
<1>1. RingTypeOK'
  BY DEF RingInv, RingTypeOK, readVars, TaskMoves
<1>2. CodesKept' /\ orgVersion' # 0
  BY TaskIs DEF RingInv, CodesKept, Acknowledged, readVars
<1>3. Sound' = Sound
  BY DEF Sound, Opens, readVars
<1>4. Knows(n)' = Knows(n)
  BY DEF Knows, HasKey, HasDevice, Revoked, ActiveDevices, readVars
<1> QED
  BY <1>1, <1>2, <1>3, <1>4, RingWorkKeeps DEF readVars

LEMMA ReadOrgKeeps ==
  ASSUME RingInv, NEW q \in Requests, ReadOrg(q)
  PROVE  RingInv'
<1>1. PICK t : t = [task[q] EXCEPT !.org = orgVersion]
  OBVIOUS
<1>2. task[q].op # "idle" /\ task[q].at = 1 /\ Advance(q, t) /\ UNCHANGED readVars
  BY <1>1, WhereAt DEF ReadOrg, readVars
<1>3. /\ t \in Tasks /\ t.op = task[q].op /\ t.at = 1 /\ t.org = orgVersion /\ t.rec = task[q].rec
      /\ t.user = task[q].user /\ t.dev = task[q].dev /\ t.devs = task[q].devs
  BY <1>1, <1>2, TaskIs DEF RingInv, RingTypeOK, Tasks
<1>4. PICK n : TaskMoves(q, n) /\ Follows(t, n)
  BY <1>2, <1>3, Advances
<1>5. TaskProper(task[q]) /\ orgVersion # 0 /\ t.op \in {"create", "update", "pair", "recover", "rotate"}
  BY <1>2, <1>3, TaskIs DEF RingInv, Acknowledged
<1>6. n.op # "idle" => n.at = 2 /\ n.at <= StepCount[n.op] /\ StepCount[n.op] \in 3 .. 6
  BY <1>3, <1>4, <1>5, Counts, IdleTask DEF Follows
<1>7. n.op # "idle" => TaskProper(n)
  BY <1>2, <1>3, <1>4, <1>5, <1>6, IdleTask DEF Follows, TaskProper
<1>8. Knows(task[q]) => (n.op # "idle" => Knows(n))
  BY <1>2, <1>3, <1>4, <1>6, IdleTask DEF Follows, Knows, HasKey, HasDevice, Revoked
<1> QED
  BY <1>2, <1>4, <1>7, <1>8, ReadKeeps

LEMMA LoadKeyKeeps ==
  ASSUME RingInv, NEW q \in Requests, LoadKey(q)
  PROVE  RingInv'
<1>1. PICK k : k = vault[task[q].org]
  OBVIOUS
<1>2. PICK t : t = [task[q] EXCEPT !.key = k]
  OBVIOUS
<1>3. task[q].op # "idle" /\ Advance(q, t) /\ UNCHANGED readVars
      /\ \/ task[q].op \in {"create", "update", "rotate"} /\ task[q].at = 2
         \/ task[q].op = "pair" /\ task[q].at = 3
  BY <1>1, <1>2, WhereAt DEF LoadKey, readVars
<1>4. TaskProper(task[q]) /\ task[q].org # 0 /\ task[q].at > 1 /\ task[q] \in Tasks
  BY <1>3, TaskIs DEF TaskProper
<1>5. task[q].org \in Versions /\ k \in KeyNumbers
  <2>1. task[q].org \in Versions
    BY <1>4, KeyRingAssumption DEF Tasks, KeyNumbers, Versions
  <2> QED
    BY <1>1, <2>1 DEF RingInv, RingTypeOK
<1>6. /\ t \in Tasks /\ t.op = task[q].op /\ t.at = task[q].at /\ t.org = task[q].org /\ t.key = k
      /\ t.rec = task[q].rec /\ t.user = task[q].user /\ t.dev = task[q].dev
      /\ t.devs = task[q].devs
  BY <1>2, <1>4, <1>5 DEF Tasks
<1>7. PICK n : TaskMoves(q, n) /\ Follows(t, n)
  BY <1>3, <1>6, Advances
<1>8. n.op # "idle" => n.at \in 3 .. 4 /\ n.at <= StepCount[n.op] /\ StepCount[n.op] \in 3 .. 6
  BY <1>3, <1>6, <1>7, Counts, IdleTask DEF Follows
<1>9. n.op # "idle" => TaskProper(n)
  BY <1>3, <1>4, <1>6, <1>7, <1>8, IdleTask DEF Follows, TaskProper
<1>10. Knows(task[q]) => (n.op # "idle" => Knows(n))
  BY <1>1, <1>3, <1>4, <1>6, <1>7, <1>8, IdleTask DEF Follows, Knows, HasKey, HasDevice, Revoked
<1> QED
  BY <1>3, <1>7, <1>9, <1>10, ReadKeeps

LEMMA OpenRecoveryKeeps ==
  ASSUME RingInv, NEW q \in Requests, OpenRecovery(q)
  PROVE  RingInv'
<1>1. PICK k : k = recovery[task[q].org]
  OBVIOUS
<1>2. PICK t : t = [task[q] EXCEPT !.key = k]
  OBVIOUS
<1>3. task[q].op = "recover" /\ task[q].at = 2 /\ Advance(q, t) /\ UNCHANGED readVars
  BY <1>1, <1>2, WhereAt DEF OpenRecovery, readVars
<1>4. TaskProper(task[q]) /\ task[q].org # 0 /\ task[q] \in Tasks
  BY <1>3, TaskIs DEF TaskProper
<1>5. task[q].org \in Versions /\ k \in KeyNumbers
  <2>1. task[q].org \in Versions
    BY <1>4, KeyRingAssumption DEF Tasks, KeyNumbers, Versions
  <2> QED
    BY <1>1, <2>1 DEF RingInv, RingTypeOK
<1>6. /\ t \in Tasks /\ t.op = task[q].op /\ t.at = task[q].at /\ t.org = task[q].org /\ t.key = k
      /\ t.user = task[q].user /\ t.dev = task[q].dev
  BY <1>2, <1>4, <1>5 DEF Tasks
<1>7. PICK n : TaskMoves(q, n) /\ Follows(t, n)
  BY <1>3, <1>6, Advances
<1>8. n.op # "idle" => TaskProper(n)
  BY <1>3, <1>4, <1>6, <1>7, IdleTask DEF Follows, TaskProper, StepCount
<1>9. Sound /\ Knows(task[q]) => (n.op # "idle" => Knows(n))
  BY <1>1, <1>3, <1>4, <1>6, <1>7, IdleTask DEF Follows, Knows, HasKey, HasDevice, Sound
<1> QED
  BY <1>3, <1>7, <1>8, <1>9, ReadKeeps

LEMMA ListRecordsKeeps ==
  ASSUME RingInv, NEW q \in Requests, ListRecords(q)
  PROVE  RingInv'
<1>1. PICK t : t = [task[q] EXCEPT !.kept = rows]
  OBVIOUS
<1>2. task[q].op = "rotate" /\ task[q].at = 3 /\ Advance(q, t) /\ UNCHANGED readVars
  BY <1>1, WhereAt DEF ListRecords, readVars
<1>3. TaskProper(task[q]) /\ task[q] \in Tasks
  BY <1>2, TaskIs
<1>4. /\ t \in Tasks /\ t.op = task[q].op /\ t.at = task[q].at /\ t.org = task[q].org
      /\ t.key = task[q].key /\ t.user = task[q].user /\ t.dev = task[q].dev
      /\ t.devs = task[q].devs /\ t.kept = rows
  BY <1>1, <1>3 DEF Tasks, RingInv, RingTypeOK
<1>5. PICK n : TaskMoves(q, n) /\ Follows(t, n)
  BY <1>2, <1>4, Advances
<1>6. n.op # "idle" => TaskProper(n)
  BY <1>2, <1>3, <1>4, <1>5, IdleTask DEF Follows, TaskProper, StepCount
<1>7. Knows(task[q]) => (n.op # "idle" => Knows(n))
  BY <1>2, <1>4, <1>5, IdleTask DEF Follows, Knows, HasKey, HasDevice, Revoked
<1> QED
  BY <1>2, <1>5, <1>6, <1>7, ReadKeeps

LEMMA ListDevicesKeeps ==
  ASSUME RingInv, NEW q \in Requests, ListDevices(q)
  PROVE  RingInv'
<1>1. PICK ds : ds = ActiveDevices \ task[q].devs
  OBVIOUS
<1>2. PICK t : t = [task[q] EXCEPT !.devs = ds]
  OBVIOUS
<1>3. task[q].op = "rotate" /\ task[q].at = 4 /\ Advance(q, t) /\ UNCHANGED readVars
  BY <1>1, <1>2, WhereAt DEF ListDevices, readVars
<1>4. TaskProper(task[q]) /\ task[q] \in Tasks /\ ds \in SUBSET Devices
  BY <1>1, <1>3, TaskIs DEF ActiveDevices
<1>5. /\ t \in Tasks /\ t.op = task[q].op /\ t.at = task[q].at /\ t.org = task[q].org
      /\ t.key = task[q].key /\ t.user = task[q].user /\ t.dev = task[q].dev
      /\ t.kept = task[q].kept /\ t.devs = ds
  BY <1>2, <1>4 DEF Tasks
<1>6. PICK n : TaskMoves(q, n) /\ Follows(t, n)
  BY <1>3, <1>5, Advances
<1>7. n.op # "idle" => TaskProper(n)
  BY <1>3, <1>4, <1>5, <1>6, IdleTask DEF Follows, TaskProper, StepCount
<1>8. Knows(task[q]) => (n.op # "idle" => Knows(n))
  BY <1>1, <1>3, <1>5, <1>6, IdleTask DEF Follows, Knows, HasKey, HasDevice, Revoked
<1> QED
  BY <1>3, <1>6, <1>7, <1>8, ReadKeeps

LEMMA StopKeeps ==
  ASSUME RingInv, NEW q \in Requests, Stop(q)
  PROVE  RingInv'
<1>1. task \in [Requests -> Tasks]
  BY DEF RingInv, RingTypeOK
<1>2. TaskMoves(q, Idle) /\ UNCHANGED readVars
  BY <1>1, IdleTask DEF Stop, TaskMoves, readVars
<1>3. CASE task[q].op # "idle"
  BY <1>2, <1>3, IdleTask, ReadKeeps
<1>4. CASE task[q].op = "idle"
  <2>1. \A p \in Requests : task'[p].op # "idle" => task'[p] = task[p] /\ task[p].op # "idle"
    BY <1>2, IdleTask DEF TaskMoves
  <2>2. RingTypeOK'
    BY <1>2 DEF RingInv, RingTypeOK, readVars, TaskMoves
  <2>3. UnderWay'
    BY <1>2, <2>1 DEF RingInv, UnderWay, readVars
  <2>4. Booting' /\ Acknowledged' /\ CodesKept'
    BY <1>2 DEF RingInv, Booting, Acknowledged, CodesKept, readVars
  <2>5. Sound' = Sound /\ \A t : Knows(t)' = Knows(t)
    BY <1>2 DEF Sound, Opens, Knows, HasKey, HasDevice, Revoked, ActiveDevices, readVars
  <2>6. OneByOne'
    BY <1>2, <2>1, <2>5 DEF RingInv, OneByOne, readVars
  <2> QED
    BY <2>2, <2>3, <2>4, <2>6 DEF RingInv
<1> QED
  BY <1>3, <1>4

LEMMA PutKeeps ==
  ASSUME RingInv, NEW q \in Requests, Put(q)
  PROVE  RingInv'
<1>1. PICK t \in Tasks : t = task[q]
  BY DEF RingInv, RingTypeOK
<1>2. PICK b \in Nat : b = written + 1 /\ b # 0
  BY DEF RingInv, RingTypeOK
<1>3. PICK w : w = [body |-> b, kv |-> t.org, key |-> t.key]
  OBVIOUS
<1>4. PICK line : line = [body |-> b, kv |-> t.org, wrap |-> w]
  OBVIOUS
<1>5. t.op \in {"create", "update"} /\ t.at = 3
  BY <1>1, WhereAt DEF Put
<1>6. TaskProper(t) /\ t.rec \in Records
  BY <1>1, <1>5, TaskIs DEF TaskProper
<1>7. /\ rows' = [rows EXCEPT ![t.rec] = line] /\ written' = b /\ Advance(q, t)
      /\ UNCHANGED <<boot, acknowledged, orgVersion, vault, devUser, devStatus, sealed,
                     recovery, shown, member, pairing, drawn, overlapped>>
  BY <1>1, <1>2, <1>3, <1>4 DEF Put
<1>8. PICK n : TaskMoves(q, n) /\ n = Idle
  BY <1>1, <1>5, <1>7, Advances DEF Follows, StepCount
<1>9. line \in Rows /\ rows' \in [Records -> Rows] /\ rows'[t.rec] = line
      /\ \A r \in Records : r # t.rec => rows'[r] = rows[r]
  <2>1. t.org \in KeyNumbers /\ t.key \in KeyNumbers
    BY DEF Tasks
  <2>2. w \in [body : Nat, kv : KeyNumbers, key : KeyNumbers]
    BY <1>3, <2>1
  <2>3. line \in Rows
    BY <1>4, <2>1, <2>2 DEF Rows
  <2> QED
    BY <1>6, <1>7, <2>3 DEF RingInv, RingTypeOK
<1>10. RingTypeOK'
  BY <1>2, <1>7, <1>8, <1>9 DEF RingInv, RingTypeOK, TaskMoves
<1>11. CodesKept' /\ orgVersion' # 0
  BY <1>1, <1>5, <1>7, TaskIs DEF RingInv, CodesKept, Acknowledged
<1>12. ASSUME Sound, Knows(t) PROVE Sound'
  <2>1. t.org = orgVersion /\ t.key = vault[orgVersion]
    BY <1>5, <1>12 DEF Knows, HasKey
  <2>2. line.kv = orgVersion /\ Opens(vault[orgVersion], line)
    BY <1>3, <1>4, <1>12, <2>1 DEF Opens, Sound
  <2>3. \A r \in Records : rows'[r] # NoRow =>
           rows'[r].kv = orgVersion /\ Opens(vault[orgVersion], rows'[r])
    BY <1>9, <1>12, <2>2 DEF Sound
  <2> QED
    BY <1>7, <1>12, <2>3 DEF Sound, Opens
<1> QED
  BY <1>1, <1>5, <1>7, <1>8, <1>10, <1>11, <1>12, IdleTask, RingWorkKeeps

LEMMA RegisterKeeps ==
  ASSUME RingInv, NEW q \in Requests, Register(q)
  PROVE  RingInv'
<1>1. PICK t \in Tasks : t = task[q]
  BY DEF RingInv, RingTypeOK
<1>2. \/ t.op = "pair" /\ t.at = 2
      \/ t.op = "recover" /\ t.at = 4
  BY <1>1, WhereAt DEF Register
<1>3. TaskProper(t) /\ t.dev \in Devices /\ t.user \in Users
  BY <1>1, <1>2, TaskIs DEF TaskProper
<1>4. /\ devStatus' = [devStatus EXCEPT ![t.dev] = "active"]
      /\ devUser' = [devUser EXCEPT ![t.dev] = t.user] /\ Advance(q, t)
      /\ UNCHANGED <<boot, acknowledged, orgVersion, vault, rows, sealed, recovery, shown,
                     member, pairing, drawn, written, overlapped>>
  BY <1>1 DEF Register
<1>5. PICK n : TaskMoves(q, n) /\ Follows(t, n)
  BY <1>1, <1>2, <1>4, Advances
<1>6. n.op # "idle" => n.op \in {"pair", "recover"} /\ n.at = t.at + 1 /\ n.at <= StepCount[n.op]
  BY <1>2, <1>5, IdleTask DEF Follows, StepCount
<1>7. n.op # "idle" => TaskProper(n)
  BY <1>2, <1>3, <1>5, <1>6, IdleTask DEF Follows, TaskProper, StepCount
<1>8. /\ devStatus' \in [Devices -> {"none", "active", "revoked"}] /\ devStatus'[t.dev] = "active"
      /\ \A d \in Devices : d # t.dev => devStatus'[d] = devStatus[d]
      /\ devUser' \in [Devices -> Users \cup {Nil}]
  BY <1>3, <1>4 DEF RingInv, RingTypeOK
<1>9. RingTypeOK'
  BY <1>4, <1>5, <1>8 DEF RingInv, RingTypeOK, TaskMoves
<1>10. CodesKept' /\ orgVersion' # 0
  BY <1>1, <1>2, <1>4, TaskIs DEF RingInv, CodesKept, Acknowledged
<1>11. Sound => Sound'
  BY <1>4, <1>8 DEF Sound, Opens
<1>12. Knows(t) => (n.op # "idle" => Knows(n)')
  BY <1>2, <1>4, <1>5, <1>6, <1>8, IdleTask DEF Follows, Knows, HasKey, HasDevice
<1> QED
  BY <1>1, <1>2, <1>4, <1>5, <1>7, <1>9, <1>10, <1>11, <1>12, RingWorkKeeps

LEMMA SealKeeps ==
  ASSUME RingInv, NEW q \in Requests, Seal(q)
  PROVE  RingInv'
<1>1. PICK t \in Tasks : t = task[q]
  BY DEF RingInv, RingTypeOK
<1>2. \/ t.op = "pair" /\ t.at = 4
      \/ t.op = "recover" /\ t.at = 5
  BY <1>1, WhereAt DEF Seal
<1>3. t.dev \in Devices /\ t.org \in Versions /\ t.key \in KeyNumbers
  <2>1. TaskProper(t)
    BY <1>1, <1>2, TaskIs
  <2> QED
    BY <1>2, <2>1, KeyRingAssumption DEF TaskProper, Tasks, KeyNumbers, Versions
<1>4. /\ sealed' = [sealed EXCEPT ![t.dev][t.org] = t.key] /\ Advance(q, t)
      /\ UNCHANGED <<boot, acknowledged, orgVersion, vault, rows, devUser, devStatus,
                     recovery, shown, member, pairing, drawn, written, overlapped>>
  BY <1>1 DEF Seal
<1>5. PICK n : TaskMoves(q, n) /\ n = Idle
  <2>1. PICK m : TaskMoves(q, m) /\ Follows(t, m)
    BY <1>1, <1>2, <1>4, Advances
  <2>2. m = Idle
    BY <1>2, <2>1 DEF Follows, StepCount
  <2> QED
    BY <2>1, <2>2
<1>6. /\ sealed' \in [Devices -> [Versions -> KeyNumbers]] /\ sealed'[t.dev][t.org] = t.key
      /\ \A d \in Devices, v \in Versions : d # t.dev \/ v # t.org => sealed'[d][v] = sealed[d][v]
  BY <1>3, <1>4 DEF RingInv, RingTypeOK
<1>7. RingTypeOK'
  BY <1>4, <1>5, <1>6 DEF RingInv, RingTypeOK, TaskMoves
<1>8. CodesKept' /\ orgVersion' # 0
  BY <1>1, <1>2, <1>4, TaskIs DEF RingInv, CodesKept, Acknowledged
<1>9. ASSUME Sound, Knows(t) PROVE Sound'
  <2>1. t.org = orgVersion /\ t.key = vault[orgVersion] /\ devStatus[t.dev] = "active"
    BY <1>2, <1>9 DEF Knows, HasKey, HasDevice
  <2>2. PICK v \in Versions : v = orgVersion
    BY <1>3, <2>1
  <2>3. \A d \in Devices : \/ sealed'[d][v] = 0
                           \/ devStatus[d] = "active" /\ sealed'[d][v] = vault[v]
    BY <1>6, <1>9, <2>1, <2>2 DEF Sound
  <2>4. \A d \in Devices, u \in Versions : u > v => sealed'[d][u] = 0
    <3>1. \A u \in Versions : u > v => u # t.org
      BY <2>1, <2>2 DEF Versions
    <3> QED
      BY <1>6, <1>9, <2>2, <3>1 DEF Sound
  <2> QED
    BY <1>4, <1>9, <2>2, <2>3, <2>4 DEF Sound, Opens
<1> QED
  BY <1>1, <1>2, <1>4, <1>5, <1>7, <1>8, <1>9, IdleTask, RingWorkKeeps

LEMMA RestoreKeeps ==
  ASSUME RingInv, NEW q \in Requests, Restore(q)
  PROVE  RingInv'
<1>1. PICK t \in Tasks : t = task[q]
  BY DEF RingInv, RingTypeOK
<1>2. t.op = "recover" /\ t.at = 3
  BY <1>1, WhereAt DEF Restore
<1>3. TaskProper(t) /\ t.org \in Versions /\ t.key \in KeyNumbers
  <2>1. TaskProper(t)
    BY <1>1, <1>2, TaskIs
  <2> QED
    BY <1>2, <2>1, KeyRingAssumption DEF TaskProper, Tasks, KeyNumbers, Versions
<1>4. /\ vault' = [vault EXCEPT ![t.org] = t.key] /\ Advance(q, t)
      /\ UNCHANGED <<boot, acknowledged, orgVersion, rows, devUser, devStatus, sealed,
                     recovery, shown, member, pairing, drawn, written, overlapped>>
  BY <1>1 DEF Restore
<1>5. PICK n : TaskMoves(q, n) /\ Follows(t, n)
  BY <1>1, <1>2, <1>4, Advances
<1>6. n.op # "idle" => TaskProper(n)
  BY <1>2, <1>3, <1>5, IdleTask DEF Follows, TaskProper, StepCount
<1>7. vault' \in [Versions -> KeyNumbers]
  BY <1>3, <1>4 DEF RingInv, RingTypeOK
<1>8. RingTypeOK'
  BY <1>4, <1>5, <1>7 DEF RingInv, RingTypeOK, TaskMoves
<1>9. CodesKept' /\ orgVersion' # 0
  BY <1>1, <1>2, <1>4, TaskIs DEF RingInv, CodesKept, Acknowledged
<1>10. Knows(t) => vault' = vault
  BY <1>2, <1>3, <1>4 DEF Knows, HasKey, RingInv, RingTypeOK
<1>11. Sound /\ Knows(t) => Sound'
  BY <1>4, <1>10 DEF Sound, Opens
<1>12. Knows(t) => (n.op # "idle" => Knows(n)')
  BY <1>2, <1>4, <1>5, <1>10, IdleTask DEF Follows, Knows, HasKey, HasDevice
<1> QED
  BY <1>1, <1>2, <1>4, <1>5, <1>6, <1>8, <1>9, <1>11, <1>12, RingWorkKeeps

LEMMA StoreNewKeeps ==
  ASSUME RingInv, NEW q \in Requests, StoreNew(q)
  PROVE  RingInv'
<1>1. PICK t \in Tasks : t = task[q]
  BY DEF RingInv, RingTypeOK
<1>2. t.op = "rotate" /\ t.at = 5 /\ TaskProper(t) /\ t.org \in Versions /\ t.org < MaxKeys
  <2>1. t.op = "rotate" /\ t.at = 5 /\ TaskProper(t) /\ t.org < MaxKeys
    BY <1>1, WhereAt, TaskIs DEF StoreNew
  <2> QED
    BY <2>1, KeyRingAssumption DEF TaskProper, Tasks, KeyNumbers, Versions
<1>3. PICK k \in KeyNumbers : k = drawn + 1 /\ k # 0
  BY KeyRingAssumption DEF StoreNew, RingInv, RingTypeOK, KeyNumbers
<1>4. PICK v \in Versions : v = t.org + 1
  BY <1>2, KeyRingAssumption DEF Versions
<1>5. PICK u : u = [t EXCEPT !.key = k]
  OBVIOUS
<1>6. /\ drawn' = k /\ vault' = [vault EXCEPT ![v] = k] /\ Advance(q, u)
      /\ UNCHANGED <<boot, acknowledged, orgVersion, rows, devUser, devStatus, sealed,
                     recovery, shown, member, pairing, written, overlapped>>
  BY <1>1, <1>3, <1>4, <1>5 DEF StoreNew
<1>7. /\ u \in Tasks /\ u.op = t.op /\ u.at = t.at /\ u.org = t.org /\ u.key = k
      /\ u.user = t.user /\ u.dev = t.dev /\ u.kept = t.kept /\ u.devs = t.devs
  BY <1>5 DEF Tasks
<1>8. PICK n : TaskMoves(q, n) /\ Follows(u, n)
  BY <1>1, <1>2, <1>6, <1>7, Advances
<1>9. n.op # "idle" => TaskProper(n)
  BY <1>2, <1>3, <1>7, <1>8, IdleTask DEF Follows, TaskProper, StepCount
<1>10. vault' \in [Versions -> KeyNumbers] /\ vault'[v] = k
       /\ \A w \in Versions : w # v => vault'[w] = vault[w]
  BY <1>6 DEF RingInv, RingTypeOK
<1>11. RingTypeOK'
  BY <1>3, <1>6, <1>8, <1>10 DEF RingInv, RingTypeOK, TaskMoves
<1>12. CodesKept' /\ orgVersion' # 0
  BY <1>1, <1>2, <1>6, TaskIs DEF RingInv, CodesKept, Acknowledged
<1>13. Knows(t) => orgVersion = t.org /\ vault'[orgVersion] = vault[orgVersion]
  <2>1. t.org # v
    BY <1>2, <1>4 DEF Versions
  <2> QED
    BY <1>2, <1>10, <2>1 DEF Knows
<1>14. Sound /\ Knows(t) => Sound'
  BY <1>6, <1>13 DEF Sound, Opens
<1>15. Knows(t) => (n.op # "idle" => Knows(n)')
  BY <1>2, <1>4, <1>6, <1>7, <1>8, <1>10, <1>13, IdleTask
  DEF Follows, Knows, HasKey, HasDevice, Revoked, ActiveDevices
<1> QED
  BY <1>1, <1>2, <1>6, <1>8, <1>9, <1>11, <1>12, <1>14, <1>15, RingWorkKeeps

LEMMA CommitKeeps ==
  ASSUME RingInv, NEW q \in Requests, Commit(q)
  PROVE  RingInv'
<1>1. PICK t \in Tasks : t = task[q]
  BY DEF RingInv, RingTypeOK
<1>2. t.op = "rotate" /\ t.at = 6 /\ TaskProper(t) /\ t.key # 0 /\ t.org # 0 /\ t.org < MaxKeys
  BY <1>1, WhereAt, TaskIs DEF Commit, TaskProper
<1>3. PICK v \in Versions : v = t.org + 1 /\ v > t.org /\ v \in KeyNumbers
  BY <1>2, KeyRingAssumption DEF Versions, Tasks, KeyNumbers
<1>4. PICK k \in KeyNumbers : k = t.key /\ k # 0
  BY <1>2 DEF Tasks
<1>5. /\ CommitAllowed(t) /\ Advance(q, t) /\ rows' = Rewrapped(t) /\ orgVersion' = v
      /\ devStatus' = [d \in Devices |-> IF d \in Revoked(t) THEN "revoked" ELSE devStatus[d]]
      /\ member' = IF t.user = Nil THEN member ELSE [member EXCEPT ![t.user] = "revoked"]
      /\ sealed' = [d \in Devices |->
             IF d \in t.devs THEN [sealed[d] EXCEPT ![v] = k] ELSE sealed[d]]
      /\ recovery' = [recovery EXCEPT ![v] = k]
      /\ shown' \in {shown, shown \cup {[v |-> v, key |-> k]}}
      /\ UNCHANGED <<boot, acknowledged, vault, devUser, pairing, drawn, written, overlapped>>
  BY <1>1, <1>3, <1>4 DEF Commit
<1>6. PICK n : TaskMoves(q, n) /\ n = Idle
  <2>1. PICK m : TaskMoves(q, m) /\ Follows(t, m)
    BY <1>1, <1>2, <1>5, Advances
  <2>2. m = Idle
    BY <1>2, <2>1 DEF Follows, StepCount
  <2> QED
    BY <2>1, <2>2
<1>7. ASSUME NEW r \in Records
      PROVE  /\ rows'[r] \in Rows
             /\ t.kept[r] = NoRow => rows'[r] = rows[r]
             /\ t.kept[r] = rows[r] /\ rows[r] # NoRow => rows'[r].kv = v /\ Opens(k, rows'[r])
  <2>1. rows[r] \in Rows /\ t.kept[r] \in Rows
    BY DEF RingInv, RingTypeOK, Tasks
  <2>2. CASE t.kept[r] = NoRow
    <3>1. rows'[r] = rows[r]
      BY <1>5, <2>2 DEF Rewrapped
    <3> QED
      BY <2>1, <2>2, <3>1
  <2>3. CASE t.kept[r] # NoRow
    <3>1. PICK b \in Nat, c \in Nat : b = rows[r].body /\ c = t.kept[r].body
      BY <2>1 DEF Rows
    <3>2. PICK w : w = [body |-> c, kv |-> v, key |-> k]
      OBVIOUS
    <3>3. PICK line : line = [body |-> b, kv |-> v, wrap |-> w]
      OBVIOUS
    <3>4. rows'[r] = line
      BY <1>3, <1>4, <1>5, <2>3, <3>1, <3>2, <3>3 DEF Rewrapped
    <3>5. w \in [body : Nat, kv : KeyNumbers, key : KeyNumbers]
      BY <1>3, <3>2
    <3>6. line \in Rows
      BY <1>3, <3>3, <3>5 DEF Rows
    <3>7. b = c => line.kv = v /\ Opens(k, line)
      BY <1>4, <3>2, <3>3 DEF Opens
    <3> QED
      BY <2>3, <3>1, <3>4, <3>6, <3>7
  <2> QED
    BY <2>2, <2>3
<1>8. rows' \in [Records -> Rows]
  BY <1>5, <1>7 DEF Rewrapped
<1>9. /\ recovery' \in [Versions -> KeyNumbers] /\ recovery'[v] = k
      /\ \A u \in Versions : u # v => recovery'[u] = recovery[u]
  BY <1>5 DEF RingInv, RingTypeOK
<1>10. /\ sealed' \in [Devices -> [Versions -> KeyNumbers]]
       /\ \A d \in Devices : d \in t.devs => sealed'[d][v] = k
       /\ \A d \in Devices, u \in Versions : d \notin t.devs \/ u # v => sealed'[d][u] = sealed[d][u]
  BY <1>5 DEF RingInv, RingTypeOK
<1>11. devStatus' \in [Devices -> {"none", "active", "revoked"}]
       /\ member' \in [Members -> {"none", "active", "revoked"}]
  BY <1>2, <1>5 DEF RingInv, RingTypeOK, TaskProper
<1>12. shown' \subseteq [v : Versions, key : KeyNumbers]
  BY <1>5 DEF RingInv, RingTypeOK
<1>13. RingTypeOK'
  BY <1>3, <1>5, <1>6, <1>8, <1>9, <1>10, <1>11, <1>12 DEF RingInv, RingTypeOK, TaskMoves
<1>14. CodesKept'
  <2>1. recovery[v] = 0
    BY <1>3, <1>5 DEF CommitAllowed
  <2>2. ASSUME NEW c \in shown PROVE recovery'[c.v] = c.key /\ c.key # 0
    <3>1. c.v \in Versions /\ recovery[c.v] = c.key /\ c.key # 0
      BY DEF RingInv, RingTypeOK, CodesKept
    <3> QED
      BY <1>9, <2>1, <3>1
  <2> QED
    BY <1>4, <1>5, <1>9, <2>2 DEF CodesKept
<1>15. orgVersion' # 0
  BY <1>3, <1>5, KeyRingAssumption DEF Versions
<1>16. ASSUME Sound, Knows(t) PROVE Sound'
  <2>1. /\ t.org = orgVersion /\ t.kept = rows /\ vault[v] = k
        /\ t.devs \subseteq ActiveDevices \ Revoked(t)
    BY <1>2, <1>3, <1>4, <1>16 DEF Knows
  <2>2. \A r \in Records : rows'[r] # NoRow => rows'[r].kv = v /\ Opens(k, rows'[r])
    BY <1>7, <2>1
  <2>3. \A d \in Devices : sealed[d][v] = 0
    BY <1>3, <1>16, <2>1 DEF Sound
  <2>4. \A d \in Devices : \/ sealed'[d][v] = 0
                           \/ devStatus'[d] = "active" /\ sealed'[d][v] = k
    BY <1>5, <1>10, <2>1, <2>3 DEF ActiveDevices
  <2>5. \A u \in Versions : u > v =>
           recovery'[u] = 0 /\ \A d \in Devices : sealed'[d][u] = 0
    <3> SUFFICES ASSUME NEW u \in Versions, u > v
                 PROVE  recovery'[u] = 0 /\ \A d \in Devices : sealed'[d][u] = 0
      OBVIOUS
    <3>1. u # v /\ u > t.org
      BY <1>3 DEF Versions, Tasks, KeyNumbers
    <3> QED
      BY <1>9, <1>10, <1>16, <2>1, <3>1 DEF Sound
  <2> QED
    BY <1>4, <1>5, <1>9, <2>1, <2>2, <2>4, <2>5 DEF Sound, Opens
<1> QED
  BY <1>1, <1>2, <1>5, <1>6, <1>13, <1>14, <1>15, <1>16, IdleTask, RingWorkKeeps

-----------------------------------------------------------------------------
LEMMA BeginKeeps ==
  ASSUME RingInv, NEW q \in Requests, NEW t \in Tasks, Begin(q, t), t.op # "idle", t.at = 1,
         TaskProper(t), t.op = "rotate" => Revoked(t) \subseteq t.devs,
         pairing' \in Pairings
  PROVE  RingInv'
<1>1. /\ acknowledged /\ task[q] = Idle /\ task' = [task EXCEPT ![q] = t]
      /\ overlapped' = (overlapped \/ \E p \in Requests \ {q} : task[p] # Idle)
      /\ UNCHANGED <<boot, acknowledged, orgVersion, vault, rows, devUser, devStatus, sealed,
                     recovery, shown, member, drawn, written>>
  BY DEF Begin
<1>2. TaskMoves(q, t)
  BY <1>1 DEF TaskMoves, RingInv, RingTypeOK
<1>3. RingTypeOK'
  BY <1>1, <1>2 DEF RingInv, RingTypeOK, TaskMoves
<1>4. UnderWay'
  BY <1>1, <1>2 DEF RingInv, UnderWay, TaskMoves
<1>5. Booting' /\ Acknowledged' /\ CodesKept'
  BY <1>1 DEF RingInv, Booting, Acknowledged, CodesKept
<1>6. OneByOne'
  <2> SUFFICES ASSUME ~overlapped' PROVE OneByOne'
    BY DEF OneByOne
  <2>1. ~overlapped /\ Sound /\ \A p \in Requests : p # q => task'[p].op = "idle"
    BY <1>1, <1>2, IdleTask DEF RingInv, OneByOne, TaskMoves
  <2>2. Sound'
    BY <1>1, <2>1 DEF Sound, Opens
  <2>3. Knows(t)'
    BY <1>1 DEF Knows, HasKey, HasDevice, Revoked, ActiveDevices
  <2> QED
    BY <1>2, <2>1, <2>2, <2>3 DEF OneByOne, TaskMoves
<1> QED
  BY <1>3, <1>4, <1>5, <1>6 DEF RingInv

LEMMA RingAsks ==
  ASSUME NEW op \in {"create", "update", "pair", "recover", "rotate"}
  PROVE  /\ A(op) \in Tasks /\ A(op).op = op /\ A(op).at = 1 /\ A(op).user = Nil
         /\ 1 \in 1 .. StepCount[op]
<1>1. PICK one \in 0 .. 6 : one = 1
  OBVIOUS
<1>2. A(op) = [Idle EXCEPT !.op = op, !.at = one]
  BY <1>1 DEF A
<1>3. Idle \in Tasks /\ Idle.user = Nil
  BY IdleTask DEF Idle
<1>4. A(op) \in Tasks /\ A(op).op = op /\ A(op).at = one /\ A(op).user = Idle.user
  BY <1>1, <1>2, <1>3 DEF Tasks
<1> QED
  BY <1>1, <1>3, <1>4, Counts

LEMMA EnterKeeps ==
  ASSUME RingInv, NEW q \in Requests, Enter(q)
  PROVE  RingInv'
<1>1. pairing \in Pairings /\ Nil \notin Members
  BY KeyRingAssumption DEF RingInv, RingTypeOK
<1>2. ASSUME NEW r \in Records, BeginCreate(q, r) \/ BeginUpdate(q, r) PROVE RingInv'
  <2>1. PICK op \in {"create", "update"} :
           Begin(q, [A(op) EXCEPT !.rec = r]) /\ UNCHANGED pairing
    BY <1>2 DEF BeginCreate, BeginUpdate
  <2>2. PICK t : t = [A(op) EXCEPT !.rec = r]
    OBVIOUS
  <2>3. t \in Tasks /\ t.op = op /\ t.at = 1 /\ t.rec = r /\ 1 \in 1 .. StepCount[op]
    BY <2>2, RingAsks DEF Tasks
  <2>4. TaskProper(t)
    BY <2>3 DEF TaskProper
  <2> QED
    BY <1>1, <2>1, <2>2, <2>3, <2>4, BeginKeeps
<1>3. ASSUME NEW d \in Devices, NEW u \in Users,
             Begin(q, [A("pair") EXCEPT !.user = u, !.dev = d]), pairing' \in Pairings
      PROVE  RingInv'
  <2>1. PICK t : t = [A("pair") EXCEPT !.user = u, !.dev = d]
    OBVIOUS
  <2>2. /\ t \in Tasks /\ t.op = "pair" /\ t.at = 1 /\ t.user = u /\ t.dev = d
        /\ 1 \in 1 .. StepCount["pair"]
    BY <2>1, RingAsks DEF Tasks
  <2>3. TaskProper(t)
    BY <2>2 DEF TaskProper
  <2> QED
    BY <1>1, <1>3, <2>1, <2>2, <2>3, BeginKeeps
<1>4. ASSUME NEW d \in Devices, Claim(q, d) PROVE RingInv'
  <2>1. pairing' = [pairing EXCEPT !.state = "over"] /\ pairing' \in Pairings
    BY <1>1, <1>4 DEF Claim, Pairings
  <2>2. CASE IsMember(pairing.user) /\ Begin(q, [A("pair") EXCEPT !.user = pairing.user, !.dev = d])
    BY <1>3, <2>1, <2>2 DEF IsMember, Users
  <2>3. CASE UNCHANGED <<boot, acknowledged, orgVersion, vault, rows, devUser, devStatus,
                         sealed, recovery, shown, member, task, drawn, written, overlapped>>
    BY <1>1, <2>1, <2>3
    DEF RingInv, RingTypeOK, UnderWay, Booting, Acknowledged, CodesKept, OneByOne, Sound, Knows,
        HasKey, HasDevice, Revoked, ActiveDevices, Opens
  <2> QED
    BY <1>4, <2>2, <2>3 DEF Claim
<1>5. ASSUME NEW d \in Devices, BeginRecover(q, d) PROVE RingInv'
  <2>1. PICK t : t = [A("recover") EXCEPT !.user = Owner, !.dev = d]
    OBVIOUS
  <2>2. /\ t \in Tasks /\ t.op = "recover" /\ t.at = 1 /\ t.user = Owner /\ t.dev = d
        /\ 1 \in 1 .. StepCount["recover"]
    BY <2>1, RingAsks DEF Tasks, Users
  <2>3. TaskProper(t)
    BY <2>2 DEF TaskProper, Users
  <2> QED
    BY <1>1, <1>5, <2>1, <2>2, <2>3, BeginKeeps DEF BeginRecover
<1>6. ASSUME NEW d \in Devices, BeginRevokeDevice(q, d) PROVE RingInv'
  <2>1. PICK t : t = [A("rotate") EXCEPT !.dev = d, !.devs = {d}]
    OBVIOUS
  <2>2. /\ t \in Tasks /\ t.op = "rotate" /\ t.at = 1 /\ t.user = Nil /\ t.dev = d
        /\ t.devs = {d} /\ 1 \in 1 .. StepCount["rotate"]
    BY <2>1, RingAsks DEF Tasks
  <2>3. TaskProper(t) /\ Revoked(t) \subseteq t.devs
    BY <2>2 DEF TaskProper, Revoked
  <2> QED
    BY <1>1, <1>6, <2>1, <2>2, <2>3, BeginKeeps DEF BeginRevokeDevice
<1>7. ASSUME NEW u \in Members, BeginRevokeMember(q, u) PROVE RingInv'
  <2>1. PICK ds \in SUBSET Devices : ds = {d \in ActiveDevices : devUser[d] = u}
    BY DEF ActiveDevices
  <2>2. PICK t : t = [A("rotate") EXCEPT !.user = u, !.devs = ds]
    OBVIOUS
  <2>3. /\ t \in Tasks /\ t.op = "rotate" /\ t.at = 1 /\ t.user = u /\ t.devs = ds
        /\ 1 \in 1 .. StepCount["rotate"]
    BY <2>2, RingAsks DEF Tasks, Users
  <2>4. TaskProper(t) /\ Revoked(t) \subseteq t.devs
    BY <1>1, <2>1, <2>3 DEF TaskProper, Revoked
  <2> QED
    BY <1>1, <1>7, <2>1, <2>2, <2>3, <2>4, BeginKeeps DEF BeginRevokeMember
<1> QED
  BY <1>1, <1>2, <1>3, <1>4, <1>5, <1>6, <1>7 DEF Enter, BeginPair, Users

LEMMA RingStarts == RingInit => RingInv
<1> SUFFICES ASSUME RingInit PROVE RingInv
  OBVIOUS
<1>1. /\ 0 \in KeyNumbers /\ \A q \in Requests : task[q] = Idle
      /\ pairing \in Pairings
  BY KeyRingAssumption DEF KeyNumbers, RingInit, Pairings
<1>2. RingTypeOK
  <2>1. task \in [Requests -> Tasks] /\ rows \in [Records -> Rows]
    BY IdleTask DEF RingInit
  <2>2. /\ vault \in [Versions -> KeyNumbers] /\ recovery \in [Versions -> KeyNumbers]
        /\ sealed \in [Devices -> [Versions -> KeyNumbers]]
    BY <1>1 DEF RingInit
  <2>3. pairing \in Pairings /\ devUser \in [Devices -> Users \cup {Nil}]
    BY <1>1 DEF RingInit
  <2>4. /\ devStatus \in [Devices -> {"none", "active", "revoked"}]
        /\ member \in [Members -> {"none", "active", "revoked"}]
    BY DEF RingInit
  <2>5. /\ boot \in 0 .. BootSteps /\ orgVersion \in KeyNumbers
        /\ shown = {} /\ drawn \in KeyNumbers /\ written \in Nat
    BY <1>1 DEF RingInit, BootSteps
  <2>6. acknowledged \in BOOLEAN /\ overlapped \in BOOLEAN
    BY DEF RingInit
  <2> QED
    BY <2>1, <2>2, <2>3, <2>4, <2>5, <2>6 DEF RingTypeOK
<1>3. UnderWay /\ Acknowledged /\ CodesKept /\ OneByOne
  BY <1>1, IdleTask DEF RingInit, UnderWay, Acknowledged, CodesKept, OneByOne
<1>4. Booting
  BY <1>1 DEF RingInit, Booting
<1> QED
  BY <1>2, <1>3, <1>4 DEF RingInv

(* Before the acknowledgment no request is under way.                       *)
LEMMA BootKeeps ==
  ASSUME RingInv, BootStep \/ BootAgain
  PROVE  RingInv'
<1> USE KeyRingAssumption
<1>1. boot \in 0 .. 7 /\ ~acknowledged /\ Booting
  BY DEF BootStep, BootAgain, BootSteps, RingInv, RingTypeOK, Acknowledged
<1>2. /\ UNCHANGED <<acknowledged, rows, shown, member, pairing, task, written, overlapped>>
      /\ boot' \in 0 .. BootSteps
  BY <1>1 DEF BootStep, BootAgain, BootSteps
<1>3. 0 \in KeyNumbers /\ 1 \in KeyNumbers /\ 1 \in Versions
  BY DEF KeyNumbers, Versions
<1>4. CASE BootStep
  <2>1. /\ orgVersion' \in KeyNumbers /\ drawn' \in KeyNumbers
        /\ vault' \in [Versions -> KeyNumbers] /\ recovery' \in [Versions -> KeyNumbers]
    BY <1>3, <1>4 DEF BootStep, RingInv, RingTypeOK
  <2>2. /\ devUser' \in [Devices -> Users \cup {Nil}]
        /\ devStatus' \in [Devices -> {"none", "active", "revoked"}]
    BY <1>4 DEF BootStep, RingInv, RingTypeOK, Users
  <2>3. sealed' \in [Devices -> [Versions -> KeyNumbers]]
    BY <1>3, <1>4 DEF BootStep, RingInv, RingTypeOK
  <2>4. RingTypeOK'
    BY <1>2, <2>1, <2>2, <2>3 DEF RingInv, RingTypeOK
  <2>5. boot' = boot + 1 /\ orgVersion' = 1
    BY <1>1, <1>4 DEF BootStep, Booting
  <2>6. \A v \in Versions : vault'[v] = IF v = 1 /\ boot' > 2 THEN 1 ELSE 0
    BY <1>1, <1>3, <1>4, <2>5 DEF BootStep, Booting, RingInv, RingTypeOK
  <2>7. \A v \in Versions : recovery'[v] = IF v = 1 /\ boot' > 5 THEN 1 ELSE 0
    BY <1>1, <1>3, <1>4, <2>5 DEF BootStep, Booting, RingInv, RingTypeOK
  <2>8. \A d \in Devices : devStatus'[d] = IF d = Desktop /\ boot' > 1 THEN "active" ELSE "none"
    BY <1>1, <1>4, <2>5 DEF BootStep, Booting, RingInv, RingTypeOK
  <2>9. \A d \in Devices, v \in Versions :
           sealed'[d][v] = IF d = Desktop /\ v = 1 /\ boot' > 4 THEN 1 ELSE 0
    <3>1. CASE boot = 4
      <4>1. vault[1] = 1 /\ sealed' = [sealed EXCEPT ![Desktop][1] = vault[1]]
        BY <1>1, <1>3, <1>4, <3>1 DEF BootStep, Booting
      <4> QED
        BY <1>1, <1>3, <2>5, <3>1, <4>1 DEF Booting, RingInv, RingTypeOK
    <3>2. CASE boot # 4
      BY <1>1, <1>4, <2>5, <3>2 DEF BootStep, Booting
    <3> QED
      BY <3>1, <3>2
  <2>10. Booting'
    BY <1>1, <1>2, <2>5, <2>6, <2>7, <2>8, <2>9 DEF Booting
  <2> QED
    BY <1>1, <1>2, <2>4, <2>10
    DEF RingInv, UnderWay, Acknowledged, CodesKept, OneByOne, Booting
<1>5. CASE BootAgain
  <2>1. RingTypeOK'
    BY <1>2, <1>3, <1>5 DEF BootAgain, RingInv, RingTypeOK
  <2>2. Booting'
    BY <1>1, <1>2, <1>5 DEF BootAgain, Booting
  <2> QED
    BY <1>1, <1>2, <2>1, <2>2
    DEF RingInv, UnderWay, Acknowledged, CodesKept, OneByOne, Booting
<1> QED
  BY <1>4, <1>5

LEMMA AcknowledgeKeeps ==
  ASSUME RingInv, Acknowledge
  PROVE  RingInv'
<1> USE KeyRingAssumption
<1>1. /\ boot = 8 /\ ~acknowledged /\ acknowledged' = TRUE
      /\ shown' = {[v |-> 1, key |-> recovery[1]]}
      /\ UNCHANGED <<boot, orgVersion, vault, rows, devUser, devStatus, sealed, recovery,
                     member, pairing, task, drawn, written, overlapped>>
  BY DEF Acknowledge, BootSteps
<1>2. 1 \in Versions /\ Booting
  BY DEF Versions, RingInv
<1>3. /\ orgVersion = 1 /\ vault[1] = 1 /\ recovery[1] = 1 /\ ~overlapped
      /\ \A r \in Records : rows[r] = NoRow
      /\ \A v \in Versions : v # 1 => recovery[v] = 0 /\ \A d \in Devices : sealed[d][v] = 0
      /\ \A d \in Devices : sealed[d][1] = IF d = Desktop THEN 1 ELSE 0
      /\ devStatus[Desktop] = "active"
  BY <1>1, <1>2 DEF Booting
<1>4. RingTypeOK'
  <2>1. shown' \subseteq [v : Versions, key : KeyNumbers]
    BY <1>1, <1>2 DEF RingInv, RingTypeOK
  <2> QED
    BY <1>1, <2>1 DEF RingInv, RingTypeOK
<1>5. \A q \in Requests : task[q].op = "idle"
  BY <1>1 DEF RingInv, UnderWay
<1>6. UnderWay' /\ Booting' /\ Acknowledged' /\ CodesKept'
  BY <1>1, <1>3, <1>5 DEF UnderWay, Booting, Acknowledged, BootSteps, CodesKept
<1>7. Sound'
  BY <1>1, <1>3 DEF Sound, Versions
<1> QED
  BY <1>1, <1>4, <1>5, <1>6, <1>7 DEF RingInv, OneByOne

LEMMA PeopleKeep ==
  ASSUME RingInv,
         \/ PairingOver
         \/ \E u \in Members : AddMember(u)
         \/ \E u \in Users : OpenPairing(u)
         \/ UNCHANGED ringVars
  PROVE  RingInv'
<1> DEFINE Same == UNCHANGED <<boot, acknowledged, orgVersion, vault, rows, devUser, devStatus,
                               sealed, recovery, shown, task, drawn, written, overlapped>>
<1>1. /\ Same
      /\ member' \in [Members -> {"none", "active", "revoked"}]
      /\ pairing' \in Pairings
  <2>1. CASE PairingOver \/ UNCHANGED ringVars
    <3>1. pairing' = [pairing EXCEPT !.state = "over"] \/ pairing' = pairing
      BY <2>1 DEF PairingOver, ringVars
    <3>2. pairing' \in Pairings
      BY <3>1 DEF RingInv, RingTypeOK, Pairings
    <3> QED
      BY <2>1, <3>2 DEF PairingOver, ringVars, RingInv, RingTypeOK
  <2>2. ASSUME NEW u \in Members, AddMember(u) 
        PROVE  /\ Same
               /\ member' \in [Members -> {"none", "active", "revoked"}]
               /\ pairing' \in Pairings
    BY <2>2 DEF AddMember, RingInv, RingTypeOK
  <2>3. ASSUME NEW u \in Users, OpenPairing(u) 
        PROVE  /\ Same
               /\ member' \in [Members -> {"none", "active", "revoked"}]
               /\ pairing' \in Pairings
    BY <2>3 DEF OpenPairing, RingInv, RingTypeOK, Pairings
  <2> QED
    BY <2>1, <2>2, <2>3
<1>2. RingTypeOK'
  BY <1>1 DEF RingInv, RingTypeOK
<1>3. UnderWay' /\ Booting' /\ Acknowledged' /\ CodesKept'
  BY <1>1 DEF RingInv, UnderWay, Booting, Acknowledged, CodesKept
<1>4. Sound' = Sound /\ \A t : Knows(t)' = Knows(t)
  BY <1>1 DEF Sound, Opens, Knows, HasKey, HasDevice, Revoked, ActiveDevices
<1>5. OneByOne'
  BY <1>1, <1>4 DEF RingInv, OneByOne
<1> QED
  BY <1>2, <1>3, <1>5 DEF RingInv

LEMMA RingStep == RingInv /\ [RingNext]_ringVars => RingInv'
<1> SUFFICES ASSUME RingInv, [RingNext]_ringVars PROVE RingInv'
  OBVIOUS
<1>1. ASSUME NEW q \in Requests, Work(q) PROVE RingInv'
  BY <1>1, ReadOrgKeeps, LoadKeyKeeps, PutKeeps, RegisterKeeps, SealKeeps, OpenRecoveryKeeps,
     RestoreKeeps, ListRecordsKeeps, ListDevicesKeeps, StoreNewKeeps, CommitKeeps, StopKeeps
  DEF Work
<1> QED
  BY <1>1, EnterKeeps, BootKeeps, AcknowledgeKeeps, PeopleKeep DEF RingNext, Users

(* The steps of the first start and of requests that pair, recover, revoke  *)
(* and rotate keep the account of the keys that are stored, sealed, shown   *)
(* and read.                                                                *)
THEOREM RingInvHolds == RingSpec => []RingInv
<1> QED
  BY RingStarts, RingStep, PTL DEF RingSpec

(* CodesStayGood for any number of devices, members, rotations and requests *)
(* that overlap (commit of the rotation in apply_key_rotation).             *)
THEOREM CodesRestore == RingSpec => []CodesStayGood
<1>1. RingInv => CodesStayGood
  BY DEF RingInv, CodesKept, CodesStayGood
<1> QED
  BY <1>1, RingInvHolds, PTL

(* KeysUsable likewise: a request that stops at any step leaves every       *)
(* record readable and every device with the current key or none            *)
(* (_rotate_org_key, which stores the new key before it commits).           *)
THEOREM KeysStayUsable == RingSpec => []KeysUsable
<1>1. ASSUME RingInv PROVE KeysUsable
  <2>1. CASE acknowledged
    BY <1>1, <2>1 DEF RingInv, OneByOne, Sound, KeysUsable
  <2>2. CASE ~acknowledged
    <3> SUFFICES ASSUME boot = BootSteps PROVE KeysUsable
      BY DEF KeysUsable
    <3>1. 1 \in Versions /\ boot = 8
      BY KeyRingAssumption DEF Versions, BootSteps
    <3>2. /\ orgVersion = 1 /\ vault[1] = 1 /\ recovery[1] = 1
          /\ \A r \in Records : rows[r] = NoRow
          /\ \A d \in Devices : sealed[d][1] = IF d = Desktop THEN 1 ELSE 0
          /\ devStatus[Desktop] = "active"
      BY <1>1, <2>2, <3>1, KeyRingAssumption DEF RingInv, Booting
    <3> QED
      BY <3>2 DEF KeysUsable
  <2> QED
    BY <2>1, <2>2
<1> QED
  BY <1>1, RingInvHolds, PTL

-----------------------------------------------------------------------------
(* The snapshot import.                                                     *)

Mine == Existing \cup New
Manifests == SUBSET (Tracked \X Nat)
Edits == [rec : Mine, body : Nat \ {0}, base : Int]
Imports == [manifest : Manifests, items : Manifests, status : {"staging", "aborted", "completed"}]
Stages == {"none", "manifest", "local", "count", "remote", "queue", "abort", "thaw",
           "complete", "finish"}
Sizes == {Cardinality(m) : m \in Manifests}
Ops == {"none", "bootstrap", "complete"}
TasksOver(O, S, M, Z) == [op : O, at : S, manifest : M, id : Nat, accepted : Z]
ImportTasks == TasksOver(Ops, Stages, Manifests, Sizes)
Sessions == [state : {"none", "active", "aborted", "completed"}, manifest : Manifests]
Entries == [body : Nat, state : {"none", "queued", "sent", "manual"}]

SnapshotTypeOK ==
    /\ row \in [Tracked -> Nat] /\ known \in [Tracked -> Int] /\ edits \subseteq Edits
    /\ staged \in [Tracked -> Entries] /\ session \in Sessions
    /\ head \in [Tracked -> Nat] /\ imports \in Seq(Imports)
    /\ answered \subseteq Mine /\ import \in [Importers -> ImportTasks]
    /\ edited \in Nat /\ lost \in Nat /\ slipped \in BOOLEAN

(* Bodies are drawn in order; what was staged, answered or taken by an      *)
(* import is an entry of the device's own records and never that of an edit.*)
Drawn ==
    /\ \A r \in Tracked : row[r] <= edited /\ staged[r].body <= edited /\ head[r] <= edited
    /\ \A r \in Tracked : staged[r].state # "none" => staged[r].body # 0 /\ row[r] # 0
    /\ \A e \in edits : e.body <= edited /\ staged[e.rec].body # e.body
    /\ \A r \in answered : staged[r].state # "none"

Taken ==
    \A i \in DOMAIN imports : \A r \in Tracked, b \in Nat : <<r, b>> \in imports[i].items =>
        /\ r \in Mine /\ b <= edited /\ head[r] # 0
        /\ \A e \in edits : e.rec = r => e.body # b

(* A record that only the former cloud knows was never written here.        *)
FormerlyKnown ==
    \A r \in Tracked : known[r] = Elsewhere =>
        /\ row[r] = 1 /\ staged[r].state # "sent"
        /\ staged[r].state # "none" => staged[r].body = 1

RowRecs == {r \in Tracked : row[r] # 0}
StagedSet == {r \in Tracked : staged[r].state # "none"}
Recs(m) == {r \in Tracked : \E b \in Nat : <<r, b>> \in m}
AllKnown == \A r \in Tracked : known[r] # Elsewhere

(* The imports of the cloud: only the newest can be staging or have taken   *)
(* anything, and while it is staging it has taken every head there is.      *)
Accounted ==
    \A i \in DOMAIN imports :
        /\ imports[i].status = "completed" => imports[i].items = imports[i].manifest
        /\ imports[i].status = "aborted" => imports[i].items = {}
        /\ i < Len(imports) => imports[i].status # "staging" /\ imports[i].items = {}
        /\ imports[i].status = "staging" => HeadSet \subseteq imports[i].items

Completed ==
    session.state = "completed" =>
        /\ AllKnown
        /\ \E i \in DOMAIN imports :
               imports[i].status = "completed" /\ imports[i].manifest = session.manifest

Unwritten == \A r \in Theirs : head[r] = 0

(* An import and a session are of what is there, until a write that waits   *)
(* or a head says otherwise.                                                *)
Current ==
    /\ edits = {} => \A i \in Staging : imports[i].manifest = LocalManifest
    /\ edits = {} /\ OnlyImported /\ HeadSet # {}
           => imports[Len(imports)].manifest = LocalManifest
    /\ Frozen /\ ~slipped /\ Unwritten
           => session.manifest = LocalManifest /\ MappingHolds /\ edits = {}

(* What a completion has counted, which import a request is about, and what *)
(* it has read.                                                             *)
CountsWell(t) ==
    /\ t.at = "count" =>
           /\ IsFiniteSet(Recs(t.manifest)) /\ Recs(t.manifest) \subseteq RowRecs
           /\ Cardinality(Recs(t.manifest)) = Cardinality(t.manifest)
           /\ StagedSet \subseteq Recs(t.manifest) \/ Recs(t.manifest) \subseteq StagedSet
           /\ \A r \in Tracked : known[r] = Elsewhere => r \in Recs(t.manifest)
    /\ t.op = "complete" /\ t.at \in {"remote", "complete", "finish"} => AllKnown

AboutImport(t) ==
    /\ t.at # "none" => t.op # "none"
    /\ t.at = "local" => t.op = "bootstrap"
    /\ t.at \in {"complete", "finish"} => t.op = "complete"
    /\ t.at \in {"queue", "abort", "thaw", "complete", "finish"} =>
           t.id \in DOMAIN imports /\ imports[t.id].manifest = t.manifest
    /\ t.at = "finish" => imports[t.id].status = "completed"

UpToDate(t) ==
    /\ t.at \in {"local", "remote", "count"} /\ edits = {} /\ HeadSet = {}
           => t.manifest = LocalManifest
    /\ t.at = "local" /\ ~slipped => t.manifest = LocalManifest /\ MappingHolds /\ edits = {}

Right(t) == CountsWell(t) /\ AboutImport(t) /\ UpToDate(t)

SnapshotInv ==
    /\ SnapshotTypeOK /\ Drawn /\ Taken /\ FormerlyKnown /\ IsFiniteSet(RowRecs)
    /\ Accounted /\ Completed /\ Current
    /\ \A q \in Importers : Right(import[q])

(* What the assumption says of the records. *)
LEMMA SnapshotOwn ==
    /\ Mine \subseteq Tracked /\ Theirs \subseteq Tracked /\ Existing \subseteq Mine
    /\ \A r \in Theirs : r \notin Mine
    /\ \A r \in Tracked : r \in Mine \/ r \in Theirs
    /\ IsFiniteSet(Existing) /\ Elsewhere \in Int /\ Elsewhere < 0
BY SnapshotAssumption, SMT DEF Mine, Tracked, Elsewhere

(* The heads and the rows as sets of pairs. *)
LEMMA HeadsAre ==
    ASSUME SnapshotTypeOK
    PROVE  /\ \A r \in Tracked : head[r] # 0 => <<r, head[r]>> \in HeadSet
           /\ \A x \in HeadSet : \E r \in Tracked : head[r] # 0 /\ x = <<r, head[r]>>
           /\ HeadSet = {} <=> \A r \in Tracked : head[r] = 0
<1>1. \A r \in Tracked : head[r] # 0 => <<r, head[r]>> \in HeadSet
  BY SMT DEF HeadSet
<1>2. \A x \in HeadSet : \E r \in Tracked : head[r] # 0 /\ x = <<r, head[r]>>
  BY SMT DEF HeadSet
<1> QED
  BY <1>1, <1>2

LEMMA RowsAre ==
    ASSUME SnapshotTypeOK
    PROVE  LocalManifest \in Manifests /\ Recs(LocalManifest) = RowRecs
<1>1. \A r \in Tracked : row[r] \in Nat
  BY SMT DEF SnapshotTypeOK
<1>2. LocalManifest \in SUBSET (Tracked \X Nat)
  BY <1>1, SMT DEF LocalManifest
<1>3. \A r \in Tracked : r \in RowRecs => <<r, row[r]>> \in LocalManifest
  BY SMT DEF LocalManifest, RowRecs
<1>4. \A r \in Tracked, b \in Nat : <<r, b>> \in LocalManifest => r \in RowRecs
  BY SMT DEF LocalManifest, RowRecs
<1>5. RowRecs \subseteq Recs(LocalManifest)
  BY <1>1, <1>3, SMT DEF Recs, RowRecs
<1>6. Recs(LocalManifest) \subseteq RowRecs
  <2> SUFFICES ASSUME NEW r \in Recs(LocalManifest) PROVE r \in RowRecs
    OBVIOUS
  <2>1. r \in Tracked /\ \E b \in Nat : <<r, b>> \in LocalManifest
    BY DEF Recs
  <2> QED
    BY <1>4, <2>1
<1> QED
  BY <1>2, <1>5, <1>6, SMT DEF Manifests

(* There are as many pairs as rows. *)
LEMMA RowsCount ==
    ASSUME SnapshotTypeOK, IsFiniteSet(RowRecs)
    PROVE  Cardinality(RowRecs) = Cardinality(LocalManifest)
<1> DEFINE f == [r \in RowRecs |-> <<r, row[r]>>]
<1>1. f \in [RowRecs -> LocalManifest]
  BY SMT DEF LocalManifest, RowRecs
<1>2. \A a, b \in RowRecs : f[a] = f[b] => a = b
  BY SMT
<1>3. \A m \in LocalManifest : \E r \in RowRecs : f[r] = m
  BY SMT DEF LocalManifest, RowRecs
<1>4. f \in Bijection(RowRecs, LocalManifest)
  <2> HIDE DEF f
  <2>1. f \in Injection(RowRecs, LocalManifest)
    BY <1>1, <1>2 DEF Injection, IsInjective
  <2>2. f \in Surjection(RowRecs, LocalManifest)
    BY <1>1, <1>3 DEF Surjection
  <2> QED
    BY <2>1, <2>2 DEF Bijection
<1>5. ExistsBijection(RowRecs, LocalManifest)
  BY <1>4 DEF ExistsBijection
<1> QED
  BY <1>5, FS_Bijection

(* The imports by their number. *)
LEMMA ImportsAre ==
    ASSUME SnapshotTypeOK
    PROVE  \E n \in Nat : /\ Len(imports) = n /\ DOMAIN imports = 1 .. n
                          /\ imports \in [1 .. n -> Imports]
BY SMT DEF SnapshotTypeOK

(* The one that is staging is the newest. *)
LEMMA StagingIsNewest ==
    ASSUME SnapshotTypeOK, Accounted, NEW i \in Staging
    PROVE  i \in DOMAIN imports /\ i = Len(imports) /\ HeadSet \subseteq imports[i].items
<1> PICK n \in Nat : Len(imports) = n /\ DOMAIN imports = 1 .. n
  BY ImportsAre
<1> QED
  BY SMT DEF Staging, Accounted

(* What an import took is of the device's own records; so a head of another *)
(* device shows that none is staging and that not all heads are imported.   *)
LEMMA OthersNotTaken ==
    ASSUME SnapshotTypeOK, Taken, Accounted, NEW r \in Theirs, head[r] # 0
    PROVE  Staging = {} /\ ~OnlyImported /\ HeadSet # {}
<1>1. r \in Tracked /\ r \notin Mine
  BY SnapshotOwn
<1>2. <<r, head[r]>> \in HeadSet /\ head[r] \in Nat
  BY <1>1, HeadsAre, SMT DEF SnapshotTypeOK
<1>3. \A i \in DOMAIN imports : <<r, head[r]>> \notin imports[i].items
  BY <1>1, <1>2 DEF Taken
<1>4. ~OnlyImported
  BY <1>2, <1>3, SMT DEF OnlyImported
<1>5. \A i \in Staging : FALSE
  BY <1>2, <1>3, StagingIsNewest
<1> QED
  BY <1>2, <1>4, <1>5

(* The requests a step leaves alone. *)
LEMMA NothingAsked ==
    /\ NoTask \in ImportTasks /\ Right(NoTask) /\ Right(NoTask)'
<1>1. Cardinality({}) = 0 /\ {} \in Manifests
  BY FS_EmptySet DEF Manifests
<1>2. 0 \in Sizes
  BY <1>1 DEF Sizes
<1>3. NoTask \in ImportTasks
  BY <1>1, <1>2, SMT DEF NoTask, ImportTasks, TasksOver, Ops, Stages
<1> QED
  BY <1>3, SMT DEF NoTask, Right, CountsWell, AboutImport, UpToDate

LEMMA RequestStays ==
    ASSUME NEW t \in ImportTasks, Right(t),
           RowRecs \subseteq RowRecs', StagedSet' = StagedSet \/ RowRecs \subseteq StagedSet',
           \A r \in Tracked : known'[r] = Elsewhere => known[r] = Elsewhere,
           \A i \in DOMAIN imports :
               /\ i \in DOMAIN imports' /\ imports'[i].manifest = imports[i].manifest
               /\ imports[i].status = "completed" => imports'[i].status = "completed",
           UpToDate(t)'
    PROVE  Right(t)'
<1>1. CountsWell(t)'
  BY SMT DEF Right, CountsWell, AllKnown
<1>2. AboutImport(t)'
  BY SMT DEF Right, AboutImport
<1> QED
  BY <1>1, <1>2 DEF Right

LEMMA RequestIs ==
    ASSUME NEW p \in Importers, NEW t, import'[p] = t, Right(t)'
    PROVE  Right(import[p])'
BY SMT DEF Right, CountsWell, AboutImport, UpToDate

LEMMA RequestsMove ==
    ASSUME SnapshotTypeOK, NEW q \in Importers, NEW t \in ImportTasks, Step(q, t), Right(t)',
           \A p \in Importers : Right(import[p]),
           \A u \in ImportTasks : Right(u) => Right(u)'
    PROVE  /\ import' \in [Importers -> ImportTasks]
           /\ \A p \in Importers : Right(import[p])'
<1>1. import \in [Importers -> ImportTasks]
  BY DEF SnapshotTypeOK
<1>2. import' \in [Importers -> ImportTasks]
  BY <1>1, SMT DEF Step
<1>3. ASSUME NEW p \in Importers
      PROVE  Right(import[p])'
  <2>1. CASE p = q
    <3>1. import'[p] = t
      BY <1>1, <2>1, SMT DEF Step
    <3> QED
      BY <3>1, RequestIs
  <2>2. CASE p # q
    <3>1. PICK u \in ImportTasks : u = import[p]
      BY <1>1
    <3>2. import'[p] = u
      BY <1>1, <2>2, <3>1, SMT DEF Step
    <3>3. Right(u)
      BY <3>1
    <3>4. Right(u)'
      BY <3>3
    <3> QED
      BY <3>2, <3>4, RequestIs
  <2> QED
    BY <2>1, <2>2
<1> QED
  BY <1>2, <1>3

LEMMA RequestsStay ==
    ASSUME SnapshotTypeOK, UNCHANGED import, \A p \in Importers : Right(import[p]),
           \A u \in ImportTasks : (Right(u) /\ \E p \in Importers : import[p] = u) => Right(u)'
    PROVE  \A p \in Importers : Right(import[p])'
<1>1. import \in [Importers -> ImportTasks]
  BY DEF SnapshotTypeOK
<1>2. ASSUME NEW p \in Importers
      PROVE  Right(import[p])'
  <2>1. PICK u \in ImportTasks : u = import[p]
    BY <1>1
  <2>2. Right(u) /\ import'[p] = u
    BY <2>1
  <2>3. Right(u)'
    BY <2>1, <2>2
  <2> QED
    BY <2>2, <2>3, RequestIs
<1> QED
  BY <1>2

LEMMA SnapshotBegins == SnapshotInit => SnapshotInv
<1> SUFFICES ASSUME SnapshotInit PROVE SnapshotInv
  OBVIOUS
<1>1. SnapshotTypeOK
  <2>1. row \in [Tracked -> Nat] /\ known \in [Tracked -> Int] /\ head \in [Tracked -> Nat]
    BY SnapshotOwn, SMT DEF SnapshotInit
  <2>2. staged \in [Tracked -> Entries]
    BY SMT DEF SnapshotInit, Entries
  <2>3. import \in [Importers -> ImportTasks]
    BY NothingAsked, SMT DEF SnapshotInit
  <2>4. session \in Sessions
    BY SMT DEF SnapshotInit, Sessions, Manifests
  <2>5. imports \in Seq(Imports) /\ edits \subseteq Edits /\ answered \subseteq Mine
    BY SMT DEF SnapshotInit
  <2>6. edited \in Nat /\ lost \in Nat
    BY SMT DEF SnapshotInit
  <2>7. slipped \in BOOLEAN
    BY DEF SnapshotInit
  <2> QED
    BY <2>1, <2>2, <2>3, <2>4, <2>5, <2>6, <2>7 DEF SnapshotTypeOK
<1>2. Drawn /\ Taken /\ Accounted /\ Completed /\ Current
  BY SMT DEF SnapshotInit, Drawn, Taken, Accounted, Completed, Current, Staging, Frozen,
             OnlyImported, HeadSet
<1>3. FormerlyKnown
  BY SnapshotOwn, SMT DEF SnapshotInit, FormerlyKnown
<1>4. IsFiniteSet(RowRecs)
  <2>1. RowRecs = Existing
    BY SnapshotOwn, SMT DEF SnapshotInit, RowRecs, Mine
  <2> QED
    BY <2>1, SnapshotOwn
<1>5. \A q \in Importers : Right(import[q])
  BY NothingAsked DEF SnapshotInit
<1> QED
  BY <1>1, <1>2, <1>3, <1>4, <1>5 DEF SnapshotInv

(* The steps of a request that change nothing but what it knows. *)
LEMMA RequestKeeps ==
    ASSUME SnapshotInv, NEW q \in Importers, NEW t \in ImportTasks, Right(t), Step(q, t),
           UNCHANGED <<deviceState, cloudState, answered>>, lost' \in Nat
    PROVE  SnapshotInv'
<1>1. \A u \in ImportTasks : Right(u) => Right(u)'
  BY SMT DEF Right, CountsWell, AboutImport, UpToDate, deviceState, cloudState, RowRecs, StagedSet,
             AllKnown, HeadSet, LocalManifest, MappingHolds
<1>2. /\ import' \in [Importers -> ImportTasks]
      /\ \A p \in Importers : Right(import[p])'
  BY <1>1, RequestsMove DEF SnapshotInv
<1>3. SnapshotTypeOK'
  BY <1>2 DEF SnapshotInv, SnapshotTypeOK, deviceState, cloudState
<1>4. (Drawn /\ Taken /\ FormerlyKnown)' /\ IsFiniteSet(RowRecs)'
  BY DEF SnapshotInv, deviceState, cloudState, Drawn, Taken, FormerlyKnown, RowRecs
<1>5. (Accounted /\ Completed)'
  BY DEF SnapshotInv, deviceState, cloudState, Accounted, Completed, AllKnown, HeadSet
<1>6. Current'
  BY DEF SnapshotInv, deviceState, cloudState, Current, Staging, LocalManifest, OnlyImported,
         HeadSet, Frozen, Unwritten, MappingHolds
<1> QED
  BY <1>2, <1>3, <1>4, <1>5, <1>6 DEF SnapshotInv

(* What a request knows, and its next steps. *)
LEMMA RequestIn ==
    ASSUME SnapshotInv, NEW q \in Importers
    PROVE  \E t \in ImportTasks : t = import[q] /\ Right(t)
<1>1. import[q] \in ImportTasks
  BY DEF SnapshotInv, SnapshotTypeOK
<1> QED
  BY <1>1 DEF SnapshotInv

LEMMA TaskWith ==
    ASSUME NEW O, NEW S, NEW M, NEW Z, NEW u \in TasksOver(O, S, M, Z),
           NEW op \in O, NEW s \in S, NEW m \in M
    PROVE  /\ [u EXCEPT !.op = op, !.at = s] \in TasksOver(O, S, M, Z)
           /\ [u EXCEPT !.manifest = m, !.at = s] \in TasksOver(O, S, M, Z)
<1>1. [u EXCEPT !.op = op] \in TasksOver(O, S, M, Z)
  BY SMT DEF TasksOver
<1>2. [u EXCEPT !.manifest = m] \in TasksOver(O, S, M, Z)
  BY SMT DEF TasksOver
<1>3. \A v \in TasksOver(O, S, M, Z) : [v EXCEPT !.at = s] \in TasksOver(O, S, M, Z)
  BY SMT DEF TasksOver
<1>4. [u EXCEPT !.op = op, !.at = s] = [[u EXCEPT !.op = op] EXCEPT !.at = s]
  BY SMT DEF TasksOver
<1>5. [u EXCEPT !.manifest = m, !.at = s] = [[u EXCEPT !.manifest = m] EXCEPT !.at = s]
  BY SMT DEF TasksOver
<1> QED
  BY <1>1, <1>2, <1>3, <1>4, <1>5

Having(u, m, s) == [u EXCEPT !.manifest = m, !.at = s]

LEMMA RequestWith ==
    ASSUME NEW u \in ImportTasks, NEW s \in Stages, NEW m \in Manifests
    PROVE  /\ Having(u, m, s) \in ImportTasks
           /\ Having(u, m, s).at = s /\ Having(u, m, s).op = u.op
           /\ Having(u, m, s).manifest = m /\ Having(u, m, s).id = u.id
<1>1. u.op \in Ops /\ u \in TasksOver(Ops, Stages, Manifests, Sizes)
  BY SMT DEF ImportTasks, TasksOver
<1>2. Having(u, m, s) \in ImportTasks
  BY <1>1, TaskWith DEF ImportTasks, Having
<1>3. /\ Having(u, m, s).at = s /\ Having(u, m, s).op = u.op
      /\ Having(u, m, s).manifest = m /\ Having(u, m, s).id = u.id
  BY <1>1, SMT DEF TasksOver, Having
<1> QED
  BY <1>2, <1>3

ImportBegun(u, i, n, s) == [u EXCEPT !.id = i, !.accepted = n, !.at = s]

LEMMA RequestBegun ==
    ASSUME NEW u \in ImportTasks, NEW i \in Nat, NEW n \in Sizes, NEW s \in Stages
    PROVE  /\ ImportBegun(u, i, n, s) \in ImportTasks
           /\ ImportBegun(u, i, n, s).at = s /\ ImportBegun(u, i, n, s).op = u.op
           /\ ImportBegun(u, i, n, s).manifest = u.manifest /\ ImportBegun(u, i, n, s).id = i
<1>1. u \in TasksOver(Ops, Stages, Manifests, Sizes)
  BY DEF ImportTasks
<1>2. ASSUME NEW O, NEW S, NEW M, NEW Z, NEW v \in TasksOver(O, S, M, Z), NEW k \in Z, NEW w \in S
      PROVE  ImportBegun(v, i, k, w) \in TasksOver(O, S, M, Z)
  <2>1. [v EXCEPT !.id = i] \in TasksOver(O, S, M, Z)
    BY SMT DEF TasksOver
  <2>2. \A x \in TasksOver(O, S, M, Z) : [x EXCEPT !.accepted = k] \in TasksOver(O, S, M, Z)
    BY SMT DEF TasksOver
  <2>3. \A x \in TasksOver(O, S, M, Z) : [x EXCEPT !.at = w] \in TasksOver(O, S, M, Z)
    BY SMT DEF TasksOver
  <2>4. ImportBegun(v, i, k, w) = [[[v EXCEPT !.id = i] EXCEPT !.accepted = k] EXCEPT !.at = w]
    BY SMT DEF TasksOver, ImportBegun
  <2> QED
    BY <2>1, <2>2, <2>3, <2>4
<1>3. ImportBegun(u, i, n, s) \in ImportTasks
  BY <1>1, <1>2 DEF ImportTasks
<1>4. /\ ImportBegun(u, i, n, s).at = s /\ ImportBegun(u, i, n, s).op = u.op
      /\ ImportBegun(u, i, n, s).manifest = u.manifest /\ ImportBegun(u, i, n, s).id = i
  BY <1>1, SMT DEF TasksOver, ImportBegun
<1> QED
  BY <1>3, <1>4

LEMMA RequestFor ==
    ASSUME NEW u \in ImportTasks, NEW s \in Stages, NEW op \in Ops
    PROVE  [u EXCEPT !.op = op, !.at = s] \in ImportTasks
<1>1. u.manifest \in Manifests /\ u \in TasksOver(Ops, Stages, Manifests, Sizes)
  BY SMT DEF ImportTasks, TasksOver
<1> QED
  BY <1>1, TaskWith DEF ImportTasks

LEMMA ImportStartKeeps ==
    ASSUME SnapshotInv, NEW q \in Importers, NEW op \in {"bootstrap", "complete"}, Start(q, op)
    PROVE  SnapshotInv'
<1> DEFINE t == [NoTask EXCEPT !.op = op, !.at = "manifest"]
<1>1. t \in ImportTasks
  <2>1. "manifest" \in Stages /\ op \in Ops
    BY DEF Stages, Ops
  <2> QED
    BY NothingAsked, RequestFor, <2>1
<1>2. Right(t)
  BY SMT DEF Right, CountsWell, AboutImport, UpToDate, NoTask
<1>3. Step(q, t) /\ UNCHANGED <<deviceState, cloudState, answered>> /\ lost' \in Nat
  BY DEF Start, SnapshotInv, SnapshotTypeOK
<1> HIDE DEF t
<1> QED
  BY <1>1, <1>2, <1>3, RequestKeeps

LEMMA ReadManifestKeeps ==
    ASSUME SnapshotInv, NEW q \in Importers, ReadManifest(q)
    PROVE  SnapshotInv'
<1> PICK u \in ImportTasks : u = import[q] /\ Right(u)
  BY RequestIn
<1>1. SnapshotTypeOK /\ Drawn /\ FormerlyKnown
  BY DEF SnapshotInv
<1> PICK m \in Manifests : m = LocalManifest
  BY <1>1, RowsAre
<1>2. PICK stage \in {"local", "count"} :
          stage = IF u.at = "manifest" /\ u.op = "bootstrap" THEN "local" ELSE "count"
  OBVIOUS
<1> DEFINE t == Having(u, m, stage)
<1>3. t \in ImportTasks /\ t.at = stage /\ t.op = u.op /\ t.manifest = m /\ t.id = u.id
  <2>1. stage \in Stages
    BY DEF Stages
  <2> QED
    BY <2>1, RequestWith
<1>4. Step(q, t) /\ UNCHANGED <<deviceState, cloudState, answered>> /\ lost' \in Nat
  BY <1>1, <1>2, SMT DEF ReadManifest, SnapshotTypeOK, Having
<1> HIDE DEF t
<1>5. u.at = "manifest" /\ edits = {} /\ MappingHolds
  BY DEF ReadManifest, Queueable
<1>6. CountsWell(t)
  <2>1. /\ Recs(m) = RowRecs /\ IsFiniteSet(RowRecs)
        /\ Cardinality(RowRecs) = Cardinality(m)
    BY <1>1, RowsAre, RowsCount DEF SnapshotInv
  <2>2. StagedSet \subseteq RowRecs /\ \A r \in Tracked : known[r] = Elsewhere => r \in RowRecs
    BY <1>1, SMT DEF Drawn, FormerlyKnown, StagedSet, RowRecs
  <2> QED
    BY <1>3, <2>1, <2>2, SMT DEF CountsWell
<1>7. AboutImport(t)
  BY <1>2, <1>3, <1>5, SMT DEF AboutImport, Right
<1>8. UpToDate(t)
  BY <1>3, <1>5 DEF UpToDate
<1> QED
  BY <1>3, <1>4, <1>6, <1>7, <1>8, RequestKeeps DEF Right

LEMMA CountKeeps ==
    ASSUME SnapshotInv, NEW q \in Importers, Count(q)
    PROVE  SnapshotInv'
<1> PICK u \in ImportTasks : u = import[q] /\ Right(u)
  BY RequestIn
<1>1. SnapshotTypeOK /\ FormerlyKnown
  BY DEF SnapshotInv
<1> DEFINE t == [u EXCEPT !.at = "remote"]
<1>2. /\ t \in ImportTasks /\ t.at = "remote" /\ t.op = u.op /\ t.manifest = u.manifest
      /\ t.id = u.id
  BY SMT DEF ImportTasks, TasksOver, Ops, Stages
<1>3. Step(q, t) /\ UNCHANGED <<deviceState, cloudState, answered>> /\ lost' \in Nat
  BY <1>1, SMT DEF Count, SnapshotTypeOK
<1>4. /\ u.at = "count" /\ Cardinality(StagedSet) = Cardinality(u.manifest)
      /\ \A r \in Tracked : staged[r].state \in {"none", "sent"}
  BY DEF Count, StagedSet
<1> HIDE DEF t
<1>5. /\ IsFiniteSet(Recs(u.manifest)) /\ Cardinality(Recs(u.manifest)) = Cardinality(u.manifest)
      /\ StagedSet \subseteq Recs(u.manifest) \/ Recs(u.manifest) \subseteq StagedSet
      /\ \A r \in Tracked : known[r] = Elsewhere => r \in Recs(u.manifest)
  BY <1>4 DEF Right, CountsWell
<1>6. StagedSet = Recs(u.manifest)
  <2>1. StagedSet \subseteq RowRecs
    BY SMT DEF SnapshotInv, Drawn, StagedSet, RowRecs
  <2>2. IsFiniteSet(StagedSet)
    BY <2>1, FS_Subset DEF SnapshotInv
  <2>3. CASE StagedSet \subseteq Recs(u.manifest)
    BY <1>4, <1>5, <2>3, FS_Subset
  <2>4. CASE Recs(u.manifest) \subseteq StagedSet
    BY <1>4, <1>5, <2>2, <2>4, FS_Subset
  <2> QED
    BY <1>5, <2>3, <2>4
<1>7. AllKnown
  <2> SUFFICES ASSUME NEW r \in Tracked, known[r] = Elsewhere PROVE FALSE
    BY DEF AllKnown
  <2>1. r \in StagedSet
    BY <1>5, <1>6
  <2>2. staged[r].state = "sent"
    BY <1>4, <2>1 DEF StagedSet
  <2> QED
    BY <1>1, <2>2 DEF FormerlyKnown
<1>8. CountsWell(t)
  BY <1>2, <1>7 DEF CountsWell
<1>9. AboutImport(t)
  BY <1>2, <1>4, SMT DEF AboutImport, Right
<1>10. UpToDate(t)
  BY <1>2, <1>4 DEF UpToDate, Right
<1> QED
  BY <1>2, <1>3, <1>8, <1>9, <1>10, RequestKeeps DEF Right

LEMMA QueueRefusedKeeps ==
    ASSUME SnapshotInv, NEW q \in Importers, QueueRefused(q)
    PROVE  SnapshotInv'
<1> PICK u \in ImportTasks : u = import[q] /\ Right(u)
  BY RequestIn
<1>1. /\ UNCHANGED <<deviceState, cloudState, answered>> /\ lost' \in Nat
  BY DEF QueueRefused, SnapshotInv, SnapshotTypeOK
<1>2. CASE u.accepted = 0
  <2> DEFINE t == [u EXCEPT !.at = "abort"]
  <2>1. /\ t \in ImportTasks /\ t.at = "abort" /\ t.op = u.op /\ t.manifest = u.manifest
        /\ t.id = u.id
    BY SMT DEF ImportTasks, TasksOver, Ops, Stages
  <2>2. Step(q, t) /\ u.at = "queue"
    BY <1>2 DEF QueueRefused
  <2> HIDE DEF t
  <2>3. CountsWell(t) /\ UpToDate(t)
    BY <2>1 DEF CountsWell, UpToDate
  <2>4. AboutImport(t)
    BY <2>1, <2>2, SMT DEF AboutImport, Right
  <2> QED
    BY <1>1, <2>1, <2>2, <2>3, <2>4, RequestKeeps DEF Right
<1>3. CASE u.accepted # 0
  <2>1. Step(q, NoTask)
    BY <1>3 DEF QueueRefused
  <2> QED
    BY <1>1, <2>1, NothingAsked, RequestKeeps
<1> QED
  BY <1>2, <1>3

LEMMA EndRequestKeeps ==
    ASSUME SnapshotInv, NEW q \in Importers, EndRequest(q)
    PROVE  SnapshotInv'
<1>1. /\ UNCHANGED <<deviceState, cloudState, answered>> /\ lost' \in Nat /\ Step(q, NoTask)
  BY DEF EndRequest, SnapshotInv, SnapshotTypeOK
<1> QED
  BY <1>1, NothingAsked, RequestKeeps

(* The steps that change the device's session. *)
LEMMA BeginLocalKeeps ==
    ASSUME SnapshotInv, NEW q \in Importers, BeginLocal(q)
    PROVE  SnapshotInv'
<1> PICK u \in ImportTasks : u = import[q] /\ Right(u)
  BY RequestIn
<1> DEFINE t == [u EXCEPT !.at = "remote"]
<1>1. t \in ImportTasks /\ t.at = "remote" /\ t.op = u.op /\ t.manifest = u.manifest
  BY SMT DEF ImportTasks, TasksOver, Stages
<1>2. Step(q, t) /\ u.at = "local" /\ u.op = "bootstrap" /\ u.manifest \in Manifests
  BY SMT DEF BeginLocal, Right, AboutImport, ImportTasks, TasksOver
<1> HIDE DEF t
<1>3. /\ session' = [state |-> "active", manifest |-> u.manifest]
      /\ UNCHANGED <<row, known, edits, staged, edited, slipped, head, imports, answered, lost>>
  BY DEF BeginLocal, cloudState
<1>4. Right(t)'
  BY <1>1, <1>2, <1>3, SMT DEF Right, CountsWell, AboutImport, UpToDate, HeadSet, LocalManifest
<1>5. \A v \in ImportTasks : Right(v) => Right(v)'
  BY <1>3, SMT DEF Right, CountsWell, AboutImport, UpToDate, RowRecs, StagedSet, AllKnown, HeadSet,
                   LocalManifest, MappingHolds
<1>6. /\ import' \in [Importers -> ImportTasks]
      /\ \A p \in Importers : Right(import[p])'
  BY <1>1, <1>2, <1>4, <1>5, RequestsMove DEF SnapshotInv
<1>7. SnapshotTypeOK'
  <2>1. session' \in Sessions
    BY <1>2, <1>3, SMT DEF Sessions
  <2> QED
    BY <1>3, <1>6, <2>1 DEF SnapshotInv, SnapshotTypeOK
<1>8. (Drawn /\ Taken /\ FormerlyKnown)' /\ IsFiniteSet(RowRecs)'
  BY <1>3 DEF SnapshotInv, Drawn, Taken, FormerlyKnown, RowRecs
<1>9. Accounted' /\ Completed'
  BY <1>3 DEF SnapshotInv, Accounted, Completed, HeadSet
<1>10. Current'
  <2>1. ~slipped => u.manifest = LocalManifest /\ MappingHolds /\ edits = {}
    BY <1>2 DEF Right, UpToDate
  <2>2. LocalManifest' = LocalManifest /\ MappingHolds' = MappingHolds /\ Staging' = Staging
    BY <1>3 DEF LocalManifest, MappingHolds, Staging
  <2>3. session'.manifest = u.manifest
    BY <1>3
  <2> QED
    BY <1>3, <2>1, <2>2, <2>3 DEF SnapshotInv, Current, OnlyImported, HeadSet
<1> QED
  BY <1>6, <1>7, <1>8, <1>9, <1>10 DEF SnapshotInv

(* The session ends, given up or completed. *)
LEMMA SessionEnds ==
    ASSUME SnapshotInv, NEW q \in Importers, Step(q, NoTask),
           UNCHANGED <<row, known, edits, staged, edited, slipped, head, imports, answered, lost>>,
           session' \in Sessions, session'.state # "active" \/ session' = session,
           session'.state = "completed" => Completed'
    PROVE  SnapshotInv'
<1>1. \A v \in ImportTasks : Right(v) => Right(v)'
  BY SMT DEF Right, CountsWell, AboutImport, UpToDate, RowRecs, StagedSet, AllKnown, HeadSet,
             LocalManifest, MappingHolds
<1>2. /\ import' \in [Importers -> ImportTasks]
      /\ \A p \in Importers : Right(import[p])'
  BY <1>1, NothingAsked, RequestsMove DEF SnapshotInv
<1>3. SnapshotTypeOK'
  BY <1>2 DEF SnapshotInv, SnapshotTypeOK
<1>4. (Drawn /\ Taken /\ FormerlyKnown)' /\ IsFiniteSet(RowRecs)'
  BY DEF SnapshotInv, Drawn, Taken, FormerlyKnown, RowRecs
<1>5. Accounted' /\ Completed'
  BY DEF SnapshotInv, Accounted, Completed, HeadSet
<1>6. Current'
  <2>1. /\ LocalManifest' = LocalManifest /\ MappingHolds' = MappingHolds /\ Staging' = Staging
        /\ OnlyImported' = OnlyImported /\ HeadSet' = HeadSet /\ Unwritten' = Unwritten
    BY DEF LocalManifest, MappingHolds, Staging, OnlyImported, HeadSet, Unwritten
  <2>2. Frozen' => Frozen /\ session' = session
    BY DEF Frozen
  <2> QED
    BY <2>1, <2>2 DEF SnapshotInv, Current
<1> QED
  BY <1>2, <1>3, <1>4, <1>5, <1>6 DEF SnapshotInv

LEMMA AbortLocalKeeps ==
    ASSUME SnapshotInv, NEW q \in Importers, AbortLocal(q)
    PROVE  SnapshotInv'
<1>1. Step(q, NoTask)
  BY DEF AbortLocal
<1>2. UNCHANGED <<row, known, edits, staged, edited, slipped, head, imports, answered, lost>>
  BY DEF AbortLocal, cloudState
<1>3. session \in Sessions
  BY DEF SnapshotInv, SnapshotTypeOK
<1>4. session' = session \/ session' = [session EXCEPT !.state = "aborted"]
  BY DEF AbortLocal
<1>5. session' \in Sessions /\ (session'.state # "active" \/ session' = session)
  BY <1>3, <1>4, SMT DEF Sessions
<1>6. session'.state = "completed" => session' = session
  BY <1>3, <1>4, SMT DEF Sessions
<1>7. session' = session => Completed'
  BY <1>2 DEF SnapshotInv, Completed, AllKnown
<1> QED
  BY <1>1, <1>2, <1>5, <1>6, <1>7, SessionEnds

LEMMA FinishKeeps ==
    ASSUME SnapshotInv, NEW q \in Importers, Finish(q)
    PROVE  SnapshotInv'
<1> PICK u \in ImportTasks : u = import[q] /\ Right(u)
  BY RequestIn
<1>1. Step(q, NoTask) /\ u.at = "finish"
  BY DEF Finish
<1>2. UNCHANGED <<row, known, edits, staged, edited, slipped, head, imports, answered, lost>>
  BY DEF Finish, cloudState
<1>3. session \in Sessions
  BY DEF SnapshotInv, SnapshotTypeOK
<1>4. \/ session' = session
      \/ session' = [session EXCEPT !.state = "completed"] /\ session.manifest = u.manifest
  BY DEF Finish
<1>5. session' \in Sessions /\ (session'.state # "active" \/ session' = session)
  BY <1>3, <1>4, SMT DEF Sessions
<1>6. AllKnown /\ u.id \in DOMAIN imports /\ imports[u.id].manifest = u.manifest
      /\ imports[u.id].status = "completed"
  BY <1>1 DEF Right, CountsWell, AboutImport
<1>7. Completed'
  <2>1. CASE session' = session
    BY <1>2, <2>1 DEF SnapshotInv, Completed, AllKnown
  <2>2. CASE session' # session
    <3>1. session'.manifest = u.manifest
      BY <1>3, <1>4, <2>2, SMT DEF Sessions
    <3> QED
      BY <1>2, <1>6, <3>1 DEF Completed, AllKnown
  <2> QED
    BY <2>1, <2>2
<1> QED
  BY <1>1, <1>2, <1>5, <1>7, SessionEnds

(* The steps of a request in the cloud.                                     *)
LEMMA ImportsChange ==
    ASSUME SnapshotInv, NEW q \in Importers, NEW t \in ImportTasks, Step(q, t), Right(t)',
           UNCHANGED <<deviceState, head, answered>>, lost' \in Nat,
           imports' \in Seq(Imports), Accounted', Taken',
           \A i \in DOMAIN imports :
               /\ i \in DOMAIN imports' /\ imports'[i].manifest = imports[i].manifest
               /\ imports[i].status = "completed" => imports'[i].status = "completed",
           edits = {} => \A i \in Staging' : imports'[i].manifest = LocalManifest,
           (edits = {} /\ OnlyImported' /\ HeadSet # {})
               => imports'[Len(imports')].manifest = LocalManifest
    PROVE  SnapshotInv'
<1>1. UNCHANGED <<row, known, edits, staged, session, edited, slipped>>
  BY DEF deviceState
<1>2. \A v \in ImportTasks : Right(v) => Right(v)'
  <2> SUFFICES ASSUME NEW v \in ImportTasks, Right(v) PROVE Right(v)'
    OBVIOUS
  <2>1. UpToDate(v)'
    BY <1>1, SMT DEF Right, UpToDate, HeadSet, LocalManifest, MappingHolds
  <2>2. RowRecs' = RowRecs /\ StagedSet' = StagedSet
    BY <1>1 DEF RowRecs, StagedSet
  <2>3. \A r \in Tracked : known'[r] = Elsewhere => known[r] = Elsewhere
    BY <1>1
  <2> QED
    BY <2>1, <2>2, <2>3, RequestStays
<1>3. /\ import' \in [Importers -> ImportTasks]
      /\ \A p \in Importers : Right(import[p])'
  BY <1>2, RequestsMove DEF SnapshotInv
<1>4. SnapshotTypeOK'
  BY <1>1, <1>3 DEF SnapshotInv, SnapshotTypeOK
<1>5. (Drawn /\ FormerlyKnown)' /\ IsFiniteSet(RowRecs)'
  BY <1>1 DEF SnapshotInv, Drawn, FormerlyKnown, RowRecs
<1>6. Completed'
  BY <1>1, SMT DEF SnapshotInv, Completed, AllKnown
<1>7. Current'
  <2>1. /\ LocalManifest' = LocalManifest /\ MappingHolds' = MappingHolds
        /\ HeadSet' = HeadSet /\ Unwritten' = Unwritten /\ Frozen' = Frozen
    BY <1>1 DEF LocalManifest, MappingHolds, HeadSet, Unwritten, Frozen
  <2> QED
    BY <1>1, <2>1 DEF SnapshotInv, Current
<1> QED
  BY <1>3, <1>4, <1>5, <1>6, <1>7 DEF SnapshotInv

LEMMA ImportsStay ==
    ASSUME SnapshotInv, NEW q \in Importers, NEW t \in ImportTasks, Step(q, t), Right(t),
           UNCHANGED <<deviceState, head, answered, imports>>, lost' \in Nat
    PROVE  SnapshotInv'
BY RequestKeeps DEF cloudState

LEMMA LoseCounts ==
    ASSUME SnapshotInv, UNCHANGED lost \/ Lose
    PROVE  lost' \in Nat
BY SMT DEF SnapshotInv, SnapshotTypeOK, Lose

LEMMA ImportEnds ==
    ASSUME SnapshotInv, NEW i \in Staging, NEW s \in {"aborted", "completed"},
           imports' = [imports EXCEPT ![i].status = s], UNCHANGED <<deviceState, head>>,
           s = "aborted" => imports[i].items = {},
           s = "completed" => imports[i].items = imports[i].manifest
    PROVE  /\ imports' \in Seq(Imports) /\ Accounted' /\ Taken'
           /\ \A j \in DOMAIN imports :
                  /\ j \in DOMAIN imports' /\ imports'[j].manifest = imports[j].manifest
                  /\ imports[j].status = "completed" => imports'[j].status = "completed"
           /\ edits = {} => \A j \in Staging' : imports'[j].manifest = LocalManifest
           /\ (edits = {} /\ OnlyImported' /\ HeadSet # {})
                  => imports'[Len(imports')].manifest = LocalManifest
           /\ imports'[i].status = s
<1>1. SnapshotTypeOK /\ Accounted /\ Taken /\ Current
  BY DEF SnapshotInv
<1> PICK n \in Nat : /\ Len(imports) = n /\ DOMAIN imports = 1 .. n
                     /\ imports \in [1 .. n -> Imports]
  BY <1>1, ImportsAre
<1>2. i \in 1 .. n /\ i = n /\ imports[i].status = "staging"
  BY <1>1, StagingIsNewest DEF Staging
<1>3. /\ imports' \in [1 .. n -> Imports]
      /\ \A j \in 1 .. n : j # i => imports'[j] = imports[j]
      /\ imports'[i].status = s /\ imports'[i].manifest = imports[i].manifest
      /\ imports'[i].items = imports[i].items
  <2>1. imports[i] \in Imports /\ [imports[i] EXCEPT !.status = s] \in Imports
    BY <1>2, SMT DEF Imports
  <2>2. imports' = [imports EXCEPT ![i] = [imports[i] EXCEPT !.status = s]]
    BY <1>2, SMT
  <2>3. imports'[i] = [imports[i] EXCEPT !.status = s]
    BY <1>2, <2>2, SMT
  <2>4. /\ imports' \in [1 .. n -> Imports]
        /\ \A j \in 1 .. n : j # i => imports'[j] = imports[j]
    BY <1>2, <2>1, <2>2, SMT
  <2> QED
    BY <2>1, <2>3, <2>4, SMT DEF Imports
<1>4. imports' \in Seq(Imports) /\ Len(imports') = n /\ DOMAIN imports' = 1 .. n
  BY <1>3, SMT
<1>5. UNCHANGED <<head, edits, row, edited>>
  BY DEF deviceState
<1>6. \A j \in 1 .. n : imports'[j].manifest = imports[j].manifest
                        /\ imports'[j].items = imports[j].items
  BY <1>3
<1>7. Accounted'
  <2> SUFFICES ASSUME NEW j \in 1 .. n
               PROVE  /\ imports'[j].status = "completed" => imports'[j].items = imports'[j].manifest
                      /\ imports'[j].status = "aborted" => imports'[j].items = {}
                      /\ j < n => imports'[j].status # "staging" /\ imports'[j].items = {}
                      /\ imports'[j].status = "staging" => HeadSet' \subseteq imports'[j].items
    BY <1>4 DEF Accounted
  <2>1. HeadSet' = HeadSet
    BY <1>5 DEF HeadSet
  <2>2. CASE j = i
    BY <1>2, <1>3, <2>2, SMT
  <2>3. CASE j # i
    BY <1>1, <1>3, <2>1, <2>3 DEF Accounted
  <2> QED
    BY <2>2, <2>3
<1>8. Taken'
  BY <1>1, <1>4, <1>5, <1>6 DEF Taken
<1>9. edits = {} => \A j \in Staging' : imports'[j].manifest = LocalManifest
  <2>1. \A j \in Staging' : j \in 1 .. n /\ j # i /\ imports[j].status = "staging"
    BY <1>3, <1>4 DEF Staging
  <2> QED
    BY <1>1, <1>6, <2>1 DEF Current, Staging
<1>10. (edits = {} /\ OnlyImported' /\ HeadSet # {})
           => imports'[Len(imports')].manifest = LocalManifest
  <2>1. edits = {} => imports[n].manifest = LocalManifest
    BY <1>1, <1>2 DEF Current
  <2> QED
    BY <1>2, <1>4, <1>6, <2>1
<1>11. \A j \in DOMAIN imports :
           /\ j \in DOMAIN imports' /\ imports'[j].manifest = imports[j].manifest
           /\ imports[j].status = "completed" => imports'[j].status = "completed"
  BY <1>2, <1>3, <1>4, <1>6
<1> QED
  BY <1>3, <1>4, <1>7, <1>8, <1>9, <1>10, <1>11

LEMMA AbortRemoteKeeps ==
    ASSUME SnapshotInv, NEW q \in Importers, AbortRemote(q)
    PROVE  SnapshotInv'
<1> PICK u \in ImportTasks : u = import[q] /\ Right(u)
  BY RequestIn
<1> DEFINE t == [u EXCEPT !.at = "thaw"]
<1>1. t \in ImportTasks /\ t.at = "thaw" /\ t.op = u.op /\ t.manifest = u.manifest /\ t.id = u.id
  BY SMT DEF ImportTasks, TasksOver, Stages
<1>2. u.at = "abort" /\ (Step(q, t) \/ Step(q, NoTask)) /\ UNCHANGED <<deviceState, head, answered>>
  BY DEF AbortRemote
<1>3. lost' \in Nat
  BY LoseCounts DEF AbortRemote
<1> HIDE DEF t
<1>4. u.op # "none" /\ u.id \in DOMAIN imports /\ imports[u.id].manifest = u.manifest
  BY <1>2, SMT DEF Right, AboutImport
<1>5. Right(t)
  BY <1>1, <1>4, SMT DEF Right, CountsWell, AboutImport, UpToDate
<1>6. PICK next \in ImportTasks : Step(q, next) /\ Right(next) /\ next.at \in {"thaw", "none"}
  BY <1>1, <1>2, <1>5, NothingAsked DEF NoTask
<1>7. CASE UNCHANGED imports
  BY <1>2, <1>3, <1>6, <1>7, ImportsStay
<1>8. CASE /\ imports[u.id].status = "staging" /\ imports[u.id].items = {}
           /\ imports' = [imports EXCEPT ![u.id].status = "aborted"]
  <2>1. u.id \in Staging
    BY <1>4, <1>8 DEF Staging
  <2>2. /\ imports' \in Seq(Imports) /\ Accounted' /\ Taken'
        /\ \A j \in DOMAIN imports :
               /\ j \in DOMAIN imports' /\ imports'[j].manifest = imports[j].manifest
               /\ imports[j].status = "completed" => imports'[j].status = "completed"
        /\ edits = {} => \A j \in Staging' : imports'[j].manifest = LocalManifest
        /\ (edits = {} /\ OnlyImported' /\ HeadSet # {})
               => imports'[Len(imports')].manifest = LocalManifest
    BY <1>2, <1>8, <2>1, ImportEnds
  <2>3. Right(next)'
    <3>1. AboutImport(next)'
      BY <1>6, <2>2, SMT DEF Right, AboutImport
    <3>2. CountsWell(next)' /\ UpToDate(next)'
      BY <1>6 DEF CountsWell, UpToDate
    <3> QED
      BY <3>1, <3>2 DEF Right
  <2> QED
    BY <1>2, <1>3, <1>6, <2>2, <2>3, ImportsChange
<1> QED
  BY <1>7, <1>8 DEF AbortRemote

LEMMA CompleteKeeps ==
    ASSUME SnapshotInv, NEW q \in Importers, Complete(q)
    PROVE  SnapshotInv'
<1> PICK u \in ImportTasks : u = import[q] /\ Right(u)
  BY RequestIn
<1> DEFINE t == [u EXCEPT !.at = "finish"]
<1>1. t \in ImportTasks /\ t.at = "finish" /\ t.op = u.op /\ t.manifest = u.manifest
      /\ t.id = u.id
  BY SMT DEF ImportTasks, TasksOver, Stages
<1>2. u.at = "complete" /\ (Step(q, t) \/ Step(q, NoTask)) /\ UNCHANGED <<deviceState, head, answered>>
  BY DEF Complete
<1>3. lost' \in Nat
  BY LoseCounts DEF Complete
<1> HIDE DEF t
<1>4. /\ u.op = "complete" /\ u.id \in DOMAIN imports /\ imports[u.id].manifest = u.manifest
      /\ AllKnown
  BY <1>2, SMT DEF Right, AboutImport, CountsWell
<1>5. imports'[u.id].status = "completed" /\ imports'[u.id].manifest = u.manifest
      /\ u.id \in DOMAIN imports' /\ AllKnown' => Right(t)'
  BY <1>1, <1>4, SMT DEF Right, CountsWell, AboutImport, UpToDate
<1>6. AllKnown'
  BY <1>2, <1>4 DEF AllKnown, deviceState
<1>7. CASE UNCHANGED imports /\ imports[u.id].status = "completed"
  <2>1. Right(t)
    BY <1>1, <1>4, <1>7, SMT DEF Right, CountsWell, AboutImport, UpToDate
  <2> QED
    BY <1>1, <1>2, <1>3, <1>7, <2>1, NothingAsked, ImportsStay
<1>8. CASE /\ imports[u.id].status = "staging" /\ imports[u.id].items = imports[u.id].manifest
           /\ imports' = [imports EXCEPT ![u.id].status = "completed"]
  <2>1. u.id \in Staging
    BY <1>4, <1>8 DEF Staging
  <2>2. /\ imports' \in Seq(Imports) /\ Accounted' /\ Taken'
        /\ \A j \in DOMAIN imports :
               /\ j \in DOMAIN imports' /\ imports'[j].manifest = imports[j].manifest
               /\ imports[j].status = "completed" => imports'[j].status = "completed"
        /\ edits = {} => \A j \in Staging' : imports'[j].manifest = LocalManifest
        /\ (edits = {} /\ OnlyImported' /\ HeadSet # {})
               => imports'[Len(imports')].manifest = LocalManifest
        /\ imports'[u.id].status = "completed"
    BY <1>2, <1>8, <2>1, ImportEnds
  <2>3. Right(t)'
    BY <1>4, <1>5, <1>6, <2>2
  <2>4. Step(q, t) => SnapshotInv'
    BY <1>1, <1>2, <1>3, <2>2, <2>3, ImportsChange
  <2>5. Step(q, NoTask) => SnapshotInv'
    BY <1>2, <1>3, <2>2, NothingAsked, ImportsChange
  <2> QED
    BY <1>2, <2>4, <2>5
<1> QED
  BY <1>7, <1>8 DEF Complete

LEMMA BeginRemoteKeeps ==
    ASSUME SnapshotInv, NEW q \in Importers, BeginRemote(q)
    PROVE  SnapshotInv'
<1> PICK u \in ImportTasks : u = import[q] /\ Right(u)
  BY RequestIn
<1>1. SnapshotTypeOK /\ Accounted /\ Taken /\ Current
  BY DEF SnapshotInv
<1>2. u.at = "remote" /\ UNCHANGED <<deviceState, head, answered>>
  BY DEF BeginRemote
<1>3. PICK i \in 1 .. MaxImports :
          /\ \/ Resumes(u.manifest, i) /\ UNCHANGED imports
             \/ /\ OpensAnew(u.manifest) /\ i = Len(imports) + 1
                /\ imports' = Append(imports, [manifest |-> u.manifest, items |-> {},
                                               status |-> "staging"])
          /\ \/ Step(q, AfterBegin(q, i)) /\ UNCHANGED lost
             \/ Lose /\ Step(q, NoTask)
  BY DEF BeginRemote
<1>4. lost' \in Nat
  BY <1>3, LoseCounts
<1>5. u.manifest \in Manifests /\ u.op # "none" /\ i \in Nat
  BY <1>2, <1>3, SnapshotAssumption, SMT DEF ImportTasks, TasksOver, Right, AboutImport
<1>6. ASSUME imports'[i] \in Imports, i \in DOMAIN imports', imports'[i].manifest = u.manifest,
             \A j \in DOMAIN imports : j \in DOMAIN imports' /\ imports'[j] = imports[j]
      PROVE  \E t \in ImportTasks : Step(q, t) /\ Right(t)'
  <2>1. CASE Step(q, NoTask)
    BY <2>1, NothingAsked
  <2>2. CASE Step(q, AfterBegin(q, i))
    <3>1. PICK n \in Sizes : n = Cardinality(imports'[i].items)
      BY <1>6, SMT DEF Imports, Sizes
    <3>2. PICK stage \in {"queue", "complete"} :
              stage = IF u.at = "remote" /\ u.op = "bootstrap" THEN "queue" ELSE "complete"
      OBVIOUS
    <3> DEFINE t == ImportBegun(u, i, n, stage)
    <3>3. AfterBegin(q, i) = t
      BY <3>1, <3>2 DEF AfterBegin, ImportBegun
    <3>4. stage \in Stages
      BY <3>2 DEF Stages
    <3>5. t \in ImportTasks /\ t.at = stage /\ t.op = u.op /\ t.manifest = u.manifest /\ t.id = i
      BY <1>5, <3>1, <3>4, RequestBegun
    <3> HIDE DEF t
    <3>6. u.op = "bootstrap" \/ u.op = "complete"
      BY <1>5, SMT DEF ImportTasks, TasksOver, Ops
    <3>7. stage = "complete" => u.op = "complete"
      BY <1>2, <3>2, <3>6
    <3>8. u.op = "complete" => AllKnown'
      BY <1>2 DEF Right, CountsWell, AllKnown, deviceState
    <3>9. CountsWell(t)'
      BY <3>2, <3>5, <3>8 DEF CountsWell
    <3>10. AboutImport(t)'
      BY <1>5, <1>6, <3>2, <3>5, <3>7, SMT DEF AboutImport
    <3>11. UpToDate(t)'
      BY <3>2, <3>5 DEF UpToDate
    <3> QED
      BY <2>2, <3>3, <3>5, <3>9, <3>10, <3>11 DEF Right
  <2> QED
    BY <1>3, <2>1, <2>2
<1> PICK n \in Nat : /\ Len(imports) = n /\ DOMAIN imports = 1 .. n
                     /\ imports \in [1 .. n -> Imports]
  BY <1>1, ImportsAre
<1>7. UNCHANGED <<head, edits, row, edited>>
  BY <1>2 DEF deviceState
<1>8. CASE Resumes(u.manifest, i) /\ UNCHANGED imports
  <2>1. i \in DOMAIN imports /\ imports[i].manifest = u.manifest
    BY <1>8 DEF Resumes, Staging
  <2>2. PICK t \in ImportTasks : Step(q, t) /\ Right(t)'
    BY <1>6, <1>8, <2>1
  <2>3. Accounted' /\ Taken'
    BY <1>1, <1>7, <1>8 DEF Accounted, Taken, HeadSet
  <2>4. edits = {} => \A j \in Staging' : imports'[j].manifest = LocalManifest
    BY <1>1, <1>8 DEF Current, Staging
  <2>5. (edits = {} /\ OnlyImported' /\ HeadSet # {})
            => imports'[Len(imports')].manifest = LocalManifest
    BY <1>1, <1>7, <1>8 DEF Current, OnlyImported, HeadSet
  <2>6. imports' \in Seq(Imports)
    BY <1>1, <1>8 DEF SnapshotTypeOK
  <2> QED
    BY <1>2, <1>4, <1>8, <2>2, <2>3, <2>4, <2>5, <2>6, ImportsChange
<1>9. CASE /\ OpensAnew(u.manifest) /\ i = Len(imports) + 1
           /\ imports' = Append(imports, [manifest |-> u.manifest, items |-> {},
                                          status |-> "staging"])
  <2>1. Staging = {} /\ HeadSet = {}
    BY <1>9 DEF OpensAnew
  <2>2. PICK new \in Imports : new = [manifest |-> u.manifest, items |-> {}, status |-> "staging"]
    <3>1. PICK nothing \in Manifests : nothing = {}
      BY DEF Manifests
    <3>2. PICK m \in Manifests : m = u.manifest
      BY <1>5
    <3>3. [manifest |-> m, items |-> nothing, status |-> "staging"] \in Imports
      BY <3>1, <3>2, SMT DEF Imports
    <3> QED
      BY <3>1, <3>2, <3>3
  <2>3. new.manifest = u.manifest /\ new.items = {} /\ new.status = "staging"
    BY <2>2
  <2>4. /\ imports' \in Seq(Imports) /\ Len(imports') = n + 1 /\ DOMAIN imports' = 1 .. n + 1
        /\ imports'[n + 1] = new /\ \A j \in 1 .. n : imports'[j] = imports[j]
    <3>1. imports \in Seq(Imports)
      BY <1>1 DEF SnapshotTypeOK
    <3> QED
      BY <1>9, <2>2, <3>1, SMT
  <2>5. \A j \in 1 .. n : j \in 1 .. n + 1 /\ j # n + 1
    BY SMT
  <2>6. n + 1 \in 1 .. n + 1 /\ \A j \in 1 .. n + 1 : j = n + 1 \/ j \in 1 .. n
    BY SMT
  <2>7. \A j \in 1 .. n : imports[j].items = {} /\ imports[j].status # "staging"
    <3> SUFFICES ASSUME NEW j \in 1 .. n
                 PROVE  imports[j].items = {} /\ imports[j].status # "staging"
      OBVIOUS
    <3>1. imports[j].status # "staging"
      BY <2>1 DEF Staging
    <3>2. imports[j].items \in Manifests
      BY SMT DEF Imports
    <3>3. ASSUME NEW x \in imports[j].items
          PROVE  FALSE
      <4>1. x \in Tracked \X Nat
        BY <3>2, <3>3 DEF Manifests
      <4>2. PICK r \in Tracked, b \in Nat : x = <<r, b>>
        BY <4>1, SMT
      <4>3. head[r] # 0
        BY <1>1, <3>3, <4>2 DEF Taken
      <4> QED
        BY <1>1, <2>1, <4>2, <4>3, HeadsAre
    <3> QED
      BY <3>1, <3>3
  <2>8. Accounted'
    <3> SUFFICES ASSUME NEW j \in 1 .. n + 1
                 PROVE  /\ imports'[j].status = "completed"
                               => imports'[j].items = imports'[j].manifest
                        /\ imports'[j].status = "aborted" => imports'[j].items = {}
                        /\ j < n + 1 => imports'[j].status # "staging" /\ imports'[j].items = {}
                        /\ imports'[j].status = "staging" => HeadSet' \subseteq imports'[j].items
      BY <2>4 DEF Accounted
    <3>1. CASE j = n + 1
      <4>1. HeadSet' = {}
        BY <1>7, <2>1 DEF HeadSet
      <4>2. ~(n + 1 < n + 1)
        BY SMT
      <4> QED
        BY <2>3, <2>4, <3>1, <4>1, <4>2
    <3>2. CASE j \in 1 .. n
      BY <1>1, <2>4, <2>7, <3>2 DEF Accounted
    <3> QED
      BY <2>6, <3>1, <3>2
  <2>9. Taken'
    <3>1. \A j \in 1 .. n + 1 : imports'[j].items = {}
      BY <2>3, <2>4, <2>6, <2>7
    <3> QED
      BY <2>4, <3>1 DEF Taken
  <2>10. /\ i \in DOMAIN imports' /\ imports'[i] \in Imports /\ imports'[i].manifest = u.manifest
         /\ \A j \in DOMAIN imports : j \in DOMAIN imports' /\ imports'[j] = imports[j]
    BY <1>9, <2>3, <2>4, <2>5, <2>6
  <2>11. PICK t \in ImportTasks : Step(q, t) /\ Right(t)'
    BY <1>6, <2>10
  <2>12. edits = {} => \A j \in Staging' : imports'[j].manifest = LocalManifest
    <3>1. edits = {} => u.manifest = LocalManifest
      BY <1>2, <2>1 DEF Right, UpToDate
    <3>2. \A j \in Staging' : j \in 1 .. n + 1 /\ imports'[j].status = "staging"
      BY <2>4 DEF Staging
    <3>3. \A j \in Staging' : j = n + 1
      BY <2>4, <2>6, <2>7, <3>2
    <3> QED
      BY <2>3, <2>4, <3>1, <3>3
  <2> QED
    BY <1>2, <1>4, <2>1, <2>4, <2>8, <2>9, <2>10, <2>11, <2>12, ImportsChange
<1> QED
  BY <1>3, <1>8, <1>9

(* The steps of the device. *)
LEMMA QueueKeeps ==
    ASSUME SnapshotInv, NEW q \in Importers, Queue(q)
    PROVE  SnapshotInv'
<1>1. /\ SnapshotTypeOK /\ Drawn /\ Taken /\ FormerlyKnown /\ IsFiniteSet(RowRecs)
      /\ Accounted /\ Completed /\ Current
  BY DEF SnapshotInv
<1>2. /\ edits = {} /\ Step(q, NoTask)
      /\ UNCHANGED <<row, known, edits, session, edited, slipped, head, imports, answered, lost>>
  BY DEF Queue, Queueable, cloudState
<1>3. ASSUME NEW r \in Tracked
      PROVE  /\ staged'[r] \in Entries
             /\ \/ staged'[r] = staged[r]
                \/ /\ staged[r].state = "none" /\ row[r] # 0
                   /\ staged'[r].body = row[r] /\ staged'[r].state = "queued"
                \/ /\ staged[r].state = "manual" /\ staged'[r].state = "queued"
                   /\ staged'[r].body = staged[r].body
             /\ staged'[r].state = "none" => row[r] = 0
  <2>1. staged[r] \in Entries /\ row[r] \in Nat
    BY <1>1, SMT DEF SnapshotTypeOK
  <2>2. CASE row[r] # 0 /\ staged[r].state = "none"
    <3>1. staged'[r] = [body |-> row[r], state |-> "queued"]
      BY <2>2, SMT DEF Queue
    <3> QED
      BY <2>1, <2>2, <3>1, SMT DEF Entries
  <2>3. CASE ~(row[r] # 0 /\ staged[r].state = "none") /\ staged[r].state = "manual"
    <3>1. staged'[r] = [staged[r] EXCEPT !.state = "queued"]
      BY <2>3, SMT DEF Queue
    <3> QED
      BY <2>1, <2>3, <3>1, SMT DEF Entries
  <2>4. CASE ~(row[r] # 0 /\ staged[r].state = "none") /\ staged[r].state # "manual"
    <3>1. staged'[r] = staged[r]
      BY <2>4, SMT DEF Queue
    <3> QED
      BY <2>1, <2>4, <3>1
  <2> QED
    BY <2>2, <2>3, <2>4
<1>4. staged' \in [Tracked -> Entries]
  BY <1>3, SMT DEF Queue
<1>5. StagedSet' = RowRecs' /\ RowRecs' = RowRecs
  <2>1. RowRecs' = RowRecs
    BY <1>2 DEF RowRecs
  <2>2. \A r \in Tracked : staged'[r].state # "none" => row[r] # 0
    BY <1>1, <1>3 DEF Drawn
  <2> QED
    BY <1>2, <1>3, <2>1, <2>2, SMT DEF StagedSet, RowRecs
<1>6. MappingHolds => MappingHolds'
  <2> SUFFICES ASSUME MappingHolds, NEW r \in Tracked, staged'[r].state # "none"
               PROVE  staged'[r].body = row[r]
    BY <1>2 DEF MappingHolds
  <2> QED
    BY <1>3 DEF MappingHolds
<1>7. \A v \in ImportTasks : Right(v) => Right(v)'
  <2> SUFFICES ASSUME NEW v \in ImportTasks, Right(v) PROVE Right(v)'
    OBVIOUS
  <2>1. UpToDate(v)'
    BY <1>2, <1>6, SMT DEF Right, UpToDate, HeadSet, LocalManifest
  <2> QED
    BY <1>2, <1>5, <2>1, RequestStays
<1>8. /\ import' \in [Importers -> ImportTasks]
      /\ \A p \in Importers : Right(import[p])'
  BY <1>2, <1>7, NothingAsked, RequestsMove DEF SnapshotInv
<1>9. SnapshotTypeOK'
  BY <1>1, <1>2, <1>4, <1>8 DEF SnapshotTypeOK
<1>10. Drawn'
  <2>1. \A r \in Tracked : row'[r] <= edited' /\ staged'[r].body <= edited' /\ head'[r] <= edited'
    BY <1>1, <1>2, <1>3 DEF Drawn
  <2>2. \A r \in Tracked : staged'[r].state # "none" => staged'[r].body # 0 /\ row'[r] # 0
    BY <1>1, <1>2, <1>3 DEF Drawn
  <2>3. \A r \in answered' : staged'[r].state # "none"
    <3> SUFFICES ASSUME NEW r \in answered PROVE staged'[r].state # "none"
      BY <1>2
    <3>1. r \in Tracked /\ staged[r].state # "none"
      BY <1>1, SnapshotOwn DEF SnapshotTypeOK, Drawn
    <3> QED
      BY <1>3, <3>1
  <2> QED
    BY <1>2, <2>1, <2>2, <2>3 DEF Drawn
<1>11. FormerlyKnown'
  <2> SUFFICES ASSUME NEW r \in Tracked, known[r] = Elsewhere
               PROVE  /\ row[r] = 1 /\ staged'[r].state # "sent"
                      /\ staged'[r].state # "none" => staged'[r].body = 1
    BY <1>2 DEF FormerlyKnown
  <2> QED
    BY <1>1, <1>3 DEF FormerlyKnown
<1>12. Taken' /\ Accounted' /\ Completed' /\ IsFiniteSet(RowRecs)'
  BY <1>1, <1>2 DEF Taken, Accounted, Completed, HeadSet, AllKnown, RowRecs
<1>13. Current'
  BY <1>1, <1>2, <1>6 DEF Current, Staging, LocalManifest, OnlyImported, HeadSet, Frozen, Unwritten
<1> QED
  BY <1>8, <1>9, <1>10, <1>11, <1>12, <1>13 DEF SnapshotInv

(* A step that changes what is staged of one record, and what is known of it.*)
LEMMA StagedChanges ==
    ASSUME SnapshotInv, NEW r \in Mine, staged[r].state # "none",
           NEW s \in {"sent", "manual"}, staged' = [staged EXCEPT ![r].state = s],
           known' = known \/ (known' = [known EXCEPT ![r] = staged[r].body] /\ s = "sent"),
           s = "sent" /\ row[r] = staged[r].body
               => known' = [known EXCEPT ![r] = staged[r].body],
           answered' \subseteq answered,
           UNCHANGED <<row, edits, session, cloudState, import, edited, lost, slipped>>
    PROVE  SnapshotInv'
<1>1. /\ SnapshotTypeOK /\ Drawn /\ Taken /\ FormerlyKnown /\ IsFiniteSet(RowRecs)
      /\ Accounted /\ Completed /\ Current
  BY DEF SnapshotInv
<1>2. r \in Tracked /\ staged[r] \in Entries /\ head' = head /\ imports' = imports
  BY <1>1, SnapshotOwn, SMT DEF SnapshotTypeOK, cloudState
<1>3. /\ staged' \in [Tracked -> Entries] /\ staged'[r].state = s
      /\ \A x \in Tracked : staged'[x].body = staged[x].body
      /\ \A x \in Tracked : x # r => staged'[x] = staged[x]
  <2>1. [staged[r] EXCEPT !.state = s] \in Entries
    BY <1>2, SMT DEF Entries
  <2>2. staged' = [staged EXCEPT ![r] = [staged[r] EXCEPT !.state = s]]
    BY <1>2, SMT
  <2>3. staged \in [Tracked -> Entries]
    BY <1>1 DEF SnapshotTypeOK
  <2>4. staged'[r] = [staged[r] EXCEPT !.state = s]
    BY <1>2, <2>2, <2>3, SMT
  <2>5. staged'[r].body = staged[r].body /\ staged'[r].state = s
    BY <1>2, <2>4, SMT DEF Entries
  <2>6. \A x \in Tracked : x # r => staged'[x] = staged[x]
    BY <1>2, <2>2, <2>3, SMT
  <2>7. staged' \in [Tracked -> Entries]
    BY <1>2, <2>1, <2>2, <2>3, SMT
  <2> QED
    BY <2>5, <2>6, <2>7
<1>4. \A x \in Tracked : staged'[x].state # "none" <=> staged[x].state # "none"
  BY <1>3
<1>5. /\ known' \in [Tracked -> Int]
      /\ \A x \in Tracked : known'[x] = Elsewhere => known[x] = Elsewhere
      /\ \A x \in Tracked : known'[x] = Elsewhere /\ x = r => s = "manual"
  <2>1. staged[r].body \in Nat /\ known \in [Tracked -> Int]
    BY <1>1, <1>2, SMT DEF SnapshotTypeOK, Entries
  <2>2. CASE known' = known
    <3>1. s = "sent" => known[r] # Elsewhere
      <4> SUFFICES ASSUME s = "sent", known[r] = Elsewhere PROVE FALSE
        OBVIOUS
      <4>1. row[r] = 1 /\ staged[r].body = 1
        BY <1>1, <1>2 DEF FormerlyKnown
      <4>2. known' = [known EXCEPT ![r] = staged[r].body]
        BY <4>1
      <4>3. known[r] = 1
        BY <1>2, <2>1, <2>2, <4>1, <4>2, SMT
      <4> QED
        BY <4>3, SMT DEF Elsewhere
    <3> QED
      BY <2>1, <2>2, <3>1
  <2>3. CASE known' = [known EXCEPT ![r] = staged[r].body]
    BY <1>2, <2>1, <2>3, SMT DEF Elsewhere
  <2> QED
    BY <2>2, <2>3
<1>6. LocalManifest' = LocalManifest /\ HeadSet' = HeadSet /\ RowRecs' = RowRecs
  BY <1>2 DEF LocalManifest, HeadSet, RowRecs
<1>7. StagedSet' = StagedSet
  BY <1>4 DEF StagedSet
<1>8. MappingHolds' = MappingHolds
  BY <1>3, <1>4 DEF MappingHolds
<1>9. \A v \in ImportTasks : Right(v) => Right(v)'
  <2> SUFFICES ASSUME NEW v \in ImportTasks, Right(v) PROVE Right(v)'
    OBVIOUS
  <2>1. UpToDate(v)'
    BY <1>6, <1>8, SMT DEF Right, UpToDate
  <2> QED
    BY <1>2, <1>5, <1>6, <1>7, <2>1, RequestStays
<1>10. \A p \in Importers : Right(import[p])'
  BY <1>1, <1>9, RequestsStay DEF SnapshotInv
<1>11. SnapshotTypeOK'
  BY <1>1, <1>2, <1>3, <1>5 DEF SnapshotTypeOK
<1>12. Drawn'
  <2>1. \A x \in Tracked : row'[x] <= edited' /\ staged'[x].body <= edited' /\ head'[x] <= edited'
    BY <1>1, <1>2, <1>3 DEF Drawn
  <2>2. \A x \in Tracked : staged'[x].state # "none" => staged'[x].body # 0 /\ row'[x] # 0
    BY <1>1, <1>3, <1>4 DEF Drawn
  <2>3. \A e \in edits' : e.body <= edited' /\ staged'[e.rec].body # e.body
    <3> SUFFICES ASSUME NEW e \in edits PROVE e.body <= edited /\ staged'[e.rec].body # e.body
      OBVIOUS
    <3>1. e.rec \in Tracked
      BY <1>1, SnapshotOwn, SMT DEF SnapshotTypeOK, Edits
    <3> QED
      BY <1>1, <1>3, <3>1 DEF Drawn
  <2>4. \A x \in answered' : staged'[x].state # "none"
    <3> SUFFICES ASSUME NEW x \in answered PROVE staged'[x].state # "none"
      OBVIOUS
    <3>1. x \in Tracked /\ staged[x].state # "none"
      BY <1>1, SnapshotOwn DEF SnapshotTypeOK, Drawn
    <3> QED
      BY <1>4, <3>1
  <2> QED
    BY <2>1, <2>2, <2>3, <2>4 DEF Drawn
<1>13. FormerlyKnown'
  <2> SUFFICES ASSUME NEW x \in Tracked, known'[x] = Elsewhere
               PROVE  /\ row[x] = 1 /\ staged'[x].state # "sent"
                      /\ staged'[x].state # "none" => staged'[x].body = 1
    BY DEF FormerlyKnown
  <2>1. known[x] = Elsewhere
    BY <1>5
  <2>2. /\ row[x] = 1 /\ staged[x].state # "sent"
        /\ staged[x].state # "none" => staged[x].body = 1
    BY <1>1, <2>1 DEF FormerlyKnown
  <2>3. staged'[x].state # "sent"
    <3>1. CASE x = r
      BY <1>3, <1>5, <3>1
    <3>2. CASE x # r
      BY <1>3, <2>2, <3>2
    <3> QED
      BY <3>1, <3>2
  <2> QED
    BY <1>3, <1>4, <2>2, <2>3
<1>14. Taken' /\ Accounted' /\ IsFiniteSet(RowRecs)'
  BY <1>1, <1>2, <1>6 DEF Taken, Accounted
<1>15. Completed'
  BY <1>1, <1>2, <1>5 DEF Completed, AllKnown
<1>16. Current'
  BY <1>1, <1>2, <1>6, <1>8 DEF Current, Staging, OnlyImported, Frozen, Unwritten
<1> QED
  BY <1>10, <1>11, <1>12, <1>13, <1>14, <1>15, <1>16 DEF SnapshotInv

LEMMA MarkSentKeeps ==
    ASSUME SnapshotInv, NEW r \in Existing \cup New, MarkSent(r)
    PROVE  SnapshotInv'
<1>1. r \in Mine /\ r \in answered /\ staged[r].state # "none"
  BY DEF Mine, MarkSent, SnapshotInv, Drawn
<1>2. answered' \subseteq answered /\ staged' = [staged EXCEPT ![r].state = "sent"]
  BY DEF MarkSent
<1>3. UNCHANGED <<row, edits, session, cloudState, import, edited, lost, slipped>>
  BY DEF MarkSent
<1>4. row[r] = staged[r].body => known' = [known EXCEPT ![r] = staged[r].body]
  BY DEF MarkSent
<1>5. row[r] # staged[r].body => known' = known
  BY DEF MarkSent
<1> QED
  BY <1>1, <1>2, <1>3, <1>4, <1>5, StagedChanges

LEMMA GiveUpKeeps ==
    ASSUME SnapshotInv, NEW r \in Existing \cup New, GiveUp(r)
    PROVE  SnapshotInv'
<1>1. r \in Mine /\ staged[r].state # "none"
  BY DEF Mine, GiveUp
<1>2. staged' = [staged EXCEPT ![r].state = "manual"]
  BY DEF GiveUp
<1>3. UNCHANGED <<row, known, answered, edits, session, cloudState, import, edited, lost, slipped>>
  BY DEF GiveUp
<1> QED
  BY <1>1, <1>2, <1>3, StagedChanges

LEMMA WriteKeeps ==
    ASSUME SnapshotInv, NEW r \in Existing \cup New, Write(r)
    PROVE  SnapshotInv'
<1>1. /\ SnapshotTypeOK /\ Drawn /\ Taken /\ FormerlyKnown /\ IsFiniteSet(RowRecs)
      /\ Accounted /\ Completed /\ Current
  BY DEF SnapshotInv
<1>2. r \in Mine /\ r \in Tracked /\ ~Frozen /\ edited \in Nat
  BY <1>1, SnapshotOwn DEF Mine, Write, SnapshotTypeOK
<1>3. UNCHANGED <<staged, session, head, imports, answered, import, lost>>
  BY DEF Write, cloudState
<1> PICK b \in Nat : b = edited + 1
  BY <1>2, SMT
<1>4. /\ row' = [row EXCEPT ![r] = b] /\ known' = [known EXCEPT ![r] = b] /\ edited' = b
      /\ slipped' = (slipped \/ \E q \in Importers : import[q].at = "local")
  BY DEF Write
<1>5. /\ \A n \in Nat : n <= edited => n <= b /\ n # b
      /\ b # 0 /\ b # Elsewhere /\ b \in Int /\ b <= b
  BY <1>2, SMT DEF Elsewhere
<1>6. PICK e \in Edits : e.rec = r /\ e.body = b /\ edits' = edits \cup {e}
  <2>1. PICK base \in Int : base = IF staged[r].state = "queued" THEN staged[r].body ELSE known[r]
    BY <1>1, <1>2, SMT DEF SnapshotTypeOK, Entries
  <2>2. [rec |-> r, body |-> b, base |-> base] \in Edits
    BY <1>2, <1>5, SMT DEF Edits
  <2> QED
    BY <2>1, <2>2 DEF Write
<1>7. \A x \in Tracked : /\ row'[x] = (IF x = r THEN b ELSE row[x])
                         /\ known'[x] = (IF x = r THEN b ELSE known[x])
  BY <1>1, <1>2, <1>4, SMT DEF SnapshotTypeOK
<1>8. RowRecs' = RowRecs \cup {r}
  BY <1>2, <1>5, <1>7 DEF RowRecs
<1>9. \A x \in Tracked : known'[x] = Elsewhere => known[x] = Elsewhere /\ x # r
  BY <1>5, <1>7
<1>10. \A v \in ImportTasks : (Right(v) /\ \E p \in Importers : import[p] = v) => Right(v)'
  <2> SUFFICES ASSUME NEW v \in ImportTasks, Right(v), NEW p \in Importers, import[p] = v
               PROVE  Right(v)'
    OBVIOUS
  <2>1. edits' # {} /\ (v.at = "local" => slipped')
    BY <1>4, <1>6
  <2>2. UpToDate(v)'
    BY <2>1 DEF UpToDate
  <2>3. StagedSet' = StagedSet
    BY <1>3 DEF StagedSet
  <2> QED
    BY <1>3, <1>8, <1>9, <2>2, <2>3, RequestStays
<1>11. \A p \in Importers : Right(import[p])'
  BY <1>1, <1>3, <1>10, RequestsStay DEF SnapshotInv
<1>12. SnapshotTypeOK'
  <2>1. row' \in [Tracked -> Nat] /\ known' \in [Tracked -> Int]
    BY <1>1, <1>2, <1>4, <1>5, SMT DEF SnapshotTypeOK
  <2>2. edits' \subseteq Edits
    BY <1>1, <1>6 DEF SnapshotTypeOK
  <2>3. slipped' \in BOOLEAN
    BY <1>1, <1>4 DEF SnapshotTypeOK
  <2> QED
    BY <1>1, <1>3, <1>4, <2>1, <2>2, <2>3 DEF SnapshotTypeOK
<1>13. Drawn'
  <2>1. \A x \in Tracked : row'[x] <= edited' /\ staged'[x].body <= edited' /\ head'[x] <= edited'
    <3> SUFFICES ASSUME NEW x \in Tracked
                 PROVE  row'[x] <= b /\ staged[x].body <= b /\ head[x] <= b
      BY <1>3, <1>4
    <3>1. row[x] \in Nat /\ staged[x].body \in Nat /\ head[x] \in Nat
      BY <1>1, SMT DEF SnapshotTypeOK, Entries
    <3> QED
      BY <1>1, <1>5, <1>7, <3>1 DEF Drawn
  <2>2. \A x \in Tracked : staged'[x].state # "none" => staged'[x].body # 0 /\ row'[x] # 0
    BY <1>1, <1>3, <1>5, <1>7 DEF Drawn
  <2>3. \A y \in edits' : y.body <= edited' /\ staged'[y.rec].body # y.body
    <3> SUFFICES ASSUME NEW y \in edits' PROVE y.body <= b /\ staged[y.rec].body # y.body
      BY <1>3, <1>4
    <3>1. y \in Edits /\ y.body \in Nat /\ y.rec \in Tracked
      BY <1>1, <1>6, SnapshotOwn, SMT DEF SnapshotTypeOK, Edits
    <3>2. staged[y.rec].body \in Nat /\ staged[y.rec].body <= edited
      BY <1>1, <3>1, SMT DEF SnapshotTypeOK, Entries, Drawn
    <3>3. CASE y \in edits
      BY <1>1, <1>5, <3>1, <3>3 DEF Drawn
    <3>4. CASE y = e
      BY <1>5, <1>6, <3>2, <3>4
    <3> QED
      BY <1>6, <3>3, <3>4
  <2> QED
    BY <1>1, <1>3, <2>1, <2>2, <2>3 DEF Drawn
<1>14. Taken'
  <2> SUFFICES ASSUME NEW i \in DOMAIN imports, NEW x \in Tracked, NEW k \in Nat,
                      <<x, k>> \in imports[i].items
               PROVE  /\ x \in Mine /\ k <= b /\ head[x] # 0
                      /\ \A y \in edits' : y.rec = x => y.body # k
    BY <1>3, <1>4 DEF Taken
  <2>1. /\ x \in Mine /\ k <= edited /\ head[x] # 0
        /\ \A y \in edits : y.rec = x => y.body # k
    BY <1>1 DEF Taken
  <2> QED
    BY <1>5, <1>6, <2>1
<1>15. FormerlyKnown'
  BY <1>1, <1>3, <1>7, <1>9 DEF FormerlyKnown
<1>16. IsFiniteSet(RowRecs')
  BY <1>1, <1>8, FS_AddElement
<1>17. Accounted' /\ Completed'
  BY <1>1, <1>3, <1>9 DEF Accounted, Completed, AllKnown, HeadSet
<1>18. Current'
  <2>1. edits' # {} /\ ~Frozen'
    BY <1>2, <1>3, <1>6 DEF Frozen
  <2> QED
    BY <2>1 DEF Current
<1> QED
  BY <1>11, <1>12, <1>13, <1>14, <1>15, <1>16, <1>17, <1>18 DEF SnapshotInv

LEMMA PullKeeps ==
    ASSUME SnapshotInv, NEW r \in Theirs, Pull(r)
    PROVE  SnapshotInv'
<1>1. /\ SnapshotTypeOK /\ Drawn /\ Taken /\ FormerlyKnown /\ IsFiniteSet(RowRecs)
      /\ Accounted /\ Completed /\ Current
  BY DEF SnapshotInv
<1>2. UNCHANGED <<edits, staged, session, head, imports, answered, import, edited, lost>>
  BY DEF Pull, cloudState
<1>3. r \in Tracked /\ head[r] # 0
  BY SnapshotOwn DEF Pull
<1> PICK b \in Nat : b = head[r]
  BY <1>1, <1>3, SMT DEF SnapshotTypeOK
<1>4. /\ row' = [row EXCEPT ![r] = b] /\ known' = [known EXCEPT ![r] = b]
      /\ slipped' = (slipped \/ \E q \in Importers : import[q].at = "local")
  BY DEF Pull
<1>5. b # 0 /\ b # Elsewhere /\ b \in Int /\ b <= edited
  BY <1>1, <1>3, SMT DEF Elsewhere, Drawn
<1>6. Staging = {} /\ ~OnlyImported /\ HeadSet # {}
  BY <1>1, <1>3, OthersNotTaken
<1>7. \A x \in Tracked : /\ row'[x] = (IF x = r THEN b ELSE row[x])
                         /\ known'[x] = (IF x = r THEN b ELSE known[x])
  BY <1>1, <1>3, <1>4, SMT DEF SnapshotTypeOK
<1>8. RowRecs' = RowRecs \cup {r}
  BY <1>3, <1>5, <1>7 DEF RowRecs
<1>9. \A x \in Tracked : known'[x] = Elsewhere => known[x] = Elsewhere /\ x # r
  BY <1>5, <1>7
<1>10. HeadSet' = HeadSet /\ Staging' = Staging /\ OnlyImported' = OnlyImported
  BY <1>2 DEF HeadSet, Staging, OnlyImported
<1>11. \A v \in ImportTasks : (Right(v) /\ \E p \in Importers : import[p] = v) => Right(v)'
  <2> SUFFICES ASSUME NEW v \in ImportTasks, Right(v), NEW p \in Importers, import[p] = v
               PROVE  Right(v)'
    OBVIOUS
  <2>1. HeadSet' # {} /\ (v.at = "local" => slipped')
    BY <1>4, <1>6, <1>10
  <2>2. UpToDate(v)'
    BY <2>1 DEF UpToDate
  <2>3. StagedSet' = StagedSet
    BY <1>2 DEF StagedSet
  <2> QED
    BY <1>2, <1>8, <1>9, <2>2, <2>3, RequestStays
<1>12. \A p \in Importers : Right(import[p])'
  BY <1>1, <1>2, <1>11, RequestsStay DEF SnapshotInv
<1>13. SnapshotTypeOK'
  <2>1. row' \in [Tracked -> Nat] /\ known' \in [Tracked -> Int]
    BY <1>1, <1>3, <1>4, <1>5, SMT DEF SnapshotTypeOK
  <2>2. slipped' \in BOOLEAN
    BY <1>1, <1>4 DEF SnapshotTypeOK
  <2> QED
    BY <1>1, <1>2, <2>1, <2>2 DEF SnapshotTypeOK
<1>14. Drawn'
  <2>1. \A x \in Tracked : row'[x] <= edited' /\ staged'[x].body <= edited' /\ head'[x] <= edited'
    BY <1>1, <1>2, <1>5, <1>7 DEF Drawn
  <2>2. \A x \in Tracked : staged'[x].state # "none" => staged'[x].body # 0 /\ row'[x] # 0
    BY <1>1, <1>2, <1>5, <1>7 DEF Drawn
  <2> QED
    BY <1>1, <1>2, <2>1, <2>2 DEF Drawn
<1>15. FormerlyKnown'
  BY <1>1, <1>2, <1>7, <1>9 DEF FormerlyKnown
<1>16. IsFiniteSet(RowRecs')
  BY <1>1, <1>8, FS_AddElement
<1>17. Taken' /\ Accounted' /\ Completed'
  BY <1>1, <1>2, <1>9, <1>10 DEF Taken, Accounted, Completed, AllKnown
<1>18. Current'
  <2>1. ~Unwritten'
    BY <1>2, <1>3 DEF Unwritten
  <2> QED
    BY <1>6, <1>10, <2>1 DEF Current
<1> QED
  BY <1>12, <1>13, <1>14, <1>15, <1>16, <1>17, <1>18 DEF SnapshotInv

(* A head of another kind than an import's, pushed while none is staging.   *)
LEMMA HeadAdvances ==
    ASSUME SnapshotInv, NEW r \in Tracked, NEW b \in Nat, b # 0, Staging = {},
           head' = [head EXCEPT ![r] = b], b <= edited', edited' \in Nat, edited <= edited',
           edits' \subseteq edits, r \in Theirs \/ edits # {},
           \A i \in DOMAIN imports : <<r, b>> \notin imports[i].items,
           UNCHANGED <<row, known, staged, session, imports, answered, import, lost, slipped>>
    PROVE  SnapshotInv'
<1>1. /\ SnapshotTypeOK /\ Drawn /\ Taken /\ FormerlyKnown /\ IsFiniteSet(RowRecs)
      /\ Accounted /\ Completed /\ Current /\ edited \in Nat
  BY DEF SnapshotInv, SnapshotTypeOK
<1>2. /\ head' \in [Tracked -> Nat]
      /\ \A x \in Tracked : head'[x] = (IF x = r THEN b ELSE head[x])
  BY <1>1, SMT DEF SnapshotTypeOK
<1>3. \A n \in Nat : n <= edited => n <= edited'
  BY <1>1, SMT
<1>4. <<r, b>> \in HeadSet' /\ HeadSet' # {}
  BY <1>2 DEF HeadSet
<1>5. ~OnlyImported' /\ Staging' = {}
  BY <1>4 DEF OnlyImported, Staging
<1>6. r \in Theirs => ~Unwritten'
  BY <1>2 DEF Unwritten
<1>7. Unwritten' => Unwritten
  BY <1>2, <1>6, SnapshotOwn DEF Unwritten
<1>8. RowRecs' = RowRecs /\ StagedSet' = StagedSet /\ LocalManifest' = LocalManifest
      /\ MappingHolds' = MappingHolds /\ Frozen' = Frozen
  BY DEF RowRecs, StagedSet, LocalManifest, MappingHolds, Frozen
<1>9. \A v \in ImportTasks : (Right(v) /\ \E p \in Importers : import[p] = v) => Right(v)'
  <2> SUFFICES ASSUME NEW v \in ImportTasks, Right(v) PROVE Right(v)'
    OBVIOUS
  <2>1. edits = {} => edits' = {}
    OBVIOUS
  <2>2. UpToDate(v)'
    BY <1>4, <1>8, <2>1 DEF Right, UpToDate
  <2> QED
    BY <1>8, <2>2, RequestStays
<1>10. \A p \in Importers : Right(import[p])'
  BY <1>1, <1>9, RequestsStay DEF SnapshotInv
<1>11. SnapshotTypeOK'
  BY <1>1, <1>2 DEF SnapshotTypeOK
<1>12. Drawn'
  <2>1. \A x \in Tracked : row'[x] <= edited' /\ staged'[x].body <= edited' /\ head'[x] <= edited'
    <3> SUFFICES ASSUME NEW x \in Tracked
                 PROVE  row[x] <= edited' /\ staged[x].body <= edited' /\ head'[x] <= edited'
      OBVIOUS
    <3>1. row[x] \in Nat /\ staged[x].body \in Nat /\ head[x] \in Nat
      BY <1>1, SMT DEF SnapshotTypeOK, Entries
    <3> QED
      BY <1>1, <1>2, <1>3, <3>1 DEF Drawn
  <2>2. \A y \in edits' : y.body <= edited' /\ staged'[y.rec].body # y.body
    <3> SUFFICES ASSUME NEW y \in edits PROVE y.body <= edited' /\ staged[y.rec].body # y.body
      OBVIOUS
    <3>1. y.body \in Nat
      BY <1>1, SMT DEF SnapshotTypeOK, Edits
    <3> QED
      BY <1>1, <1>3, <3>1 DEF Drawn
  <2> QED
    BY <1>1, <2>1, <2>2 DEF Drawn
<1>13. Taken'
  <2> SUFFICES ASSUME NEW i \in DOMAIN imports, NEW x \in Tracked, NEW k \in Nat,
                      <<x, k>> \in imports[i].items
               PROVE  /\ x \in Mine /\ k <= edited' /\ head'[x] # 0
                      /\ \A y \in edits' : y.rec = x => y.body # k
    BY DEF Taken
  <2>1. /\ x \in Mine /\ k <= edited /\ head[x] # 0
        /\ \A y \in edits : y.rec = x => y.body # k
    BY <1>1 DEF Taken
  <2> QED
    BY <1>2, <1>3, <2>1
<1>14. FormerlyKnown' /\ IsFiniteSet(RowRecs)' /\ Completed'
  BY <1>1, <1>8 DEF FormerlyKnown, Completed, AllKnown
<1>15. Accounted'
  BY <1>1 DEF Accounted, Staging
<1>16. Current'
  <2>1. Unwritten' => edits # {}
    BY <1>6
  <2>2. ~(Frozen' /\ ~slipped' /\ Unwritten')
    BY <1>1, <1>7, <1>8, <2>1 DEF Current
  <2> QED
    BY <1>5, <2>2 DEF Current
<1> QED
  BY <1>10, <1>11, <1>12, <1>13, <1>14, <1>15, <1>16 DEF SnapshotInv

LEMMA TheyPushKeeps ==
    ASSUME SnapshotInv, NEW r \in Theirs, TheyPush(r)
    PROVE  SnapshotInv'
<1>1. /\ Staging = {} /\ head' = [head EXCEPT ![r] = edited + 1] /\ edited' = edited + 1
      /\ UNCHANGED <<row, known, edits, staged, session, imports, answered, import, lost, slipped>>
  BY DEF TheyPush
<1>2. r \in Tracked /\ r \notin Mine /\ edited \in Nat
  BY SnapshotOwn DEF SnapshotInv, SnapshotTypeOK
<1>3. edited + 1 \in Nat /\ edited + 1 # 0 /\ edited <= edited + 1 /\ edited + 1 <= edited + 1
  BY <1>2, SMT
<1>4. \A i \in DOMAIN imports : <<r, edited + 1>> \notin imports[i].items
  BY <1>2, <1>3 DEF SnapshotInv, Taken
<1> QED
  BY <1>1, <1>2, <1>3, <1>4, HeadAdvances

LEMMA PushEditKeeps ==
    ASSUME SnapshotInv, NEW e \in edits, PushEdit(e)
    PROVE  SnapshotInv'
<1>1. /\ Staging = {} /\ head' = [head EXCEPT ![e.rec] = e.body] /\ edits' = edits \ {e}
      /\ UNCHANGED <<row, known, staged, session, imports, answered, import, edited, lost, slipped>>
  BY DEF PushEdit
<1>2. e.rec \in Tracked /\ e.body \in Nat /\ e.body # 0
  BY SnapshotOwn, SMT DEF SnapshotInv, SnapshotTypeOK, Edits
<1>3. e.body <= edited /\ edited \in Nat
  BY DEF SnapshotInv, SnapshotTypeOK, Drawn
<1>4. edited <= edited
  BY <1>3, SMT
<1>5. \A i \in DOMAIN imports : <<e.rec, e.body>> \notin imports[i].items
  BY <1>2 DEF SnapshotInv, Taken
<1>6. edits' \subseteq edits /\ edits # {}
  BY <1>1
<1> QED
  BY <1>1, <1>2, <1>3, <1>4, <1>5, <1>6, HeadAdvances

LEMMA PushSnapshotKeeps ==
    ASSUME SnapshotInv, NEW r \in Existing \cup New, PushSnapshot(r)
    PROVE  SnapshotInv'
<1>1. /\ SnapshotTypeOK /\ Drawn /\ Taken /\ FormerlyKnown /\ IsFiniteSet(RowRecs)
      /\ Accounted /\ Completed /\ Current
  BY DEF SnapshotInv
<1>2. UNCHANGED <<row, known, edits, staged, session, edited, slipped, import>>
  BY DEF PushSnapshot, deviceState
<1>3. r \in Mine /\ r \in Tracked /\ r \notin Theirs /\ staged[r].state # "none"
  BY SnapshotOwn DEF Mine, PushSnapshot
<1>4. lost' \in Nat
  BY LoseCounts DEF PushSnapshot
<1>5. /\ answered' \subseteq Mine
      /\ \A x \in answered' : staged[x].state # "none"
  BY <1>1, <1>3 DEF PushSnapshot, SnapshotTypeOK, Drawn
<1> PICK b \in Nat : b = staged[r].body
  BY <1>1, <1>3, SMT DEF SnapshotTypeOK, Entries
<1>6. b # 0 /\ b <= edited /\ \A e \in edits : e.rec = r => e.body # b
  BY <1>1, <1>3 DEF Drawn
<1>7. RowRecs' = RowRecs /\ StagedSet' = StagedSet /\ LocalManifest' = LocalManifest
      /\ MappingHolds' = MappingHolds /\ Frozen' = Frozen
  BY <1>2 DEF RowRecs, StagedSet, LocalManifest, MappingHolds, Frozen
<1>8. CASE UNCHANGED cloudState
  <2>1. UNCHANGED <<head, imports>>
    BY <1>8 DEF cloudState
  <2>2. HeadSet' = HeadSet /\ Staging' = Staging /\ OnlyImported' = OnlyImported
        /\ Unwritten' = Unwritten
    BY <2>1 DEF HeadSet, Staging, OnlyImported, Unwritten
  <2>3. \A v \in ImportTasks : (Right(v) /\ \E p \in Importers : import[p] = v) => Right(v)'
    BY <1>2, <1>7, <2>1, <2>2, SMT DEF Right, CountsWell, AboutImport, UpToDate, AllKnown
  <2>4. \A p \in Importers : Right(import[p])'
    BY <1>1, <1>2, <2>3, RequestsStay DEF SnapshotInv
  <2>5. SnapshotTypeOK' /\ Drawn'
    BY <1>1, <1>2, <1>4, <1>5, <2>1 DEF SnapshotTypeOK, Drawn
  <2>6. Taken' /\ FormerlyKnown' /\ IsFiniteSet(RowRecs)' /\ Accounted' /\ Completed'
    BY <1>1, <1>2, <1>7, <2>1, <2>2 DEF Taken, FormerlyKnown, Accounted, Completed, AllKnown
  <2>7. Current'
    BY <1>1, <1>2, <1>7, <2>1, <2>2 DEF Current
  <2> QED
    BY <2>4, <2>5, <2>6, <2>7 DEF SnapshotInv
<1>9. ASSUME NEW i \in DOMAIN imports, Accepted(r, i),
             imports' = [imports EXCEPT ![i].items = @ \cup {<<r, staged[r].body>>}],
             head' = [head EXCEPT ![r] = staged[r].body]
      PROVE  SnapshotInv'
  <2> PICK n \in Nat : /\ Len(imports) = n /\ DOMAIN imports = 1 .. n
                       /\ imports \in [1 .. n -> Imports]
    BY <1>1, ImportsAre
  <2>1. i \in Staging /\ head[r] = 0
    BY <1>9 DEF Accepted
  <2>2. i \in 1 .. n /\ i = n /\ imports[i].status = "staging" /\ HeadSet \subseteq imports[i].items
    BY <1>1, <2>1, StagingIsNewest DEF Staging
  <2>3. /\ imports' \in [1 .. n -> Imports]
        /\ \A j \in 1 .. n : j # i => imports'[j] = imports[j]
        /\ imports'[i].status = "staging" /\ imports'[i].manifest = imports[i].manifest
        /\ imports'[i].items = imports[i].items \cup {<<r, b>>}
    <3>1. PICK one \in Imports : one = imports[i]
      BY <2>2
    <3>2. PICK items \in Manifests : items = one.items \cup {<<r, b>>}
      <4>1. one.items \in Manifests
        BY <3>1, SMT DEF Imports
      <4>2. <<r, b>> \in Tracked \X Nat
        BY <1>3, SMT
      <4> QED
        BY <4>1, <4>2 DEF Manifests
    <3>3. imports' = [imports EXCEPT ![i] = [one EXCEPT !.items = items]]
      BY <1>9, <2>2, <3>1, <3>2, SMT
    <3>4. [one EXCEPT !.items = items] \in Imports
      <4>1. \A M : \A o \in [manifest : M, items : M, status : {"staging", "aborted", "completed"}],
                    m \in M : [o EXCEPT !.items = m]
                                  \in [manifest : M, items : M,
                                       status : {"staging", "aborted", "completed"}]
        BY SMT
      <4> QED
        BY <3>1, <3>2, <4>1 DEF Imports
    <3>5. /\ [one EXCEPT !.items = items].items = items
          /\ [one EXCEPT !.items = items].status = one.status
          /\ [one EXCEPT !.items = items].manifest = one.manifest
      BY <3>1, <3>2, SMT DEF Imports
    <3>6. imports'[i] = [one EXCEPT !.items = items]
      BY <2>2, <3>3, SMT
    <3>7. /\ imports' \in [1 .. n -> Imports]
          /\ \A j \in 1 .. n : j # i => imports'[j] = imports[j]
      BY <2>2, <3>3, <3>4, SMT
    <3> QED
      BY <2>2, <3>1, <3>2, <3>5, <3>6, <3>7
  <2>4. imports' \in Seq(Imports) /\ Len(imports') = n /\ DOMAIN imports' = 1 .. n
    BY <2>3, SMT
  <2>5. \A j \in 1 .. n : /\ imports'[j].manifest = imports[j].manifest
                          /\ imports'[j].status = imports[j].status
    BY <2>2, <2>3
  <2>6. /\ head' \in [Tracked -> Nat]
        /\ \A x \in Tracked : head'[x] = (IF x = r THEN b ELSE head[x])
    BY <1>1, <1>3, <1>9, SMT DEF SnapshotTypeOK
  <2>7. HeadSet' = HeadSet \cup {<<r, b>>}
    <3>1. \A x \in Tracked : <<x, head'[x]>> = (IF x = r THEN <<r, b>> ELSE <<x, head[x]>>)
      BY <2>6
    <3>2. \A x \in Tracked : head'[x] # 0 <=> head[x] # 0 \/ x = r
      BY <1>6, <2>6
    <3>3. \A y \in HeadSet' : y \in HeadSet \cup {<<r, b>>}
      BY <3>1, <3>2 DEF HeadSet
    <3>4. <<r, b>> \in HeadSet'
      BY <1>3, <3>1, <3>2 DEF HeadSet
    <3>5. \A y \in HeadSet : y \in HeadSet'
      BY <2>1, <3>1, <3>2 DEF HeadSet
    <3> QED
      BY <3>3, <3>4, <3>5
  <2>8. Unwritten' = Unwritten
    <3>1. \A x \in Theirs : head'[x] = head[x]
      BY <1>3, <2>6, SnapshotOwn
    <3> QED
      BY <3>1 DEF Unwritten
  <2>9. Staging' = Staging
    BY <2>4, <2>5 DEF Staging
  <2>10. \A v \in ImportTasks : (Right(v) /\ \E p \in Importers : import[p] = v) => Right(v)'
    <3> SUFFICES ASSUME NEW v \in ImportTasks, Right(v) PROVE Right(v)'
      OBVIOUS
    <3>1. UpToDate(v)'
      BY <1>2, <1>7, <2>7 DEF Right, UpToDate
    <3>2. \A j \in DOMAIN imports :
              /\ j \in DOMAIN imports' /\ imports'[j].manifest = imports[j].manifest
              /\ imports[j].status = "completed" => imports'[j].status = "completed"
      BY <2>4, <2>5
    <3> QED
      BY <1>2, <1>7, <3>1, <3>2, RequestStays
  <2>11. \A p \in Importers : Right(import[p])'
    BY <1>1, <1>2, <2>10, RequestsStay DEF SnapshotInv
  <2>12. SnapshotTypeOK'
    BY <1>1, <1>2, <1>4, <1>5, <2>4, <2>6 DEF SnapshotTypeOK
  <2>13. Drawn'
    BY <1>1, <1>2, <1>5, <1>6, <2>6 DEF Drawn
  <2>14. Taken'
    <3> SUFFICES ASSUME NEW j \in 1 .. n, NEW x \in Tracked, NEW k \in Nat,
                        <<x, k>> \in imports'[j].items
                 PROVE  /\ x \in Mine /\ k <= edited /\ head'[x] # 0
                        /\ \A e \in edits : e.rec = x => e.body # k
      BY <1>2, <2>4 DEF Taken
    <3>1. CASE <<x, k>> \in imports[j].items
      BY <1>1, <1>6, <2>6, <3>1 DEF Taken
    <3>2. CASE <<x, k>> = <<r, b>>
      <4>1. x = r /\ k = b
        BY <3>2, SMT
      <4> QED
        BY <1>3, <1>6, <2>6, <4>1
    <3>3. <<x, k>> \in imports[j].items \/ <<x, k>> = <<r, b>>
      BY <2>3
    <3> QED
      BY <3>1, <3>2, <3>3
  <2>15. FormerlyKnown' /\ IsFiniteSet(RowRecs)'
    BY <1>1, <1>2, <1>7 DEF FormerlyKnown
  <2>16. Accounted'
    <3> SUFFICES ASSUME NEW j \in 1 .. n
                 PROVE  /\ imports'[j].status = "completed" => imports'[j].items = imports'[j].manifest
                        /\ imports'[j].status = "aborted" => imports'[j].items = {}
                        /\ j < n => imports'[j].status # "staging" /\ imports'[j].items = {}
                        /\ imports'[j].status = "staging" => HeadSet' \subseteq imports'[j].items
      BY <2>4 DEF Accounted
    <3>1. CASE j = i
      <4>1. ~(n < n)
        BY SMT
      <4> QED
        BY <2>2, <2>3, <2>7, <3>1, <4>1
    <3>2. CASE j # i
      <4>1. imports'[j] = imports[j] /\ imports[j].status # "staging"
        BY <1>1, <2>2, <2>3, <3>2, StagingIsNewest DEF Staging
      <4> QED
        BY <1>1, <4>1 DEF Accounted
    <3> QED
      BY <3>1, <3>2
  <2>17. Completed'
    BY <1>1, <1>2, <2>4, <2>5 DEF Completed, AllKnown
  <2>18. Current'
    <3>1. edits = {} => \A j \in Staging' : imports'[j].manifest = LocalManifest
      BY <1>1, <2>5, <2>9 DEF Current, Staging
    <3>2. edits = {} => imports'[Len(imports')].manifest = LocalManifest
      BY <1>1, <2>1, <2>2, <2>4, <2>5 DEF Current
    <3> QED
      BY <1>1, <1>2, <1>7, <2>8, <3>1, <3>2 DEF Current
  <2> QED
    BY <2>11, <2>12, <2>13, <2>14, <2>15, <2>16, <2>17, <2>18 DEF SnapshotInv
<1> QED
  BY <1>8, <1>9 DEF PushSnapshot

LEMMA SnapshotStutters ==
    ASSUME SnapshotInv, UNCHANGED snapshotVars
    PROVE  SnapshotInv'
<1>1. (SnapshotTypeOK /\ Drawn /\ Taken /\ FormerlyKnown)' /\ IsFiniteSet(RowRecs)'
  BY DEF SnapshotInv, snapshotVars, SnapshotTypeOK, Drawn, Taken, FormerlyKnown, RowRecs
<1>2. (Accounted /\ Completed /\ Current)'
  BY DEF SnapshotInv, snapshotVars, Accounted, Completed, AllKnown, Current, HeadSet, Staging,
         LocalManifest, OnlyImported, Frozen, Unwritten, MappingHolds
<1>3. \A v \in ImportTasks : (Right(v) /\ \E p \in Importers : import[p] = v) => Right(v)'
  BY SMT DEF snapshotVars, Right, CountsWell, AboutImport, UpToDate, RowRecs, StagedSet, AllKnown,
             HeadSet, LocalManifest, MappingHolds
<1>4. \A p \in Importers : Right(import[p])'
  BY <1>3, RequestsStay DEF SnapshotInv, snapshotVars
<1> QED
  BY <1>1, <1>2, <1>4 DEF SnapshotInv

(* The invariant of the import, on which its two properties rest: what a    *)
(* request has read of the device is still so until a write or a head says  *)
(* otherwise, and only the newest import of the cloud has taken anything.   *)
THEOREM SnapshotInvHolds == SnapshotSpec => []SnapshotInv
<1>1. SnapshotInv /\ [SnapshotNext]_snapshotVars => SnapshotInv'
  <2> SUFFICES ASSUME SnapshotInv, [SnapshotNext]_snapshotVars PROVE SnapshotInv'
    OBVIOUS
  <2>1. ASSUME NEW q \in Importers, Request(q)
        PROVE  SnapshotInv'
    <3>1. CASE \E op \in {"bootstrap", "complete"} : Start(q, op)
      BY <3>1, ImportStartKeeps
    <3>2. CASE ReadManifest(q) \/ Count(q) \/ BeginLocal(q) \/ BeginRemote(q)
      BY <3>2, ReadManifestKeeps, CountKeeps, BeginLocalKeeps, BeginRemoteKeeps
    <3>3. CASE Queue(q) \/ QueueRefused(q) \/ AbortRemote(q) \/ AbortLocal(q)
      BY <3>3, QueueKeeps, QueueRefusedKeeps, AbortRemoteKeeps, AbortLocalKeeps
    <3>4. CASE Complete(q) \/ Finish(q) \/ EndRequest(q)
      BY <3>4, CompleteKeeps, FinishKeeps, EndRequestKeeps
    <3> QED
      BY <2>1, <3>1, <3>2, <3>3, <3>4 DEF Request
  <2>2. CASE \E r \in Existing \cup New : Write(r) \/ PushSnapshot(r) \/ MarkSent(r) \/ GiveUp(r)
    BY <2>2, WriteKeeps, PushSnapshotKeeps, MarkSentKeeps, GiveUpKeeps
  <2>3. CASE \E e \in edits : PushEdit(e)
    BY <2>3, PushEditKeeps
  <2>4. CASE \E r \in Theirs : TheyPush(r) \/ Pull(r)
    BY <2>4, TheyPushKeeps, PullKeeps
  <2>5. CASE UNCHANGED snapshotVars
    BY <2>5, SnapshotStutters
  <2> QED
    BY <2>1, <2>2, <2>3, <2>4, <2>5 DEF SnapshotNext
<1> QED
  BY <1>1, SnapshotBegins, PTL DEF SnapshotSpec

(* A device that takes its import for complete agrees with the cloud, which *)
(* accepted exactly its manifest, and knows of each record a version that   *)
(* its next edit can follow (0011:287-390, repository.py:1935-1972).        *)
THEOREM ImportIsFaithful == SnapshotSpec => []ImportFaithful
<1>1. SnapshotInv => ImportFaithful
  <2> SUFFICES ASSUME SnapshotInv, session.state = "completed"
               PROVE  /\ \E i \in DOMAIN imports :
                             /\ imports[i].status = "completed"
                             /\ imports[i].manifest = session.manifest
                             /\ imports[i].items = session.manifest
                      /\ \A r \in Tracked : row[r] # 0 => known[r] # Elsewhere
    BY DEF ImportFaithful
  <2>1. Completed /\ Accounted
    BY DEF SnapshotInv
  <2>2. AllKnown /\ \E i \in DOMAIN imports :
                        imports[i].status = "completed" /\ imports[i].manifest = session.manifest
    BY <2>1 DEF Completed
  <2> QED
    BY <2>1, <2>2 DEF Accounted, AllKnown
<1> QED
  BY <1>1, SnapshotInvHolds, PTL

(* A device that is frozen can go on, as long as nothing but imports was    *)
(* written to the cloud and no write came between a manifest and its        *)
(* session: its records are those of its session, and the cloud resumes or  *)
(* opens an import of just these (api.py:1836-1941).                        *)
THEOREM FrozenResumes == SnapshotSpec => []FrozenCanResume
<1>1. SnapshotInv => FrozenCanResume
  <2> SUFFICES ASSUME SnapshotInv, Frozen, ~slipped, OnlyImported PROVE Thawable
    BY DEF FrozenCanResume
  <2>1. SnapshotTypeOK /\ Taken /\ Accounted /\ Current
    BY DEF SnapshotInv
  <2> PICK n \in Nat : Len(imports) = n /\ DOMAIN imports = 1 .. n
    BY <2>1, ImportsAre
  <2>2. Unwritten
    BY <2>1, OthersNotTaken DEF Unwritten
  <2>3. session.manifest = LocalManifest /\ MappingHolds /\ edits = {}
    BY <2>1, <2>2 DEF Current
  <2>4. \/ \E i \in DOMAIN imports : Resumes(session.manifest, i)
        \/ Staging = {} /\ HeadSet = {}
    <3>1. CASE Staging # {}
      <4>1. PICK i \in Staging : TRUE
        BY <3>1
      <4>2. i \in DOMAIN imports /\ imports[i].manifest = session.manifest
        BY <2>1, <2>3 DEF Current, Staging
      <4> QED
        BY <3>1, <4>2 DEF Resumes
    <3>2. CASE Staging = {} /\ HeadSet # {}
      <4>1. imports[n].manifest = session.manifest
        BY <2>1, <2>3, <3>2 DEF Current
      <4>2. PICK h \in HeadSet, i \in 1 .. n : h \in imports[i].items
        BY <3>2 DEF OnlyImported
      <4>3. ~(i < n)
        BY <2>1, <4>2 DEF Accounted
      <4>4. i = n
        BY <4>2, <4>3, SMT
      <4>5. imports[n].status # "staging" /\ imports[n].status # "aborted"
        BY <2>1, <3>2, <4>2, <4>4 DEF Accounted, Staging
      <4>6. imports[n] \in Imports
        BY <2>1, <4>2, <4>4, SMT DEF SnapshotTypeOK
      <4>7. imports[n].status = "completed"
        BY <4>5, <4>6, SMT DEF Imports
      <4>8. n + 1 .. n = {}
        BY SMT
      <4> QED
        BY <3>2, <4>1, <4>2, <4>4, <4>7, <4>8 DEF Resumes
    <3> QED
      BY <3>1, <3>2
  <2> QED
    BY <2>3, <2>4 DEF Thawable, Queueable
<1> QED
  BY <1>1, SnapshotInvHolds, PTL

-----------------------------------------------------------------------------
(* The background jobs.                                                     *)

Statuses == Pending \cup {"absent", "failed", "done", "cancelled", "blocked"}
JobRows == [status : Statuses, owner : Owners \cup {NoJob}, key : JobKeys \cup {NoKey},
            retryable : BOOLEAN]
Called == [pc : {"idle", "submit", "refuse", "barrier"}, job : Jobs \cup {NoJob}]
Works == [pc : {"idle", "claim", "lock", "check", "call", "note", "between", "finish", "handle",
                "leave"},
          job : Jobs \cup {NoJob}, phases : Nat]

JobsTypeOK ==
    /\ jobRow \in [Jobs -> JobRows] /\ caller \in [Callers -> Called]
    /\ waiting \in Seq(Jobs) /\ thread \in [Threads -> Works]
    /\ stripe \in [Stripes -> Threads \cup {Nobody}] /\ jobAnswered \subseteq Jobs

(* Requests and threads are about jobs. *)
OfJobs ==
    /\ \A q \in Callers : caller[q].pc # "idle" => caller[q].job \in Jobs
    /\ \A w \in Threads : thread[w].pc # "idle" => thread[w].job \in Jobs

(* A thread that looks at the row, calls or saves holds the lock of its job.*)
Held ==
    \A w \in Threads : thread[w].pc \in {"check", "call", "note"} =>
        stripe[StripeOf[thread[w].job]] = w

(* What a request asked to end never runs again. *)
Stopped(j) == jobRow[j].status \in {"cancel_requested", "block_requested", "cancelled", "blocked"}

AskedToEnd ==
    /\ \A q \in Callers : caller[q].pc = "barrier" => Stopped(caller[q].job)
    /\ \A j \in jobAnswered : Stopped(j)

JobsKept == JobsTypeOK /\ OfJobs /\ Held /\ AskedToEnd /\ BarrierHolds

(* A step of the rows: what was asked to end stays so. *)
RowsKept ==
    /\ jobRow' \in [Jobs -> JobRows]
    /\ \A j \in Jobs : Stopped(j) => Stopped(j)'

LEMMA RowWith ==
    ASSUME NEW r \in JobRows, NEW s \in Statuses, NEW retry \in BOOLEAN
    PROVE  /\ [r EXCEPT !.status = s, !.retryable = retry] \in JobRows
           /\ [r EXCEPT !.status = s, !.retryable = retry].status = s
<1>1. [r EXCEPT !.status = s, !.retryable = retry]
          = [[r EXCEPT !.status = s] EXCEPT !.retryable = retry]
  BY SMT DEF JobRows
<1>2. \A S, O, K : \A x \in [status : S, owner : O, key : K, retryable : BOOLEAN], n \in S :
          [x EXCEPT !.status = n] \in [status : S, owner : O, key : K, retryable : BOOLEAN]
  BY SMT
<1>3. \A S, O, K : \A x \in [status : S, owner : O, key : K, retryable : BOOLEAN], n \in BOOLEAN :
          [x EXCEPT !.retryable = n] \in [status : S, owner : O, key : K, retryable : BOOLEAN]
  BY SMT
<1>4. [r EXCEPT !.status = s] \in JobRows
  BY <1>2 DEF JobRows
<1>5. [r EXCEPT !.status = s, !.retryable = retry] \in JobRows
  BY <1>1, <1>3, <1>4 DEF JobRows
<1>6. [r EXCEPT !.status = s, !.retryable = retry].status = s
  BY SMT DEF JobRows
<1> QED
  BY <1>5, <1>6

LEMMA JobRowSet ==
    ASSUME JobsTypeOK, NEW j \in Jobs, NEW s \in Statuses, NEW retry \in BOOLEAN,
           SetJob(j, s, retry)
    PROVE  /\ jobRow' \in [Jobs -> JobRows] /\ jobRow'[j].status = s
           /\ \A i \in Jobs : i # j => jobRow'[i] = jobRow[i]
<1> PICK r \in JobRows : r = jobRow[j]
  BY DEF JobsTypeOK
<1>1. jobRow \in [Jobs -> JobRows]
  BY DEF JobsTypeOK
<1>2. jobRow' = [jobRow EXCEPT ![j] = [r EXCEPT !.status = s, !.retryable = retry]]
  BY <1>1, Zenon DEF SetJob
<1>3. /\ [r EXCEPT !.status = s, !.retryable = retry] \in JobRows
      /\ [r EXCEPT !.status = s, !.retryable = retry].status = s
  BY RowWith
<1> QED
  BY <1>1, <1>2, <1>3

(* What a step writes over the row of one job. *)
LEMMA RowSetKeeps ==
    ASSUME JobsTypeOK, NEW j \in Jobs, NEW s \in Statuses, NEW retry \in BOOLEAN,
           SetJob(j, s, retry),
           Stopped(j) => s \in {"cancel_requested", "block_requested", "cancelled", "blocked"}
    PROVE  RowsKept
<1>1. /\ jobRow' \in [Jobs -> JobRows] /\ jobRow'[j].status = s
      /\ \A i \in Jobs : i # j => jobRow'[i] = jobRow[i]
  BY JobRowSet
<1>2. ASSUME NEW i \in Jobs, Stopped(i)
      PROVE  Stopped(i)'
  <2>1. CASE i = j
    BY <1>1, <1>2, <2>1 DEF Stopped
  <2>2. CASE i # j
    BY <1>1, <1>2, <2>2 DEF Stopped
  <2> QED
    BY <2>1, <2>2
<1> QED
  BY <1>1, <1>2 DEF RowsKept

LEMMA RowsUnchanged == JobsTypeOK /\ UNCHANGED jobRow => RowsKept
BY DEF JobsTypeOK, RowsKept, Stopped

LEMMA RetryableIs ==
    ASSUME JobsTypeOK, NEW j \in Jobs
    PROVE  jobRow[j].retryable \in BOOLEAN /\ jobRow[j].status \in Statuses
<1>1. jobRow[j] \in JobRows
  BY DEF JobsTypeOK
<1>2. jobRow[j].status \in Statuses
  BY <1>1, SMT DEF JobRows
<1>3. jobRow[j].retryable \in BOOLEAN
  BY <1>1 DEF JobRows
<1> QED
  BY <1>2, <1>3

LEMMA EndKeepsRows ==
    ASSUME JobsTypeOK, NEW j \in Jobs, NEW s \in {"failed", "done"}, NEW retry \in BOOLEAN,
           EndJob(j, s, retry)
    PROVE  RowsKept
<1>1. CASE Controlled(jobRow[j].status)
  <2>1. SetJob(j, Terminal(jobRow[j].status), FALSE)
    <3>1. /\ jobRow[j].status # "running"
          /\ ~(jobRow[j].status = "queued" /\ s = "failed")
      BY <1>1 DEF Controlled
    <3> QED
      BY <1>1, <3>1 DEF EndJob
  <2>2. Terminal(jobRow[j].status) \in {"cancelled", "blocked"}
    BY DEF Terminal
  <2>3. Terminal(jobRow[j].status) \in Statuses
    BY <2>2 DEF Statuses
  <2> QED
    BY <2>1, <2>2, <2>3, RowSetKeeps
<1>2. CASE ~Controlled(jobRow[j].status)
           /\ (jobRow[j].status = "running" \/ (jobRow[j].status = "queued" /\ s = "failed"))
  <2>1. PICK again \in BOOLEAN : again = IF s = "failed" THEN retry ELSE jobRow[j].retryable
    BY RetryableIs
  <2>2. SetJob(j, s, again)
    BY <1>2, <2>1, SMT DEF EndJob, Controlled
  <2>3. s \in Statuses /\ ~Stopped(j)
    BY <1>2 DEF Statuses, Stopped
  <2> QED
    BY <2>2, <2>3, RowSetKeeps
<1>3. CASE ~Controlled(jobRow[j].status)
           /\ ~(jobRow[j].status = "running" \/ (jobRow[j].status = "queued" /\ s = "failed"))
  <2>1. UNCHANGED jobRow
    BY <1>3, SMT DEF EndJob, Controlled
  <2> QED
    BY <2>1, RowsUnchanged
<1> QED
  BY <1>1, <1>2, <1>3

LEMMA CheckpointKeepsRows ==
    ASSUME JobsTypeOK, NEW j \in Jobs, Checkpoint(j)
    PROVE  RowsKept
<1>1. CASE Controlled(jobRow[j].status)
  <2>1. SetJob(j, Terminal(jobRow[j].status), FALSE)
    BY <1>1 DEF Checkpoint
  <2>2. Terminal(jobRow[j].status) \in {"cancelled", "blocked"}
    BY DEF Terminal
  <2>3. Terminal(jobRow[j].status) \in Statuses
    BY <2>2 DEF Statuses
  <2> QED
    BY <2>1, <2>2, <2>3, RowSetKeeps
<1>2. CASE ~Controlled(jobRow[j].status)
  BY <1>2, RowsUnchanged DEF Checkpoint
<1> QED
  BY <1>1, <1>2

(* A step of a request, and one of a thread of the pool. *)
LEMMA CallerKeeps ==
    ASSUME JobsKept, NEW q \in Callers, NEW c \in Called, caller' = [caller EXCEPT ![q] = c],
           c.pc # "idle" => c.job \in Jobs, c.pc = "barrier" => Stopped(c.job)',
           RowsKept, waiting' \in Seq(Jobs), UNCHANGED <<thread, stripe, jobAnswered>>
    PROVE  JobsKept'
<1>1. JobsTypeOK /\ OfJobs /\ Held /\ AskedToEnd /\ BarrierHolds
  BY DEF JobsKept
<1>2. /\ caller' \in [Callers -> Called]
      /\ \A p \in Callers : caller'[p] = c \/ caller'[p] = caller[p]
  BY <1>1, SMT DEF JobsTypeOK
<1>3. JobsTypeOK'
  BY <1>1, <1>2 DEF JobsTypeOK, RowsKept
<1>4. OfJobs' /\ Held' /\ BarrierHolds'
  BY <1>1, <1>2 DEF OfJobs, Held, BarrierHolds
<1>5. AskedToEnd'
  <2>1. ASSUME NEW p \in Callers, caller'[p].pc = "barrier"
        PROVE  Stopped(caller[p].job)'
    <3>1. CASE caller'[p] = c
      BY <2>1, <3>1 DEF Stopped
    <3>2. CASE caller'[p] = caller[p]
      <4>1. caller[p].pc = "barrier" /\ Stopped(caller[p].job) /\ caller[p].job \in Jobs
        BY <1>1, <2>1, <3>2 DEF AskedToEnd, OfJobs
      <4> QED
        BY <3>2, <4>1 DEF RowsKept, Stopped
    <3> QED
      BY <1>2, <3>1, <3>2
  <2>2. \A j \in jobAnswered : Stopped(j)'
    BY <1>1 DEF AskedToEnd, JobsTypeOK, RowsKept
  <2> QED
    BY <2>1, <2>2 DEF AskedToEnd, Stopped
<1> QED
  BY <1>3, <1>4, <1>5 DEF JobsKept

LEMMA ThreadKeeps ==
    ASSUME JobsKept, NEW w \in Threads, NEW t \in Works, thread' = [thread EXCEPT ![w] = t],
           t.pc # "idle" => t.job \in Jobs,
           stripe' \in [Stripes -> Threads \cup {Nobody}],
           \A s \in Stripes, v \in Threads : v # w /\ stripe[s] = v => stripe'[s] = v,
           t.pc \in {"check", "call", "note"} => stripe'[StripeOf[t.job]] = w,
           t.pc \in {"call", "note"} => t.job \notin jobAnswered,
           RowsKept, waiting' \in Seq(Jobs), UNCHANGED <<caller, jobAnswered>>
    PROVE  JobsKept'
<1>1. JobsTypeOK /\ OfJobs /\ Held /\ AskedToEnd /\ BarrierHolds
  BY DEF JobsKept
<1>2. /\ thread' \in [Threads -> Works] /\ thread'[w] = t
      /\ \A v \in Threads : v # w => thread'[v] = thread[v]
  BY <1>1, SMT DEF JobsTypeOK
<1>3. JobsTypeOK'
  BY <1>1, <1>2 DEF JobsTypeOK, RowsKept
<1>4. OfJobs'
  BY <1>1, <1>2 DEF OfJobs
<1>5. Held'
  <2> SUFFICES ASSUME NEW v \in Threads, thread'[v].pc \in {"check", "call", "note"}
               PROVE  stripe'[StripeOf[thread'[v].job]] = v
    BY DEF Held
  <2>1. CASE v = w
    BY <1>2, <2>1
  <2>2. CASE v # w
    <3>1. thread'[v] = thread[v] /\ thread[v].job \in Jobs
      BY <1>1, <1>2, <2>2 DEF OfJobs
    <3>2. StripeOf[thread[v].job] \in Stripes
      BY <3>1, JobsAssumption
    <3> QED
      BY <1>1, <2>2, <3>1, <3>2 DEF Held
  <2> QED
    BY <2>1, <2>2
<1>6. AskedToEnd'
  <2>1. \A j \in jobAnswered : Stopped(j)'
    BY <1>1 DEF AskedToEnd, JobsTypeOK, RowsKept
  <2>2. \A p \in Callers : caller[p].pc = "barrier" => Stopped(caller[p].job)'
    BY <1>1 DEF AskedToEnd, OfJobs, RowsKept, Stopped
  <2> QED
    BY <2>1, <2>2 DEF AskedToEnd, Stopped
<1>7. BarrierHolds'
  <2> SUFFICES ASSUME NEW j \in jobAnswered, NEW v \in Threads, thread'[v].job = j
               PROVE  thread'[v].pc \notin {"call", "note"}
    BY DEF BarrierHolds
  <2>1. CASE v = w
    BY <1>2, <2>1
  <2>2. CASE v # w
    BY <1>1, <1>2, <2>2 DEF BarrierHolds
  <2> QED
    BY <2>1, <2>2
<1> QED
  BY <1>3, <1>4, <1>5, <1>6, <1>7 DEF JobsKept

LEMMA CallIs ==
    ASSUME NEW pc \in {"idle", "submit", "refuse", "barrier"}, NEW j \in Jobs \cup {NoJob}
    PROVE  /\ [pc |-> pc, job |-> j] \in Called
           /\ [pc |-> pc, job |-> j].pc = pc /\ [pc |-> pc, job |-> j].job = j
BY SMT DEF Called

LEMMA DoIs ==
    ASSUME JobsKept, NEW w \in Threads,
           NEW pc \in {"claim", "lock", "check", "call", "note", "between", "finish", "handle",
                       "leave"}, Do(w, pc), thread[w].pc # "idle"
    PROVE  \E t \in Works : /\ thread' = [thread EXCEPT ![w] = t] /\ t.pc = pc
                            /\ t.job = thread[w].job /\ t.job \in Jobs
<1>1. thread \in [Threads -> Works]
  BY DEF JobsKept, JobsTypeOK
<1> PICK r \in Works : r = thread[w]
  BY <1>1
<1> DEFINE t == [r EXCEPT !.pc = pc]
<1>2. t \in Works /\ t.pc = pc /\ t.job = r.job
  BY SMT DEF Works
<1>3. thread' = [thread EXCEPT ![w] = t]
  BY <1>1, SMT DEF Do
<1>4. r.job \in Jobs
  BY DEF JobsKept, OfJobs
<1> HIDE DEF t
<1> QED
  BY <1>2, <1>3, <1>4

LEMMA LocksStay ==
    ASSUME JobsKept, NEW w \in Threads, Unlock(w) \/ UNCHANGED stripe
    PROVE  /\ stripe' \in [Stripes -> Threads \cup {Nobody}]
           /\ \A s \in Stripes, v \in Threads : v # w /\ stripe[s] = v => stripe'[s] = v
BY SMT DEF JobsKept, JobsTypeOK, Unlock

LEMMA RequestStep ==
    ASSUME JobsKept, NEW q \in Callers, NEW pc \in {"idle", "submit", "refuse", "barrier"},
           NEW j \in Jobs \cup {NoJob}, Serve(q, pc, j), pc # "idle" => j \in Jobs,
           pc = "barrier" => Stopped(j)', RowsKept, waiting' \in Seq(Jobs),
           UNCHANGED <<thread, stripe, jobAnswered>>
    PROVE  JobsKept'
<1> DEFINE c == [pc |-> pc, job |-> j]
<1>1. c \in Called /\ c.pc = pc /\ c.job = j
  BY CallIs
<1>2. caller' = [caller EXCEPT ![q] = c]
  BY DEF Serve
<1> HIDE DEF c
<1>3. c.pc = "barrier" => Stopped(c.job)'
  BY <1>1 DEF Stopped
<1> QED
  BY <1>1, <1>2, <1>3, CallerKeeps

LEMMA CreateKeeps ==
    ASSUME JobsKept, NEW q \in Callers, NEW j \in Jobs, NEW o \in Owners,
           NEW k \in JobKeys \cup {NoKey}, Create(q, j, o, k)
    PROVE  JobsKept'
<1>1. JobsTypeOK
  BY DEF JobsKept
<1> DEFINE r == [status |-> "queued", owner |-> o, key |-> k, retryable |-> FALSE]
<1>2. r \in JobRows
  <2>1. PICK no \in BOOLEAN : no = FALSE
    OBVIOUS
  <2>2. PICK s \in Statuses : s = "queued"
    BY DEF Statuses, Pending
  <2>3. [status |-> s, owner |-> o, key |-> k, retryable |-> no] \in JobRows
    BY <2>1, <2>2 DEF JobRows
  <2> QED
    BY <2>1, <2>2, <2>3
<1>3. jobRow[j] = Absent /\ jobRow' = [jobRow EXCEPT ![j] = r]
  BY DEF Create
<1> HIDE DEF r
<1>4. /\ jobRow' \in [Jobs -> JobRows]
      /\ \A i \in Jobs : i # j => jobRow'[i] = jobRow[i]
  BY <1>1, <1>2, <1>3, SMT DEF JobsTypeOK
<1>5. ~Stopped(j)
  BY <1>3 DEF Stopped, Absent
<1>6. RowsKept
  BY <1>4, <1>5 DEF RowsKept, Stopped
<1>7. Serve(q, "submit", j) /\ UNCHANGED <<waiting, thread, stripe, jobAnswered>>
  BY DEF Create
<1>8. waiting' \in Seq(Jobs)
  BY <1>1, <1>7 DEF JobsTypeOK
<1> QED
  BY <1>6, <1>7, <1>8, RequestStep

LEMMA RetryKeeps ==
    ASSUME JobsKept, NEW q \in Callers, NEW j \in Jobs, RetryJob(q, j)
    PROVE  JobsKept'
<1>1. JobsTypeOK
  BY DEF JobsKept
<1>2. SetJob(j, "queued", FALSE) /\ ~Stopped(j) /\ Serve(q, "submit", j)
      /\ UNCHANGED <<waiting, thread, stripe, jobAnswered>>
  BY DEF RetryJob, Stopped
<1>3. "queued" \in Statuses
  BY DEF Statuses, Pending
<1>4. RowsKept
  BY <1>1, <1>2, <1>3, RowSetKeeps
<1>5. waiting' \in Seq(Jobs)
  BY <1>1, <1>2 DEF JobsTypeOK
<1> QED
  BY <1>2, <1>4, <1>5, RequestStep

LEMMA SubmitKeeps ==
    ASSUME JobsKept, NEW q \in Callers, SubmitJob(q)
    PROVE  JobsKept'
<1>1. JobsTypeOK /\ caller[q].job \in Jobs
  BY DEF JobsKept, OfJobs, SubmitJob
<1>2. RowsKept /\ UNCHANGED <<thread, stripe, jobAnswered>>
  BY <1>1, RowsUnchanged DEF SubmitJob
<1>3. CASE inFlight < Capacity
  <2>1. waiting' \in Seq(Jobs)
    BY <1>1, <1>3, SMT DEF SubmitJob, JobsTypeOK
  <2>2. Serve(q, "idle", NoJob)
    BY <1>3 DEF SubmitJob, Served, Serve, Resting
  <2> QED
    BY <1>2, <2>1, <2>2, RequestStep
<1>4. CASE ~(inFlight < Capacity)
  <2>1. waiting' \in Seq(Jobs) /\ Serve(q, "refuse", caller[q].job)
    BY <1>1, <1>4 DEF SubmitJob, JobsTypeOK
  <2> QED
    BY <1>1, <1>2, <2>1, RequestStep
<1> QED
  BY <1>3, <1>4

LEMMA QueueFullKeeps ==
    ASSUME JobsKept, NEW q \in Callers, QueueFull(q)
    PROVE  JobsKept'
<1>1. JobsTypeOK /\ caller[q].job \in Jobs
  BY DEF JobsKept, OfJobs, QueueFull
<1>2. RowsKept /\ UNCHANGED <<waiting, thread, stripe, jobAnswered>>
  BY <1>1, EndKeepsRows DEF QueueFull
<1>3. waiting' \in Seq(Jobs)
  BY <1>1, <1>2 DEF JobsTypeOK
<1>4. Serve(q, "idle", NoJob)
  BY DEF QueueFull, Served, Serve, Resting
<1> QED
  BY <1>2, <1>3, <1>4, RequestStep

LEMMA ControlKeeps ==
    ASSUME JobsKept, NEW q \in Callers, NEW j \in Jobs,
           NEW asked \in {"cancel_requested", "block_requested"}, Control(q, j, asked)
    PROVE  JobsKept'
<1>1. JobsTypeOK
  BY DEF JobsKept
<1>2. /\ Serve(q, "barrier", j) /\ UNCHANGED <<waiting, thread, stripe, jobAnswered>>
      /\ jobRow[j].status \in {"queued", "running", asked, Terminal(asked)}
  BY DEF Control
<1>3. /\ Terminal(asked) \in {"cancelled", "blocked"} /\ Terminal(asked) \in Statuses
      /\ asked \in Statuses
  BY DEF Terminal, Statuses, Pending
<1>4. RowsKept /\ Stopped(j)'
  <2>1. CASE jobRow[j].status = "queued"
    <3>1. SetJob(j, Terminal(asked), FALSE)
      BY <2>1 DEF Control
    <3>2. jobRow'[j].status = Terminal(asked)
      BY <1>1, <1>3, <3>1, JobRowSet
    <3> QED
      BY <1>1, <1>3, <3>1, <3>2, RowSetKeeps DEF Stopped
  <2>2. CASE jobRow[j].status = "running"
    <3>1. SetJob(j, asked, FALSE)
      BY <2>2 DEF Control
    <3>2. jobRow'[j].status = asked
      BY <1>1, <1>3, <3>1, JobRowSet
    <3> QED
      BY <1>1, <1>3, <3>1, <3>2, RowSetKeeps DEF Stopped
  <2>3. CASE jobRow[j].status \notin {"queued", "running"}
    <3>1. UNCHANGED jobRow
      BY <2>3 DEF Control
    <3> QED
      BY <1>1, <1>2, <1>3, <2>3, <3>1, RowsUnchanged DEF Stopped
  <2> QED
    BY <2>1, <2>2, <2>3
<1>5. waiting' \in Seq(Jobs)
  BY <1>1, <1>2 DEF JobsTypeOK
<1> QED
  BY <1>2, <1>4, <1>5, RequestStep

(* The lock is free, so no thread calls or saves for the job any more.      *)
LEMMA BarrierKeeps ==
    ASSUME JobsKept, NEW q \in Callers, Barrier(q)
    PROVE  JobsKept'
<1>1. JobsTypeOK /\ OfJobs /\ Held /\ AskedToEnd /\ BarrierHolds
  BY DEF JobsKept
<1> PICK j \in Jobs : j = caller[q].job /\ Stopped(j)
  BY <1>1 DEF Barrier, OfJobs, AskedToEnd
<1>2. /\ stripe[StripeOf[j]] = Nobody /\ jobAnswered' = jobAnswered \cup {j}
      /\ UNCHANGED <<jobRow, waiting, thread, stripe>>
  BY DEF Barrier
<1>3. caller' = [caller EXCEPT ![q] = Resting] /\ Resting \in Called /\ Resting.pc = "idle"
  BY CallIs DEF Barrier, Served, Resting
<1>4. /\ caller' \in [Callers -> Called]
      /\ \A p \in Callers : caller'[p] = caller[p] \/ caller'[p].pc = "idle"
  BY <1>1, <1>3, SMT DEF JobsTypeOK
<1>5. JobsTypeOK'
  BY <1>1, <1>2, <1>4 DEF JobsTypeOK
<1>6. OfJobs' /\ Held'
  BY <1>1, <1>2, <1>4 DEF OfJobs, Held
<1>7. AskedToEnd'
  BY <1>1, <1>2, <1>4 DEF AskedToEnd, Stopped
<1>8. \A w \in Threads : thread[w].job = j => thread[w].pc \notin {"call", "note"}
  BY <1>1, <1>2, JobsAssumption DEF Held
<1>9. BarrierHolds'
  BY <1>1, <1>2, <1>8 DEF BarrierHolds
<1> QED
  BY <1>5, <1>6, <1>7, <1>9 DEF JobsKept

LEMMA TakeUpKeeps ==
    ASSUME JobsKept, NEW w \in Threads, TakeUp(w)
    PROVE  JobsKept'
<1>1. JobsTypeOK
  BY DEF JobsKept
<1>2. Head(waiting) \in Jobs /\ waiting' \in Seq(Jobs)
  BY <1>1, SMT DEF TakeUp, JobsTypeOK
<1> DEFINE t == [pc |-> "claim", job |-> Head(waiting), phases |-> 0]
<1>3. t \in Works /\ t.pc = "claim" /\ t.job \in Jobs
  BY <1>2, SMT DEF Works
<1>4. thread' = [thread EXCEPT ![w] = t]
  BY DEF TakeUp
<1> HIDE DEF t
<1>5. UNCHANGED <<jobRow, stripe, caller, jobAnswered>>
  BY DEF TakeUp
<1>6. RowsKept
  BY <1>1, <1>5, RowsUnchanged
<1> QED
  BY <1>2, <1>3, <1>4, <1>5, <1>6, LocksStay, ThreadKeeps

(* The steps of a thread at work that neither call nor save.                *)
LEMMA JobWorkKeeps ==
    ASSUME JobsKept, NEW w \in Threads, thread[w].pc # "idle",
           NEW pc \in {"lock", "between", "finish", "handle", "leave"}, Do(w, pc),
           Unlock(w) \/ UNCHANGED stripe, RowsKept, UNCHANGED <<waiting, caller, jobAnswered>>
    PROVE  JobsKept'
<1>1. PICK t \in Works : /\ thread' = [thread EXCEPT ![w] = t] /\ t.pc = pc
                         /\ t.job = thread[w].job /\ t.job \in Jobs
  BY DoIs
<1>2. waiting' \in Seq(Jobs)
  BY DEF JobsKept, JobsTypeOK
<1> QED
  BY <1>1, <1>2, LocksStay, ThreadKeeps

LEMMA ClaimKeeps ==
    ASSUME JobsKept, NEW w \in Threads, ClaimJob(w)
    PROVE  JobsKept'
<1>1. JobsTypeOK /\ thread[w].job \in Jobs /\ thread[w].pc # "idle"
  BY DEF JobsKept, OfJobs, ClaimJob
<1> PICK j \in Jobs : j = thread[w].job
  BY <1>1
<1>2. UNCHANGED <<caller, waiting, stripe, jobAnswered>>
  BY DEF ClaimJob
<1>3. CASE jobRow[j].status = "queued"
  <2>1. SetJob(j, "running", jobRow[j].retryable) /\ Do(w, "lock")
    BY <1>3 DEF ClaimJob
  <2>2. "running" \in Statuses /\ ~Stopped(j)
    BY <1>3 DEF Statuses, Pending, Stopped
  <2>3. RowsKept
    BY <1>1, <2>1, <2>2, RetryableIs, RowSetKeeps
  <2> QED
    BY <1>1, <1>2, <2>1, <2>3, JobWorkKeeps
<1>4. CASE jobRow[j].status # "queued"
  BY <1>1, <1>2, <1>4, RowsUnchanged, JobWorkKeeps DEF ClaimJob
<1> QED
  BY <1>3, <1>4

LEMMA TakeStripeKeeps ==
    ASSUME JobsKept, NEW w \in Threads, TakeStripe(w)
    PROVE  JobsKept'
<1>1. JobsTypeOK /\ thread[w].pc # "idle"
  BY DEF JobsKept, TakeStripe
<1>2. PICK t \in Works : /\ thread' = [thread EXCEPT ![w] = t] /\ t.pc = "check"
                         /\ t.job = thread[w].job /\ t.job \in Jobs
  BY <1>1, DoIs DEF TakeStripe
<1>3. StripeOf[t.job] \in Stripes
  BY <1>2, JobsAssumption
<1>4. /\ stripe[StripeOf[t.job]] = Nobody /\ stripe' = [stripe EXCEPT ![StripeOf[t.job]] = w]
      /\ UNCHANGED <<jobRow, caller, waiting, jobAnswered>>
  BY <1>2 DEF TakeStripe
<1>5. /\ stripe' \in [Stripes -> Threads \cup {Nobody}] /\ stripe'[StripeOf[t.job]] = w
      /\ \A s \in Stripes, v \in Threads : v # w /\ stripe[s] = v => stripe'[s] = v
  BY <1>1, <1>3, <1>4, JobsAssumption, SMT DEF JobsTypeOK
<1>6. RowsKept /\ waiting' \in Seq(Jobs)
  BY <1>1, <1>4, RowsUnchanged DEF JobsTypeOK
<1> QED
  BY <1>2, <1>4, <1>5, <1>6, ThreadKeeps

(* A job that was answered does not run, so its thread does not call.       *)
LEMMA AuthorizeKeeps ==
    ASSUME JobsKept, NEW w \in Threads, Authorize(w)
    PROVE  JobsKept'
<1>1. JobsTypeOK /\ thread[w].job \in Jobs /\ thread[w].pc # "idle" /\ Held /\ AskedToEnd
  BY DEF JobsKept, OfJobs, Authorize
<1>2. RowsKept /\ UNCHANGED <<caller, waiting, jobAnswered>>
  BY <1>1, CheckpointKeepsRows DEF Authorize
<1>3. CASE jobRow[thread[w].job].status = "running"
  <2>1. Do(w, "call") /\ UNCHANGED stripe
    BY <1>3 DEF Authorize
  <2>2. PICK t \in Works : /\ thread' = [thread EXCEPT ![w] = t] /\ t.pc = "call"
                           /\ t.job = thread[w].job /\ t.job \in Jobs
    BY <1>1, <2>1, DoIs
  <2>3. t.job \notin jobAnswered
    BY <1>1, <1>3, <2>2 DEF AskedToEnd, Stopped
  <2>4. stripe'[StripeOf[t.job]] = w
    BY <1>1, <2>1, <2>2 DEF Authorize, Held
  <2>5. waiting' \in Seq(Jobs)
    BY <1>1, <1>2 DEF JobsTypeOK
  <2> QED
    BY <1>2, <2>1, <2>2, <2>3, <2>4, <2>5, LocksStay, ThreadKeeps
<1>4. CASE jobRow[thread[w].job].status # "running"
  <2>1. Do(w, "leave") /\ Unlock(w)
    BY <1>4 DEF Authorize
  <2> QED
    BY <1>1, <1>2, <2>1, JobWorkKeeps
<1> QED
  BY <1>3, <1>4

LEMMA SaveResultKeeps ==
    ASSUME JobsKept, NEW w \in Threads, SaveResult(w)
    PROVE  JobsKept'
<1>1. JobsTypeOK /\ thread[w].pc = "call" /\ Held /\ BarrierHolds
  BY DEF JobsKept, SaveResult
<1>2. /\ Do(w, "note") /\ UNCHANGED <<jobRow, caller, waiting, stripe, jobAnswered>>
  BY DEF SaveResult
<1>3. PICK t \in Works : /\ thread' = [thread EXCEPT ![w] = t] /\ t.pc = "note"
                         /\ t.job = thread[w].job /\ t.job \in Jobs
  BY <1>1, <1>2, DoIs
<1>4. t.job \notin jobAnswered /\ stripe'[StripeOf[t.job]] = w
  BY <1>1, <1>2, <1>3 DEF BarrierHolds, Held
<1>5. RowsKept /\ waiting' \in Seq(Jobs)
  BY <1>1, <1>2, RowsUnchanged DEF JobsTypeOK
<1> QED
  BY <1>2, <1>3, <1>4, <1>5, LocksStay, ThreadKeeps

LEMMA NoteResultKeeps ==
    ASSUME JobsKept, NEW w \in Threads, NoteResult(w)
    PROVE  JobsKept'
<1>1. JobsTypeOK /\ thread[w].pc = "note" /\ thread[w].job \in Jobs
  BY DEF JobsKept, NoteResult, OfJobs
<1> PICK r \in Works : r = thread[w]
  BY <1>1 DEF JobsTypeOK
<1>2. PICK n \in Nat : n = r.phases + 1
  BY SMT DEF Works
<1> DEFINE t == [r EXCEPT !.pc = "between", !.phases = n]
<1>3. t \in Works /\ t.pc = "between" /\ t.job = r.job
  <2>1. \A P, J, N : \A x \in [pc : P, job : J, phases : N], p \in P, m \in N :
            /\ [x EXCEPT !.pc = p] \in [pc : P, job : J, phases : N]
            /\ [x EXCEPT !.phases = m] \in [pc : P, job : J, phases : N]
    BY SMT
  <2>2. [[r EXCEPT !.pc = "between"] EXCEPT !.phases = n] \in Works
    BY <1>2, <2>1, Zenon DEF Works
  <2>3. t = [[r EXCEPT !.pc = "between"] EXCEPT !.phases = n]
    BY SMT DEF Works
  <2>4. t.pc = "between" /\ t.job = r.job
    BY SMT DEF Works
  <2> QED
    BY <2>2, <2>3, <2>4
<1>4. thread' = [thread EXCEPT ![w] = t]
  BY <1>1, <1>2, Zenon DEF NoteResult, JobsTypeOK
<1> HIDE DEF t
<1>5. Unlock(w) /\ UNCHANGED <<jobRow, caller, waiting, jobAnswered>>
  BY DEF NoteResult
<1>6. RowsKept /\ waiting' \in Seq(Jobs)
  BY <1>1, <1>5, RowsUnchanged DEF JobsTypeOK
<1> QED
  BY <1>1, <1>3, <1>4, <1>5, <1>6, LocksStay, ThreadKeeps

LEMMA BetweenKeeps ==
    ASSUME JobsKept, NEW w \in Threads, Between(w)
    PROVE  JobsKept'
<1>1. JobsTypeOK /\ thread[w].pc # "idle" /\ thread[w].job \in Jobs
  BY DEF JobsKept, Between, OfJobs
<1>2. RowsKept /\ UNCHANGED <<caller, waiting, stripe, jobAnswered>>
  BY <1>1, CheckpointKeepsRows DEF Between
<1>3. Do(w, "leave") \/ Do(w, "finish") \/ Do(w, "lock")
  BY DEF Between
<1> QED
  BY <1>1, <1>2, <1>3, JobWorkKeeps

LEMMA EndingKeeps ==
    ASSUME JobsKept, NEW w \in Threads, FinishJob(w) \/ HandleFailure(w)
    PROVE  JobsKept'
<1>1. JobsTypeOK /\ thread[w].pc # "idle" /\ thread[w].job \in Jobs
  BY DEF JobsKept, FinishJob, HandleFailure, OfJobs
<1>2. /\ Do(w, "leave") /\ UNCHANGED <<caller, waiting, stripe, jobAnswered>>
      /\ \E s \in {"done", "failed"}, retry \in BOOLEAN : EndJob(thread[w].job, s, retry)
  BY JobsAssumption DEF FinishJob, HandleFailure
<1>3. RowsKept
  BY <1>1, <1>2, EndKeepsRows
<1> QED
  BY <1>1, <1>2, <1>3, JobWorkKeeps

LEMMA RaiseKeeps ==
    ASSUME JobsKept, NEW w \in Threads, Raise(w)
    PROVE  JobsKept'
<1>1. JobsTypeOK /\ thread[w].pc # "idle"
  BY DEF JobsKept, Raise
<1> QED
  BY <1>1, RowsUnchanged, JobWorkKeeps DEF Raise

LEMMA LeaveKeeps ==
    ASSUME JobsKept, NEW w \in Threads, Leave(w)
    PROVE  JobsKept'
<1>1. JobsTypeOK
  BY DEF JobsKept
<1>2. Free \in Works /\ Free.pc = "idle"
  BY SMT DEF Free, Works
<1>3. thread' = [thread EXCEPT ![w] = Free]
  BY DEF Leave
<1>4. UNCHANGED <<jobRow, caller, waiting, stripe, jobAnswered>>
  BY DEF Leave
<1>5. RowsKept /\ waiting' \in Seq(Jobs)
  BY <1>1, <1>4, RowsUnchanged DEF JobsTypeOK
<1> QED
  BY <1>2, <1>3, <1>4, <1>5, LocksStay, ThreadKeeps

LEMMA NobodyWorks ==
    ASSUME caller' = [q \in Callers |-> Resting], waiting' = <<>>, thread' = [w \in Threads |-> Free],
           stripe' = [s \in Stripes |-> Nobody], jobRow' \in [Jobs -> JobRows],
           jobAnswered' \subseteq Jobs, \A j \in jobAnswered' : Stopped(j)'
    PROVE  JobsKept'
<1>1. Resting \in Called /\ Resting.pc = "idle" /\ Free \in Works /\ Free.pc = "idle"
  BY SMT DEF Resting, Called, Free, Works
<1>2. waiting' \in Seq(Jobs)
  BY SMT
<1>3. JobsTypeOK'
  BY <1>1, <1>2 DEF JobsTypeOK
<1>4. \A w \in Threads : thread'[w].pc = "idle"
  BY <1>1
<1>5. \A q \in Callers : caller'[q].pc = "idle"
  BY <1>1
<1>6. OfJobs' /\ Held' /\ BarrierHolds'
  BY <1>4, <1>5 DEF OfJobs, Held, BarrierHolds
<1>7. AskedToEnd'
  BY <1>5 DEF AskedToEnd, Stopped
<1> QED
  BY <1>3, <1>6, <1>7 DEF JobsKept

LEMMA RestartKeeps ==
    ASSUME JobsKept, Restart
    PROVE  JobsKept'
<1>1. JobsTypeOK /\ AskedToEnd /\ jobRow' = [j \in Jobs |-> Recovered(jobRow[j])]
  BY DEF JobsKept, Restart
<1>2. ASSUME NEW r \in JobRows
      PROVE  /\ Recovered(r) \in JobRows
             /\ r.status \in {"cancel_requested", "block_requested", "cancelled", "blocked"} =>
                    Recovered(r).status \in {"cancelled", "blocked"}
  <2>2. \A n \in Statuses, b \in BOOLEAN :
            /\ [r EXCEPT !.status = n, !.retryable = b] \in JobRows
            /\ [r EXCEPT !.status = n, !.retryable = b].status = n
    BY RowWith
  <2>3. /\ Terminal(r.status) \in {"cancelled", "blocked"}
        /\ {"cancelled", "blocked", "failed"} \subseteq Statuses
    BY DEF Terminal, Statuses
  <2>4. CASE Controlled(r.status)
    <3>1. r.status \notin {"queued", "running"}
      BY <2>4 DEF Controlled
    <3>2. Recovered(r) = [r EXCEPT !.status = Terminal(r.status), !.retryable = FALSE]
      BY <2>4, <3>1 DEF Recovered
    <3> QED
      BY <2>2, <2>3, <3>2
  <2>5. CASE ~Controlled(r.status) /\ r.status \in {"queued", "running"}
    <3>1. Recovered(r) = [r EXCEPT !.status = "failed", !.retryable = TRUE]
      BY <2>5 DEF Recovered
    <3> QED
      BY <2>2, <2>3, <2>5, <3>1
  <2>6. CASE ~Controlled(r.status) /\ r.status \notin {"queued", "running"}
    <3>1. Recovered(r) = r
      BY <2>6 DEF Recovered
    <3> QED
      BY <2>6, <3>1 DEF Controlled
  <2> QED
    BY <2>4, <2>5, <2>6
<1>3. jobRow' \in [Jobs -> JobRows]
  BY <1>1, <1>2 DEF JobsTypeOK
<1>4. \A j \in Jobs : Stopped(j) => Stopped(j)'
  <2> SUFFICES ASSUME NEW j \in Jobs, Stopped(j) PROVE Stopped(j)'
    OBVIOUS
  <2>1. jobRow[j] \in JobRows /\ jobRow'[j] = Recovered(jobRow[j])
    BY <1>1 DEF JobsTypeOK
  <2> QED
    BY <1>2, <2>1 DEF Stopped
<1>5. jobAnswered' \subseteq Jobs /\ \A j \in jobAnswered' : Stopped(j)'
  BY <1>1, <1>4 DEF JobsTypeOK, AskedToEnd, Restart
<1> QED
  BY <1>3, <1>5, NobodyWorks DEF Restart

(* Once a request to cancel or block a job has been answered, no call of    *)
(* the job is under way and none of its results is still to be saved: the   *)
(* barrier takes the lock under which a thread looks at the row, calls and  *)
(* saves, and what was asked to end never runs again.                       *)
THEOREM BarrierAlwaysHolds == JobsSpec => []BarrierHolds
<1>1. JobsInit => JobsKept
  <2> SUFFICES ASSUME JobsInit PROVE JobsKept
    OBVIOUS
  <2>1. Resting \in Called /\ Resting.pc = "idle" /\ Free \in Works /\ Free.pc = "idle"
    BY SMT DEF Resting, Called, Free, Works
  <2>2. Absent \in JobRows
    <3>1. PICK no \in BOOLEAN : no = FALSE
      OBVIOUS
    <3>2. PICK s \in Statuses : s = "absent"
      BY DEF Statuses
    <3>3. [status |-> s, owner |-> NoJob, key |-> NoKey, retryable |-> no] \in JobRows
      BY <3>1, <3>2 DEF JobRows
    <3> QED
      BY <3>1, <3>2, <3>3 DEF Absent
  <2>3. waiting \in Seq(Jobs)
    BY SMT DEF JobsInit
  <2> QED
    BY <2>1, <2>2, <2>3 DEF JobsInit, JobsKept, JobsTypeOK, OfJobs, Held, AskedToEnd, BarrierHolds
<1>2. JobsKept /\ [JobsNext]_jobVars => JobsKept'
  <2> SUFFICES ASSUME JobsKept, [JobsNext]_jobVars PROVE JobsKept'
    OBVIOUS
  <2>1. ASSUME NEW q \in Callers, NEW j \in Jobs,
               \/ \E o \in Owners, k \in JobKeys \cup {NoKey} : Create(q, j, o, k)
               \/ RetryJob(q, j)
               \/ \E asked \in {"cancel_requested", "block_requested"} : Control(q, j, asked)
        PROVE  JobsKept'
    BY <2>1, CreateKeeps, RetryKeeps, ControlKeeps
  <2>2. ASSUME NEW q \in Callers, SubmitJob(q) \/ QueueFull(q) \/ Barrier(q)
        PROVE  JobsKept'
    BY <2>2, SubmitKeeps, QueueFullKeeps, BarrierKeeps
  <2>3. ASSUME NEW w \in Threads,
               \/ TakeUp(w) \/ ClaimJob(w) \/ TakeStripe(w) \/ Authorize(w) \/ SaveResult(w)
               \/ NoteResult(w)
        PROVE  JobsKept'
    BY <2>3, TakeUpKeeps, ClaimKeeps, TakeStripeKeeps, AuthorizeKeeps, SaveResultKeeps, NoteResultKeeps
  <2>4. ASSUME NEW w \in Threads,
               Between(w) \/ FinishJob(w) \/ Raise(w) \/ HandleFailure(w) \/ Leave(w)
        PROVE  JobsKept'
    BY <2>4, BetweenKeeps, EndingKeeps, RaiseKeeps, LeaveKeeps
  <2>5. CASE Restart
    BY <2>5, RestartKeeps
  <2>6. CASE UNCHANGED jobVars
    BY <2>6 DEF jobVars, JobsKept, JobsTypeOK, OfJobs, Held, AskedToEnd, Stopped, BarrierHolds
  <2> QED
    BY <2>1, <2>2, <2>3, <2>4, <2>5, <2>6 DEF JobsNext
<1>3. JobsKept => BarrierHolds
  BY DEF JobsKept
<1> QED
  BY <1>1, <1>2, <1>3, PTL DEF JobsSpec

-----------------------------------------------------------------------------
(* The users' own keys.                                                     *)

Someone0 == Persons \cup {Nothing}
Secrets == [owner : Persons, n : Nat]
Kept == Secrets \cup {Nothing}
Stored == [version : Nat, secret : Kept]
ActiveKeys == [person : Someone0, version : Nat, secret : Kept]
AskStages == {"idle", "clear", "session", "caller", "list", "get", "put", "install", "delete",
              "identity", "verify", "lease", "using"}
AskKinds == {"none", "signin", "signout", "save", "rewrap", "activate", "delete", "use"}
AskRecords == [pc : AskStages, what : AskKinds, on : Machines \cup {Nothing}, person : Someone0,
               version : Nat, secret : Kept, targets : SUBSET Machines]

CredentialsTypeOK ==
    /\ credential \in [Persons -> Stored] /\ active \in [Machines -> ActiveKeys]
    /\ signedIn \in [Machines -> Someone0] /\ entered \in Nat
    /\ ask \in [Asks -> AskRecords]

(* A key that is active is somebody's, and his own.                         *)
ActiveIsOwn(k) == k # NotActive => k.person \in Persons /\ k.secret.owner = k.person

(* A request that holds a key holds its person's, and one that checks a     *)
(* binding does so for somebody.                                            *)
Proper(a) ==
    /\ a.pc # "idle" => a.on \in Machines
    /\ a.pc \in {"put", "install", "using"} => a.person \in Persons /\ a.secret.owner = a.person
    /\ a.pc \in {"identity", "verify", "lease"} => a.person \in Persons

KeysAreOwn ==
    /\ CredentialsTypeOK
    /\ \A u \in Persons : credential[u].version > 0 => credential[u].secret.owner = u
    /\ \A p \in Machines : ActiveIsOwn(active[p])
    /\ \A q \in Asks : Proper(ask[q])

(* Records of a request with some of their fields changed. *)
LEMMA AskWith ==
    ASSUME NEW a \in AskRecords
    PROVE  /\ \A pc \in AskStages : /\ [a EXCEPT !.pc = pc] \in AskRecords
                                    /\ [a EXCEPT !.pc = pc].pc = pc
                                    /\ [a EXCEPT !.pc = pc].on = a.on
                                    /\ [a EXCEPT !.pc = pc].person = a.person
                                    /\ [a EXCEPT !.pc = pc].secret = a.secret
           /\ a.pc \in AskStages /\ a.person \in Someone0 /\ a.on \in Machines \cup {Nothing}
<1>1. \A pc \in AskStages : [a EXCEPT !.pc = pc] \in AskRecords
  <2>1. \A C, W, O, P, N, K, T :
            \A x \in [pc : C, what : W, on : O, person : P, version : N, secret : K, targets : T],
               n \in C : [x EXCEPT !.pc = n] \in [pc : C, what : W, on : O, person : P,
                                                  version : N, secret : K, targets : T]
    BY SMT
  <2> QED
    BY <2>1, Zenon DEF AskRecords
<1>2. \A pc \in AskStages : /\ [a EXCEPT !.pc = pc].pc = pc
                            /\ [a EXCEPT !.pc = pc].on = a.on
                            /\ [a EXCEPT !.pc = pc].person = a.person
                            /\ [a EXCEPT !.pc = pc].secret = a.secret
  BY SMT DEF AskRecords
<1>3. a.pc \in AskStages /\ a.person \in Someone0 /\ a.on \in Machines \cup {Nothing}
  BY SMT DEF AskRecords
<1> QED
  BY <1>1, <1>2, <1>3

LEMMA AskMade ==
    ASSUME NEW pc \in AskStages, NEW what \in AskKinds, NEW on \in Machines \cup {Nothing},
           NEW person \in Someone0, NEW version \in Nat, NEW secret \in Kept,
           NEW targets \in SUBSET Machines
    PROVE  LET a == [pc |-> pc, what |-> what, on |-> on, person |-> person, version |-> version,
                     secret |-> secret, targets |-> targets]
           IN  a \in AskRecords
BY SMT DEF AskRecords

(* Records of a request with several fields changed: a key that was entered,*)
(* a key that was read, the devices it is to be wrapped for.                *)
Holding(a, pc, v, secret) == [a EXCEPT !.pc = pc, !.version = v, !.secret = secret]
Getting(a, targets) == [a EXCEPT !.pc = "get", !.targets = targets]
Putting(a, v, secret, targets) ==
    [a EXCEPT !.pc = "put", !.version = v, !.secret = secret, !.targets = targets]

LEMMA AskField ==
    ASSUME NEW a \in AskRecords
    PROVE  /\ \A v \in Nat : [a EXCEPT !.version = v] \in AskRecords
           /\ \A s \in Kept : [a EXCEPT !.secret = s] \in AskRecords
           /\ \A T \in SUBSET Machines : [a EXCEPT !.targets = T] \in AskRecords
<1>1. \A C, W, O, P, N, K, T :
          \A x \in [pc : C, what : W, on : O, person : P, version : N, secret : K, targets : T] :
             /\ \A n \in N : [x EXCEPT !.version = n] \in [pc : C, what : W, on : O, person : P,
                                                           version : N, secret : K, targets : T]
             /\ \A n \in K : [x EXCEPT !.secret = n] \in [pc : C, what : W, on : O, person : P,
                                                          version : N, secret : K, targets : T]
             /\ \A n \in T : [x EXCEPT !.targets = n] \in [pc : C, what : W, on : O, person : P,
                                                           version : N, secret : K, targets : T]
  BY SMT
<1> QED
  BY <1>1, Zenon DEF AskRecords

LEMMA HoldingIs ==
    ASSUME NEW a \in AskRecords, NEW pc \in AskStages, NEW v \in Nat, NEW s \in Kept
    PROVE  /\ Holding(a, pc, v, s) \in AskRecords
           /\ Holding(a, pc, v, s).pc = pc /\ Holding(a, pc, v, s).on = a.on
           /\ Holding(a, pc, v, s).person = a.person /\ Holding(a, pc, v, s).secret = s
<1>1. Holding(a, pc, v, s) = [[[a EXCEPT !.pc = pc] EXCEPT !.version = v] EXCEPT !.secret = s]
  BY SMT DEF Holding, AskRecords
<1>2. [a EXCEPT !.pc = pc] \in AskRecords
  BY AskWith
<1>3. [[a EXCEPT !.pc = pc] EXCEPT !.version = v] \in AskRecords
  BY <1>2, AskField
<1>4. Holding(a, pc, v, s) \in AskRecords
  BY <1>1, <1>3, AskField
<1>5. /\ Holding(a, pc, v, s).pc = pc /\ Holding(a, pc, v, s).on = a.on
      /\ Holding(a, pc, v, s).person = a.person /\ Holding(a, pc, v, s).secret = s
  BY SMT DEF Holding, AskRecords
<1> QED
  BY <1>4, <1>5

LEMMA GettingIs ==
    ASSUME NEW a \in AskRecords, NEW T \in SUBSET Machines
    PROVE  /\ Getting(a, T) \in AskRecords
           /\ Getting(a, T).pc = "get" /\ Getting(a, T).on = a.on
<1>1. "get" \in AskStages
  BY DEF AskStages
<1>2. [a EXCEPT !.pc = "get"] \in AskRecords
  BY <1>1, AskWith
<1>3. Getting(a, T) = [[a EXCEPT !.pc = "get"] EXCEPT !.targets = T]
  BY SMT DEF Getting, AskRecords
<1>4. Getting(a, T) \in AskRecords
  BY <1>2, <1>3, AskField
<1>5. Getting(a, T).pc = "get" /\ Getting(a, T).on = a.on
  BY SMT DEF Getting, AskRecords
<1> QED
  BY <1>4, <1>5

LEMMA PuttingIs ==
    ASSUME NEW a \in AskRecords, NEW v \in Nat, NEW s \in Kept, NEW T \in SUBSET Machines
    PROVE  /\ Putting(a, v, s, T) \in AskRecords
           /\ Putting(a, v, s, T).pc = "put" /\ Putting(a, v, s, T).on = a.on
           /\ Putting(a, v, s, T).person = a.person /\ Putting(a, v, s, T).secret = s
<1>1. "put" \in AskStages
  BY DEF AskStages
<1>2. Holding(a, "put", v, s) \in AskRecords
  BY <1>1, HoldingIs
<1>3. Putting(a, v, s, T) = [Holding(a, "put", v, s) EXCEPT !.targets = T]
  BY SMT DEF Putting, Holding, AskRecords
<1>4. Putting(a, v, s, T) \in AskRecords
  BY <1>2, <1>3, AskField
<1>5. /\ Putting(a, v, s, T).pc = "put" /\ Putting(a, v, s, T).on = a.on
      /\ Putting(a, v, s, T).person = a.person /\ Putting(a, v, s, T).secret = s
  BY SMT DEF Putting, AskRecords
<1> QED
  BY <1>4, <1>5

LEMMA NoAskIs ==
    /\ NoAsk \in AskRecords /\ Proper(NoAsk)
    /\ Nothing \in Someone0 /\ Nothing \in Kept /\ {} \in SUBSET Machines
<1>1. "idle" \in AskStages /\ "none" \in AskKinds
  BY DEF AskStages, AskKinds
<1>2. Nothing \in Someone0 /\ Nothing \in Kept /\ Nothing \in Machines \cup {Nothing}
  BY DEF Someone0, Kept
<1>3. 0 \in Nat /\ {} \in SUBSET Machines
  BY SMT
<1>4. NoAsk \in AskRecords
  BY <1>1, <1>2, <1>3, AskMade DEF NoAsk
<1>5. Proper(NoAsk)
  BY SMT DEF Proper, NoAsk
<1> QED
  BY <1>2, <1>3, <1>4, <1>5

LEMMA NotActiveIs == NotActive \in ActiveKeys /\ ActiveIsOwn(NotActive)
<1>1. PICK none \in Someone0, no \in Kept : none = Nothing /\ no = Nothing
  BY NoAskIs
<1>2. [person |-> none, version |-> 0, secret |-> no] \in ActiveKeys
  BY <1>1, SMT DEF ActiveKeys
<1> QED
  BY <1>1, <1>2 DEF NotActive, ActiveIsOwn

(* A step of one request.                                                   *)
LEMMA AskKeeps ==
    ASSUME KeysAreOwn, NEW q \in Asks, NEW t \in AskRecords, Proper(t),
           ask' = [ask EXCEPT ![q] = t],
           credential' \in [Persons -> Stored], active' \in [Machines -> ActiveKeys],
           signedIn' \in [Machines -> Someone0], entered' \in Nat,
           \A u \in Persons : credential'[u].version > 0 => credential'[u].secret.owner = u,
           \A p \in Machines : ActiveIsOwn(active'[p])
    PROVE  KeysAreOwn'
<1>1. ask \in [Asks -> AskRecords]
  BY DEF KeysAreOwn, CredentialsTypeOK
<1>2. /\ ask' \in [Asks -> AskRecords]
      /\ \A r \in Asks : ask'[r] = t \/ ask'[r] = ask[r]
  BY <1>1, SMT
<1>3. CredentialsTypeOK'
  BY <1>2 DEF CredentialsTypeOK
<1>4. \A r \in Asks : Proper(ask'[r])
  BY <1>2 DEF KeysAreOwn
<1> QED
  BY <1>3, <1>4 DEF KeysAreOwn, ActiveIsOwn, Proper

LEMMA OnlyAskKeeps ==
    ASSUME KeysAreOwn, NEW q \in Asks, NEW t \in AskRecords, Proper(t),
           ask' = [ask EXCEPT ![q] = t], UNCHANGED <<credential, active>>,
           signedIn' \in [Machines -> Someone0], entered' \in Nat
    PROVE  KeysAreOwn'
BY AskKeeps DEF KeysAreOwn, CredentialsTypeOK

LEMMA AsIs ==
    ASSUME KeysAreOwn
    PROVE  /\ credential \in [Persons -> Stored] /\ active \in [Machines -> ActiveKeys]
           /\ signedIn \in [Machines -> Someone0] /\ entered \in Nat
           /\ \A u \in Persons : credential[u].version > 0 => credential[u].secret.owner = u
           /\ \A p \in Machines : ActiveIsOwn(active[p])
BY DEF KeysAreOwn, CredentialsTypeOK

LEMMA AskIs ==
    ASSUME KeysAreOwn, NEW q \in Asks
    PROVE  \E a \in AskRecords : a = ask[q] /\ Proper(a)
BY DEF KeysAreOwn, CredentialsTypeOK

(* Steps that take a request to another stage, or end it.                   *)
LEMMA GoesOn ==
    ASSUME KeysAreOwn, NEW q \in Asks, NEW pc \in AskStages, To(q, pc), ask[q].pc # "idle",
           pc \in {"put", "install", "using"} => ask[q].pc \in {"put", "install", "using"},
           pc \in {"identity", "verify", "lease"} => ask[q].pc \in {"identity", "verify", "lease"}
    PROVE  \E t \in AskRecords : Proper(t) /\ ask' = [ask EXCEPT ![q] = t]
<1> PICK a \in AskRecords : a = ask[q] /\ Proper(a)
  BY AskIs
<1> DEFINE t == [a EXCEPT !.pc = pc]
<1>1. /\ t \in AskRecords /\ t.pc = pc /\ t.on = a.on /\ t.person = a.person
      /\ t.secret = a.secret
  BY AskWith
<1>2. ask' = [ask EXCEPT ![q] = t]
  BY Zenon DEF To, KeysAreOwn, CredentialsTypeOK
<1> HIDE DEF t
<1>3. Proper(t)
  BY <1>1 DEF Proper
<1> QED
  BY <1>1, <1>2, <1>3

LEMMA Ends ==
    ASSUME NEW q \in Asks, Done(q)
    PROVE  \E t \in AskRecords : Proper(t) /\ ask' = [ask EXCEPT ![q] = t]
BY NoAskIs DEF Done

LEMMA StageSteps ==
    ASSUME KeysAreOwn, NEW q \in Asks,
           CheckCaller(q) \/ CheckIdentity(q) \/ VerifyRemote(q) \/ Return(q)
    PROVE  KeysAreOwn'
<1>1. UNCHANGED <<credential, active, signedIn, entered>>
  BY DEF CheckCaller, CheckIdentity, VerifyRemote, Return, cloudPart
<1>2. {"clear", "list", "get", "verify", "lease"} \subseteq AskStages
  BY DEF AskStages
<1>3. CASE CheckCaller(q)
  <2>1. PICK pc \in {"clear", "list", "get"} : To(q, pc)
    BY <1>3 DEF CheckCaller
  <2> QED
    BY <1>1, <1>2, <1>3, <2>1, GoesOn, OnlyAskKeeps, AsIs DEF CheckCaller
<1>4. CASE CheckIdentity(q)
  <2>1. PICK pc \in {"verify", "clear"} : To(q, pc) /\ ask[q].pc = "identity"
    BY <1>4 DEF CheckIdentity
  <2> QED
    BY <1>1, <1>2, <2>1, GoesOn, OnlyAskKeeps, AsIs
<1>5. CASE VerifyRemote(q)
  <2>1. PICK pc \in {"lease", "clear"} : To(q, pc) /\ ask[q].pc = "verify"
    BY <1>5 DEF VerifyRemote
  <2> QED
    BY <1>1, <1>2, <2>1, GoesOn, OnlyAskKeeps, AsIs
<1>6. CASE Return(q)
  BY <1>1, <1>6, Ends, OnlyAskKeeps, AsIs DEF Return
<1> QED
  BY <1>3, <1>4, <1>5, <1>6

LEMMA SignInKeeps ==
    ASSUME KeysAreOwn, NEW q \in Asks, CompleteSignIn(q)
    PROVE  KeysAreOwn'
<1>1. ask[q].person \in Someone0
  BY AskIs, AskWith
<1>2. signedIn' \in [Machines -> Someone0]
  BY <1>1, AsIs DEF CompleteSignIn
<1>3. UNCHANGED <<credential, active, entered>> /\ Done(q)
  BY DEF CompleteSignIn, cloudPart
<1> QED
  BY <1>2, <1>3, AsIs, Ends, OnlyAskKeeps

(* Steps that begin a request. *)
Begun(a, pc, what, p) == [a EXCEPT !.pc = pc, !.what = what, !.on = p]
BegunFor(a, pc, what, p, u) == [a EXCEPT !.pc = pc, !.what = what, !.on = p, !.person = u]
BegunWith(a, pc, what, p, u, v) ==
    [a EXCEPT !.pc = pc, !.what = what, !.on = p, !.person = u, !.version = v]
Beginnings == {"clear", "caller", "list", "delete", "identity"}

LEMMA BegunIs ==
    ASSUME NEW a \in AskRecords, NEW pc \in AskStages, NEW what \in AskKinds, NEW p \in Machines
    PROVE  /\ Begun(a, pc, what, p) \in AskRecords
           /\ Begun(a, pc, what, p).pc = pc /\ Begun(a, pc, what, p).on = p
           /\ \A u \in Someone0 : /\ BegunFor(a, pc, what, p, u) \in AskRecords
                                  /\ BegunFor(a, pc, what, p, u).pc = pc
                                  /\ BegunFor(a, pc, what, p, u).on = p
                                  /\ BegunFor(a, pc, what, p, u).person = u
<1>1. \A x \in AskRecords : /\ \A n \in AskKinds : [x EXCEPT !.what = n] \in AskRecords
                            /\ \A n \in Machines \cup {Nothing} : [x EXCEPT !.on = n] \in AskRecords
                            /\ \A n \in Someone0 : [x EXCEPT !.person = n] \in AskRecords
  <2>1. \A C, W, O, P, N, K, T :
            \A x \in [pc : C, what : W, on : O, person : P, version : N, secret : K, targets : T] :
               /\ \A n \in W : [x EXCEPT !.what = n] \in [pc : C, what : W, on : O, person : P,
                                                          version : N, secret : K, targets : T]
               /\ \A n \in O : [x EXCEPT !.on = n] \in [pc : C, what : W, on : O, person : P,
                                                        version : N, secret : K, targets : T]
               /\ \A n \in P : [x EXCEPT !.person = n] \in [pc : C, what : W, on : O, person : P,
                                                            version : N, secret : K, targets : T]
    BY SMT
  <2> QED
    BY <2>1, Zenon DEF AskRecords
<1>2. Begun(a, pc, what, p) = [[[a EXCEPT !.pc = pc] EXCEPT !.what = what] EXCEPT !.on = p]
  BY SMT DEF Begun, AskRecords
<1>3. [a EXCEPT !.pc = pc] \in AskRecords
  BY AskWith
<1>4. [[a EXCEPT !.pc = pc] EXCEPT !.what = what] \in AskRecords
  BY <1>1, <1>3
<1>5. p \in Machines \cup {Nothing}
  OBVIOUS
<1>6. Begun(a, pc, what, p) \in AskRecords
  BY <1>1, <1>2, <1>4, <1>5
<1>7. Begun(a, pc, what, p).pc = pc /\ Begun(a, pc, what, p).on = p
  BY SMT DEF Begun, AskRecords
<1>8. \A u \in Someone0 : BegunFor(a, pc, what, p, u) = [Begun(a, pc, what, p) EXCEPT !.person = u]
  BY SMT DEF Begun, BegunFor, AskRecords
<1>9. \A u \in Someone0 : BegunFor(a, pc, what, p, u) \in AskRecords
  BY <1>1, <1>6, <1>8
<1>10. \A u \in Someone0 : /\ BegunFor(a, pc, what, p, u).pc = pc
                           /\ BegunFor(a, pc, what, p, u).on = p
                           /\ BegunFor(a, pc, what, p, u).person = u
  BY SMT DEF BegunFor, AskRecords
<1> QED
  BY <1>6, <1>7, <1>9, <1>10

LEMMA BegunWithIs ==
    ASSUME NEW a \in AskRecords, NEW pc \in AskStages, NEW what \in AskKinds, NEW p \in Machines,
           NEW u \in Someone0, NEW v \in Nat
    PROVE  /\ BegunWith(a, pc, what, p, u, v) \in AskRecords
           /\ BegunWith(a, pc, what, p, u, v).pc = pc
           /\ BegunWith(a, pc, what, p, u, v).on = p
           /\ BegunWith(a, pc, what, p, u, v).person = u
<1>1. BegunFor(a, pc, what, p, u) \in AskRecords
  BY BegunIs
<1>2. BegunWith(a, pc, what, p, u, v) = [BegunFor(a, pc, what, p, u) EXCEPT !.version = v]
  BY SMT DEF BegunFor, BegunWith, AskRecords
<1>3. BegunWith(a, pc, what, p, u, v) \in AskRecords
  BY <1>1, <1>2, AskField
<1>4. /\ BegunWith(a, pc, what, p, u, v).pc = pc
      /\ BegunWith(a, pc, what, p, u, v).on = p
      /\ BegunWith(a, pc, what, p, u, v).person = u
  BY SMT DEF BegunWith, AskRecords
<1> QED
  BY <1>3, <1>4

LEMMA StartKeeps ==
    ASSUME KeysAreOwn, NEW q \in Asks, NEW t \in AskRecords, ask' = [ask EXCEPT ![q] = t],
           t.pc \in Beginnings, t.on \in Machines, t.pc = "identity" => t.person \in Persons,
           UNCHANGED <<credential, active, entered>>, signedIn' \in [Machines -> Someone0]
    PROVE  KeysAreOwn'
<1>1. Proper(t)
  BY SMT DEF Proper, Beginnings
<1> QED
  BY <1>1, AsIs, OnlyAskKeeps

LEMMA KindsAre ==
    /\ Beginnings \subseteq AskStages
    /\ {"signin", "signout", "save", "rewrap", "activate", "delete", "use"} \subseteq AskKinds
    /\ Persons \subseteq Someone0
BY DEF Beginnings, AskStages, AskKinds, Someone0

LEMMA AskSignInKeeps ==
    ASSUME KeysAreOwn, NEW q \in Asks, NEW p \in Machines, NEW u \in Persons, AskSignIn(q, p, u)
    PROVE  KeysAreOwn'
<1> PICK pc \in Beginnings, what \in AskKinds : pc = "clear" /\ what = "signin"
  BY KindsAre DEF Beginnings
<1> DEFINE t == BegunFor(NoAsk, pc, what, p, u)
<1>1. t \in AskRecords /\ t.pc = pc /\ t.on = p
  <2>1. NoAsk \in AskRecords /\ pc \in AskStages /\ u \in Someone0
    BY KindsAre, NoAskIs
  <2> QED
    BY <2>1, BegunIs
<1>2. ask' = [ask EXCEPT ![q] = t]
  BY Zenon DEF AskSignIn, BegunFor
<1>3. UNCHANGED <<credential, active, entered>> /\ signedIn' \in [Machines -> Someone0]
  BY AsIs DEF AskSignIn, cloudPart
<1> HIDE DEF t
<1> QED
  BY <1>1, <1>2, <1>3, StartKeeps

LEMMA SignOutKeeps ==
    ASSUME KeysAreOwn, NEW q \in Asks, NEW p \in Machines, SignOut(q, p)
    PROVE  KeysAreOwn'
<1> PICK pc \in Beginnings, what \in AskKinds : pc = "clear" /\ what = "signout"
  BY KindsAre DEF Beginnings
<1> DEFINE t == Begun(NoAsk, pc, what, p)
<1>1. t \in AskRecords /\ t.pc = pc /\ t.on = p
  BY KindsAre, NoAskIs, BegunIs
<1>2. ask' = [ask EXCEPT ![q] = t]
  BY Zenon DEF SignOut, Begins, Begun
<1>3. UNCHANGED <<credential, active, entered>>
  BY DEF SignOut, cloudPart
<1>4. signedIn' \in [Machines -> Someone0]
  BY NoAskIs, AsIs DEF SignOut
<1> HIDE DEF t
<1> QED
  BY <1>1, <1>2, <1>3, <1>4, StartKeeps

LEMMA AskAboutKeeps ==
    ASSUME KeysAreOwn, NEW q \in Asks, NEW p \in Machines,
           NEW what \in {"save", "rewrap", "activate", "delete"},
           NEW pc \in {"caller", "list", "delete"}, AskAbout(q, p, what, pc)
    PROVE  KeysAreOwn'
<1> PICK u \in Someone0 : u = signedIn[p]
  BY AsIs
<1>1. what \in AskKinds /\ pc \in Beginnings
  BY KindsAre DEF Beginnings
<1> DEFINE t == BegunFor(NoAsk, pc, what, p, u)
<1>2. t \in AskRecords /\ t.pc = pc /\ t.on = p
  <2>1. NoAsk \in AskRecords /\ pc \in AskStages
    BY <1>1, KindsAre, NoAskIs
  <2> QED
    BY <1>1, <2>1, BegunIs
<1>3. ask' = [ask EXCEPT ![q] = t]
  BY Zenon DEF AskAbout, BegunFor
<1>4. UNCHANGED <<credential, active, entered>> /\ signedIn' \in [Machines -> Someone0]
  BY AsIs DEF AskAbout, cloudPart
<1> HIDE DEF t
<1> QED
  BY <1>1, <1>2, <1>3, <1>4, StartKeeps

LEMMA ReadBindingKeeps ==
    ASSUME KeysAreOwn, NEW q \in Asks, NEW p \in Machines, ReadBinding(q, p)
    PROVE  KeysAreOwn'
<1> PICK k \in ActiveKeys : k = active[p]
  BY AsIs
<1>1. k.person \in Persons /\ k.version \in Nat
  <2>1. k # NotActive /\ ActiveIsOwn(k)
    BY AsIs DEF ReadBinding
  <2>2. k.version \in Nat
    BY SMT DEF ActiveKeys
  <2> QED
    BY <2>1, <2>2 DEF ActiveIsOwn
<1> PICK u \in Persons, v \in Nat : u = k.person /\ v = k.version
  BY <1>1
<1> PICK pc \in Beginnings, what \in AskKinds : pc = "identity" /\ what = "use"
  BY KindsAre DEF Beginnings
<1> DEFINE t == BegunWith(NoAsk, pc, what, p, u, v)
<1>2. t \in AskRecords /\ t.pc = pc /\ t.on = p /\ t.person = u
  BY KindsAre, NoAskIs, BegunWithIs
<1>3. ask' = [ask EXCEPT ![q] = t]
  BY Zenon DEF ReadBinding, BegunWith
<1>4. UNCHANGED <<credential, active, entered>> /\ signedIn' \in [Machines -> Someone0]
  BY AsIs DEF ReadBinding, cloudPart
<1> HIDE DEF t
<1> QED
  BY <1>2, <1>3, <1>4, StartKeeps

(* A key is entered for the person whose session the request began with, or *)
(* the stored one is read to be wrapped for one more device.                *)
LEMMA AiDevicesKeeps ==
    ASSUME KeysAreOwn, NEW q \in Asks, NEW version \in Nat, NEW target \in Machines,
           AiDevices(q, version, target)
    PROVE  KeysAreOwn'
<1> PICK a \in AskRecords : a = ask[q] /\ Proper(a)
  BY AskIs
<1>1. /\ a.pc = "list" /\ UNCHANGED <<credential, active, signedIn>>
      /\ a.on \in Machines
  BY DEF AiDevices, cloudPart, Proper
<1> PICK u \in Someone0 : u = signedIn[a.on]
  BY <1>1, AsIs
<1>2. CASE ~Recognized(q) \/ Caller(q) # a.person
  BY <1>1, <1>2, Ends, AsIs, OnlyAskKeeps DEF AiDevices
<1>3. CASE Recognized(q) /\ Caller(q) = a.person /\ a.what = "save"
  <2>1. a.person = u /\ u \in Persons
    BY <1>1, <1>3 DEF Caller, Recognized, Eligible, Someone0
  <2>2. entered' = entered + 1 /\ entered' \in Nat
    BY <1>1, <1>3, AsIs, SMT DEF AiDevices
  <2> PICK n \in Nat : n = entered'
    BY <2>2
  <2>3. PICK secret \in Secrets : secret = Secret(u, n) /\ secret.owner = u
    <3>1. Secret(u, n) \in Secrets
      <4>1. \A P, N : \A x \in P, y \in N : [owner |-> x, n |-> y] \in [owner : P, n : N]
        BY SMT
      <4> QED
        BY <2>1, <4>1, Zenon DEF Secrets, Secret
    <3>2. Secret(u, n).owner = u
      BY DEF Secret
    <3> QED
      BY <3>1, <3>2
  <2> PICK targets \in SUBSET Machines : targets = {t \in Machines : Eligible(u, t)}
    OBVIOUS
  <2>4. ask' = [ask EXCEPT ![q].pc = "put", ![q].version = version, ![q].secret = secret,
                           ![q].targets = targets]
    <3>1. Recognized(q) /\ Caller(q) = ask[q].person /\ ask[q].what = "save" /\ Caller(q) = u
      BY <1>3 DEF Caller
    <3>2. ask' = [ask EXCEPT ![q].pc = "put", ![q].version = version,
                             ![q].secret = Secret(Caller(q), entered'),
                             ![q].targets = {t \in Machines : Eligible(Caller(q), t)}]
      BY <3>1, Zenon DEF AiDevices
    <3>3. secret = Secret(Caller(q), entered') /\ targets = {t \in Machines : Eligible(Caller(q), t)}
      BY <2>3, <3>1, Zenon
    <3> QED
      BY <3>2, <3>3, Zenon
  <2> DEFINE t == Putting(a, version, secret, targets)
  <2>5. ask' = [ask EXCEPT ![q] = t]
    BY <2>4, Zenon DEF KeysAreOwn, CredentialsTypeOK, Putting
  <2>6. t \in AskRecords /\ t.pc = "put" /\ t.on = a.on /\ t.person = a.person /\ t.secret = secret
    BY <2>3, PuttingIs DEF Kept
  <2> HIDE DEF t
  <2>7. Proper(t)
    BY <1>1, <2>1, <2>3, <2>6 DEF Proper
  <2> QED
    BY <1>1, <2>2, <2>5, <2>6, <2>7, AsIs, OnlyAskKeeps
<1>4. CASE Recognized(q) /\ Caller(q) = a.person /\ a.what # "save"
  <2>1. entered' \in Nat
    BY <1>3, <1>4, AsIs DEF AiDevices
  <2> PICK targets \in SUBSET Machines : targets = {a.on, target}
    BY <1>1
  <2>2. ask' = [ask EXCEPT ![q].pc = "get", ![q].targets = targets]
    BY <1>4 DEF AiDevices
  <2> DEFINE t == Getting(a, targets)
  <2>3. ask' = [ask EXCEPT ![q] = t]
    BY <2>2, Zenon DEF KeysAreOwn, CredentialsTypeOK, Getting
  <2>4. t \in AskRecords /\ t.pc = "get" /\ t.on = a.on
    BY GettingIs
  <2> HIDE DEF t
  <2>5. Proper(t)
    BY <1>1, <2>4 DEF Proper
  <2> QED
    BY <1>1, <2>1, <2>3, <2>4, <2>5, AsIs, OnlyAskKeeps
<1> QED
  BY <1>2, <1>3, <1>4

(* What opens for the caller is the stored key, which is his.               *)
LEMMA GetCredentialKeeps ==
    ASSUME KeysAreOwn, NEW q \in Asks, GetCredential(q)
    PROVE  KeysAreOwn'
<1> PICK a \in AskRecords : a = ask[q] /\ Proper(a)
  BY AskIs
<1>1. /\ a.pc = "get" /\ UNCHANGED <<credential, active, signedIn, entered>> /\ a.on \in Machines
  BY DEF GetCredential, cloudPart, Proper
<1>2. CASE ~(Gets(q) /\ OpensHere(q))
  BY <1>1, <1>2, Ends, AsIs, OnlyAskKeeps DEF GetCredential
<1>3. CASE Gets(q) /\ OpensHere(q)
  <2>1. Caller(q) = a.person /\ a.person \in Persons /\ credential[a.person].version > 0
    BY <1>1, <1>3, AsIs DEF Gets, OpensHere, Recognized, Eligible, Caller, Someone0
  <2> PICK u \in Persons : u = a.person
    BY <2>1
  <2>2. /\ credential[u] \in Stored /\ credential[u].version > 0
        /\ credential[u].secret.owner = u
    BY <2>1, AsIs
  <2> PICK v \in Nat, secret \in Kept : v = credential[u].version /\ secret = credential[u].secret
    BY <2>2, SMT DEF Stored
  <2> PICK pc \in {"put", "install"} : pc = IF a.what = "rewrap" THEN "put" ELSE "install"
    OBVIOUS
  <2>3. ask' = [ask EXCEPT ![q].pc = pc, ![q].version = v, ![q].secret = secret]
    BY <1>3, <2>1 DEF GetCredential
  <2> DEFINE t == Holding(a, pc, v, secret)
  <2>4. ask' = [ask EXCEPT ![q] = t]
    BY <2>3, Zenon DEF KeysAreOwn, CredentialsTypeOK, Holding
  <2>5. pc \in AskStages
    BY DEF AskStages
  <2>6. t \in AskRecords /\ t.pc = pc /\ t.on = a.on /\ t.person = a.person /\ t.secret = secret
    BY <2>5, HoldingIs
  <2> HIDE DEF t
  <2>7. Proper(t)
    BY <1>1, <2>2, <2>6 DEF Proper
  <2> QED
    BY <1>1, <2>4, <2>6, <2>7, AsIs, OnlyAskKeeps
<1> QED
  BY <1>2, <1>3

LEMMA PutCredentialKeeps ==
    ASSUME KeysAreOwn, NEW q \in Asks, PutCredential(q)
    PROVE  KeysAreOwn'
<1> PICK a \in AskRecords : a = ask[q] /\ Proper(a)
  BY AskIs
<1>1. /\ a.pc = "put" /\ UNCHANGED <<active, signedIn, entered>>
      /\ a.person \in Persons /\ a.secret.owner = a.person
  BY DEF PutCredential, Proper
<1>2. CASE ~Stores(q)
  BY <1>1, <1>2, Ends, AsIs, OnlyAskKeeps DEF PutCredential
<1>3. CASE Stores(q)
  <2>1. Caller(q) = a.person
    BY <1>3 DEF Stores
  <2> PICK u \in Persons : u = a.person
    BY <1>1
  <2>2. a.version \in Nat /\ a.secret \in Kept
    BY SMT DEF AskRecords
  <2> PICK v \in Nat, secret \in Kept : v = a.version /\ secret = a.secret
    BY <2>2
  <2> DEFINE s == [version |-> v, secret |-> secret]
  <2>3. s \in Stored /\ s.secret = secret
    BY SMT DEF Stored
  <2>4. credential' = [credential EXCEPT ![u] = s]
    BY <1>3, <2>1, Zenon DEF PutCredential
  <2> HIDE DEF s
  <2>5. /\ credential' \in [Persons -> Stored]
        /\ \A w \in Persons : credential'[w].version > 0 => credential'[w].secret.owner = w
    <3>1. /\ credential' \in [Persons -> Stored] /\ credential'[u] = s
          /\ \A w \in Persons \ {u} : credential'[w] = credential[w]
      BY <2>3, <2>4, AsIs, SMT
    <3> QED
      BY <1>1, <2>3, <3>1, AsIs
  <2>6. \E t \in AskRecords : Proper(t) /\ ask' = [ask EXCEPT ![q] = t]
    <3>1. To(q, "clear") \/ Done(q)
      BY <1>3 DEF PutCredential, ToOrDone
    <3>2. "clear" \in AskStages
      BY DEF AskStages
    <3> QED
      BY <1>1, <3>1, <3>2, GoesOn, Ends
  <2> QED
    BY <1>1, <2>5, <2>6, AsIs, AskKeeps
<1> QED
  BY <1>2, <1>3

LEMMA NoCredentialIs == NoCredential \in Stored /\ NoCredential.version = 0
<1>1. \A N, K : \A x \in N, y \in K : [version |-> x, secret |-> y] \in [version : N, secret : K]
  BY SMT
<1>2. 0 \in Nat
  OBVIOUS
<1>3. NoCredential \in Stored
  BY <1>1, <1>2, NoAskIs, Zenon DEF NoCredential, Stored
<1> QED
  BY <1>3 DEF NoCredential

LEMMA DeleteCredentialKeeps ==
    ASSUME KeysAreOwn, NEW q \in Asks, DeleteCredential(q)
    PROVE  KeysAreOwn'
<1> PICK a \in AskRecords : a = ask[q] /\ Proper(a)
  BY AskIs
<1>1. a.pc = "delete" /\ UNCHANGED <<active, signedIn, entered>> /\ a.on \in Machines
  BY DEF DeleteCredential, Proper
<1>2. CASE ~Recognized(q)
  BY <1>1, <1>2, Ends, AsIs, OnlyAskKeeps DEF DeleteCredential
<1>3. CASE Recognized(q)
  <2>1. Caller(q) \in Persons
    BY <1>1, <1>3, AsIs DEF Recognized, Eligible, Caller, Someone0
  <2> PICK u \in Persons : u = Caller(q)
    BY <2>1
  <2> PICK s \in Stored : s = NoCredential /\ s.version = 0
    BY NoCredentialIs
  <2>2. credential' = [credential EXCEPT ![u] = s] /\ To(q, "clear")
    BY <1>3, Zenon DEF DeleteCredential
  <2>3. /\ credential' \in [Persons -> Stored]
        /\ \A w \in Persons : credential'[w].version > 0 => credential'[w].secret.owner = w
    <3>1. /\ credential' \in [Persons -> Stored] /\ credential'[u] = s
          /\ \A w \in Persons \ {u} : credential'[w] = credential[w]
      BY <2>2, AsIs, SMT
    <3>2. ~(s.version > 0)
      BY SMT
    <3> QED
      BY <3>1, <3>2, AsIs
  <2>4. "clear" \in AskStages
    BY DEF AskStages
  <2>5. \E t \in AskRecords : Proper(t) /\ ask' = [ask EXCEPT ![q] = t]
    BY <1>1, <2>2, <2>4, GoesOn
  <2> QED
    BY <1>1, <2>3, <2>5, AsIs, AskKeeps
<1> QED
  BY <1>2, <1>3

(* Steps that put a key into the memory of a machine or take it out.        *)
LEMMA ActiveKeeps ==
    ASSUME KeysAreOwn, NEW q \in Asks, NEW p \in Machines, NEW k \in ActiveKeys, ActiveIsOwn(k),
           active' = [active EXCEPT ![p] = k], UNCHANGED <<credential, signedIn, entered>>,
           \E t \in AskRecords : Proper(t) /\ ask' = [ask EXCEPT ![q] = t]
    PROVE  KeysAreOwn'
<1>1. /\ active' \in [Machines -> ActiveKeys]
      /\ \A m \in Machines : active'[m] = k \/ active'[m] = active[m]
  BY AsIs, SMT
<1>2. \A m \in Machines : ActiveIsOwn(active'[m])
  BY <1>1, AsIs
<1> QED
  BY <1>1, <1>2, AsIs, AskKeeps

LEMMA InstallKeeps ==
    ASSUME KeysAreOwn, NEW q \in Asks, Install(q)
    PROVE  KeysAreOwn'
<1> PICK a \in AskRecords : a = ask[q] /\ Proper(a)
  BY AskIs
<1>1. /\ a.person \in Persons /\ a.secret.owner = a.person /\ a.on \in Machines
      /\ Done(q) /\ UNCHANGED <<credential, signedIn, entered>>
  BY DEF Install, cloudPart, Proper
<1>2. a.version \in Nat /\ a.secret \in Kept
  BY SMT DEF AskRecords
<1> PICK v \in Nat, secret \in Kept, u \in Someone0, p \in Machines :
          v = a.version /\ secret = a.secret /\ u = a.person /\ p = a.on
  BY <1>1, <1>2 DEF Someone0
<1> DEFINE k == [person |-> u, version |-> v, secret |-> secret]
<1>3. k \in ActiveKeys /\ k.person = u /\ k.secret = secret
  BY SMT DEF ActiveKeys
<1>4. active' = [active EXCEPT ![p] = k]
  BY Zenon DEF Install
<1> HIDE DEF k
<1>5. ActiveIsOwn(k)
  BY <1>1, <1>3 DEF ActiveIsOwn
<1> QED
  BY <1>1, <1>3, <1>4, <1>5, Ends, ActiveKeeps

LEMMA ClearActiveKeeps ==
    ASSUME KeysAreOwn, NEW q \in Asks, ClearActive(q)
    PROVE  KeysAreOwn'
<1> PICK a \in AskRecords : a = ask[q] /\ Proper(a)
  BY AskIs
<1>1. /\ a.pc = "clear" /\ a.on \in Machines /\ UNCHANGED <<credential, signedIn, entered>>
      /\ active' = [active EXCEPT ![a.on] = NotActive] /\ (To(q, "session") \/ Done(q))
  BY DEF ClearActive, ToOrDone, cloudPart, Proper
<1>2. "session" \in AskStages
  BY DEF AskStages
<1>3. \E t \in AskRecords : Proper(t) /\ ask' = [ask EXCEPT ![q] = t]
  BY <1>1, <1>2, GoesOn, Ends
<1> QED
  BY <1>1, <1>3, NotActiveIs, ActiveKeeps

(* The key that is lent is the one whose person was read and is still the   *)
(* person of what is active.                                                *)
LEMMA LeaseKeeps ==
    ASSUME KeysAreOwn, NEW q \in Asks, Lease(q)
    PROVE  KeysAreOwn'
<1> PICK a \in AskRecords : a = ask[q] /\ Proper(a)
  BY AskIs
<1>1. /\ a.pc = "lease" /\ a.on \in Machines /\ a.person \in Persons
      /\ UNCHANGED <<credential, signedIn, entered>>
  BY DEF Lease, cloudPart, Proper
<1> PICK k \in ActiveKeys : k = active[a.on] /\ ActiveIsOwn(k)
  BY <1>1, AsIs
<1>2. CASE ~BoundAsRead(q)
  BY <1>1, <1>2, Ends, AsIs, OnlyAskKeeps DEF Lease
<1>3. CASE BoundAsRead(q) /\ k.version # a.version
  <2>1. active' = [active EXCEPT ![a.on] = NotActive] /\ Done(q)
    BY <1>3 DEF Lease
  <2> QED
    BY <1>1, <2>1, NotActiveIs, Ends, ActiveKeeps
<1>4. CASE BoundAsRead(q) /\ k.version = a.version
  <2>1. k.person = a.person
    BY <1>4 DEF BoundAsRead
  <2>2. k.secret.owner = a.person
    <3>1. NotActive.person = Nothing
      BY DEF NotActive
    <3>2. k # NotActive
      BY <1>1, <2>1, <3>1, CredentialsAssumption
    <3> QED
      BY <2>1, <3>2 DEF ActiveIsOwn
  <2>3. k.secret \in Kept
    BY SMT DEF ActiveKeys
  <2> PICK secret \in Kept : secret = k.secret
    BY <2>3
  <2>4. ask' = [ask EXCEPT ![q].pc = "using", ![q].secret = secret] /\ UNCHANGED active
    BY <1>4, Zenon DEF Lease
  <2> DEFINE t == [[a EXCEPT !.pc = "using"] EXCEPT !.secret = secret]
  <2>5. [a EXCEPT !.pc = "using", !.secret = secret] = t
    BY SMT DEF AskRecords
  <2>6. ask' = [ask EXCEPT ![q] = [a EXCEPT !.pc = "using", !.secret = secret]]
    BY <2>4, Zenon DEF KeysAreOwn, CredentialsTypeOK
  <2>7. "using" \in AskStages
    BY DEF AskStages
  <2>8. t \in AskRecords
    <3>1. [a EXCEPT !.pc = "using"] \in AskRecords
      BY <2>7, AskWith
    <3> QED
      BY <3>1, AskField
  <2>9. t.pc = "using" /\ t.on = a.on /\ t.person = a.person /\ t.secret = secret
    BY SMT DEF AskRecords
  <2>10. ask' = [ask EXCEPT ![q] = t]
    BY <2>5, <2>6
  <2> HIDE DEF t
  <2>11. Proper(t)
    BY <1>1, <2>2, <2>9 DEF Proper
  <2> QED
    BY <1>1, <2>4, <2>8, <2>10, <2>11, AsIs, OnlyAskKeeps
<1> QED
  BY <1>2, <1>3, <1>4

LEMMA RestartMachineKeeps ==
    ASSUME KeysAreOwn, NEW p \in Machines, RestartMachine(p)
    PROVE  KeysAreOwn'
<1>1. UNCHANGED <<credential, signedIn, entered>>
  BY DEF RestartMachine, cloudPart
<1>2. /\ active' \in [Machines -> ActiveKeys]
      /\ \A m \in Machines : active'[m] = NotActive \/ active'[m] = active[m]
  BY NotActiveIs, AsIs, SMT DEF RestartMachine
<1>3. \A m \in Machines : ActiveIsOwn(active'[m])
  BY <1>2, NotActiveIs, AsIs
<1>4. /\ ask' = [q \in Asks |-> IF ask[q].on = p THEN NoAsk ELSE ask[q]]
      /\ \A q \in Asks : ask[q] \in AskRecords
  BY DEF RestartMachine, KeysAreOwn, CredentialsTypeOK
<1>5. /\ ask' \in [Asks -> AskRecords]
      /\ \A q \in Asks : ask'[q] = NoAsk \/ ask'[q] = ask[q]
  BY <1>4, NoAskIs
<1>6. \A q \in Asks : Proper(ask'[q])
  BY <1>5, NoAskIs DEF KeysAreOwn
<1>7. CredentialsTypeOK'
  BY <1>1, <1>2, <1>5, AsIs DEF CredentialsTypeOK
<1> QED
  BY <1>1, <1>3, <1>6, <1>7 DEF KeysAreOwn, ActiveIsOwn, Proper

LEMMA KeysStartOwn == CredentialsInit => KeysAreOwn
<1> SUFFICES ASSUME CredentialsInit PROVE KeysAreOwn
  OBVIOUS
<1>1. CredentialsTypeOK
  BY NoCredentialIs, NotActiveIs, NoAskIs DEF CredentialsInit, CredentialsTypeOK
<1>2. \A u \in Persons : ~(credential[u].version > 0)
  BY NoCredentialIs DEF CredentialsInit
<1>3. /\ \A p \in Machines : active[p] = NotActive
      /\ \A q \in Asks : ask[q] = NoAsk
  BY DEF CredentialsInit
<1> QED
  BY <1>1, <1>2, <1>3, NotActiveIs, NoAskIs DEF KeysAreOwn

LEMMA KeysStayOwn == KeysAreOwn /\ [CredentialsNext]_credentialVars => KeysAreOwn'
<1> SUFFICES ASSUME KeysAreOwn, [CredentialsNext]_credentialVars PROVE KeysAreOwn'
  OBVIOUS
<1>1. CASE \E p \in Machines : RestartMachine(p)
  BY <1>1, RestartMachineKeeps
<1>2. CASE UNCHANGED <<credential, active, signedIn, entered, ask>>
  BY <1>2 DEF KeysAreOwn, CredentialsTypeOK, ActiveIsOwn, Proper
<1>3. CASE \E u \in Persons, p \in Machines : Pairs(u, p) \/ RevokeMachine(u, p)
  BY <1>2, <1>3 DEF Pairs, RevokeMachine
<1>4. ASSUME NEW q \in Asks, NEW p \in Machines,
             \/ \E u \in Persons : AskSignIn(q, p, u)
             \/ SignOut(q, p) \/ ReadBinding(q, p)
             \/ AskAbout(q, p, "save", "caller") \/ AskAbout(q, p, "rewrap", "list")
             \/ AskAbout(q, p, "activate", "caller") \/ AskAbout(q, p, "delete", "delete")
             \/ \E v \in 1..MaxCredential : AiDevices(q, v, p)
      PROVE  KeysAreOwn'
  <2>1. CASE \E u \in Persons : AskSignIn(q, p, u)
    BY <2>1, AskSignInKeeps
  <2>2. CASE SignOut(q, p) \/ ReadBinding(q, p)
    BY <2>2, SignOutKeeps, ReadBindingKeeps
  <2>3. CASE \/ AskAbout(q, p, "save", "caller") \/ AskAbout(q, p, "rewrap", "list")
             \/ AskAbout(q, p, "activate", "caller") \/ AskAbout(q, p, "delete", "delete")
    BY <2>3, AskAboutKeeps
  <2>4. CASE \E v \in 1..MaxCredential : AiDevices(q, v, p)
    <3>1. 1..MaxCredential \subseteq Nat
      BY CredentialsAssumption, SMT
    <3> QED
      BY <2>4, <3>1, AiDevicesKeeps
  <2> QED
    BY <1>4, <2>1, <2>2, <2>3, <2>4
<1>5. ASSUME NEW q \in Asks,
             \/ CompleteSignIn(q) \/ CheckCaller(q) \/ GetCredential(q) \/ PutCredential(q)
             \/ DeleteCredential(q) \/ Install(q) \/ ClearActive(q) \/ CheckIdentity(q)
             \/ VerifyRemote(q) \/ Lease(q) \/ Return(q)
      PROVE  KeysAreOwn'
  BY <1>5, SignInKeeps, StageSteps, GetCredentialKeeps, PutCredentialKeeps, DeleteCredentialKeeps,
     InstallKeeps, ClearActiveKeeps, LeaseKeeps
<1> QED
  BY <1>1, <1>2, <1>3, <1>4, <1>5 DEF CredentialsNext, credentialVars

(* A user's own key stays his: stored in the cloud, active in the memory of *)
(* a desktop and lent to a caller, whoever signs in or out meanwhile.       *)
THEOREM KeyIsNobodyElses == CredentialsSpec => []KeyStaysWithPerson
<1>1. KeysAreOwn => KeyStaysWithPerson
  BY DEF KeysAreOwn, ActiveIsOwn, Proper, KeyStaysWithPerson
<1> QED
  BY <1>1, KeysStartOwn, KeysStayOwn, PTL DEF CredentialsSpec

=============================================================================
