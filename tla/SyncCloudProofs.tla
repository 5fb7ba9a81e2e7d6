-------------------------- MODULE SyncCloudProofs --------------------------
(***************************************************************************)
(* Proofs about SyncCloud, for any sets of records, versions and events.   *)
(*                                                                         *)
(* None of the properties is inductive alone: whether a version may become *)
(* the head is decided when its transaction is opened and acted upon when  *)
(* it commits.  CloudInv adds what the row lock keeps true in between.     *)
(***************************************************************************)
EXTENDS SyncCloud, FiniteSetTheorems, TLAPS

\* Open transactions hold their locks apart from one another.
LocksHeld ==
  \A t, u \in open : t.req.rec = u.req.rec \/ t.req.id = u.req.id => t = u

\* What a transaction found when it was opened is still so: the answer it
\* will give, that its version is new, and that the log of its record ends
\* before its cursor.
DecisionStands ==
  \A t \in open :
    /\ t.applied <=> FollowsHead(t.req)
    /\ t.applied \/ heads[t.req.rec].vid # Null
    /\ t.settles # Null => t.applied
    /\ FreshVersion(t.req)
    /\ t.cursor <= nextCursor
    /\ \A e \in events : e.req.rec = t.req.rec => e.cursor < t.cursor

\* The head is a version of the line that no other version of it follows,
\* and the cursors of the log have been handed out.
HeadOnLine ==
  /\ \A e \in events : e.cursor <= nextCursor
  /\ \A r \in Records : heads[r].vid # Null =>
       /\ \E e \in Applied(r) :
            e.req.vid = heads[r].vid /\ e.req.ver = heads[r].ver
       /\ \A e \in Applied(r) : e.req.base # heads[r].vid

\* A conflict is held against a version of the line not after the head.
ConflictsBehindHead ==
  \A c \in conflicts : \E e \in Applied(c.rec) :
    e.req.vid = c.head /\ e.req.ver <= heads[c.rec].ver

\* The branch of a conflict is a stored version.
BranchesStored ==
  \A c \in conflicts : \E v \in versions : v.rec = c.rec /\ v.vid = c.incoming

RotationPossible ==
  /\ IsFiniteSet(versions)
  /\ rotation.staging => orgKey < MaxKey

CloudInv ==
  /\ TypeOK
  /\ RotationPossible
  /\ KeysUniform
  /\ LocksHeld
  /\ DecisionStands
  /\ HeadOnLine
  /\ ConflictsBehindHead
  /\ BranchesStored
  /\ LinearHistory
  /\ BranchesKept
  /\ ResolutionFollowsHead

-----------------------------------------------------------------------------
(* A transaction is opened                                                 *)

\* A version that starts a record follows its head; any other is a push to a
\* record with a head (push_record_event's two branches).
LEMMA AdmissibleHead ==
  ASSUME NEW q \in Requests, Admissible(q)
  PROVE  FollowsHead(q) \/ heads[q.rec].vid # Null
BY DEF Admissible, StartsRecord, ContinuesRecord, FollowsHead

LEMMA OpenKeepsInv ==
  ASSUME CloudInv,
         NEW q \in Requests, NEW branch \in VersionIds \cup {Null},
         LocksFree(q), Admissible(q), branch # Null => FollowsHead(q),
         OpenTransaction(q, branch),
         UNCHANGED <<heads, versions, events, conflicts, orgKey, rotation>>
  PROVE  CloudInv'
<1> DEFINE t == [req |-> q, cursor |-> nextCursor + 1,
                 applied |-> FollowsHead(q), settles |-> branch]
<1>1. /\ open' = open \cup {t}
      /\ nextCursor \in Nat /\ nextCursor' = nextCursor + 1
  BY DEF CloudInv, TypeOK, OpenTransaction
<1>2. FollowsHead(q) \in BOOLEAN
  BY DEF FollowsHead
<1>3. t \in Transactions
  BY <1>1, <1>2 DEF Transactions
<1>4. TypeOK'
  BY <1>1, <1>3 DEF CloudInv, TypeOK
<1>5. RotationPossible'
  BY DEF CloudInv, RotationPossible
<1>6. KeysUniform'
  <2>1. ~rotation.staging /\ q.key = orgKey
    BY DEF Admissible, KeyCurrent
  <2> QED
    BY <1>1, <2>1 DEF CloudInv, KeysUniform
<1>7. LocksHeld'
  BY <1>1 DEF CloudInv, LocksHeld, LocksFree
<1>8. DecisionStands'
  <2>1. /\ t.applied <=> FollowsHead(t.req)
        /\ t.applied \/ heads[t.req.rec].vid # Null
        /\ t.settles # Null => t.applied
        /\ FreshVersion(t.req)
    BY AdmissibleHead DEF Admissible
  <2>2. \A e \in events : e.cursor \in Nat /\ e.cursor <= nextCursor
    BY DEF CloudInv, TypeOK, HeadOnLine
  <2>3. t.cursor <= nextCursor' /\ \A e \in events : e.cursor < t.cursor
    BY <1>1, <2>2
  <2>4. \A u \in open : u.cursor \in Nat /\ u.cursor <= nextCursor
    BY DEF CloudInv, TypeOK, Transactions, DecisionStands
  <2>5. \A u \in open : u.cursor <= nextCursor'
    BY <1>1, <2>4
  <2> QED
    BY <1>1, <2>1, <2>3, <2>5
       DEF CloudInv, DecisionStands, FollowsHead, FreshVersion
<1>9. HeadOnLine'
  <2>1. \A e \in events : e.cursor \in Nat /\ e.cursor <= nextCursor
    BY DEF CloudInv, TypeOK, HeadOnLine
  <2> QED
    BY <1>1, <2>1 DEF CloudInv, HeadOnLine, Applied
<1> QED
  BY <1>4, <1>5, <1>6, <1>7, <1>8, <1>9
     DEF CloudInv, ConflictsBehindHead, BranchesStored, LinearHistory,
         BranchesKept, ResolutionFollowsHead, Applied

-----------------------------------------------------------------------------
(* A transaction ends                                                      *)

\* The log entry a committing transaction adds.
EventOf(t) == [req |-> t.req, applied |-> t.applied, cursor |-> t.cursor]

\* What a commit does to the line of each record: the transaction's own grows
\* by its event if it was accepted, no other changes.
LEMMA CommitExtendsLine ==
  ASSUME TypeOK, NEW t \in open, Commit(t), NEW r \in Records
  PROVE  Applied(r)' = Applied(r) \cup
           (IF t.applied /\ t.req.rec = r THEN {EventOf(t)} ELSE {})
BY DEF TypeOK, Transactions, Commit, Applied, EventOf

\* A commit keeps the types, and the set of versions stays finite.
LEMMA CommitKeepsType ==
  ASSUME CloudInv, NEW t \in open, Commit(t)
  PROVE  TypeOK' /\ RotationPossible'
<1>1. /\ t \in Transactions /\ t.req \in Requests
      /\ t.req.rec \in Records /\ t.req.vid \in VersionIds
      /\ t.req.ver \in Nat
  BY DEF CloudInv, TypeOK, Transactions, Requests
<1>2. heads' \in [Records -> [vid : VersionIds \cup {Null}, ver : Nat]]
  BY <1>1 DEF CloudInv, TypeOK, Commit
<1>3. versions' \subseteq Versions
  BY <1>1 DEF CloudInv, TypeOK, Commit, VersionOf, Versions, Requests
<1>4. events' \subseteq [req : Requests, applied : BOOLEAN, cursor : Nat]
  BY <1>1 DEF CloudInv, TypeOK, Commit, Transactions
<1>5. conflicts' \subseteq Conflicts
  <2>1. \A c \in conflicts : Settled(c, t) \in Conflicts
    BY <1>1 DEF CloudInv, TypeOK, Settled, Conflicts
  <2>2. ~t.applied => BranchRow(t) \in Conflicts
    BY <1>1 DEF CloudInv, TypeOK, DecisionStands, BranchRow, Conflicts
  <2> QED
    BY <2>1, <2>2 DEF CloudInv, TypeOK, Commit
<1>6. IsFiniteSet(versions')
  BY FS_AddElement DEF CloudInv, RotationPossible, Commit
<1> QED
  BY <1>2, <1>3, <1>4, <1>5, <1>6
     DEF CloudInv, TypeOK, RotationPossible, Commit

\* The row lock: no other transaction was deciding about the same record, so
\* what the others found still stands.
LEMMA CommitKeepsDecisions ==
  ASSUME CloudInv, NEW t \in open, Commit(t)
  PROVE  LocksHeld' /\ DecisionStands'
<1>1. \A u \in open' : u \in open /\ u.req.rec # t.req.rec
  BY DEF CloudInv, LocksHeld, Commit
<1>2. \A u \in open' : heads'[u.req.rec] = heads[u.req.rec]
  BY <1>1 DEF CloudInv, TypeOK, Transactions, Requests, Commit
<1>3. \A u \in open' : FreshVersion(u.req) => FreshVersion(u.req)'
  BY <1>1 DEF Commit, FreshVersion, VersionOf
<1>4. \A u \in open' : \A e \in events' :
        e.req.rec = u.req.rec => e \in events
  BY <1>1 DEF Commit
<1>5. LocksHeld'
  BY <1>1 DEF CloudInv, LocksHeld
<1>6. DecisionStands'
  BY <1>1, <1>2, <1>3, <1>4
     DEF CloudInv, DecisionStands, FollowsHead, Commit
<1> QED
  BY <1>5, <1>6

\* What an accepted transaction found: either its record had no line, or its
\* base is the head and nobody else has built on it.
LEMMA AcceptedFollows ==
  ASSUME CloudInv, NEW t \in open, t.applied
  PROVE  \/ /\ heads[t.req.rec].vid = Null /\ t.req.base = Null
            /\ Applied(t.req.rec) = {}
         \/ /\ heads[t.req.rec].vid # Null /\ t.req.base = heads[t.req.rec].vid
            /\ t.req.ver = heads[t.req.rec].ver + 1
            /\ \E f \in Applied(t.req.rec) :
                 /\ f.req.vid = t.req.base /\ f.req.ver + 1 = t.req.ver
                 /\ f.cursor < t.cursor
            /\ \A f \in Applied(t.req.rec) : f.req.base # t.req.base
<1>1. t.req.rec \in Records /\ FollowsHead(t.req)
  BY DEF CloudInv, TypeOK, Transactions, Requests, DecisionStands
<1>2. CASE heads[t.req.rec].vid = Null
  <2>1. Applied(t.req.rec) = {}
    BY <1>1, <1>2 DEF CloudInv, LinearHistory
  <2>2. t.req.base = Null
    BY <1>1, <1>2 DEF FollowsHead
  <2> QED
    BY <1>2, <2>1, <2>2
<1>3. CASE heads[t.req.rec].vid # Null
  <2>1. t.req.base = heads[t.req.rec].vid /\ t.req.ver = heads[t.req.rec].ver + 1
    BY <1>1, <1>3 DEF FollowsHead
  <2>2. \A f \in Applied(t.req.rec) : f.cursor < t.cursor
    BY DEF CloudInv, DecisionStands, Applied
  <2>3. /\ \E f \in Applied(t.req.rec) :
             f.req.vid = heads[t.req.rec].vid /\ f.req.ver = heads[t.req.rec].ver
        /\ \A f \in Applied(t.req.rec) : f.req.base # heads[t.req.rec].vid
    BY <1>1, <1>3 DEF CloudInv, HeadOnLine
  <2> QED
    BY <1>3, <2>1, <2>2, <2>3
<1> QED
  BY <1>2, <1>3

\* The version of an open transaction is not on the line, nor the base of
\* anything on it.
LEMMA VersionIsNew ==
  ASSUME CloudInv, NEW t \in open, NEW e \in Applied(t.req.rec)
  PROVE  e.req.vid # t.req.vid /\ e.req.base # t.req.vid
<1>1. t.req.vid \in VersionIds /\ t.req.rec \in Records
  BY DEF CloudInv, TypeOK, Transactions, Requests
<1>2. \A f \in Applied(t.req.rec) : f.req.vid # t.req.vid
  BY DEF CloudInv, DecisionStands, FreshVersion, BranchesKept, Applied
<1>3. e.req.base = Null \/ \E f \in Applied(t.req.rec) : f.req.vid = e.req.base
  BY <1>1 DEF CloudInv, LinearHistory
<1> QED
  BY <1>1, <1>2, <1>3, NullAssumption

\* An accepted commit makes its version the head and the end of the line.
LEMMA CommitKeepsLine ==
  ASSUME CloudInv, NEW t \in open, Commit(t)
  PROVE  LinearHistory' /\ HeadOnLine'
<1> DEFINE q == t.req
           new == EventOf(t)
<1>1. /\ t \in Transactions /\ q \in Requests /\ q.rec \in Records
      /\ q.vid \in VersionIds /\ q.ver \in Nat /\ t.cursor \in Nat
      /\ new.req = q /\ new.cursor = t.cursor
  BY DEF CloudInv, TypeOK, Transactions, Requests, EventOf
<1>2. \A e \in events' : e.cursor <= nextCursor'
  BY DEF CloudInv, HeadOnLine, DecisionStands, Commit
<1>3. ASSUME NEW r \in Records, ~(t.applied /\ q.rec = r)
      PROVE  Applied(r)' = Applied(r) /\ heads'[r] = heads[r]
  <2>1. Applied(r)' = Applied(r)
    BY <1>3, CommitExtendsLine DEF CloudInv
  <2>2. heads'[r] = heads[r]
    BY <1>1, <1>3 DEF CloudInv, TypeOK, Commit
  <2> QED
    BY <2>1, <2>2
<1>4. CASE t.applied
  <2>1. /\ Applied(q.rec)' = Applied(q.rec) \cup {new}
        /\ heads'[q.rec] = [vid |-> q.vid, ver |-> q.ver]
    <3>1. Applied(q.rec)' = Applied(q.rec) \cup {new}
      BY <1>1, <1>4, CommitExtendsLine DEF CloudInv
    <3>2. heads'[q.rec] = [vid |-> q.vid, ver |-> q.ver]
      BY <1>1, <1>4 DEF CloudInv, TypeOK, Commit
    <3> QED
      BY <3>1, <3>2
  <2>2. q.vid # Null /\ heads'[q.rec].vid # Null
    BY <1>1, <2>1, NullAssumption
  <2>3. \A e \in Applied(q.rec) : e.req.vid # q.vid /\ e.req.base # q.vid
    BY VersionIsNew
  <2>4. q.base # q.vid
    BY <1>4, <2>2, <2>3, AcceptedFollows
  <2>5. \A e \in Applied(q.rec) : e.req.base # q.base
    BY <1>4, AcceptedFollows
  <2>6. \/ q.base = Null
        \/ \E f \in Applied(q.rec) : /\ f.req.vid = q.base
             /\ f.req.ver + 1 = q.ver /\ f.cursor < t.cursor
    BY <1>4, AcceptedFollows
  <2>7. \A e \in Applied(q.rec) :
          \/ q.base = e.req.vid
          \/ \E f \in Applied(q.rec) : f.req.base = e.req.vid
    BY <1>1, <1>4, AcceptedFollows DEF CloudInv, LinearHistory
  <2>8. \A e \in Applied(q.rec) :
          /\ \/ e.req.base = Null
             \/ \E f \in Applied(q.rec) :
                  /\ f.req.vid = e.req.base
                  /\ f.req.ver + 1 = e.req.ver
                  /\ f.cursor < e.cursor
          /\ \A f \in Applied(q.rec) : f.req.base = e.req.base => f = e
    BY <1>1 DEF CloudInv, LinearHistory
  <2>9. LinearHistory'
    BY <1>1, <1>3, <2>1, <2>2, <2>5, <2>6, <2>7, <2>8
       DEF CloudInv, LinearHistory
  <2>10. HeadOnLine'
    BY <1>1, <1>2, <1>3, <2>1, <2>2, <2>3, <2>4 DEF CloudInv, HeadOnLine
  <2> QED
    BY <2>9, <2>10
<1>5. CASE ~t.applied
  BY <1>2, <1>3, <1>5 DEF CloudInv, LinearHistory, HeadOnLine
<1> QED
  BY <1>4, <1>5

\* A commit never takes the head of a record back.
LEMMA HeadAdvances ==
  ASSUME CloudInv, NEW t \in open, Commit(t), NEW r \in Records,
         NEW e \in Applied(r), e.req.ver <= heads[r].ver
  PROVE  e.req.ver <= heads'[r].ver
<1>1. /\ t.req.rec \in Records /\ t.req.ver \in Nat /\ e.req.ver \in Nat
      /\ heads[r].ver \in Nat
  BY DEF CloudInv, TypeOK, Transactions, Requests, Applied
<1>2. CASE t.applied /\ t.req.rec = r
  <2>1. t.req.ver = heads[r].ver + 1
    BY <1>2, AcceptedFollows
  <2>2. heads'[r].ver = t.req.ver
    BY <1>1, <1>2 DEF CloudInv, TypeOK, Commit
  <2> QED
    BY <1>1, <2>1, <2>2
<1>3. CASE ~(t.applied /\ t.req.rec = r)
  BY <1>1, <1>3 DEF CloudInv, TypeOK, Commit
<1> QED
  BY <1>2, <1>3

\* A branch is held against the head it found, and what a resolution settles
\* is settled with the version it makes the head.
LEMMA CommitKeepsConflicts ==
  ASSUME CloudInv, NEW t \in open, Commit(t)
  PROVE  /\ BranchesKept' /\ BranchesStored'
         /\ ConflictsBehindHead' /\ ResolutionFollowsHead'
<1> DEFINE q == t.req
           new == EventOf(t)
<1>1. /\ t \in Transactions /\ q \in Requests /\ q.rec \in Records
      /\ q.vid \in VersionIds /\ q.ver \in Nat
      /\ new.req = q /\ new.cursor = t.cursor /\ new.applied = t.applied
  BY DEF CloudInv, TypeOK, Transactions, Requests, EventOf
<1>2. \A r \in Records : Applied(r) \subseteq Applied(r)'
  BY CommitExtendsLine DEF CloudInv
<1>3. \A e \in events' : e \in events \/ e = new
  BY DEF Commit, EventOf
<1>4. \A c \in conflicts : \E d \in conflicts' :
        d.rec = c.rec /\ d.incoming = c.incoming /\ d.head = c.head
  <2>1. ASSUME NEW c \in conflicts
        PROVE  c \in conflicts' \/ Settled(c, t) \in conflicts'
    BY DEF Commit
  <2>2. \A c \in conflicts : /\ Settled(c, t).rec = c.rec
                             /\ Settled(c, t).head = c.head
                             /\ Settled(c, t).incoming = c.incoming
    BY DEF CloudInv, TypeOK, Conflicts, Settled
  <2> QED
    BY <2>1, <2>2
<1>5. ~t.applied => BranchRow(t) \in conflicts'
  BY DEF Commit
<1>6. ~t.applied => \E f \in Applied(q.rec) :
        /\ f.req.vid = heads[q.rec].vid /\ f.req.ver = heads[q.rec].ver
        /\ f.cursor < t.cursor
  BY <1>1 DEF CloudInv, DecisionStands, HeadOnLine, Applied
<1>7. BranchesKept'
  <2>1. ASSUME NEW e \in events'
        PROVE  \E v \in versions' : v.rec = e.req.rec /\ v.vid = e.req.vid
    <3>1. VersionOf(t) \in versions' /\ versions \subseteq versions'
      BY DEF Commit
    <3>2. VersionOf(t).rec = q.rec /\ VersionOf(t).vid = q.vid
      BY DEF VersionOf
    <3>3. CASE e \in events
      BY <3>1, <3>3 DEF CloudInv, BranchesKept
    <3>4. CASE e = new
      BY <1>1, <3>1, <3>2, <3>4
    <3> QED
      BY <1>3, <3>3, <3>4
  <2>2. ASSUME NEW e \in events, ~e.applied
        PROVE  \E c \in conflicts', f \in Applied(e.req.rec)' :
                 /\ c.rec = e.req.rec /\ c.incoming = e.req.vid
                 /\ c.head = f.req.vid /\ f.cursor < e.cursor
    <3>1. PICK c \in conflicts, f \in Applied(e.req.rec) :
            /\ c.rec = e.req.rec /\ c.incoming = e.req.vid
            /\ c.head = f.req.vid /\ f.cursor < e.cursor
      BY <2>2 DEF CloudInv, BranchesKept
    <3>2. f \in Applied(e.req.rec)'
      BY <1>2, <3>1 DEF CloudInv, TypeOK, Requests
    <3> QED
      BY <1>4, <3>1, <3>2
  <2>3. ASSUME ~t.applied
        PROVE  \E c \in conflicts', f \in Applied(q.rec)' :
                 /\ c.rec = q.rec /\ c.incoming = q.vid
                 /\ c.head = f.req.vid /\ f.cursor < t.cursor
    BY <1>1, <1>2, <1>5, <1>6, <2>3 DEF BranchRow
  <2> QED
    BY <1>1, <1>3, <2>1, <2>2, <2>3 DEF BranchesKept
<1>8. ASSUME NEW d \in conflicts'
      PROVE  \/ d = BranchRow(t) /\ ~t.applied
             \/ d \in conflicts
             \/ \E c \in conflicts :
                  /\ d = Settled(c, t) /\ c.rec = q.rec
                  /\ c.incoming = t.settles
  BY <1>8 DEF Commit
<1>9. ConflictsBehindHead'
  <2>1. ASSUME NEW c \in conflicts
        PROVE  \E e \in Applied(c.rec)' :
                 e.req.vid = c.head /\ e.req.ver <= heads'[c.rec].ver
    BY <1>2, HeadAdvances DEF CloudInv, TypeOK, Conflicts, ConflictsBehindHead
  <2>2. \A c \in conflicts : /\ Settled(c, t).rec = c.rec
                             /\ Settled(c, t).head = c.head
    BY DEF CloudInv, TypeOK, Conflicts, Settled
  <2>3. ASSUME ~t.applied
        PROVE  \E e \in Applied(q.rec)' : /\ e.req.vid = heads[q.rec].vid
                                         /\ e.req.ver <= heads'[q.rec].ver
    BY <1>1, <1>2, <1>6, <2>3 DEF CloudInv, TypeOK, Commit
  <2> QED
    BY <1>8, <2>1, <2>2, <2>3 DEF ConflictsBehindHead, BranchRow
<1>10. ResolutionFollowsHead'
  <2>1. ASSUME NEW d \in conflicts, d.resolution # Null
        PROVE  \E e, f \in Applied(d.rec)' :
                 /\ e.req.vid = d.head /\ f.req.vid = d.resolution
                 /\ e.req.ver <= f.req.ver
    BY <1>2, <2>1 DEF CloudInv, TypeOK, Conflicts, ResolutionFollowsHead
  <2>2. ASSUME NEW c \in conflicts, c.rec = q.rec, c.incoming = t.settles
        PROVE  \E e, f \in Applied(q.rec)' :
                 /\ e.req.vid = c.head /\ f.req.vid = q.vid
                 /\ e.req.ver <= f.req.ver
    <3>1. t.applied
      BY <2>2, NullAssumption
         DEF CloudInv, TypeOK, Conflicts, DecisionStands
    <3>2. PICK e \in Applied(q.rec) :
            e.req.vid = c.head /\ e.req.ver <= heads[q.rec].ver
      BY <2>2 DEF CloudInv, ConflictsBehindHead
    <3>3. new \in Applied(q.rec)' /\ heads'[q.rec].ver = q.ver
      BY <1>1, <3>1, CommitExtendsLine DEF CloudInv, TypeOK, Commit
    <3>4. e.req.ver <= q.ver
      BY <1>1, <3>2, <3>3, HeadAdvances
    <3> QED
      BY <1>1, <1>2, <3>2, <3>3, <3>4
  <2>3. \A c \in conflicts : /\ Settled(c, t).rec = c.rec
                             /\ Settled(c, t).head = c.head
                             /\ Settled(c, t).resolution = q.vid
    BY DEF CloudInv, TypeOK, Conflicts, Settled
  <2> QED
    BY <1>8, <2>1, <2>2, <2>3 DEF ResolutionFollowsHead, BranchRow
<1>11. BranchesStored'
  <2>1. \A c \in conflicts : /\ Settled(c, t).rec = c.rec
                             /\ Settled(c, t).incoming = c.incoming
    BY DEF CloudInv, TypeOK, Conflicts, Settled
  <2>2. VersionOf(t) \in versions' /\ versions \subseteq versions'
    BY DEF Commit
  <2> QED
    BY <1>8, <2>1, <2>2
       DEF CloudInv, BranchesStored, BranchRow, VersionOf
<1> QED
  BY <1>7, <1>9, <1>10, <1>11

\* A commit is a push under the key the organization has now.
LEMMA CommitKeepsKeys ==
  ASSUME CloudInv, NEW t \in open, Commit(t)
  PROVE  KeysUniform'
<1>1. ~rotation.staging /\ t.req.key = orgKey
  BY DEF CloudInv, KeysUniform
<1>2. VersionOf(t).key = orgKey
  BY <1>1 DEF VersionOf
<1> QED
  BY <1>1, <1>2 DEF CloudInv, KeysUniform, Commit

LEMMA CommitKeepsInv ==
  ASSUME CloudInv, NEW t \in open, Commit(t)
  PROVE  CloudInv'
BY CommitKeepsType, CommitKeepsKeys, CommitKeepsDecisions, CommitKeepsLine,
   CommitKeepsConflicts
   DEF CloudInv

LEMMA RollbackKeepsInv ==
  ASSUME CloudInv, NEW t \in open, Rollback(t)
  PROVE  CloudInv'
<1>1. TypeOK' /\ RotationPossible' /\ KeysUniform'
  BY DEF CloudInv, TypeOK, RotationPossible, KeysUniform, Rollback
<1>2. LocksHeld' /\ DecisionStands'
  BY DEF CloudInv, LocksHeld, DecisionStands, FollowsHead, FreshVersion,
         Rollback
<1> QED
  BY <1>1, <1>2
     DEF CloudInv, HeadOnLine, ConflictsBehindHead, BranchesStored,
         LinearHistory, BranchesKept, ResolutionFollowsHead, Applied, Rollback

-----------------------------------------------------------------------------
(* A conflict is settled with the recorded head                            *)

LEMMA SettleKeepsInv ==
  ASSUME CloudInv, NEW c \in conflicts, NEW e \in events,
         ResolveWithHead(c, e)
  PROVE  CloudInv'
<1> DEFINE d == [c EXCEPT !.resolution = e.req.vid]
<1>1. /\ c \in Conflicts /\ e.req.vid \in VersionIds /\ c.rec \in Records
      /\ d \in Conflicts /\ d.rec = c.rec /\ d.head = c.head
      /\ d.incoming = c.incoming /\ d.resolution = heads[c.rec].vid
  BY DEF CloudInv, TypeOK, Conflicts, Requests, ResolveWithHead
<1>2. conflicts' = (conflicts \ {c}) \cup {d}
  BY DEF ResolveWithHead
<1>3. UNCHANGED <<heads, versions, events, nextCursor, open, orgKey, rotation>>
  BY DEF ResolveWithHead
<1>4. TypeOK' /\ RotationPossible' /\ KeysUniform'
  BY <1>1, <1>2, <1>3 DEF CloudInv, TypeOK, RotationPossible, KeysUniform
<1>5. LocksHeld' /\ DecisionStands' /\ HeadOnLine' /\ LinearHistory'
  BY <1>3 DEF CloudInv, LocksHeld, DecisionStands, HeadOnLine, LinearHistory,
              FollowsHead, FreshVersion, Applied
<1>6. \A r : Applied(r)' = Applied(r)
  BY <1>3 DEF Applied
<1>7. ConflictsBehindHead'
  BY <1>1, <1>2, <1>3, <1>6 DEF CloudInv, ConflictsBehindHead
<1>8. BranchesKept'
  <2>1. \A x \in conflicts : \E y \in conflicts' :
          y.rec = x.rec /\ y.incoming = x.incoming /\ y.head = x.head
    BY <1>1, <1>2
  <2> QED
    BY <1>3, <1>6, <2>1 DEF CloudInv, BranchesKept
<1>9. ResolutionFollowsHead'
  <2>1. PICK g \in Applied(c.rec) :
          g.req.vid = c.head /\ g.req.ver <= heads[c.rec].ver
    BY DEF CloudInv, ConflictsBehindHead
  <2>2. PICK f \in Applied(c.rec) :
          f.req.vid = heads[c.rec].vid /\ f.req.ver = heads[c.rec].ver
    BY <1>1, NullAssumption DEF CloudInv, HeadOnLine, ResolveWithHead
  <2>3. /\ g \in Applied(d.rec) /\ g.req.vid = d.head
        /\ f \in Applied(d.rec) /\ f.req.vid = d.resolution
        /\ g.req.ver <= f.req.ver
    BY <1>1, <2>1, <2>2
  <2>4. \A x \in conflicts' : x \in conflicts \/ x = d
    BY <1>2
  <2> QED
    BY <1>6, <2>3, <2>4 DEF CloudInv, ResolutionFollowsHead
<1>10. BranchesStored'
  BY <1>1, <1>2, <1>3 DEF CloudInv, BranchesStored
<1> QED
  BY <1>4, <1>5, <1>7, <1>8, <1>9, <1>10 DEF CloudInv

-----------------------------------------------------------------------------
(* Key rotation                                                            *)

\* Nothing of a record changes while keys are being rewrapped.
LEMMA StagingKeepsInv ==
  ASSUME CloudInv,
         \/ BeginRotation
         \/ \E batch \in SUBSET versions : StageRewrap(batch)
         \/ \E complete \in BOOLEAN : SetEnvelopes(complete)
  PROVE  CloudInv'
<1>1. UNCHANGED <<heads, versions, events, conflicts, nextCursor, open, orgKey>>
  BY DEF BeginRotation, StageRewrap, SetEnvelopes
<1>2. rotation' \in [staging : BOOLEAN, expected : Nat,
                     entries : SUBSET (Records \X VersionIds),
                     envelopes : BOOLEAN]
  <2>1. CASE BeginRotation
    BY <2>1, FS_CardinalityType DEF CloudInv, RotationPossible, BeginRotation
  <2>2. ASSUME NEW batch \in SUBSET versions, StageRewrap(batch)
        PROVE  rotation' \in [staging : BOOLEAN, expected : Nat,
                              entries : SUBSET (Records \X VersionIds),
                              envelopes : BOOLEAN]
    <3>1. {Key(v) : v \in batch} \subseteq Records \X VersionIds
      BY DEF CloudInv, TypeOK, Versions, Key
    <3> QED
      BY <2>2, <3>1 DEF CloudInv, TypeOK, StageRewrap
  <2>3. ASSUME NEW complete \in BOOLEAN, SetEnvelopes(complete)
        PROVE  rotation' \in [staging : BOOLEAN, expected : Nat,
                              entries : SUBSET (Records \X VersionIds),
                              envelopes : BOOLEAN]
    BY <2>3 DEF CloudInv, TypeOK, SetEnvelopes
  <2> QED
    BY <2>1, <2>2, <2>3
<1>3. /\ open = {} /\ orgKey < MaxKey
      /\ Cardinality(versions) = rotation'.expected
  <2>1. CASE BeginRotation
    BY <2>1 DEF BeginRotation
  <2>2. CASE ~BeginRotation
    <3>1. rotation.staging /\ rotation'.expected = rotation.expected
      BY <2>2 DEF CloudInv, TypeOK, StageRewrap, SetEnvelopes
    <3> QED
      BY <3>1 DEF CloudInv, RotationPossible, KeysUniform
  <2> QED
    BY <2>1, <2>2
<1>4. TypeOK' /\ RotationPossible' /\ KeysUniform'
  BY <1>1, <1>2, <1>3 DEF CloudInv, TypeOK, RotationPossible, KeysUniform
<1> QED
  BY <1>1, <1>4
     DEF CloudInv, LocksHeld, DecisionStands, HeadOnLine, ConflictsBehindHead,
         BranchesStored, LinearHistory, BranchesKept, ResolutionFollowsHead,
         FollowsHead, FreshVersion, Applied

\* Every version is among the staged entries, so all move to the next key.
LEMMA CommitRotationKeepsInv ==
  ASSUME CloudInv, CommitRotation
  PROVE  CloudInv'
<1>1. /\ open = {} /\ rotation' = NoRotation /\ orgKey' = orgKey + 1
      /\ UNCHANGED <<heads, events, conflicts, nextCursor, open>>
  BY DEF CommitRotation
<1>2. orgKey \in 1..MaxKey /\ orgKey + 1 \in 1..MaxKey
  BY BoundsAssumption DEF CloudInv, TypeOK, RotationPossible, CommitRotation
<1>3. versions' = {Rewrapped(v) : v \in versions}
  <2>1. \A v \in versions : Key(v) \in rotation.entries
    BY DEF CloudInv, KeysUniform, CommitRotation
  <2> QED
    BY <2>1 DEF CommitRotation
<1>4. \A v \in versions :
        /\ Rewrapped(v) \in Versions /\ Rewrapped(v).key = orgKey + 1
        /\ Rewrapped(v).rec = v.rec /\ Rewrapped(v).vid = v.vid
  BY <1>2 DEF CloudInv, TypeOK, Versions, Rewrapped
<1>5. IsFiniteSet(versions')
  <2>1. IsFiniteSet(versions)
    BY DEF CloudInv, RotationPossible
  <2> DEFINE f == [v \in versions |-> Rewrapped(v)]
  <2>2. f \in Surjection(versions, versions')
    BY <1>3 DEF Surjection
  <2> HIDE DEF f
  <2> QED
    BY <2>1, <2>2, FS_Surjection
<1>6. TypeOK' /\ RotationPossible' /\ KeysUniform'
  BY <1>1, <1>2, <1>3, <1>4, <1>5
     DEF CloudInv, TypeOK, RotationPossible, KeysUniform, NoRotation
<1>7. BranchesKept' /\ BranchesStored'
  <2>1. \A v \in versions : \E w \in versions' :
          w.rec = v.rec /\ w.vid = v.vid
    BY <1>3, <1>4
  <2> QED
    BY <1>1, <2>1 DEF CloudInv, BranchesKept, BranchesStored, Applied
<1> QED
  BY <1>1, <1>6, <1>7
     DEF CloudInv, LocksHeld, DecisionStands, HeadOnLine, ConflictsBehindHead,
         LinearHistory, ResolutionFollowsHead, Applied

-----------------------------------------------------------------------------

LEMMA InitInv == Init => CloudInv
<1> SUFFICES ASSUME Init PROVE CloudInv
  OBVIOUS
<1>1. TypeOK
  BY BoundsAssumption DEF Init, TypeOK, NoRotation
<1>2. RotationPossible
  BY FS_EmptySet DEF Init, RotationPossible, NoRotation
<1> QED
  BY <1>1, <1>2
     DEF Init, CloudInv, NoRotation, KeysUniform, LocksHeld, DecisionStands,
         HeadOnLine, ConflictsBehindHead, BranchesStored, LinearHistory,
         BranchesKept, ResolutionFollowsHead, Applied

LEMMA NextInv == CloudInv /\ [Next]_vars => CloudInv'
<1> SUFFICES ASSUME CloudInv, [Next]_vars PROVE CloudInv'
  OBVIOUS
<1>1. ASSUME NEW q \in Requests, Push(q) PROVE CloudInv'
  BY <1>1, OpenKeepsInv DEF Push
<1>2. ASSUME NEW q \in Requests, NEW c \in conflicts, Resolve(c, q)
      PROVE  CloudInv'
  <2>1. c.incoming \in VersionIds
    BY DEF CloudInv, TypeOK, Conflicts
  <2> QED
    BY <1>2, <2>1, OpenKeepsInv DEF Resolve
<1>3. ASSUME NEW t \in open, Commit(t) PROVE CloudInv'
  BY <1>3, CommitKeepsInv
<1>4. ASSUME NEW t \in open, Rollback(t) PROVE CloudInv'
  BY <1>4, RollbackKeepsInv
<1>5. ASSUME NEW c \in conflicts, NEW e \in events, ResolveWithHead(c, e)
      PROVE  CloudInv'
  BY <1>5, SettleKeepsInv
<1>6. CASE \/ BeginRotation
           \/ \E batch \in SUBSET versions : StageRewrap(batch)
           \/ \E complete \in BOOLEAN : SetEnvelopes(complete)
  BY <1>6, StagingKeepsInv
<1>7. CASE CommitRotation
  BY <1>7, CommitRotationKeepsInv
<1>8. CASE UNCHANGED vars
  <2>1. TypeOK' /\ RotationPossible' /\ KeysUniform'
    BY <1>8 DEF vars, CloudInv, TypeOK, RotationPossible, KeysUniform
  <2> QED
    BY <1>8, <2>1
       DEF vars, CloudInv, LocksHeld, DecisionStands, HeadOnLine,
           ConflictsBehindHead, BranchesStored, LinearHistory, BranchesKept,
           ResolutionFollowsHead, FollowsHead, FreshVersion, Applied
<1> QED
  BY <1>1, <1>2, <1>3, <1>4, <1>5, <1>6, <1>7, <1>8 DEF Next

\* The inductive invariant holds in every state of the cloud.
THEOREM Invariance == Spec => []CloudInv
BY InitInv, NextInv, PTL DEF Spec

\* The rows of the cloud's tables keep their types; in particular a conflict
\* row always names a head (push_record_event inserts it only beside one).
THEOREM TypeCorrect == Spec => []TypeOK
BY Invariance, PTL DEF CloudInv

\* However pushes and resolutions of a record race, its accepted versions
\* form one line that ends at its head (push_record_event's row lock).
THEOREM LineIsLinear == Spec => []LinearHistory
BY Invariance, PTL DEF CloudInv

\* No version the cloud has answered for is dropped: one that lost the race
\* for the head has a conflict row against the head that beat it.
THEOREM NothingDropped == Spec => []BranchesKept
BY Invariance, PTL DEF CloudInv

\* Settling a conflict never takes readers of the record back.
THEOREM ResolutionMovesOn == Spec => []ResolutionFollowsHead
BY Invariance, PTL DEF CloudInv

\* A key rotation rewraps every version, whatever pushes it races with.
THEOREM RotationComplete == Spec => []KeysUniform
BY Invariance, PTL DEF CloudInv

-----------------------------------------------------------------------------
(* Refinement of RecordHistory                                             *)

\* The abstract variables, as SyncCloud's instance of RecordHistory has them.
Tip == [r \in Records |-> heads[r].vid]
Line == [r \in Records |-> {e.req.vid : e \in Applied(r)}]
Branches == [r \in Records |->
               {c.incoming : c \in {d \in conflicts : d.rec = r}}]
Closed == [r \in Records |->
             {c.incoming : c \in {d \in conflicts :
                d.rec = r /\ d.resolution # Null}}]

\* Everything known of a record is a stored version of it, so the version of
\* an open transaction is neither on the line nor beside it.
LEMMA VersionIsUnknown ==
  ASSUME CloudInv, NEW t \in open
  PROVE  t.req.vid \notin Line[t.req.rec] \cup Branches[t.req.rec]
<1>1. t.req.rec \in Records /\ FreshVersion(t.req)
  BY DEF CloudInv, TypeOK, Transactions, Requests, DecisionStands
<1>2. t.req.vid \notin Line[t.req.rec]
  BY <1>1, VersionIsNew DEF Line
<1>3. t.req.vid \notin Branches[t.req.rec]
  BY <1>1 DEF CloudInv, BranchesStored, FreshVersion, Branches
<1> QED
  BY <1>2, <1>3

\* An accepted commit extends the line; it closes a branch if it resolves one
\* that is still open.
LEMMA AcceptedRefines ==
  ASSUME CloudInv, NEW t \in open, Commit(t), t.applied
  PROVE  History!Next
<1> DEFINE r == t.req.rec
           v == t.req.vid
           b == t.settles
<1>1. r \in Records /\ v \in VersionIds /\ b \in VersionIds \cup {Null}
  BY DEF CloudInv, TypeOK, Transactions, Requests
<1>2. v \notin Line[r] \cup Branches[r]
  BY VersionIsUnknown
<1>3. Tip' = [Tip EXCEPT ![r] = v]
  BY <1>1 DEF CloudInv, TypeOK, Commit, Tip
<1>4. Line' = [Line EXCEPT ![r] = @ \cup {v}]
  <2>1. EventOf(t).req = t.req
    BY DEF EventOf
  <2>2. \A s \in Records : Line'[s] = IF s = r THEN Line[s] \cup {v} ELSE Line[s]
    BY <2>1, CommitExtendsLine DEF CloudInv, Line
  <2> QED
    BY <1>1, <2>2 DEF Line
<1>5. conflicts' = {IF c.rec = r /\ c.incoming = b THEN Settled(c, t) ELSE c :
                      c \in conflicts}
  BY DEF Commit
<1>6. \A c \in conflicts :
        /\ Settled(c, t).rec = c.rec /\ Settled(c, t).incoming = c.incoming
        /\ Settled(c, t).resolution = v /\ v # Null
  BY <1>1, NullAssumption DEF CloudInv, TypeOK, Conflicts, Settled
<1>7. Branches' = Branches
  <2>1. \A s \in Records : Branches'[s] = Branches[s]
    BY <1>5, <1>6 DEF Branches
  <2> QED
    BY <2>1 DEF Branches
<1>8. \A s \in Records : Closed'[s] =
        IF s = r /\ b \in Branches[r] THEN Closed[s] \cup {b} ELSE Closed[s]
  BY <1>1, <1>5, <1>6 DEF Closed, Branches
<1>9. CASE b \in Branches[r] \ Closed[r]
  <2>1. Closed' = [Closed EXCEPT ![r] = @ \cup {b}]
    BY <1>1, <1>8, <1>9 DEF Closed
  <2>2. b \in VersionIds
    BY <1>1, <1>9 DEF CloudInv, TypeOK, Conflicts, Branches
  <2>3. History!Settle(r, b, v)
    BY <1>2, <1>3, <1>4, <1>7, <1>9, <2>1
       DEF History!Settle, History!Known, Tip, Line, Branches, Closed
  <2> QED
    BY <1>1, <2>2, <2>3 DEF History!Next
<1>10. CASE b \notin Branches[r] \ Closed[r]
  <2>1. Closed' = Closed
    BY <1>8, <1>10 DEF Closed
  <2>2. History!Extend(r, v)
    BY <1>2, <1>3, <1>4, <1>7, <2>1
       DEF History!Extend, History!Known, Tip, Line, Branches, Closed
  <2> QED
    BY <1>1, <2>2 DEF History!Next
<1> QED
  BY <1>9, <1>10

\* A commit that is not accepted adds a branch beside the line.
LEMMA BranchRefines ==
  ASSUME CloudInv, NEW t \in open, Commit(t), ~t.applied
  PROVE  History!Next
<1> DEFINE r == t.req.rec
           v == t.req.vid
<1>1. r \in Records /\ v \in VersionIds /\ heads[r].vid # Null
  BY DEF CloudInv, TypeOK, Transactions, Requests, DecisionStands
<1>2. v \notin Line[r] \cup Branches[r]
  BY VersionIsUnknown
<1>3. Tip' = Tip /\ Line' = Line
  <2>1. heads' = heads
    BY DEF Commit
  <2>2. \A s \in Records : Line'[s] = Line[s]
    BY CommitExtendsLine DEF CloudInv, Line
  <2> QED
    BY <2>1, <2>2 DEF Tip, Line
<1>4. conflicts' = conflicts \cup {BranchRow(t)}
  <2>1. t.settles = Null
    BY DEF CloudInv, DecisionStands
  <2>2. \A c \in conflicts : c.incoming # t.settles
    BY <2>1, NullAssumption DEF CloudInv, TypeOK, Conflicts
  <2> QED
    BY <2>2 DEF Commit
<1>5. /\ BranchRow(t).rec = r /\ BranchRow(t).incoming = v
      /\ BranchRow(t).resolution = Null
  BY DEF BranchRow
<1>6. Branches' = [Branches EXCEPT ![r] = @ \cup {v}]
  <2>1. \A s \in Records :
          Branches'[s] = IF s = r THEN Branches[s] \cup {v} ELSE Branches[s]
    BY <1>4, <1>5 DEF Branches
  <2> QED
    BY <1>1, <2>1 DEF Branches
<1>7. Closed' = Closed
  <2>1. \A s \in Records : Closed'[s] = Closed[s]
    BY <1>4, <1>5 DEF Closed
  <2> QED
    BY <2>1 DEF Closed
<1>8. History!Fork(r, v)
  BY <1>1, <1>2, <1>3, <1>6, <1>7
     DEF History!Fork, History!Known, Tip, Line, Branches, Closed
<1> QED
  BY <1>1, <1>8 DEF History!Next

\* Settling a conflict with the recorded head closes its branch and moves
\* nothing.
LEMMA SettleRefines ==
  ASSUME CloudInv, NEW c \in conflicts, NEW e \in events,
         ResolveWithHead(c, e)
  PROVE  History!Next \/ UNCHANGED <<Tip, Line, Branches, Closed>>
<1> DEFINE d == [c EXCEPT !.resolution = e.req.vid]
           b == c.incoming
<1>1. /\ c.rec \in Records /\ b \in VersionIds
      /\ heads[c.rec].vid = e.req.vid /\ e.req.vid \in VersionIds
      /\ d.rec = c.rec /\ d.incoming = b /\ d.resolution # Null
  BY NullAssumption DEF CloudInv, TypeOK, Conflicts, Requests, ResolveWithHead
<1>2. conflicts' = (conflicts \ {c}) \cup {d} /\ c.resolution = Null
  BY DEF ResolveWithHead
<1>3. Tip' = Tip /\ Line' = Line
  BY DEF ResolveWithHead, Tip, Line, Applied
<1>4. Branches' = Branches /\ b \in Branches[c.rec]
  <2>1. /\ \A x \in conflicts : \E y \in conflicts' :
             y.rec = x.rec /\ y.incoming = x.incoming
        /\ \A y \in conflicts' : \E x \in conflicts :
             y.rec = x.rec /\ y.incoming = x.incoming
    BY <1>1, <1>2
  <2>2. \A s \in Records : Branches'[s] = Branches[s]
    BY <2>1 DEF Branches
  <2> QED
    BY <1>1, <2>2 DEF Branches
<1>5. Closed' = [Closed EXCEPT ![c.rec] = @ \cup {b}]
  <2>1. \A s \in Records :
          Closed'[s] = IF s = c.rec THEN Closed[s] \cup {b} ELSE Closed[s]
    BY <1>1, <1>2 DEF Closed
  <2> QED
    BY <1>1, <2>1 DEF Closed
<1>6. CASE b \in Closed[c.rec]
  <2>1. Closed' = Closed
    BY <1>5, <1>6 DEF Closed
  <2> QED
    BY <1>3, <1>4, <2>1
<1>7. CASE b \notin Closed[c.rec]
  <2>1. Tip[c.rec] = e.req.vid
    BY <1>1 DEF Tip
  <2>2. History!Settle(c.rec, b, e.req.vid)
    BY <1>3, <1>4, <1>5, <1>7, <2>1
       DEF History!Settle, Tip, Line, Branches, Closed
  <2> QED
    BY <1>1, <2>2 DEF History!Next
<1> QED
  BY <1>6, <1>7

\* Every other step leaves the abstract variables alone.
LEMMA StutterRefines ==
  ASSUME UNCHANGED <<heads, events, conflicts>>
  PROVE  UNCHANGED <<Tip, Line, Branches, Closed>>
BY DEF Tip, Line, Branches, Closed, Applied

LEMMA StepRefines == CloudInv /\ [Next]_vars => [History!Next]_(History!vars)
<1> SUFFICES ASSUME CloudInv, [Next]_vars
             PROVE  History!Next \/ UNCHANGED <<Tip, Line, Branches, Closed>>
  BY DEF History!vars, Tip, Line, Branches, Closed
<1>1. ASSUME NEW t \in open, Commit(t) PROVE History!Next
  BY <1>1, AcceptedRefines, BranchRefines
<1>2. ASSUME NEW c \in conflicts, NEW e \in events, ResolveWithHead(c, e)
      PROVE  History!Next \/ UNCHANGED <<Tip, Line, Branches, Closed>>
  BY <1>2, SettleRefines
<1>3. CASE \/ \E q \in Requests : Push(q)
           \/ \E q \in Requests, c \in conflicts : Resolve(c, q)
           \/ \E t \in open : Rollback(t)
           \/ BeginRotation
           \/ \E batch \in SUBSET versions : StageRewrap(batch)
           \/ \E complete \in BOOLEAN : SetEnvelopes(complete)
           \/ CommitRotation
           \/ UNCHANGED vars
  <2>1. UNCHANGED <<heads, events, conflicts>>
    BY <1>3 DEF Push, Resolve, Rollback, BeginRotation, StageRewrap,
                SetEnvelopes, CommitRotation, vars
  <2> QED
    BY <2>1, StutterRefines
<1> QED
  BY <1>1, <1>2, <1>3 DEF Next

LEMMA InitRefines == Init => History!Init
BY DEF Init, History!Init, Applied

\* The cloud keeps what it promises of a record: one line of versions with a
\* tip, branches beside it, and nothing that was handed over disappears.
THEOREM Refinement == Spec => KeepsHistory
<1>1. Init => History!Init
  BY InitRefines
<1>2. CloudInv /\ [Next]_vars => [History!Next]_(History!vars)
  BY StepRefines
<1> QED
  BY <1>1, <1>2, Invariance, PTL DEF Spec, KeepsHistory, History!Spec

=============================================================================
