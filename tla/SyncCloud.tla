----------------------------- MODULE SyncCloud -----------------------------
(***************************************************************************)
(* The cloud side of the V9 encrypted synchronisation: the tables          *)
(* record_heads, record_versions, sync_events and conflicts of one         *)
(* organization, with the functions push_record_event, resolve_conflict,   *)
(* begin_key_rotation, stage_rewrap_batch and commit_key_rotation.         *)
(*                                                                         *)
(* A push is a PostgreSQL transaction.  It holds the row lock of its       *)
(* record and the advisory lock of its event id from its first read to its *)
(* commit, so transactions on one record or one event id are serial; but   *)
(* the identity column hands it a cursor, which nothing takes back, before *)
(* it waits for the quota rows, so transactions on different records may   *)
(* commit in another order than their cursors.  Hence two steps: a         *)
(* transaction is opened with its cursor, and later committed or rolled    *)
(* back.                                                                   *)
(*                                                                         *)
(* Ciphertext and its hash are abstracted by the version identifier, which *)
(* clients draw afresh for every body.  Callers are authorised members: a  *)
(* refused caller changes nothing.                                         *)
(***************************************************************************)
EXTENDS Integers, FiniteSets

CONSTANTS Records,      \* record identifiers
          VersionIds,   \* version identifiers
          EventIds,     \* event identifiers
          Null,         \* SQL null
          MaxVersion,   \* bound on logical versions
          MaxCursor,    \* bound on the cursors handed out
          MaxKey        \* bound on the organization's key version

ASSUME NullAssumption == Null \notin VersionIds

ASSUME BoundsAssumption ==
  MaxVersion \in Nat /\ MaxCursor \in Nat /\ MaxKey \in Nat \ {0}

\* "write" stands for upsert and delete, which the cloud treats alike.
Operations == {"write", "snapshot"}

\* A request that passed validate_sync_ciphertext_event and the field checks.
Requests ==
  [id   : EventIds,
   rec  : Records,
   op   : Operations,
   ver  : 1..MaxVersion,
   vid  : VersionIds,
   base : VersionIds \cup {Null},
   key  : 1..MaxKey]

Versions == [rec : Records, vid : VersionIds, base : VersionIds \cup {Null},
             ver : 1..MaxVersion, key : 1..MaxKey]

\* A conflict is open while its resolution is Null.
Conflicts == [rec : Records, incoming : VersionIds, head : VersionIds,
              resolution : VersionIds \cup {Null}]

\* An open transaction; settles is the branch of the conflict it resolves.
Transactions == [req : Requests, cursor : Nat, applied : BOOLEAN,
                 settles : VersionIds \cup {Null}]

VARIABLES heads,       \* record_heads: the head version and its number
          versions,    \* record_versions
          events,      \* sync_events
          conflicts,   \* conflicts
          nextCursor,  \* last value of the identity column of sync_events
          open,        \* push and resolve transactions that are not finished
          orgKey,      \* organizations.key_version
          rotation     \* the staging row of key_rotations and its entries

vars == <<heads, versions, events, conflicts, nextCursor, open, orgKey,
          rotation>>

NoRotation == [staging |-> FALSE, expected |-> 0, entries |-> {},
               envelopes |-> FALSE]

TypeOK ==
  /\ heads \in [Records -> [vid : VersionIds \cup {Null}, ver : Nat]]
  /\ versions \subseteq Versions
  /\ events \subseteq [req : Requests, applied : BOOLEAN, cursor : Nat]
  /\ conflicts \subseteq Conflicts
  /\ nextCursor \in Nat
  /\ open \subseteq Transactions
  /\ orgKey \in 1..MaxKey
  /\ rotation \in [staging : BOOLEAN, expected : Nat,
                   entries : SUBSET (Records \X VersionIds),
                   envelopes : BOOLEAN]

Init ==
  /\ heads = [r \in Records |-> [vid |-> Null, ver |-> 0]]
  /\ versions = {}
  /\ events = {}
  /\ conflicts = {}
  /\ nextCursor = 0
  /\ open = {}
  /\ orgKey = 1
  /\ rotation = NoRotation

-----------------------------------------------------------------------------
(* push_record_event                                                       *)

\* Mutation of LocksFree: only the event id is locked.
LocksEventOnly(q) == \A t \in open : t.req.id # q.id

\* The record's row lock and the event's advisory lock are free.
LocksFree(q) == \A t \in open : t.req.rec # q.rec /\ t.req.id # q.id

Recorded(id) == \E e \in events : e.req.id = id

\* Mutation of KeyCurrent: a staging rotation does not stop pushes.
KeyMatches(q) == q.key = orgKey

\* The organization accepts ciphertext of this key version now.
KeyCurrent(q) == ~rotation.staging /\ q.key = orgKey

\* A record the cloud does not have starts at version 1, or at the version
\* it had on the device that imports it.
StartsRecord(q) ==
  /\ heads[q.rec].vid = Null
  /\ q.base = Null
  /\ q.op # "snapshot" => q.ver = 1

\* A record the cloud has is continued from a version of it.
ContinuesRecord(q) ==
  /\ heads[q.rec].vid # Null
  /\ q.op # "snapshot"
  /\ \E v \in versions :
       v.rec = q.rec /\ v.vid = q.base /\ v.ver + 1 = q.ver

\* Mutation of FreshVersion: the identifier is compared with the head only.
FreshForHead(q) == heads[q.rec].vid # q.vid

\* The primary key of record_versions.
FreshVersion(q) == ~\E v \in versions : v.rec = q.rec /\ v.vid = q.vid

Admissible(q) ==
  /\ KeyCurrent(q)
  /\ StartsRecord(q) \/ ContinuesRecord(q)
  /\ FreshVersion(q)

\* Mutation of FollowsHead: the head is compared by its number alone.
FollowsHeadNumber(q) ==
  \/ heads[q.rec].vid = Null /\ q.base = Null
  \/ heads[q.rec].vid # Null /\ q.ver = heads[q.rec].ver + 1

\* Whether the version becomes the head or a branch beside it.
FollowsHead(q) ==
  \/ heads[q.rec].vid = Null /\ q.base = Null
  \/ heads[q.rec].vid = q.base /\ q.ver = heads[q.rec].ver + 1

\* The transaction has passed every check and drawn its cursor.
OpenTransaction(q, branch) ==
  /\ nextCursor < MaxCursor
  /\ nextCursor' = nextCursor + 1
  /\ open' = open \cup {[req |-> q, cursor |-> nextCursor + 1,
                         applied |-> FollowsHead(q), settles |-> branch]}

\* A push of an event the log does not have.  A push of a recorded event
\* answers with the recorded outcome and changes nothing.
Push(q) ==
  /\ LocksFree(q)
  /\ ~Recorded(q.id)
  /\ Admissible(q)
  /\ OpenTransaction(q, Null)
  /\ UNCHANGED <<heads, versions, events, conflicts, orgKey, rotation>>

VersionOf(t) == [rec |-> t.req.rec, vid |-> t.req.vid, base |-> t.req.base,
                 ver |-> t.req.ver, key |-> t.req.key]

\* Mutation of BranchRow: the branch is held against its own base.
BranchAgainstBase(t) == [rec |-> t.req.rec, incoming |-> t.req.vid,
                         head |-> t.req.base, resolution |-> Null]

\* The conflict row of a version that does not follow the head.
BranchRow(t) == [rec |-> t.req.rec, incoming |-> t.req.vid,
                 head |-> heads[t.req.rec].vid, resolution |-> Null]

Settled(c, t) == [c EXCEPT !.resolution = t.req.vid]

\* The rows become visible together.
Commit(t) ==
  /\ open' = open \ {t}
  /\ versions' = versions \cup {VersionOf(t)}
  /\ events' = events \cup {[req |-> t.req, applied |-> t.applied,
                             cursor |-> t.cursor]}
  /\ heads' = IF t.applied
              THEN [heads EXCEPT ![t.req.rec] =
                      [vid |-> t.req.vid, ver |-> t.req.ver]]
              ELSE heads
  /\ conflicts' =
       {IF c.rec = t.req.rec /\ c.incoming = t.settles THEN Settled(c, t)
        ELSE c : c \in conflicts}
       \cup (IF t.applied THEN {} ELSE {BranchRow(t)})
  /\ UNCHANGED <<nextCursor, orgKey, rotation>>

\* The quota trigger raises, the connection is lost, or a lock wait is
\* cancelled; the cursor stays spent.
Rollback(t) ==
  /\ open' = open \ {t}
  /\ UNCHANGED <<heads, versions, events, conflicts, nextCursor, orgKey,
                 rotation>>

-----------------------------------------------------------------------------
(* resolve_conflict                                                        *)

\* Mutation of Resolve: any admissible version settles the conflict.
ResolveAnywhere(c, q) ==
  /\ c.resolution = Null
  /\ q.rec = c.rec
  /\ LocksFree(q)
  /\ ~Recorded(q.id)
  /\ Admissible(q)
  /\ OpenTransaction(q, c.incoming)
  /\ UNCHANGED <<heads, versions, events, conflicts, orgKey, rotation>>

\* A new version that follows the head settles the conflict with it.
Resolve(c, q) ==
  /\ c.resolution = Null
  /\ q.rec = c.rec
  /\ LocksFree(q)
  /\ ~Recorded(q.id)
  /\ Admissible(q)
  /\ FollowsHead(q)
  /\ OpenTransaction(q, c.incoming)
  /\ UNCHANGED <<heads, versions, events, conflicts, orgKey, rotation>>

\* The event is already recorded as the one that put the head where it is:
\* the push answers "applied" and the conflict is settled with the head.
ResolveWithHead(c, e) ==
  /\ c.resolution = Null
  /\ e.req.rec = c.rec
  /\ LocksFree(e.req)
  /\ e.applied
  /\ e.req.vid = heads[c.rec].vid
  /\ conflicts' = (conflicts \ {c})
                    \cup {[c EXCEPT !.resolution = e.req.vid]}
  /\ UNCHANGED <<heads, versions, events, nextCursor, open, orgKey, rotation>>

-----------------------------------------------------------------------------
(* Key rotation                                                            *)

Key(v) == <<v.rec, v.vid>>

\* begin_key_rotation takes the organization row for update, which waits for
\* every open push to end.
BeginRotation ==
  /\ open = {}
  /\ orgKey < MaxKey
  /\ ~rotation.staging
  /\ \A v \in versions : v.key = orgKey
  /\ rotation' = [staging |-> TRUE, expected |-> Cardinality(versions),
                  entries |-> {}, envelopes |-> FALSE]
  /\ UNCHANGED <<heads, versions, events, conflicts, nextCursor, open, orgKey>>

\* One batch of rewrapped data keys; staging an entry again replaces it.
StageRewrap(batch) ==
  /\ rotation.staging
  /\ open = {}
  /\ \A v \in batch : v.key = orgKey
  /\ Cardinality(rotation.entries \cup {Key(v) : v \in batch})
       <= rotation.expected
  /\ rotation' = [rotation EXCEPT
       !.entries = @ \cup {Key(v) : v \in batch}]
  /\ UNCHANGED <<heads, versions, events, conflicts, nextCursor, open, orgKey>>

\* The owner has sealed the new key for the active devices and for recovery,
\* or a device has since been added that has no envelope yet.
SetEnvelopes(complete) ==
  /\ rotation.staging
  /\ rotation' = [rotation EXCEPT !.envelopes = complete]
  /\ UNCHANGED <<heads, versions, events, conflicts, nextCursor, open, orgKey>>

Rewrapped(v) == [v EXCEPT !.key = orgKey + 1]

CommitRotation ==
  /\ rotation.staging
  /\ open = {}
  /\ Cardinality({v \in versions : v.key = orgKey}) = rotation.expected
  /\ rotation.entries = {Key(v) : v \in {u \in versions : u.key = orgKey}}
  /\ rotation.envelopes
  /\ versions' = {IF Key(v) \in rotation.entries THEN Rewrapped(v) ELSE v :
                    v \in versions}
  /\ orgKey' = orgKey + 1
  /\ rotation' = NoRotation
  /\ UNCHANGED <<heads, events, conflicts, nextCursor, open>>

-----------------------------------------------------------------------------

Next ==
  \/ \E q \in Requests :
       \/ Push(q)
       \/ \E c \in conflicts : Resolve(c, q)
  \/ \E t \in open : Commit(t) \/ Rollback(t)
  \/ \E c \in conflicts, e \in events : ResolveWithHead(c, e)
  \/ BeginRotation
  \/ \E batch \in SUBSET versions : StageRewrap(batch)
  \/ \E complete \in BOOLEAN : SetEnvelopes(complete)
  \/ CommitRotation

Spec == Init /\ [][Next]_vars

-----------------------------------------------------------------------------
(* Properties                                                              *)

Applied(r) == {e \in events : e.applied /\ e.req.rec = r}

\* Concurrent pushes never split the line of a record: every accepted version
\* follows the accepted version named by its base, which was accepted at an
\* earlier cursor, no two accepted versions follow the same one, and the head
\* is the one none follows (push_record_event's lock on record_heads).
LinearHistory ==
  \A r \in Records :
    /\ heads[r].vid = Null <=> Applied(r) = {}
    /\ \A e \in Applied(r) :
         /\ \/ e.req.base = Null
            \/ \E f \in Applied(r) :
                 /\ f.req.vid = e.req.base
                 /\ f.req.ver + 1 = e.req.ver
                 /\ f.cursor < e.cursor
         /\ \A f \in Applied(r) : f.req.base = e.req.base => f = e
         /\ \/ e.req.vid = heads[r].vid /\ e.req.ver = heads[r].ver
            \/ \E f \in Applied(r) : f.req.base = e.req.vid

\* A version that lost the race for the head is never dropped: it is stored,
\* and a conflict row holds it against the head that beat it, which the log
\* shows at an earlier cursor.
BranchesKept ==
  \A e \in events :
    /\ \E v \in versions : v.rec = e.req.rec /\ v.vid = e.req.vid
    /\ e.applied \/ \E c \in conflicts, f \in Applied(e.req.rec) :
         /\ c.rec = e.req.rec /\ c.incoming = e.req.vid
         /\ c.head = f.req.vid /\ f.cursor < e.cursor

\* A conflict is only settled with a version on the record's line that is at
\* or after the head the conflict was raised against, so settling it never
\* takes readers back (resolve_conflict's head and event checks).
ResolutionFollowsHead ==
  \A c \in conflicts : c.resolution # Null =>
    \E e, f \in Applied(c.rec) :
      /\ e.req.vid = c.head /\ f.req.vid = c.resolution
      /\ e.req.ver <= f.req.ver

\* A rotation never leaves a version behind under the old key, and no push
\* slips one in while keys are being rewrapped.
KeysUniform ==
  /\ \A v \in versions : v.key = orgKey
  /\ \A t \in open : t.req.key = orgKey
  /\ rotation.staging => open = {} /\ Cardinality(versions) = rotation.expected

\* SyncCloud implements RecordHistory: accepted versions are the line of a
\* record, versions with a conflict row its branches.
History ==
  INSTANCE RecordHistory WITH
    tip      <- [r \in Records |-> heads[r].vid],
    history  <- [r \in Records |-> {e.req.vid : e \in Applied(r)}],
    branches <- [r \in Records |->
                   {c.incoming : c \in {d \in conflicts : d.rec = r}}],
    settled  <- [r \in Records |->
                   {c.incoming : c \in {d \in conflicts :
                      d.rec = r /\ d.resolution # Null}}]

KeepsHistory == History!Spec

=============================================================================
