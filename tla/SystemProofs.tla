---------------------------- MODULE SystemProofs ----------------------------
(***************************************************************************)
(* Proofs about SyncSystem, in layers.                                     *)
(*                                                                         *)
(*   BaseInv   what a thread works through exists: its queue is in its     *)
(*             device's outbox, its page in the log; with it every step of *)
(*             the system is one of SyncCloud, whose invariants follow;    *)
(*   IdInv     an identifier names one request for ever, so an answer      *)
(*             found in the log is the answer to the request that asks;    *)
(*   StoredInv what a request of a device read still holds when it writes, *)
(*             while the device serves one request at a time;              *)
(*   ShownInv  what a row shows and names, under the same hypothesis;      *)
(*   PageInv   no hole in what a device reads of the log of one record.    *)
(***************************************************************************)
EXTENDS SyncSystem, SyncCloudProofs, WellFoundedInduction

(***************************************************************************)
(* The invariants                                                          *)
(***************************************************************************)

\* What a row, a queue entry, an event of the log and a thread can be.
Entries == [req : Requests, attempts : Nat,
            state : {"pending", "retry", "manual", "sent", "conflict"}]
LogEvents == [req : Requests, applied : BOOLEAN, cursor : Nat]
Drafts == {NoDraft} \cup [rec : Records, ver : 1..MaxVersion]
Plans == [does : {"nothing", "keep", "put"}, mine : VersionIds \cup {Null}]
Stages == {"idle", "push", "await", "apply", "check", "write", "record"}
CycleStates == [pc : Stages, after : Nat, queue : SUBSET Requests,
                page : SUBSET LogEvents, plan : Plans]
Resolutions == [req : Requests, wasBlocked : BOOLEAN]
KeptBodies == [rec : Records, mine : VersionIds \cup {Null},
               remote : VersionIds]

DeviceTypes ==
  /\ lastId \in Nat
  /\ body \in [VersionIds -> VersionIds \cup {Null}]
  /\ local \in [Devices -> [Records -> Rows]]
  /\ outbox \in [Devices -> SUBSET Entries]
  /\ seen \in [Devices -> SUBSET EventIds]
  /\ cursor \in [Devices -> Nat]
  /\ kept \in [Devices -> SUBSET KeptBodies]
  /\ blocked \in [Devices -> SUBSET Records]
  /\ quarantine \in [Devices -> SUBSET Nat]
  /\ draft \in [Devices -> Drafts]
  /\ resolving \in [Devices -> SUBSET Resolutions]
  /\ cycle \in [Cycles -> CycleStates]

\* A thread that handles an event has one.
HasPage == \A c \in Cycles :
  cycle[c].pc \in {"check", "write", "record"} => cycle[c].page # {}

\* The requests anyone has made, and those of one device's outbox.
Queued(d) == {o.req : o \in outbox[d]}
Made ==
  (UNION {Queued(d) : d \in Devices})
    \cup (UNION {{x.req : x \in resolving[d]} : d \in Devices})
    \cup {t.req : t \in open} \cup {e.req : e \in events}

\* An identifier is drawn once and names one request for ever.
Identified ==
  /\ \A q \in Made : q.vid = q.id /\ q.id <= lastId
  /\ \A p, q \in Made : p.id = q.id => p = q

\* A request is queued on one device.
QueuedOnce ==
  \A d1, d2 \in Devices : \A p \in Queued(d1), q \in Queued(d2) :
    p.id = q.id => d1 = d2

\* A request is recorded once, and one that is recorded is not open again.
RecordedOnce ==
  /\ \A e, f \in events : e.req.id = f.req.id => e = f
  /\ \A t \in open, e \in events : t.req.id # e.req.id

\* What a thread works through: requests of its device, events of the log.
ThreadsReal ==
  \A c \in Cycles : /\ cycle[c].queue \subseteq Queued(DeviceOf[c])
                    /\ cycle[c].page \subseteq events

\* While a device serves one request at a time.
OneRequest ==
  \A d \in Devices :
    /\ \A a, b \in Cycles :
         /\ DeviceOf[a] = d /\ DeviceOf[b] = d
         /\ cycle[a].pc # "idle" /\ cycle[b].pc # "idle"
         => a = b
    /\ \A c \in Cycles :
         DeviceOf[c] = d /\ cycle[c].pc # "idle" =>
           draft[d] = NoDraft /\ resolving[d] = {}
    /\ draft[d] # NoDraft => resolving[d] = {}

\* A record that is in no outbox is nowhere.
NowhereElse ==
  \A r \in Records :
    (\A d \in Devices : \A o \in outbox[d] : o.req.rec # r) =>
      /\ \A q \in Made : q.rec # r
      /\ \A d \in Devices : local[d][r] = NoRecord
                              /\ (draft[d] # NoDraft => draft[d].rec # r)

\* What a request read is still so when it writes.
DraftStands ==
  \A d \in Devices : draft[d] # NoDraft =>
    draft[d].ver = local[d][draft[d].rec].ver + 1
PlanStands ==
  \A c \in Cycles : cycle[c].pc = "write" /\ cycle[c].plan.does = "put" =>
    /\ Current(c).applied
    /\ Current(c).req.ver > local[DeviceOf[c]][Current(c).req.rec].ver

\* The content of an event is on a device.
StoredOn(d, e) ==
  \/ e.applied /\ local[d][e.req.rec].ver >= e.req.ver
  \/ \E k \in kept[d] : k.remote = e.req.vid
SeenIsLogged == \A d \in Devices : \A i \in seen[d] : Recorded(i)
AboutToRecord ==
  \A c \in Cycles : cycle[c].pc = "record" => StoredOn(DeviceOf[c], Current(c))

\* A record's line ends with its head.
HeadIsLast ==
  \A r \in Records : \A e \in Applied(r) :
    e.req.ver < heads[r].ver \/ e.req.vid = heads[r].vid

\* The content of a row is that of an edit the device has still to deliver,
\* or of an accepted version.
HasSource(d, r) ==
  \/ \E o \in Undelivered(d, r) : SameContent(o.req, local[d][r])
  \/ \E e \in Applied(r) : SameContent(e.req, local[d][r])
RowsHaveSource ==
  \A d \in Devices, r \in Records :
    r \notin blocked[d] /\ local[d][r] # NoRecord => HasSource(d, r)

\* The version a row names is the one whose content it carries.
NamesItsRequest(row, r) ==
  /\ row.cv \in VersionIds /\ row.cv <= lastId
  /\ body[row.cv] = row.body
  /\ \A q \in Made : q.vid = row.cv => q.rec = r /\ q.ver = row.ver
RowsNameRequests ==
  \A d \in Devices, r \in Records :
    r \notin blocked[d] /\ local[d][r] # NoRecord =>
      NamesItsRequest(local[d][r], r)

\* A resolution that waits for the cloud carries the device's row, is or will
\* be on the record's line, and is nobody else's request.
ResolutionStands ==
  \A d \in Devices : \A x \in resolving[d] :
    /\ SameContent(x.req, local[d][x.req.rec])
    /\ \A t \in open : t.req.id = x.req.id => t.applied
    /\ \A e \in events : e.req.id = x.req.id => e.applied
    /\ \A y \in Devices \ {d} : \A o \in outbox[y] : o.req.id # x.req.id

\* An event was processed on a device: applied, or set aside.
Processed(d, e) == e.req.id \in seen[d] \/ e.cursor \in quarantine[d]

\* The log of one record: every event lies beyond those before it, and
\* nothing that is still to come lies below a cursor a device has reached.
LogInOrder ==
  /\ IsFiniteSet(events)
  /\ \A e, f \in events : e.cursor = f.cursor => e = f
CursorsBehind ==
  /\ \A d \in Devices : cursor[d] <= nextCursor
  /\ \A d \in Devices, t \in open : cursor[d] < t.cursor
  /\ \A c \in Cycles : cycle[c].after <= cursor[DeviceOf[c]]

\* A page has no hole.
PagesWhole ==
  \A c \in Cycles : \A p \in cycle[c].page, e \in events :
    e.cursor < p.cursor => Processed(DeviceOf[c], e) \/ e \in cycle[c].page

-----------------------------------------------------------------------------
(* Lemmas about the helpers of the model                                   *)

\* A set of numbers that is not empty has a least one.
LEMMA LeastNumber ==
  ASSUME NEW N, N \subseteq Nat, N # {}
  PROVE  \E n \in N : \A k \in N : n <= k
<1> DEFINE T == {0..n : n \in N}
<1> DEFINE R == StrictSubsetOrdering(Nat)
<1>1. T # {}
  OBVIOUS
<1>2. T \subseteq FiniteSubsetsOf(Nat)
  <2> SUFFICES ASSUME NEW n \in N PROVE 0..n \in FiniteSubsetsOf(Nat)
    OBVIOUS
  <2>1. n \in Nat
    OBVIOUS
  <2>2. IsFiniteSet(0..n)
    BY <2>1, FS_Interval
  <2>3. 0..n \in SUBSET Nat
    BY <2>1
  <2> QED
    BY <2>2, <2>3 DEF FiniteSubsetsOf
<1>3. IsWellFoundedOn(R, FiniteSubsetsOf(Nat))
  BY FS_StrictSubsetOrderingWellFounded
<1> HIDE DEF T, R
<1>4. PICK t \in T : \A u \in T : ~(<<u, t>> \in R)
  BY <1>1, <1>2, <1>3, WFMin
<1> USE DEF T
<1>5. PICK n \in N : t = 0..n
  OBVIOUS
<1>6. ASSUME NEW k \in N, ~(n <= k) PROVE FALSE
  <2>1. n \in Nat /\ k \in Nat /\ k < n
    BY <1>6
  <2>2. 0..k \in SUBSET Nat /\ 0..n \in SUBSET Nat
    BY <2>1
  <2>3. 0..k \subseteq 0..n /\ n \in 0..n /\ n \notin 0..k
    BY <2>1
  <2>4. <<0..k, 0..n>> \in R
    BY <2>2, <2>3 DEF R, StrictSubsetOrdering
  <2> QED
    BY <1>4, <1>5, <2>4
<1> QED
  BY <1>6

\* The larger of two numbers.
LEMMA MaxOfTwo ==
  ASSUME NEW a \in Nat, NEW b \in Nat
  PROVE  /\ Max({a, b}) \in {a, b}
         /\ a <= Max({a, b}) /\ b <= Max({a, b})
<1>1. \E m \in {a, b} : \A n \in {a, b} : n <= m
  <2>1. CASE a <= b
    BY <2>1
  <2>2. CASE b <= a
    BY <2>2
  <2> QED
    BY <2>1, <2>2
<1> QED
  BY <1>1 DEF Max

\* A cycle sends the oldest of the requests that wait.
LEMMA NextToSendIs ==
  ASSUME DeviceTypes, NEW c \in Cycles, cycle[c].queue # {}
  PROVE  NextToSend(c) \in cycle[c].queue /\ NextToSend(c) \in Requests
<1> DEFINE Q == cycle[c].queue
<1> DEFINE N == {q.id : q \in Q}
<1>1. Q \subseteq Requests
  BY DEF DeviceTypes, CycleStates
<1>2. EventIds \subseteq Nat
  BY DevicesAssumption
<1>3. N \subseteq Nat /\ N # {}
  BY <1>1, <1>2 DEF Requests
<1>4. PICK n \in N : \A k \in N : n <= k
  BY <1>3, LeastNumber
<1>5. PICK q \in Q : q.id = n
  OBVIOUS
<1>6. \A p \in Q : q.id <= p.id
  BY <1>4, <1>5
<1>7. NextToSend(c) \in Q
  BY <1>6 DEF NextToSend
<1> QED
  BY <1>1, <1>7

\* It applies the event of the page with the smallest cursor.
LEMMA CurrentIs ==
  ASSUME DeviceTypes, NEW c \in Cycles, cycle[c].page # {}
  PROVE  /\ Current(c) \in cycle[c].page /\ Current(c) \in LogEvents
         /\ \A f \in cycle[c].page : Current(c).cursor <= f.cursor
<1> DEFINE P == cycle[c].page
<1> DEFINE N == {e.cursor : e \in P}
<1>1. P \subseteq LogEvents
  BY DEF DeviceTypes, CycleStates
<1>2. N \subseteq Nat /\ N # {}
  BY <1>1 DEF LogEvents
<1>3. PICK n \in N : \A k \in N : n <= k
  BY <1>2, LeastNumber
<1>4. PICK e \in P : e.cursor = n
  OBVIOUS
<1>5. \A f \in P : e.cursor <= f.cursor
  BY <1>3, <1>4
<1>6. Current(c) \in P /\ \A f \in P : Current(c).cursor <= f.cursor
  BY <1>5 DEF Current
<1> QED
  BY <1>1, <1>6

\* An answer found in the log answers the request that asks.
LEMMA AnswerIs ==
  ASSUME NEW q, Recorded(q.id)
  PROVE  Answer(q) \in events /\ Answer(q).req.id = q.id
BY DEF Recorded, Answer

\* An entry found by its identifier is in the outbox.
LEMMA EntryIs ==
  ASSUME NEW d, NEW o \in outbox[d]
  PROVE  Entry(d, o.req.id) \in outbox[d] /\ Entry(d, o.req.id).req.id = o.req.id
BY DEF Entry

\* Marking an entry changes what is said of a request, never the request.
LEMMA MarkMarks ==
  ASSUME DeviceTypes, NEW d \in Devices, NEW id, NEW n \in Nat,
         NEW state \in {"pending", "retry", "manual", "sent", "conflict"},
         outbox' = Mark(d, id, state, n)
  PROVE  /\ outbox' \in [Devices -> SUBSET Entries]
         /\ \A x \in Devices \ {d} : outbox'[x] = outbox[x]
         /\ \A p \in outbox'[d] : \E o \in outbox[d] :
              /\ p.req = o.req
              /\ o.req.id # id => p = o
              /\ o.req.id = id => p.state = state
         /\ \A o \in outbox[d] : \E p \in outbox'[d] :
              /\ p.req = o.req
              /\ o.req.id # id => p = o
              /\ o.req.id = id => p.state = state
         /\ \A p \in outbox'[d] : p \notin outbox[d] =>
              p.state = state /\ \E o \in outbox[d] :
                                  o.req.id = id /\ p.req = o.req
<1> DEFINE Marked(o) == [o EXCEPT !.state = state, !.attempts = n]
<1> DEFINE Fate(o) == IF o.req.id = id THEN Marked(o) ELSE o
<1>1. outbox \in [Devices -> SUBSET Entries]
  BY DEF DeviceTypes
<1>2. ASSUME NEW o \in Entries
      PROVE  /\ Marked(o) \in Entries
             /\ Marked(o).req = o.req /\ Marked(o).state = state
  <2>1. PICK b : b = [o EXCEPT !.state = state]
    OBVIOUS
  <2>2. b \in Entries /\ b.req = o.req /\ b.state = state
    BY <1>2, <2>1, SMT DEF Entries
  <2>3. PICK k : k = [b EXCEPT !.attempts = n]
    OBVIOUS
  <2>4. k \in Entries /\ k.req = b.req /\ k.state = b.state
    BY <2>2, <2>3, SMT DEF Entries
  <2>5. Marked(o) = k
    BY <1>2, <2>1, <2>3, SMT DEF Entries
  <2> QED
    BY <2>2, <2>4, <2>5
<1> HIDE DEF Marked
<1>3. ASSUME NEW o \in outbox[d]
      PROVE  /\ Fate(o) \in Entries /\ Fate(o).req = o.req
             /\ o.req.id # id => Fate(o) = o
             /\ o.req.id = id => Fate(o).state = state
  <2>1. o \in Entries
    BY <1>1
  <2> QED
    BY <2>1, <1>2
<1>4. outbox' = [outbox EXCEPT ![d] = {Fate(o) : o \in outbox[d]}]
  BY DEF Mark, Marked
<1> HIDE DEF Fate
<1>5. {Fate(o) : o \in outbox[d]} \in SUBSET Entries
  BY <1>3
<1>6. outbox'[d] = {Fate(o) : o \in outbox[d]}
  BY <1>1, <1>4
<1>7. \A p \in outbox'[d] : \E o \in outbox[d] : p = Fate(o)
  BY <1>6
<1>8. \A o \in outbox[d] : Fate(o) \in outbox'[d]
  BY <1>6
<1>9. outbox' \in [Devices -> SUBSET Entries]
  BY <1>1, <1>4, <1>5
<1>10. \A x \in Devices \ {d} : outbox'[x] = outbox[x]
  BY <1>1, <1>4
<1>11. \A p \in outbox'[d] : p \notin outbox[d] =>
         p.state = state /\ \E o \in outbox[d] :
                             o.req.id = id /\ p.req = o.req
  BY <1>3, <1>7
<1> QED
  BY <1>3, <1>7, <1>8, <1>9, <1>10, <1>11

-----------------------------------------------------------------------------
(* What a step of a thread does to its locals                              *)

Moved(c, stage, after, queue, page, plan) ==
  /\ cycle' \in [Cycles -> CycleStates]
  /\ \A x \in Cycles \ {c} : cycle'[x] = cycle[x]
  /\ cycle'[c].pc = stage /\ cycle'[c].after = after
  /\ cycle'[c].queue = queue /\ cycle'[c].page = page
  /\ cycle'[c].plan = plan

\* Lemmas that read a step of a thread off the EXCEPT that writes it.
LEMMA MovedTo ==
  ASSUME DeviceTypes, NEW c \in Cycles, NEW t \in CycleStates,
         cycle' = [cycle EXCEPT ![c] = t]
  PROVE  Moved(c, t.pc, t.after, t.queue, t.page, t.plan)
BY DEF Moved, DeviceTypes

\* One field of a thread's state is set, and the others stay.
LEMMA SetStage ==
  ASSUME NEW a \in CycleStates, NEW s \in Stages
  PROVE  LET t == [a EXCEPT !.pc = s] IN
         /\ t \in CycleStates /\ t.pc = s /\ t.after = a.after
         /\ t.queue = a.queue /\ t.page = a.page /\ t.plan = a.plan
BY SMT DEF CycleStates

\* The same for its queue.
LEMMA SetQueue ==
  ASSUME NEW a \in CycleStates, NEW Q \in SUBSET Requests
  PROVE  LET t == [a EXCEPT !.queue = Q] IN
         /\ t \in CycleStates /\ t.pc = a.pc /\ t.after = a.after
         /\ t.queue = Q /\ t.page = a.page /\ t.plan = a.plan
BY SMT DEF CycleStates

\* For its page.
LEMMA SetPage ==
  ASSUME NEW a \in CycleStates, NEW P \in SUBSET LogEvents
  PROVE  LET t == [a EXCEPT !.page = P] IN
         /\ t \in CycleStates /\ t.pc = a.pc /\ t.after = a.after
         /\ t.queue = a.queue /\ t.page = P /\ t.plan = a.plan
BY SMT DEF CycleStates

\* For its plan.
LEMMA SetPlan ==
  ASSUME NEW a \in CycleStates, NEW plan \in Plans
  PROVE  LET t == [a EXCEPT !.plan = plan] IN
         /\ t \in CycleStates /\ t.pc = a.pc /\ t.after = a.after
         /\ t.queue = a.queue /\ t.page = a.page /\ t.plan = plan
BY SMT DEF CycleStates

\* A thread goes to another stage.
LEMMA StageMoves ==
  ASSUME DeviceTypes, NEW c \in Cycles, NEW s \in Stages,
         cycle' = [cycle EXCEPT ![c].pc = s]
  PROVE  Moved(c, s, cycle[c].after, cycle[c].queue, cycle[c].page,
               cycle[c].plan)
<1>1. PICK a \in CycleStates : a = cycle[c]
  BY DEF DeviceTypes
<1> DEFINE t == [a EXCEPT !.pc = s]
<1>2. /\ t \in CycleStates /\ t.pc = s /\ t.after = a.after
      /\ t.queue = a.queue /\ t.page = a.page /\ t.plan = a.plan
  BY SetStage
<1>3. cycle' = [cycle EXCEPT ![c] = t]
  BY <1>1
<1> HIDE DEF t
<1> QED
  BY <1>1, <1>2, <1>3, MovedTo

\* It is done with a request.
LEMMA SentMoves ==
  ASSUME DeviceTypes, NEW c \in Cycles, cycle' = SentOne(c)
  PROVE  Moved(c, "push", cycle[c].after, cycle[c].queue \ {NextToSend(c)},
               cycle[c].page, cycle[c].plan)
<1>1. PICK a \in CycleStates : a = cycle[c]
  BY DEF DeviceTypes
<1> DEFINE Q == cycle[c].queue \ {NextToSend(c)}
<1>2. Q \in SUBSET Requests
  BY <1>1 DEF CycleStates
<1>3. "push" \in Stages
  BY DEF Stages
<1> HIDE DEF Q
<1> DEFINE t == [a EXCEPT !.queue = Q, !.pc = "push"]
<1>4. /\ t \in CycleStates /\ t.pc = "push" /\ t.after = a.after
      /\ t.queue = Q /\ t.page = a.page /\ t.plan = a.plan
  <2>1. PICK b \in CycleStates :
          /\ b = [a EXCEPT !.queue = Q]
          /\ b.after = a.after /\ b.queue = Q /\ b.page = a.page
          /\ b.plan = a.plan
    BY <1>2, SetQueue
  <2>2. t = [b EXCEPT !.pc = "push"]
    BY <2>1, SMT DEF CycleStates
  <2> QED
    BY <1>3, <2>1, <2>2, SetStage
<1>5. cycle' = [cycle EXCEPT ![c] = t]
  BY <1>1 DEF SentOne, Q
<1> HIDE DEF t
<1>6. Moved(c, "push", cycle[c].after, Q, cycle[c].page, cycle[c].plan)
  BY <1>1, <1>4, <1>5, MovedTo
<1> QED
  BY <1>6 DEF Q

\* It is done with an event.
LEMMA NextEventMoves ==
  ASSUME DeviceTypes, NEW c \in Cycles, cycle' = NextEvent(c)
  PROVE  Moved(c, "apply", cycle[c].after, cycle[c].queue,
               cycle[c].page \ {Current(c)}, cycle[c].plan)
<1>1. PICK a \in CycleStates : a = cycle[c]
  BY DEF DeviceTypes
<1> DEFINE P == cycle[c].page \ {Current(c)}
<1>2. P \in SUBSET LogEvents
  BY <1>1 DEF CycleStates
<1>3. "apply" \in Stages
  BY DEF Stages
<1> HIDE DEF P
<1> DEFINE t == [a EXCEPT !.page = P, !.pc = "apply"]
<1>4. /\ t \in CycleStates /\ t.pc = "apply" /\ t.after = a.after
      /\ t.queue = a.queue /\ t.page = P /\ t.plan = a.plan
  <2>1. PICK b \in CycleStates :
          /\ b = [a EXCEPT !.page = P]
          /\ b.after = a.after /\ b.queue = a.queue /\ b.page = P
          /\ b.plan = a.plan
    BY <1>2, SetPage
  <2>2. t = [b EXCEPT !.pc = "apply"]
    BY <2>1, SMT DEF CycleStates
  <2> QED
    BY <1>3, <2>1, <2>2, SetStage
<1>5. cycle' = [cycle EXCEPT ![c] = t]
  BY <1>1 DEF NextEvent, P
<1> HIDE DEF t
<1>6. Moved(c, "apply", cycle[c].after, cycle[c].queue, P, cycle[c].plan)
  BY <1>1, <1>4, <1>5, MovedTo
<1> QED
  BY <1>6 DEF P

\* It gets a page.
LEMMA PullMoves ==
  ASSUME DeviceTypes, TypeOK, NEW c \in Cycles,
         cycle' = [cycle EXCEPT ![c].pc = "apply",
                                ![c].page = Page(cycle[c].after)]
  PROVE  Moved(c, "apply", cycle[c].after, cycle[c].queue,
               Page(cycle[c].after), cycle[c].plan)
<1>1. PICK a \in CycleStates : a = cycle[c]
  BY DEF DeviceTypes
<1>2. PICK P \in SUBSET LogEvents : P = Page(cycle[c].after)
  <2>1. Page(cycle[c].after) \subseteq events
    BY DEF Page
  <2> QED
    BY <2>1 DEF TypeOK, LogEvents
<1>3. "apply" \in Stages
  BY DEF Stages
<1> DEFINE t == [a EXCEPT !.pc = "apply", !.page = P]
<1>4. /\ t \in CycleStates /\ t.pc = "apply" /\ t.after = a.after
      /\ t.queue = a.queue /\ t.page = P /\ t.plan = a.plan
  <2>1. PICK b \in CycleStates :
          /\ b = [a EXCEPT !.pc = "apply"]
          /\ b.pc = "apply" /\ b.after = a.after /\ b.queue = a.queue
          /\ b.plan = a.plan
    BY <1>3, SetStage
  <2>2. t = [b EXCEPT !.page = P]
    BY <2>1, SMT DEF CycleStates
  <2> HIDE DEF t
  <2>3. /\ t \in CycleStates /\ t.pc = b.pc /\ t.after = b.after
        /\ t.queue = b.queue /\ t.page = P /\ t.plan = b.plan
    BY <2>2, SetPage
  <2> QED
    BY <2>1, <2>3
<1>5. cycle' = [cycle EXCEPT ![c] = t]
  BY <1>1, <1>2
<1> HIDE DEF t
<1> QED
  BY <1>1, <1>2, <1>4, <1>5, MovedTo

\* It has decided about an event.
LEMMA DecideMoves ==
  ASSUME DeviceTypes, NEW c \in Cycles, NEW plan \in Plans, NEW s \in Stages,
         cycle' = [cycle EXCEPT ![c].plan = plan, ![c].pc = s]
  PROVE  Moved(c, s, cycle[c].after, cycle[c].queue, cycle[c].page, plan)
<1>1. PICK a \in CycleStates : a = cycle[c]
  BY DEF DeviceTypes
<1> DEFINE t == [a EXCEPT !.plan = plan, !.pc = s]
<1>2. /\ t \in CycleStates /\ t.pc = s /\ t.after = a.after
      /\ t.queue = a.queue /\ t.page = a.page /\ t.plan = plan
  <2>1. PICK b \in CycleStates :
          /\ b = [a EXCEPT !.plan = plan]
          /\ b.after = a.after /\ b.queue = a.queue /\ b.page = a.page
          /\ b.plan = plan
    BY SetPlan
  <2>2. t = [b EXCEPT !.pc = s]
    BY <2>1, SMT DEF CycleStates
  <2> QED
    BY <2>1, <2>2, SetStage
<1>3. cycle' = [cycle EXCEPT ![c] = t]
  BY <1>1
<1> HIDE DEF t
<1> QED
  BY <1>1, <1>2, <1>3, MovedTo

\* An idle thread holds nothing.
LEMMA IdleIs ==
  /\ Idle \in CycleStates /\ Idle.pc = "idle" /\ Idle.after = 0
  /\ Idle.queue = {} /\ Idle.page = {} /\ Idle.plan = NoPlan
BY DEF Idle, CycleStates, Stages, Plans, NoPlan

\* A thread ends.
LEMMA EndMoves ==
  ASSUME DeviceTypes, NEW c \in Cycles, cycle' = [cycle EXCEPT ![c] = Idle]
  PROVE  Moved(c, "idle", 0, {}, {}, NoPlan)
<1> HIDE DEF Idle
<1> QED
  BY IdleIs, MovedTo

-----------------------------------------------------------------------------
(* The types of the devices, and what their steps are to the cloud         *)

\* A local edit draws an identifier, becomes the row and is queued.
LEMMA PutEditDoes ==
  ASSUME DeviceTypes, NEW d \in Devices, NEW r \in Records,
         NEW ver \in 1..MaxVersion, PutEdit(d, r, ver)
  PROVE  \E q \in Requests, o \in Entries, row \in Rows :
           /\ q.id = lastId + 1 /\ q.vid = lastId + 1 /\ q.rec = r /\ q.ver = ver
           /\ o.req = q /\ o.state = "pending"
           /\ row.ver = ver /\ row.body = q.vid /\ row.cv = q.vid
           /\ lastId' = lastId + 1 /\ lastId' \in Nat
           /\ body' \in [VersionIds -> VersionIds \cup {Null}]
           /\ body'[q.vid] = q.vid
           /\ \A v \in VersionIds \ {q.vid} : body'[v] = body[v]
           /\ outbox' \in [Devices -> SUBSET Entries]
           /\ outbox'[d] = outbox[d] \cup {o}
           /\ \A x \in Devices \ {d} : outbox'[x] = outbox[x]
           /\ local' \in [Devices -> [Records -> Rows]]
           /\ local'[d][r] = row
           /\ \A x \in Devices, s \in Records :
                x # d \/ s # r => local'[x][s] = local[x][s]
<1> DEFINE v == lastId + 1
<1>1. /\ v \in VersionIds /\ v \in EventIds /\ v \in Nat
      /\ 1 \in 1..MaxKey
  BY DevicesAssumption, BoundsAssumption
     DEF PutEdit, CanDraw, DeviceTypes
<1>2. local[d][r] \in Rows
  BY DEF DeviceTypes
<1>3. local[d][r].cv \in VersionIds \cup {Null}
  BY <1>2 DEF Rows
<1>4. PICK q : q = [id |-> v, rec |-> r, op |-> "write", ver |-> ver,
                    vid |-> v, base |-> local[d][r].cv, key |-> 1]
  OBVIOUS
<1>5. q \in Requests /\ q.id = v /\ q.vid = v /\ q.rec = r /\ q.ver = ver
  BY <1>1, <1>3, <1>4 DEF Requests, Operations
<1>6. PICK o : o = [req |-> q, state |-> "pending", attempts |-> 0]
  OBVIOUS
<1>7. o \in Entries /\ o.req = q /\ o.state = "pending"
  BY <1>5, <1>6 DEF Entries
<1>8. PICK row : row = [ver |-> ver, body |-> v, cv |-> v]
  OBVIOUS
<1>9. row \in Rows /\ row.ver = ver /\ row.body = v /\ row.cv = v
  BY <1>1, <1>8, BoundsAssumption DEF Rows
<1>10. /\ lastId' = v
       /\ body' = [body EXCEPT ![v] = v]
       /\ local' = [local EXCEPT ![d][r] = row]
       /\ outbox' = [outbox EXCEPT ![d] = @ \cup {o}]
  BY <1>4, <1>6, <1>8, Zenon DEF PutEdit, Enqueue
<1>11. /\ body' \in [VersionIds -> VersionIds \cup {Null}]
       /\ body'[v] = v
       /\ \A x \in VersionIds \ {v} : body'[x] = body[x]
  BY <1>1, <1>10 DEF DeviceTypes
<1>12. /\ outbox' \in [Devices -> SUBSET Entries]
       /\ outbox'[d] = outbox[d] \cup {o}
       /\ \A x \in Devices \ {d} : outbox'[x] = outbox[x]
  BY <1>7, <1>10 DEF DeviceTypes
<1>13. /\ local' \in [Devices -> [Records -> Rows]]
       /\ local'[d][r] = row
       /\ \A x \in Devices, s \in Records :
            x # d \/ s # r => local'[x][s] = local[x][s]
  BY <1>9, <1>10 DEF DeviceTypes
<1> QED
  BY <1>1, <1>5, <1>7, <1>9, <1>10, <1>11, <1>12, <1>13

\* The requests a device may resolve a conflict with are well formed.
LEMMA ResolutionIsRequest ==
  ASSUME DeviceTypes, TypeOK, NEW d \in Devices, NEW c \in conflicts,
         NEW q \in ResolutionEvents(d, c)
  PROVE  /\ q \in Requests /\ q.rec = c.rec /\ c.rec \in Records
         /\ \/ \E o \in outbox[d] :
                 o.req = q /\ SameContent(q, local[d][c.rec])
            \/ /\ q.id = lastId + 1 /\ q.vid = lastId + 1
               /\ q.ver = local[d][c.rec].ver /\ lastId + 1 \in VersionIds
<1> DEFINE row == local[d][c.rec]
<1> DEFINE v == lastId + 1
<1> DEFINE fresh == [id |-> v, rec |-> c.rec, op |-> "write", ver |-> row.ver,
                     vid |-> v, base |-> heads[c.rec].vid, key |-> 1]
<1>1. c.rec \in Records
  BY DEF TypeOK, Conflicts
<1>2. \/ \E o \in outbox[d] : o.req = q /\ q.rec = c.rec /\ SameContent(q, row)
      \/ /\ CanDraw /\ row.ver \in 1..MaxVersion
         /\ q = fresh
  BY DEF ResolutionEvents
<1>3. CASE \E o \in outbox[d] : o.req = q /\ q.rec = c.rec /\ SameContent(q, row)
  <2>1. PICK o \in outbox[d] : o.req = q /\ q.rec = c.rec /\ SameContent(q, row)
    BY <1>3
  <2>2. o \in Entries
    BY DEF DeviceTypes
  <2> QED
    BY <1>1, <2>1, <2>2 DEF Entries
<1>4. CASE CanDraw /\ row.ver \in 1..MaxVersion /\ q = fresh
  <2>1. /\ v \in VersionIds /\ v \in EventIds /\ 1 \in 1..MaxKey
        /\ heads[c.rec].vid \in VersionIds \cup {Null}
    BY <1>1, <1>4, DevicesAssumption, BoundsAssumption
       DEF CanDraw, TypeOK
  <2>2. fresh \in Requests
    BY <1>1, <1>4, <2>1 DEF Requests, Operations
  <2> QED
    BY <1>1, <1>4, <2>1, <2>2
<1> QED
  BY <1>2, <1>3, <1>4

\* Every step of the system is a step of the cloud or leaves it alone.
LEMMA CloudSteps ==
  ASSUME DeviceTypes, TypeOK, SystemNext
  PROVE  [Next]_vars
<1>1. ASSUME NEW c \in Cycles, SendPush(c) PROVE Next
  <2>1. NextToSend(c) \in Requests
    BY <1>1, NextToSendIs DEF SendPush, Sending
  <2> QED
    BY <1>1, <2>1 DEF SendPush, Next
<1>2. ASSUME NEW d \in Devices, NEW c \in conflicts,
             NEW q \in ResolutionEvents(d, c), SendResolution(d, c, q)
      PROVE  Next
  <2>1. q \in Requests
    BY ResolutionIsRequest
  <2>2. CASE Resolve(c, q)
    BY <2>1, <2>2 DEF Next
  <2>3. CASE Recorded(q.id) /\ ResolveWithHead(c, Answer(q))
    BY <2>3, AnswerIs DEF Next
  <2> QED
    BY <1>2, <2>2, <2>3 DEF SendResolution
<1>3. CASE CloudCommit \/ CloudRollback
  BY <1>3 DEF CloudCommit, CloudRollback, Next
<1>4. ASSUME NEW d \in Devices, DeviceStep(d) PROVE Next \/ UNCHANGED vars
  BY <1>2, <1>4
     DEF DeviceStep, Create, BeginUpdate, FinishUpdate, RefuseUpdate, PutEdit,
         FinishResolution, LoseResolution
<1>5. ASSUME NEW c \in Cycles, CycleStep(c) PROVE Next \/ UNCHANGED vars
  BY <1>1, <1>5
     DEF CycleStep, MarkSent, MarkConflicted, PushRefused, PushAborted,
         MarkFailed, Pull, EndCycle, Accept, SkipSeen, Quarantine, Decide,
         WriteRecord, WriteConflict, RecordEvent
<1>6. ASSUME NEW c \in Cycles,
             \/ CycleFault(c)
             \/ \E due \in SUBSET outbox[DeviceOf[c]] : StartCycle(c, due)
      PROVE  UNCHANGED vars
  BY <1>6 DEF CycleFault, PushLost, AbandonCycle, MarkFailed, StartCycle
<1> QED
  BY <1>3, <1>4, <1>5, <1>6 DEF SystemNext

\* What a thread does leaves HasPage as it was, if its page does.
LEMMA MovedHasPage ==
  ASSUME HasPage, NEW c \in Cycles, NEW s, NEW a, NEW Q, NEW P, NEW plan,
         Moved(c, s, a, Q, P, plan),
         s \in {"check", "write", "record"} => P # {}
  PROVE  HasPage'
BY DEF HasPage, Moved

\* The steps that mark an entry of the outbox after a push.
LEMMA MarkFailedTypes ==
  ASSUME DeviceTypes, HasPage, NEW c \in Cycles, cycle[c].queue # {},
         cycle[c].queue \subseteq Queued(DeviceOf[c]), MarkFailed(c)
  PROVE  \E n \in Nat, state \in {"retry", "manual"} :
           outbox' = Mark(DeviceOf[c], NextToSend(c).id, state, n)
<1> DEFINE d == DeviceOf[c]
<1> DEFINE q == NextToSend(c)
<1>1. q \in cycle[c].queue
  BY NextToSendIs
<1>2. PICK p \in outbox[d] : p.req = q
  BY <1>1 DEF Queued
<1>3. Entry(d, q.id) \in outbox[d] /\ Entry(d, q.id).req.id = q.id
  BY <1>2, EntryIs
<1>4. d \in Devices
  BY DevicesAssumption
<1>5. Entry(d, q.id) \in Entries
  BY <1>3, <1>4 DEF DeviceTypes
<1>6. Entry(d, q.id).attempts \in Nat
  BY <1>5 DEF Entries
<1> DEFINE o == Entry(d, q.id)
<1>7. outbox' = IF o.attempts >= MaxAttempts
                THEN Mark(d, o.req.id, "manual", o.attempts)
                ELSE Mark(d, o.req.id, "retry", o.attempts + 1)
  BY DEF MarkFailed
<1> HIDE DEF o
<1>8. o.req.id = q.id /\ o.attempts \in Nat /\ o.attempts + 1 \in Nat
  BY <1>3, <1>6 DEF o
<1>9. CASE o.attempts >= MaxAttempts
  BY <1>7, <1>8, <1>9
<1>10. CASE ~(o.attempts >= MaxAttempts)
  BY <1>7, <1>8, <1>10
<1> QED
  BY <1>9, <1>10

\* The answer to a push is marked on the entry of the request.
LEMMA MarkAnsweredTypes ==
  ASSUME DeviceTypes, HasPage, NEW c \in Cycles,
         cycle[c].queue \subseteq Queued(DeviceOf[c]),
         MarkSent(c) \/ MarkConflicted(c)
  PROVE  /\ NextToSend(c) \in cycle[c].queue
         /\ \E n \in Nat, e \in events :
              /\ e.req = NextToSend(c)
              /\ outbox' = Mark(DeviceOf[c], e.req.id,
                                IF e.applied THEN "sent" ELSE "conflict", n)
              /\ MarkSent(c) => e.applied
              /\ MarkConflicted(c) => ~e.applied
<1> DEFINE d == DeviceOf[c]
<1> DEFINE q == NextToSend(c)
<1>1. q \in cycle[c].queue
  BY NextToSendIs DEF MarkSent, MarkConflicted, Sending
<1>2. PICK p \in outbox[d] : p.req = q
  BY <1>1 DEF Queued
<1>3. Entry(d, q.id) \in outbox[d]
  BY <1>2, EntryIs
<1>4. d \in Devices
  BY DevicesAssumption
<1>5. Entry(d, q.id) \in Entries
  BY <1>3, <1>4 DEF DeviceTypes
<1>6. Entry(d, q.id).attempts \in Nat
  BY <1>5 DEF Entries
<1>7. Answer(q) \in events /\ Answer(q).req = q
  BY AnswerIs DEF MarkSent, MarkConflicted
<1>8. CASE MarkSent(c)
  <2>1. /\ Answer(q).applied
        /\ outbox' = Mark(d, q.id, "sent", Entry(d, q.id).attempts)
    BY <1>8 DEF MarkSent
  <2>2. ~MarkConflicted(c)
    BY <2>1 DEF MarkConflicted
  <2> QED
    BY <1>1, <1>6, <1>7, <2>1, <2>2
<1>9. CASE MarkConflicted(c)
  <2>1. /\ ~Answer(q).applied
        /\ outbox' = Mark(d, q.id, "conflict", Entry(d, q.id).attempts)
    BY <1>9 DEF MarkConflicted
  <2>2. ~MarkSent(c)
    BY <2>1 DEF MarkSent
  <2> QED
    BY <1>1, <1>6, <1>7, <2>1, <2>2
<1> QED
  BY <1>8, <1>9

-----------------------------------------------------------------------------
(* The base: types, and threads that work on what exists                   *)

BaseInv == DeviceTypes /\ HasPage /\ ThreadsReal

\* Nothing is ever removed from the log.
LEMMA LogGrows ==
  ASSUME [Next]_vars
  PROVE  events \subseteq events'
BY DEF Next, vars, Push, Resolve, Commit, Rollback, ResolveWithHead,
       BeginRotation, StageRewrap, SetEnvelopes, CommitRotation

\* Marking an entry leaves the requests of every outbox as they were.
LEMMA MarkKeepsQueued ==
  ASSUME DeviceTypes, NEW d \in Devices, NEW id, NEW n \in Nat,
         NEW state \in {"pending", "retry", "manual", "sent", "conflict"},
         outbox' = Mark(d, id, state, n)
  PROVE  \A x \in Devices : Queued(x)' = Queued(x)
<1>1. /\ \A x \in Devices \ {d} : outbox'[x] = outbox[x]
      /\ \A p \in outbox'[d] : \E o \in outbox[d] : p.req = o.req
      /\ \A o \in outbox[d] : \E p \in outbox'[d] : p.req = o.req
  BY MarkMarks
<1>2. Queued(d)' = Queued(d)
  BY <1>1 DEF Queued
<1>3. \A x \in Devices \ {d} : Queued(x)' = Queued(x)
  BY <1>1 DEF Queued
<1> QED
  BY <1>2, <1>3

\* A thread that keeps part of its queue and page works on what exists.
LEMMA ThreadsStayReal ==
  ASSUME ThreadsReal, events \subseteq events',
         \A d \in Devices : Queued(d) \subseteq Queued(d)',
         NEW c \in Cycles, NEW s, NEW a, NEW Q, NEW P, NEW plan,
         Moved(c, s, a, Q, P, plan),
         Q \subseteq Queued(DeviceOf[c])', P \subseteq events'
  PROVE  ThreadsReal'
<1>1. \A x \in Cycles : DeviceOf[x] \in Devices
  BY DevicesAssumption
<1> QED
  BY <1>1 DEF ThreadsReal, Moved

\* So does one that has ended.
LEMMA ThreadsIdleReal ==
  ASSUME ThreadsReal, events \subseteq events', cycle' = cycle,
         \A d \in Devices : Queued(d) \subseteq Queued(d)'
  PROVE  ThreadsReal'
<1>1. \A x \in Cycles : DeviceOf[x] \in Devices
  BY DevicesAssumption
<1> QED
  BY <1>1 DEF ThreadsReal

\* A step that changes the locals of one thread, and perhaps the cloud.
LEMMA ThreadStepBase ==
  ASSUME BaseInv, events \subseteq events',
         UNCHANGED <<lastId, body, deviceVars, draft, resolving>>,
         NEW c \in Cycles, NEW s, NEW a, NEW Q, NEW P, NEW plan,
         Moved(c, s, a, Q, P, plan),
         Q \subseteq Queued(DeviceOf[c]), P \subseteq events',
         s \in {"check", "write", "record"} => P # {}
  PROVE  BaseInv'
<1>1. DeviceTypes'
  BY DEF BaseInv, DeviceTypes, deviceVars, Moved
<1>2. HasPage'
  BY MovedHasPage DEF BaseInv
<1>3. \A d \in Devices : Queued(d)' = Queued(d)
  BY DEF Queued, deviceVars
<1>4. DeviceOf[c] \in Devices
  BY DevicesAssumption
<1>5. ThreadsReal'
  BY <1>3, <1>4, ThreadsStayReal DEF BaseInv
<1> QED
  BY <1>1, <1>2, <1>5 DEF BaseInv

\* A local edit keeps the types and queues one entry.
LEMMA PutEditBase ==
  ASSUME BaseInv, events \subseteq events', NEW d \in Devices,
         NEW r \in Records, NEW ver \in 1..MaxVersion, PutEdit(d, r, ver),
         UNCHANGED <<cycle, resolving>>, draft' \in [Devices -> Drafts]
  PROVE  BaseInv'
<1> USE DEF BaseInv
<1>1. PICK o \in Entries :
        /\ lastId' \in Nat
        /\ body' \in [VersionIds -> VersionIds \cup {Null}]
        /\ outbox' \in [Devices -> SUBSET Entries]
        /\ outbox'[d] = outbox[d] \cup {o}
        /\ \A x \in Devices \ {d} : outbox'[x] = outbox[x]
        /\ local' \in [Devices -> [Records -> Rows]]
  BY PutEditDoes
<1>2. UNCHANGED <<seen, cursor, kept, blocked, quarantine>>
  BY DEF PutEdit
<1>3. DeviceTypes'
  BY <1>1, <1>2 DEF DeviceTypes
<1>4. HasPage'
  BY DEF HasPage
<1>5. \A x \in Devices : Queued(x) \subseteq Queued(x)'
  BY <1>1 DEF Queued
<1>6. ThreadsReal'
  BY <1>5, ThreadsIdleReal
<1> QED
  BY <1>3, <1>4, <1>6

\* The editor's steps keep BaseInv.
LEMMA EditBase ==
  ASSUME BaseInv, events \subseteq events', NEW d \in Devices,
         \/ \E r \in Records : Create(d, r) \/ BeginUpdate(d, r)
         \/ FinishUpdate(d) \/ RefuseUpdate(d)
  PROVE  BaseInv'
<1> USE DEF BaseInv
<1>1. draft \in [Devices -> Drafts] /\ NoDraft \in Drafts
  BY DEF DeviceTypes, Drafts
<1>2. CASE \E r \in Records : Create(d, r)
  <2>1. PICK r \in Records : Create(d, r)
    BY <1>2
  <2>2. 1 \in 1..MaxVersion
    BY DevicesAssumption, BoundsAssumption
  <2>3. PutEdit(d, r, 1) /\ UNCHANGED <<cycle, resolving, draft>>
    BY <2>1 DEF Create, threadVars
  <2> QED
    BY <1>1, <2>2, <2>3, PutEditBase
<1>3. CASE FinishUpdate(d)
  <2>1. draft[d] \in [rec : Records, ver : 1..MaxVersion]
    BY <1>1, <1>3 DEF FinishUpdate, Drafts
  <2>2. draft[d].rec \in Records /\ draft[d].ver \in 1..MaxVersion
    BY <2>1
  <2>3. /\ PutEdit(d, draft[d].rec, draft[d].ver)
        /\ UNCHANGED <<cycle, resolving>>
        /\ draft' = [draft EXCEPT ![d] = NoDraft]
    BY <1>3 DEF FinishUpdate
  <2>4. draft' \in [Devices -> Drafts]
    BY <1>1, <2>3
  <2> QED
    BY <2>2, <2>3, <2>4, PutEditBase
<1>4. ASSUME \/ \E r \in Records : BeginUpdate(d, r)
             \/ RefuseUpdate(d)
      PROVE  BaseInv'
  <2>1. draft' \in [Devices -> Drafts]
    <3>1. CASE RefuseUpdate(d)
      BY <1>1, <3>1 DEF RefuseUpdate
    <3>2. CASE \E r \in Records : BeginUpdate(d, r)
      <4>1. PICK r \in Records : BeginUpdate(d, r)
        BY <3>2
      <4>2. local[d][r].ver + 1 \in 1..MaxVersion
        BY <4>1, BoundsAssumption DEF BeginUpdate
      <4>3. [rec |-> r, ver |-> local[d][r].ver + 1] \in Drafts
        BY <4>2 DEF Drafts
      <4> QED
        BY <1>1, <4>1, <4>3 DEF BeginUpdate
    <3> QED
      BY <1>4, <3>1, <3>2
  <2>2. UNCHANGED <<envVars, deviceVars, resolving, cycle>>
    BY <1>4 DEF BeginUpdate, RefuseUpdate
  <2>3. DeviceTypes'
    BY <2>1, <2>2 DEF DeviceTypes, envVars, deviceVars
  <2>4. HasPage'
    BY <2>2 DEF HasPage
  <2>5. \A x \in Devices : Queued(x) \subseteq Queued(x)'
    BY <2>2 DEF Queued, deviceVars
  <2> QED
    BY <2>2, <2>3, <2>4, <2>5, ThreadsIdleReal
<1> QED
  BY <1>2, <1>3, <1>4

\* A resolution's steps keep BaseInv.
LEMMA ResolutionBase ==
  ASSUME BaseInv, TypeOK, events \subseteq events', NEW d \in Devices,
         \/ \E c \in conflicts : \E q \in ResolutionEvents(d, c) :
              SendResolution(d, c, q)
         \/ FinishResolution(d) \/ LoseResolution(d)
  PROVE  BaseInv'
<1> USE DEF BaseInv
<1>1. resolving \in [Devices -> SUBSET Resolutions]
  BY DEF DeviceTypes
<1>2. CASE \E c \in conflicts : \E q \in ResolutionEvents(d, c) :
             SendResolution(d, c, q)
  <2>1. PICK c \in conflicts : \E q \in ResolutionEvents(d, c) :
          SendResolution(d, c, q)
    BY <1>2
  <2>2. PICK q \in ResolutionEvents(d, c) : SendResolution(d, c, q)
    BY <2>1
  <2>3. /\ q \in Requests /\ c.rec \in Records
        /\ q.id = lastId + 1 => lastId + 1 \in Nat /\ q.vid \in VersionIds
    BY ResolutionIsRequest DEF DeviceTypes, Requests
  <2>4. [req |-> q, wasBlocked |-> q.rec \in blocked[d]] \in Resolutions
    BY <2>3 DEF Resolutions
  <2>5. resolving' \in [Devices -> SUBSET Resolutions]
    BY <1>1, <2>2, <2>4 DEF SendResolution, Await
  <2>6. UNCHANGED <<deviceVars, draft, cycle>>
    BY <2>2 DEF SendResolution
  <2>7. local[d][c.rec].body \in VersionIds \cup {Null}
    BY <2>3 DEF DeviceTypes, Rows
  <2>8. lastId' \in Nat /\ body' \in [VersionIds -> VersionIds \cup {Null}]
    BY <2>2, <2>3, <2>7 DEF SendResolution, DeviceTypes
  <2>9. DeviceTypes'
    BY <2>5, <2>6, <2>8 DEF DeviceTypes, deviceVars
  <2>10. HasPage'
    BY <2>6 DEF HasPage
  <2>11. \A x \in Devices : Queued(x) \subseteq Queued(x)'
    BY <2>6 DEF Queued, deviceVars
  <2> QED
    BY <2>6, <2>9, <2>10, <2>11, ThreadsIdleReal
<1>3. ASSUME FinishResolution(d) \/ LoseResolution(d) PROVE BaseInv'
  <2>1. resolving' \in [Devices -> SUBSET Resolutions]
    BY <1>1, <1>3 DEF FinishResolution, LoseResolution
  <2>2. UNCHANGED <<lastId, body, outbox, seen, cursor, kept, quarantine,
                    draft, cycle>>
    BY <1>3 DEF FinishResolution, LoseResolution, envVars, deviceVars
  <2>3. blocked' \in [Devices -> SUBSET Records]
    <3>1. blocked \in [Devices -> SUBSET Records]
      BY DEF DeviceTypes
    <3>2. \/ blocked' = blocked
          \/ \E r \in Records : blocked' = [blocked EXCEPT ![d] = @ \ {r}]
      <4>1. CASE LoseResolution(d)
        BY <4>1 DEF LoseResolution, deviceVars
      <4>2. CASE FinishResolution(d)
        <5>1. PICK x \in resolving[d] :
                IF x.wasBlocked /\ x.req.rec \in blocked[d]
                THEN blocked' = [blocked EXCEPT ![d] = @ \ {x.req.rec}]
                ELSE UNCHANGED blocked
          BY <4>2 DEF FinishResolution
        <5>2. blocked[d] \subseteq Records
          BY <3>1
        <5> QED
          BY <5>1, <5>2
      <4> QED
        BY <1>3, <4>1, <4>2
    <3> QED
      BY <3>1, <3>2
  <2>4. local' \in [Devices -> [Records -> Rows]]
    <3>1. CASE UNCHANGED local
      BY <3>1 DEF DeviceTypes
    <3>2. CASE FinishResolution(d) /\ ~UNCHANGED local
      <4>1. PICK x \in resolving[d] :
              local' = [local EXCEPT ![d][x.req.rec].cv = x.req.vid]
        BY <3>2 DEF FinishResolution
      <4>2. x \in Resolutions
        BY <1>1
      <4>3. x.req.rec \in Records /\ x.req.vid \in VersionIds
        BY <4>2 DEF Resolutions, Requests
      <4>4. PICK row \in Rows : row = local[d][x.req.rec]
        BY <4>3 DEF DeviceTypes
      <4>5. PICK v \in VersionIds : v = x.req.vid
        BY <4>3
      <4>6. PICK new : new = [row EXCEPT !.cv = v]
        OBVIOUS
      <4>7. new \in Rows
        BY <4>6, SMT DEF Rows
      <4>8. local' = [local EXCEPT ![d][x.req.rec] = new]
        BY <4>1, <4>3, <4>4, <4>5, <4>6 DEF DeviceTypes
      <4> QED
        BY <4>3, <4>7, <4>8 DEF DeviceTypes
    <3> QED
      BY <1>3, <3>1, <3>2 DEF LoseResolution, deviceVars
  <2>5. DeviceTypes'
    BY <2>1, <2>2, <2>3, <2>4 DEF DeviceTypes
  <2>6. HasPage'
    BY <2>2 DEF HasPage
  <2>7. \A x \in Devices : Queued(x) \subseteq Queued(x)'
    BY <2>2 DEF Queued
  <2> QED
    BY <2>2, <2>5, <2>6, <2>7, ThreadsIdleReal
<1> QED
  BY <1>2, <1>3

\* The upload half's requests keep BaseInv.
LEMMA CycleSends ==
  ASSUME BaseInv, TypeOK, events \subseteq events', NEW c \in Cycles,
         \/ SendPush(c) \/ Pull(c) \/ Accept(c) \/ SkipSeen(c) \/ Decide(c)
         \/ EndCycle(c) \/ AbandonCycle(c)
         \/ \E due \in SUBSET outbox[DeviceOf[c]] : StartCycle(c, due)
  PROVE  BaseInv'
<1> USE DEF BaseInv
<1> DEFINE d == DeviceOf[c]
<1>1. d \in Devices
  BY DevicesAssumption
<1>2. /\ cycle[c].queue \subseteq Queued(d)
      /\ cycle[c].page \subseteq events'
  BY DEF ThreadsReal
<1>3. /\ "push" \in Stages /\ "await" \in Stages /\ "apply" \in Stages
      /\ "check" \in Stages /\ "write" \in Stages /\ "record" \in Stages
  BY DEF Stages
<1>4. CASE SendPush(c)
  <2>1. /\ cycle' = [cycle EXCEPT ![c].pc = "await"]
        /\ UNCHANGED <<lastId, body, deviceVars, draft, resolving>>
    BY <1>4 DEF SendPush, envVars
  <2>2. Moved(c, "await", cycle[c].after, cycle[c].queue, cycle[c].page,
              cycle[c].plan)
    BY <1>3, <2>1, StageMoves
  <2> QED
    BY <1>2, <2>1, <2>2, ThreadStepBase
<1>5. CASE Pull(c)
  <2>1. /\ cycle' = [cycle EXCEPT ![c].pc = "apply",
                                  ![c].page = Page(cycle[c].after)]
        /\ UNCHANGED <<lastId, body, deviceVars, draft, resolving>>
    BY <1>5 DEF Pull, envVars
  <2>2. Moved(c, "apply", cycle[c].after, cycle[c].queue,
              Page(cycle[c].after), cycle[c].plan)
    BY <2>1, PullMoves
  <2>3. Page(cycle[c].after) \subseteq events'
    BY DEF Page
  <2> QED
    BY <1>2, <2>1, <2>2, <2>3, ThreadStepBase
<1>6. CASE Accept(c)
  <2>1. /\ cycle' = [cycle EXCEPT ![c].pc = "check"] /\ cycle[c].page # {}
        /\ UNCHANGED <<lastId, body, deviceVars, draft, resolving>>
    BY <1>6 DEF Accept, envVars
  <2>2. Moved(c, "check", cycle[c].after, cycle[c].queue, cycle[c].page,
              cycle[c].plan)
    BY <1>3, <2>1, StageMoves
  <2> QED
    BY <1>2, <2>1, <2>2, ThreadStepBase
<1>7. CASE SkipSeen(c)
  <2>1. /\ cycle' = NextEvent(c)
        /\ UNCHANGED <<lastId, body, deviceVars, draft, resolving>>
    BY <1>7 DEF SkipSeen, envVars
  <2>2. Moved(c, "apply", cycle[c].after, cycle[c].queue,
              cycle[c].page \ {Current(c)}, cycle[c].plan)
    BY <2>1, NextEventMoves
  <2>3. cycle[c].page \ {Current(c)} \subseteq events'
    BY <1>2
  <2> QED
    BY <1>2, <2>1, <2>2, <2>3, ThreadStepBase
<1>8. CASE Decide(c)
  <2>1. PICK plan : plan = PlanFor(d, Current(c))
    OBVIOUS
  <2>2. PICK s \in {"record", "write"} :
          cycle' = [cycle EXCEPT ![c].plan = plan, ![c].pc = s]
    BY <1>8, <2>1 DEF Decide
  <2>3. UNCHANGED <<lastId, body, deviceVars, draft, resolving>>
    BY <1>8 DEF Decide, envVars
  <2>4. cycle[c].page # {}
    BY <1>8 DEF Decide, HasPage
  <2>5. Current(c).req.rec \in Records
    BY <2>4, CurrentIs DEF LogEvents, Requests
  <2>6. local[d][Current(c).req.rec].body \in VersionIds \cup {Null}
    BY <1>1, <2>5 DEF DeviceTypes, Rows
  <2>7. plan \in Plans
    BY <2>1, <2>6 DEF PlanFor, Plans
  <2>8. s \in Stages
    BY <1>3
  <2>9. Moved(c, s, cycle[c].after, cycle[c].queue, cycle[c].page, plan)
    BY <2>2, <2>7, <2>8, DecideMoves
  <2> QED
    BY <1>2, <2>3, <2>4, <2>9, ThreadStepBase
<1>9. CASE EndCycle(c) \/ AbandonCycle(c)
  <2>1. /\ cycle' = [cycle EXCEPT ![c] = Idle]
        /\ UNCHANGED <<lastId, body, deviceVars, draft, resolving>>
    BY <1>9 DEF EndCycle, AbandonCycle, envVars
  <2>2. Moved(c, "idle", 0, {}, {}, NoPlan)
    BY <2>1, EndMoves
  <2> QED
    BY <2>1, <2>2, ThreadStepBase
<1>10. CASE \E due \in SUBSET outbox[d] : StartCycle(c, due)
  <2>1. PICK due \in SUBSET outbox[d] : StartCycle(c, due)
    BY <1>10
  <2> DEFINE sent == {p \in outbox[d] : p.state = "pending"} \cup due
  <2> DEFINE Q == {o.req : o \in sent}
  <2>2. Q \subseteq Queued(d)
    BY DEF Queued
  <2>3. Q \subseteq Requests
    BY <1>1 DEF DeviceTypes, Entries
  <2>4. cursor[d] \in Nat
    BY <1>1 DEF DeviceTypes
  <2>5. cycle' = [cycle EXCEPT ![c] =
                    [pc |-> "push", after |-> cursor[d], page |-> {},
                     plan |-> NoPlan, queue |-> Q]]
    BY <2>1 DEF StartCycle
  <2> HIDE DEF Q
  <2>6. PICK t : t = [pc |-> "push", after |-> cursor[d], page |-> {},
                      plan |-> NoPlan, queue |-> Q]
    OBVIOUS
  <2>7. /\ t \in CycleStates /\ t.pc = "push" /\ t.after = cursor[d]
        /\ t.queue = Q /\ t.page = {} /\ t.plan = NoPlan
    BY <1>3, <2>3, <2>4, <2>6 DEF CycleStates, Plans, NoPlan
  <2>8. cycle' = [cycle EXCEPT ![c] = t]
    BY <2>5, <2>6
  <2>9. Moved(c, "push", cursor[d], Q, {}, NoPlan)
    BY <2>7, <2>8, MovedTo
  <2>10. UNCHANGED <<lastId, body, deviceVars, draft, resolving>>
    BY <2>1 DEF StartCycle, envVars
  <2> QED
    BY <2>2, <2>9, <2>10, ThreadStepBase
<1> QED
  BY <1>4, <1>5, <1>6, <1>7, <1>8, <1>9, <1>10

\* The steps of the upload that write to the outbox.
LEMMA CycleMarks ==
  ASSUME BaseInv, TypeOK, events \subseteq events', NEW c \in Cycles,
         \/ MarkSent(c) \/ MarkConflicted(c)
         \/ PushRefused(c) \/ PushAborted(c) \/ PushLost(c)
  PROVE  BaseInv'
<1> USE DEF BaseInv
<1> DEFINE d == DeviceOf[c]
<1>1. d \in Devices
  BY DevicesAssumption
<1>2. /\ cycle[c].queue \subseteq Queued(d)
      /\ cycle[c].page \subseteq events'
  BY DEF ThreadsReal
<1>3. cycle[c].queue # {}
  BY DEF MarkSent, MarkConflicted, PushRefused, PushAborted, PushLost, Sending
<1>4. \/ MarkSent(c) \/ MarkConflicted(c)
      \/ MarkFailed(c)
  BY DEF PushRefused, PushAborted, PushLost
<1>5. \E n \in Nat, state \in {"pending", "retry", "manual", "sent", "conflict"} :
        outbox' = Mark(d, NextToSend(c).id, state, n)
  <2>1. CASE MarkFailed(c)
    BY <1>2, <1>3, <2>1, MarkFailedTypes
  <2>2. CASE MarkSent(c) \/ MarkConflicted(c)
    <3>1. PICK n \in Nat, e \in events :
            /\ e.req = NextToSend(c)
            /\ outbox' = Mark(d, e.req.id,
                              IF e.applied THEN "sent" ELSE "conflict", n)
      BY <1>2, <2>2, MarkAnsweredTypes
    <3>2. CASE e.applied
      BY <3>1, <3>2
    <3>3. CASE ~e.applied
      BY <3>1, <3>3
    <3> QED
      BY <3>2, <3>3
  <2> QED
    BY <1>4, <2>1, <2>2
<1>6. PICK n \in Nat, state \in {"pending", "retry", "manual", "sent", "conflict"} :
        outbox' = Mark(d, NextToSend(c).id, state, n)
  BY <1>5
<1>7. /\ outbox' \in [Devices -> SUBSET Entries]
      /\ \A x \in Devices : Queued(x)' = Queued(x)
  BY <1>1, <1>6, MarkMarks, MarkKeepsQueued
<1>8. /\ cycle' = SentOne(c)
      /\ UNCHANGED <<lastId, body, seen, cursor, kept, quarantine, draft,
                     resolving>>
  BY <1>4 DEF MarkSent, MarkConflicted, MarkFailed, envVars
<1>9. Moved(c, "push", cycle[c].after, cycle[c].queue \ {NextToSend(c)},
            cycle[c].page, cycle[c].plan)
  BY <1>8, SentMoves
<1>10. NextToSend(c) \in Requests
  BY <1>3, NextToSendIs
<1>11. /\ NextToSend(c).rec \in Records
       /\ NextToSend(c).base \in VersionIds \cup {Null}
  BY <1>10 DEF Requests
<1>12. blocked' \in [Devices -> SUBSET Records]
  <2>1. blocked \in [Devices -> SUBSET Records]
    BY DEF DeviceTypes
  <2>2. \/ blocked' = blocked
        \/ blocked' = [blocked EXCEPT ![d] = @ \cup {NextToSend(c).rec}]
    BY <1>4 DEF MarkSent, MarkConflicted, MarkFailed
  <2> QED
    BY <1>11, <2>1, <2>2
<1>13. local' \in [Devices -> [Records -> Rows]]
  <2>1. local \in [Devices -> [Records -> Rows]]
    BY DEF DeviceTypes
  <2>2. PICK r \in Records, b \in VersionIds \cup {Null} :
          r = NextToSend(c).rec /\ b = NextToSend(c).base
    BY <1>11
  <2>3. local' = local \/ local' = [local EXCEPT ![d][r].cv = b]
    BY <1>4, <2>2 DEF MarkSent, MarkConflicted, MarkFailed
  <2>4. PICK row \in Rows : row = local[d][r]
    BY <1>1, <2>1
  <2>5. PICK new : new = [row EXCEPT !.cv = b]
    OBVIOUS
  <2>6. new \in Rows
    BY <2>5, SMT DEF Rows
  <2>7. local' = local \/ local' = [local EXCEPT ![d][r] = new]
    BY <1>1, <2>1, <2>3, <2>4, <2>5
  <2> QED
    BY <1>1, <2>1, <2>6, <2>7
<1>14. DeviceTypes'
  BY <1>7, <1>8, <1>9, <1>12, <1>13 DEF DeviceTypes, Moved
<1>15. HasPage'
  BY <1>9, MovedHasPage
<1>16. ThreadsReal'
  <2>1. cycle[c].queue \ {NextToSend(c)} \subseteq Queued(d)'
    BY <1>1, <1>2, <1>7
  <2>2. \A x \in Devices : Queued(x) \subseteq Queued(x)'
    BY <1>7
  <2> QED
    BY <1>2, <1>9, <2>1, <2>2, ThreadsStayReal
<1> QED
  BY <1>14, <1>15, <1>16

\* The steps of the download that write to the device.
LEMMA CycleApplies ==
  ASSUME BaseInv, TypeOK, events \subseteq events', NEW c \in Cycles,
         \/ Quarantine(c) \/ WriteRecord(c) \/ WriteConflict(c)
         \/ RecordEvent(c)
  PROVE  BaseInv'
<1> USE DEF BaseInv
<1> DEFINE d == DeviceOf[c]
<1> DEFINE e == Current(c)
<1>1. d \in Devices
  BY DevicesAssumption
<1>2. /\ cycle[c].queue \subseteq Queued(d)
      /\ cycle[c].page \subseteq events'
  BY DEF ThreadsReal
<1>3. cycle[c].page # {}
  BY DEF Quarantine, WriteRecord, WriteConflict, RecordEvent, HasPage
<1>4. e \in LogEvents
  BY <1>3, CurrentIs
<1>5. /\ e.cursor \in Nat /\ e.req \in Requests
      /\ e.req.rec \in Records /\ e.req.id \in EventIds
      /\ e.req.vid \in VersionIds /\ e.req.ver \in 1..MaxVersion
  BY <1>4 DEF LogEvents, Requests
<1>6. "record" \in Stages
  BY DEF Stages
<1>7. cursor[d] \in Nat
  BY <1>1 DEF DeviceTypes
<1>8. Max({cursor[d], e.cursor}) \in Nat
  BY <1>5, <1>7, MaxOfTwo
<1> HIDE DEF e
<1>9. UNCHANGED <<lastId, body, outbox, blocked, draft, resolving>>
  BY DEF Quarantine, WriteRecord, WriteConflict, RecordEvent, envVars
<1>10. PICK s \in {"apply", "record"}, P \in SUBSET cycle[c].page :
         /\ Moved(c, s, cycle[c].after, cycle[c].queue, P, cycle[c].plan)
         /\ s = "record" => P # {}
  <2>1. CASE Quarantine(c) \/ RecordEvent(c)
    <3>1. cycle' = NextEvent(c)
      BY <2>1 DEF Quarantine, RecordEvent
    <3>2. cycle[c].page \ {Current(c)} \in SUBSET cycle[c].page
      OBVIOUS
    <3> QED
      BY <3>1, <3>2, NextEventMoves
  <2>2. CASE WriteRecord(c) \/ WriteConflict(c)
    <3>1. cycle' = [cycle EXCEPT ![c].pc = "record"]
      BY <2>2 DEF WriteRecord, WriteConflict
    <3> QED
      BY <1>3, <1>6, <3>1, StageMoves
  <2> QED
    BY <2>1, <2>2
<1>11. cursor' \in [Devices -> Nat]
  <2>1. cursor' = cursor
        \/ cursor' = [cursor EXCEPT ![d] = Max({cursor[d], e.cursor})]
    BY DEF Quarantine, WriteRecord, WriteConflict, RecordEvent, e
  <2> QED
    BY <1>8, <2>1 DEF DeviceTypes
<1>12. seen' \in [Devices -> SUBSET EventIds]
  <2>1. seen' = seen \/ seen' = [seen EXCEPT ![d] = @ \cup {e.req.id}]
    BY DEF Quarantine, WriteRecord, WriteConflict, RecordEvent, e
  <2> QED
    BY <1>5, <2>1 DEF DeviceTypes
<1>13. quarantine' \in [Devices -> SUBSET Nat]
  <2>1. quarantine' = quarantine
        \/ quarantine' = [quarantine EXCEPT ![d] = @ \cup {e.cursor}]
    BY DEF Quarantine, WriteRecord, WriteConflict, RecordEvent, e
  <2> QED
    BY <1>5, <2>1 DEF DeviceTypes
<1>14. kept' \in [Devices -> SUBSET KeptBodies]
  <2>1. PICK k : k = [rec |-> e.req.rec, mine |-> cycle[c].plan.mine,
                      remote |-> e.req.vid]
    OBVIOUS
  <2>2. cycle[c].plan.mine \in VersionIds \cup {Null}
    BY DEF DeviceTypes, CycleStates, Plans
  <2>3. k \in KeptBodies
    BY <1>5, <2>1, <2>2 DEF KeptBodies
  <2>4. kept' = kept \/ kept' = [kept EXCEPT ![d] = @ \cup {k}]
    BY <2>1 DEF Quarantine, WriteRecord, WriteConflict, RecordEvent, e
  <2> QED
    BY <2>3, <2>4 DEF DeviceTypes
<1>15. local' \in [Devices -> [Records -> Rows]]
  <2>1. PICK row : row = [ver |-> e.req.ver, body |-> body[e.req.vid],
                          cv |-> e.req.vid]
    OBVIOUS
  <2>2. row \in Rows
    BY <1>5, <2>1, BoundsAssumption DEF Rows, DeviceTypes
  <2>3. local' = local \/ local' = [local EXCEPT ![d][e.req.rec] = row]
    BY <2>1 DEF Quarantine, WriteRecord, WriteConflict, RecordEvent, e
  <2>4. PICK r \in Records : r = e.req.rec
    BY <1>5
  <2>5. local \in [Devices -> [Records -> Rows]]
    BY DEF DeviceTypes
  <2>6. CASE local' = [local EXCEPT ![d][r] = row]
    BY <1>1, <2>2, <2>5, <2>6
  <2> QED
    BY <2>3, <2>4, <2>5, <2>6
<1>16. DeviceTypes'
  BY <1>9, <1>10, <1>11, <1>12, <1>13, <1>14, <1>15 DEF DeviceTypes, Moved
<1>17. HasPage'
  BY <1>10, MovedHasPage
<1>18. \A x \in Devices : Queued(x)' = Queued(x)
  BY <1>9 DEF Queued
<1>19. ThreadsReal'
  <2>1. cycle[c].queue \subseteq Queued(d)' /\ P \subseteq events'
    BY <1>1, <1>2, <1>18
  <2> QED
    BY <1>10, <1>18, <2>1, ThreadsStayReal
<1> QED
  BY <1>16, <1>17, <1>19

\* Every step keeps BaseInv and is a step of the cloud, or none.
LEMMA BaseStep ==
  ASSUME BaseInv, TypeOK, [SystemNext]_sysVars
  PROVE  BaseInv' /\ [Next]_vars
<1>1. CASE UNCHANGED sysVars
  <2>1. /\ UNCHANGED <<deviceVars, threadVars, lastId, body, events>>
        /\ UNCHANGED vars
    BY <1>1 DEF sysVars, envVars, vars
  <2>2. DeviceTypes' /\ HasPage'
    BY <2>1 DEF BaseInv, DeviceTypes, HasPage, deviceVars, threadVars
  <2>3. \A x \in Devices : Queued(x) \subseteq Queued(x)'
    BY <2>1 DEF Queued, deviceVars
  <2>4. ThreadsReal'
    BY <2>1, <2>3, ThreadsIdleReal DEF BaseInv, threadVars
  <2> QED
    BY <2>1, <2>2, <2>4 DEF BaseInv
<1>2. CASE SystemNext
  <2>1. [Next]_vars /\ events \subseteq events'
    BY <1>2, CloudSteps, LogGrows DEF BaseInv
  <2>2. CASE CloudCommit \/ CloudRollback
    <3>1. UNCHANGED <<deviceVars, threadVars, lastId, body>>
      BY <2>2 DEF CloudCommit, CloudRollback, envVars
    <3>2. DeviceTypes' /\ HasPage'
      BY <3>1 DEF BaseInv, DeviceTypes, HasPage, deviceVars, threadVars
    <3>3. \A x \in Devices : Queued(x) \subseteq Queued(x)'
      BY <3>1 DEF Queued, deviceVars
    <3>4. ThreadsReal'
      BY <2>1, <3>1, <3>3, ThreadsIdleReal DEF BaseInv, threadVars
    <3> QED
      BY <2>1, <3>2, <3>4 DEF BaseInv
  <2>3. ASSUME NEW d \in Devices, DeviceStep(d) PROVE BaseInv'
    BY <2>1, <2>3, EditBase, ResolutionBase DEF DeviceStep
  <2>4. ASSUME NEW c \in Cycles,
               \/ CycleStep(c) \/ CycleFault(c)
               \/ \E due \in SUBSET outbox[DeviceOf[c]] : StartCycle(c, due)
        PROVE  BaseInv'
    BY <2>1, <2>4, CycleSends, CycleMarks, CycleApplies
       DEF CycleStep, CycleFault
  <2> QED
    BY <1>2, <2>1, <2>2, <2>3, <2>4 DEF SystemNext
<1> QED
  BY <1>1, <1>2

\* BaseInv holds at the start.
LEMMA BaseInit ==
  ASSUME SystemInit
  PROVE  BaseInv
<1>1. NoRecord \in Rows
  BY BoundsAssumption DEF NoRecord, Rows
<1>2. Idle \in CycleStates /\ Idle.pc = "idle" /\ Idle.queue = {} /\ Idle.page = {}
  BY IdleIs
<1>3. NoDraft \in Drafts
  BY DEF Drafts
<1> HIDE DEF Idle, NoRecord, NoDraft
<1>4. cycle \in [Cycles -> CycleStates] /\ \A c \in Cycles : cycle[c] = Idle
  BY <1>2 DEF SystemInit
<1>5. DeviceTypes
  BY <1>1, <1>3, <1>4 DEF SystemInit, DeviceTypes
<1> QED
  BY <1>2, <1>4, <1>5 DEF BaseInv, HasPage, ThreadsReal

\* The devices use the cloud as its module describes it: every theorem about
\* SyncCloud holds of the whole system (SupabaseCoordinator's calls).
THEOREM CloudIsSyncCloud == SystemSpec => Spec /\ [](BaseInv /\ CloudInv)
<1>1. SystemInit => BaseInv /\ CloudInv
  BY BaseInit, InitInv DEF SystemInit
<1>2. BaseInv /\ CloudInv /\ [SystemNext]_sysVars
        => BaseInv' /\ CloudInv' /\ [Next]_vars
  <2>1. CloudInv => TypeOK
    BY DEF CloudInv
  <2> QED
    BY <2>1, BaseStep, NextInv
<1>3. SystemInit => Init
  BY DEF SystemInit
<1> QED
  BY <1>1, <1>2, <1>3, PTL DEF SystemSpec, Spec

-----------------------------------------------------------------------------
(* Identifiers and the truth of the outbox                                 *)

IdInv == Identified /\ QueuedOnce /\ RecordedOnce /\ OutboxTruthful

\* Where a request can be.
LEMMA MadeIs ==
  ASSUME NEW q
  PROVE  q \in Made <=>
           \/ \E d \in Devices : q \in Queued(d)
           \/ \E t \in open : t.req = q
           \/ \E e \in events : e.req = q
           \/ \E d \in Devices : \E x \in resolving[d] : x.req = q
<1>1. q \in UNION {Queued(d) : d \in Devices}
        <=> \E d \in Devices : q \in Queued(d)
  OBVIOUS
<1>2. q \in {t.req : t \in open} <=> \E t \in open : t.req = q
  OBVIOUS
<1>3. q \in {e.req : e \in events} <=> \E e \in events : e.req = q
  OBVIOUS
<1>4. q \in UNION {{x.req : x \in resolving[d]} : d \in Devices}
        <=> \E d \in Devices : \E x \in resolving[d] : x.req = q
  OBVIOUS
<1> QED
  BY <1>1, <1>2, <1>3, <1>4, Zenon DEF Made

\* The same after a step.
LEMMA MadeIsNext ==
  ASSUME NEW q, q \in Made'
  PROVE  \/ \E d \in Devices : q \in Queued(d)'
         \/ \E t \in open' : t.req = q
         \/ \E e \in events' : e.req = q
         \/ \E d \in Devices : \E x \in resolving'[d] : x.req = q
<1>1. q \in UNION {Queued(d)' : d \in Devices}
        => \E d \in Devices : q \in Queued(d)'
  OBVIOUS
<1>2. q \in {t.req : t \in open'} => \E t \in open' : t.req = q
  OBVIOUS
<1>3. q \in {e.req : e \in events'} => \E e \in events' : e.req = q
  OBVIOUS
<1>4. q \in UNION {{x.req : x \in resolving'[d]} : d \in Devices}
        => \E d \in Devices : \E x \in resolving'[d] : x.req = q
  OBVIOUS
<1> QED
  BY <1>1, <1>2, <1>3, <1>4, Zenon DEF Made

\* A transaction is opened for one request.
LEMMA OpenDoes ==
  ASSUME TypeOK, NEW q \in Requests, NEW branch \in VersionIds \cup {Null},
         OpenTransaction(q, branch)
  PROVE  \E t \in Transactions :
           /\ open' = open \cup {t}
           /\ t.req = q /\ t.cursor = nextCursor + 1
           /\ t.applied = FollowsHead(q)
<1>1. PICK t : t = [req |-> q, cursor |-> nextCursor + 1,
                    applied |-> FollowsHead(q), settles |-> branch]
  OBVIOUS
<1>2. FollowsHead(q) \in BOOLEAN
  BY DEF FollowsHead
<1>3. nextCursor + 1 \in Nat
  BY DEF TypeOK
<1>4. t \in Transactions
  BY <1>1, <1>2, <1>3, Zenon DEF Transactions
<1>5. t.req = q /\ t.cursor = nextCursor + 1
  BY <1>1
<1>6. t.applied = FollowsHead(q)
  BY <1>1, Zenon
<1> QED
  BY <1>1, <1>4, <1>5, <1>6, Zenon DEF OpenTransaction

\* A commit turns a transaction into an event.
LEMMA CommitDoes ==
  ASSUME TypeOK, NEW t \in open, Commit(t)
  PROVE  \E e \in LogEvents :
           /\ events' = events \cup {e} /\ open' = open \ {t}
           /\ e.req = t.req /\ e.cursor = t.cursor
           /\ e.applied = t.applied
<1>1. t \in Transactions
  BY DEF TypeOK
<1>2. PICK e : e = [req |-> t.req, applied |-> t.applied, cursor |-> t.cursor]
  OBVIOUS
<1>3. e \in LogEvents
  BY <1>1, <1>2 DEF Transactions, LogEvents
<1>4. e.req = t.req /\ e.cursor = t.cursor
  BY <1>2
<1>5. e.applied = t.applied
  BY <1>2, Zenon
<1> QED
  BY <1>2, <1>3, <1>4, <1>5, Zenon DEF Commit

\* A push: one more transaction, of a request of the device.
LEMMA SendPushDoes ==
  ASSUME BaseInv, CloudInv, NEW c \in Cycles, SendPush(c)
  PROVE  \E t \in Transactions :
           /\ t.req = NextToSend(c) /\ t.req \in Queued(DeviceOf[c])
           /\ open' = open \cup {t}
           /\ \A u \in open : u.req.rec # t.req.rec /\ u.req.id # t.req.id
           /\ ~Recorded(t.req.id)
           /\ t.cursor = nextCursor + 1 /\ nextCursor' = nextCursor + 1
           /\ UNCHANGED <<events, heads, conflicts>>
<1>1. cycle[c].queue # {}
  BY DEF SendPush, Sending
<1>2. NextToSend(c) \in cycle[c].queue /\ NextToSend(c) \in Requests
  BY <1>1, NextToSendIs DEF BaseInv
<1>3. NextToSend(c) \in Queued(DeviceOf[c])
  BY <1>2 DEF BaseInv, ThreadsReal
<1>4. /\ LocksFree(NextToSend(c)) /\ ~Recorded(NextToSend(c).id)
      /\ OpenTransaction(NextToSend(c), Null)
      /\ UNCHANGED <<events, heads, conflicts>>
  BY DEF SendPush, Push
<1>5. nextCursor' = nextCursor + 1
  BY <1>4 DEF OpenTransaction
<1>6. PICK t \in Transactions :
        /\ open' = open \cup {t}
        /\ t.req = NextToSend(c) /\ t.cursor = nextCursor + 1
  BY <1>2, <1>4, OpenDoes DEF CloudInv
<1> QED
  BY <1>3, <1>4, <1>5, <1>6 DEF LocksFree

\* A resolution: a transaction whose request follows the head, or a settled
\* conflict for a request that is on the record's line.
LEMMA SendResolutionDoes ==
  ASSUME BaseInv, CloudInv, NEW d \in Devices, NEW c \in conflicts,
         NEW q \in ResolutionEvents(d, c), SendResolution(d, c, q)
  PROVE  /\ UNCHANGED <<events, heads>>
         /\ \/ \E t \in Transactions :
                 /\ t.req = q /\ t.applied
                 /\ open' = open \cup {t}
                 /\ \A u \in open : u.req.rec # q.rec /\ u.req.id # q.id
                 /\ ~Recorded(q.id)
                 /\ t.cursor = nextCursor + 1 /\ nextCursor' = nextCursor + 1
            \/ /\ UNCHANGED <<open, nextCursor>>
               /\ \E e \in events : e.req = q /\ e.applied
<1>1. q \in Requests
  BY ResolutionIsRequest DEF CloudInv, BaseInv
<1>2. c.incoming \in VersionIds \cup {Null}
  BY DEF CloudInv, TypeOK, Conflicts
<1>3. CASE Resolve(c, q)
  <2>1. /\ LocksFree(q) /\ ~Recorded(q.id) /\ FollowsHead(q)
        /\ OpenTransaction(q, c.incoming)
        /\ UNCHANGED <<events, heads>>
    BY <1>3 DEF Resolve
  <2>2. nextCursor' = nextCursor + 1
    BY <2>1 DEF OpenTransaction
  <2>3. PICK t \in Transactions :
          /\ open' = open \cup {t}
          /\ t.req = q /\ t.cursor = nextCursor + 1
          /\ t.applied = FollowsHead(q)
    BY <1>1, <1>2, <2>1, OpenDoes DEF CloudInv
  <2>4. t.applied
    BY <2>1, <2>3, Zenon
  <2> QED
    BY <2>1, <2>2, <2>3, <2>4 DEF LocksFree
<1>4. CASE Recorded(q.id) /\ Answer(q).req = q /\ ResolveWithHead(c, Answer(q))
  <2>1. Answer(q) \in events
    BY <1>4, AnswerIs
  <2> QED
    BY <1>4, <2>1 DEF ResolveWithHead
<1> QED
  BY <1>3, <1>4 DEF SendResolution

\* A draw: one more request, under the next identifier.
Draws(q) == /\ q \in Requests /\ q.id = lastId + 1 /\ q.vid = lastId + 1
            /\ lastId' = lastId + 1 /\ Made' \subseteq Made \cup {q}

\* An edit makes one request, with an identifier nobody has.
LEMMA MadeByEdit ==
  ASSUME BaseInv, NEW d \in Devices, NEW r \in Records,
         NEW ver \in 1..MaxVersion, PutEdit(d, r, ver), UNCHANGED resolving
  PROVE  \E q \in Requests, o \in Entries :
           /\ Draws(q) /\ q.rec = r /\ q.ver = ver
           /\ o.req = q /\ o.state = "pending"
           /\ outbox'[d] = outbox[d] \cup {o}
           /\ \A x \in Devices \ {d} : outbox'[x] = outbox[x]
           /\ UNCHANGED vars
<1>1. PICK q \in Requests, o \in Entries :
           /\ q.id = lastId + 1 /\ q.vid = lastId + 1 /\ q.rec = r /\ q.ver = ver
           /\ o.req = q /\ o.state = "pending"
           /\ lastId' = lastId + 1
           /\ outbox'[d] = outbox[d] \cup {o}
           /\ \A x \in Devices \ {d} : outbox'[x] = outbox[x]
  BY PutEditDoes DEF BaseInv
<1>2. UNCHANGED vars /\ UNCHANGED <<events, open>>
  BY DEF PutEdit, vars
<1>3. \A x \in Devices : Queued(x)' \subseteq Queued(x) \cup {q}
  BY <1>1 DEF Queued
<1>4. ASSUME NEW p \in Made' PROVE p \in Made \cup {q}
  <2>1. \/ \E x \in Devices : p \in Queued(x)'
        \/ \E t \in open : t.req = p
        \/ \E e \in events : e.req = p
        \/ \E x \in Devices : \E y \in resolving[x] : y.req = p
    BY <1>2, <1>4, MadeIsNext
  <2> QED
    BY <1>3, <2>1, MadeIs
<1> QED
  BY <1>1, <1>2, <1>4 DEF Draws

\* A step that neither edits nor resolves draws nothing: what it sends,
\* records or forgets is a request already made.
LEMMA MadeByOther ==
  ASSUME BaseInv, CloudInv,
         \A x \in Devices : Queued(x)' = Queued(x),
         \A x \in Devices : resolving'[x] \subseteq resolving[x],
         \/ UNCHANGED <<open, events>>
         \/ \E c \in Cycles : SendPush(c)
         \/ \E t \in open : Commit(t) \/ Rollback(t)
  PROVE  Made' \subseteq Made
<1> SUFFICES ASSUME NEW p \in Made' PROVE p \in Made
  OBVIOUS
<1>1. \/ \E x \in Devices : p \in Queued(x)
      \/ \E t \in open' : t.req = p
      \/ \E e \in events' : e.req = p
      \/ \E x \in Devices : \E y \in resolving[x] : y.req = p
  BY MadeIsNext
<1>2. CASE UNCHANGED <<open, events>>
  BY <1>1, <1>2, MadeIs
<1>3. CASE \E c \in Cycles : SendPush(c)
  <2>1. PICK c \in Cycles : SendPush(c)
    BY <1>3
  <2>2. PICK t \in Transactions :
          /\ t.req \in Queued(DeviceOf[c])
          /\ open' = open \cup {t} /\ events' = events
    BY <2>1, SendPushDoes
  <2>3. DeviceOf[c] \in Devices
    BY DevicesAssumption
  <2> QED
    BY <1>1, <2>2, <2>3, MadeIs
<1>4. CASE \E t \in open : Commit(t)
  <2>1. PICK t \in open : Commit(t)
    BY <1>4
  <2>2. PICK e \in LogEvents :
          /\ events' = events \cup {e} /\ open' = open \ {t}
          /\ e.req = t.req
    BY <2>1, CommitDoes DEF CloudInv
  <2> QED
    BY <1>1, <2>2, MadeIs
<1>5. CASE \E t \in open : Rollback(t)
  <2>1. open' \subseteq open /\ events' = events
    BY <1>5 DEF Rollback
  <2> QED
    BY <1>1, <2>1, MadeIs
<1> QED
  BY <1>2, <1>3, <1>4, <1>5

\* A resolution makes at most one request, and draws it like an edit.
LEMMA MadeByResolution ==
  ASSUME BaseInv, CloudInv, Identified,
         NEW d \in Devices, NEW c \in conflicts,
         NEW q \in ResolutionEvents(d, c), SendResolution(d, c, q)
  PROVE  /\ \A x \in Devices : Queued(x)' = Queued(x)
         /\ \/ q \in Queued(d) /\ lastId' = lastId /\ Made' \subseteq Made
            \/ Draws(q)
<1>1. UNCHANGED <<outbox, events>>
      /\ resolving' = [resolving EXCEPT ![d] =
           {[req |-> q, wasBlocked |-> q.rec \in blocked[d]]}]
  BY SendResolutionDoes DEF SendResolution, deviceVars, Await
<1>2. \A x \in Devices : Queued(x)' = Queued(x)
  BY <1>1 DEF Queued
<1>3. \A t \in open' : t \in open \/ t.req = q
  BY SendResolutionDoes
<1>4. \A x \in Devices : \A y \in resolving'[x] :
        y \in resolving[x] \/ y.req = q
  BY <1>1 DEF BaseInv, DeviceTypes
<1>5. Made' \subseteq Made \cup {q}
  <2> SUFFICES ASSUME NEW p \in Made' PROVE p \in Made \cup {q}
    OBVIOUS
  <2>1. \/ \E x \in Devices : p \in Queued(x)'
        \/ \E t \in open' : t.req = p
        \/ \E e \in events' : e.req = p
        \/ \E x \in Devices : \E y \in resolving'[x] : y.req = p
    BY MadeIsNext
  <2> QED
    BY <1>1, <1>2, <1>3, <1>4, <2>1, MadeIs
<1>6. q \in Requests
  BY ResolutionIsRequest DEF CloudInv, BaseInv
<1>7. IF q.id = lastId + 1 THEN lastId' = q.id ELSE UNCHANGED lastId
  BY DEF SendResolution
<1>8. CASE \E o \in outbox[d] : o.req = q
  <2>1. q \in Queued(d)
    BY <1>8 DEF Queued
  <2>2. q \in Made
    BY <2>1, MadeIs
  <2>3. q.id <= lastId /\ lastId \in Nat /\ q.id \in Nat
    BY <1>6, <2>2, DevicesAssumption
       DEF Identified, BaseInv, DeviceTypes, Requests
  <2>4. lastId' = lastId
    BY <1>7, <2>3
  <2> QED
    BY <1>2, <1>5, <2>1, <2>2, <2>4
<1>9. CASE q.id = lastId + 1 /\ q.vid = lastId + 1
  BY <1>2, <1>5, <1>6, <1>7, <1>9 DEF Draws
<1> QED
  BY <1>8, <1>9, ResolutionIsRequest DEF CloudInv, BaseInv

\* Whatever was made is a request.
LEMMA MadeAreRequests ==
  ASSUME DeviceTypes, TypeOK
  PROVE  Made \subseteq Requests
<1>1. \A d \in Devices : Queued(d) \subseteq Requests
  BY DEF Queued, DeviceTypes, Entries
<1>2. \A t \in open : t.req \in Requests
  BY DEF TypeOK, Transactions
<1>3. \A e \in events : e.req \in Requests
  BY DEF TypeOK
<1>4. \A d \in Devices : \A x \in resolving[d] : x.req \in Requests
  BY DEF DeviceTypes, Resolutions
<1> QED
  BY <1>1, <1>2, <1>3, <1>4, MadeIs

\* Identifiers stay unique when nothing is made.
LEMMA IdentifiedKept ==
  ASSUME Identified, Made' \subseteq Made, lastId' = lastId
  PROVE  Identified'
BY DEF Identified

\* They stay unique when one is drawn.
LEMMA IdentifiedDraws ==
  ASSUME Identified, Made \subseteq Requests, lastId \in Nat, NEW q, Draws(q)
  PROVE  Identified' /\ \A p \in Made : p.id # q.id /\ p.vid # q.vid
<1>1. \A p \in Made : p.id \in Nat
  BY DevicesAssumption DEF Requests
<1>2. \A p \in Made : p.vid = p.id /\ p.id <= lastId
  BY DEF Identified
<1>3. \A p \in Made' : p \in Made \/ p = q
  BY DEF Draws
<1>4. q.id = lastId + 1 /\ q.vid = lastId + 1 /\ lastId' = lastId + 1
  BY DEF Draws
<1> QED
  BY <1>1, <1>2, <1>3, <1>4 DEF Identified

\* The log and the open transactions name a request once.
LEMMA RecordedOnceStep ==
  ASSUME CloudInv, RecordedOnce, [Next]_vars
  PROVE  RecordedOnce'
<1>1. TypeOK /\ LocksHeld
  BY DEF CloudInv
<1>2. ASSUME NEW q \in Requests, NEW b \in VersionIds \cup {Null},
             ~Recorded(q.id), OpenTransaction(q, b), UNCHANGED events
      PROVE  RecordedOnce'
  <2>1. PICK t \in Transactions : open' = open \cup {t} /\ t.req = q
    BY <1>1, <1>2, OpenDoes
  <2> QED
    BY <1>2, <2>1 DEF RecordedOnce, Recorded
<1>3. ASSUME NEW q \in Requests, Push(q) PROVE RecordedOnce'
  BY <1>2, <1>3 DEF Push
<1>4. ASSUME NEW q \in Requests, NEW c \in conflicts, Resolve(c, q)
      PROVE  RecordedOnce'
  <2>1. c.incoming \in VersionIds \cup {Null}
    BY <1>1 DEF TypeOK, Conflicts
  <2> QED
    BY <1>2, <1>4, <2>1 DEF Resolve
<1>5. ASSUME NEW t \in open, Commit(t) PROVE RecordedOnce'
  <2>1. PICK e \in LogEvents :
          events' = events \cup {e} /\ open' = open \ {t} /\ e.req = t.req
    BY <1>1, <1>5, CommitDoes
  <2>2. \A f \in events : f.req.id # e.req.id
    BY <2>1 DEF RecordedOnce
  <2>3. \A u \in open' : u.req.id # e.req.id
    BY <1>1, <2>1 DEF LocksHeld
  <2> QED
    BY <2>1, <2>2, <2>3 DEF RecordedOnce
<1>6. ASSUME UNCHANGED events, open' \subseteq open PROVE RecordedOnce'
  BY <1>6 DEF RecordedOnce
<1>7. ASSUME \/ \E t \in open : Rollback(t)
             \/ \E c \in conflicts, e \in events : ResolveWithHead(c, e)
             \/ BeginRotation
             \/ \E batch \in SUBSET versions : StageRewrap(batch)
             \/ \E complete \in BOOLEAN : SetEnvelopes(complete)
             \/ CommitRotation
             \/ UNCHANGED vars
      PROVE  UNCHANGED events /\ open' \subseteq open
  BY <1>7 DEF Rollback, ResolveWithHead, BeginRotation, StageRewrap,
              SetEnvelopes, CommitRotation, vars
<1> QED
  BY <1>3, <1>4, <1>5, <1>6, <1>7 DEF Next

\* What the outbox says of the log stays true when the log grows.
LEMMA TruthKept ==
  ASSUME OutboxTruthful, events \subseteq events',
         \A d \in Devices : \A p \in outbox'[d] :
           \/ p \in outbox[d]
           \/ p.state \notin {"sent", "conflict"}
           \/ \E e \in events : /\ e.req = p.req
                                /\ e.applied => p.state = "sent"
                                /\ ~e.applied => p.state = "conflict"
  PROVE  OutboxTruthful'
<1> SUFFICES ASSUME NEW d \in Devices, NEW p \in outbox'[d]
             PROVE  /\ p.state = "sent" =>
                         \E e \in events' : e.req = p.req /\ e.applied
                    /\ p.state = "conflict" =>
                         \E e \in events' : e.req = p.req /\ ~e.applied
  BY DEF OutboxTruthful
<1>1. CASE p \in outbox[d]
  BY <1>1 DEF OutboxTruthful
<1>2. CASE p.state \notin {"sent", "conflict"}
  BY <1>2
<1>3. CASE \E e \in events : /\ e.req = p.req
                             /\ e.applied => p.state = "sent"
                             /\ ~e.applied => p.state = "conflict"
  BY <1>3
<1> QED
  BY <1>1, <1>2, <1>3

\* What kinds of step there are: an edit, a resolution, an answer or a
\* failure that is marked, and the rest.
Edits(d, r, ver) == PutEdit(d, r, ver) /\ UNCHANGED <<cycle, resolving>>
Quiet ==
  /\ UNCHANGED <<lastId, body, outbox>>
  /\ \A x \in Devices : resolving'[x] \subseteq resolving[x]
  /\ \/ UNCHANGED <<open, events>>
     \/ \E c \in Cycles : SendPush(c)
     \/ \E t \in open : Commit(t) \/ Rollback(t)

\* create_record and update_record end in an edit of one record.
LEMMA EditIs ==
  ASSUME DeviceTypes, NEW d \in Devices,
         (\E r \in Records : Create(d, r)) \/ FinishUpdate(d)
  PROVE  \E r \in Records, ver \in 1..MaxVersion : Edits(d, r, ver)
<1>1. CASE \E r \in Records : Create(d, r)
  <2>1. 1 \in 1..MaxVersion
    BY DevicesAssumption, BoundsAssumption
  <2> QED
    BY <1>1, <2>1 DEF Create, Edits, threadVars
<1>2. CASE FinishUpdate(d)
  <2>1. draft[d] \in [rec : Records, ver : 1..MaxVersion]
    BY <1>2 DEF DeviceTypes, FinishUpdate, Drafts
  <2>2. draft[d].rec \in Records /\ draft[d].ver \in 1..MaxVersion
    BY <2>1
  <2> QED
    BY <1>2, <2>2 DEF FinishUpdate, Edits
<1> QED
  BY <1>1, <1>2

\* The end of a resolution makes no request.
LEMMA FinishIsQuiet ==
  ASSUME DeviceTypes, NEW d \in Devices,
         FinishResolution(d) \/ LoseResolution(d)
  PROVE  Quiet
<1>1. /\ UNCHANGED <<lastId, body, outbox, open, events>>
      /\ resolving' = [resolving EXCEPT ![d] = {}]
  BY DEF FinishResolution, LoseResolution, envVars, deviceVars, vars
<1> QED
  BY <1>1 DEF Quiet, DeviceTypes

\* The kinds of steps, as far as requests are concerned.
LEMMA StepKinds ==
  ASSUME DeviceTypes, [SystemNext]_sysVars
  PROVE  \/ \E d \in Devices, r \in Records, ver \in 1..MaxVersion :
              Edits(d, r, ver)
         \/ \E d \in Devices : \E c \in conflicts :
              \E q \in ResolutionEvents(d, c) : SendResolution(d, c, q)
         \/ \E c \in Cycles :
              \/ MarkSent(c) \/ MarkConflicted(c)
              \/ /\ PushRefused(c) \/ PushAborted(c) \/ PushLost(c)
                 /\ MarkFailed(c)
         \/ Quiet
<1>1. CASE UNCHANGED sysVars
  BY <1>1 DEF sysVars, envVars, deviceVars, threadVars, vars, Quiet
<1>2. CASE CloudCommit \/ CloudRollback
  BY <1>2 DEF CloudCommit, CloudRollback, envVars, deviceVars, threadVars,
              Quiet
<1>3. ASSUME NEW d \in Devices, DeviceStep(d),
             ~ (\E r \in Records : Create(d, r)), ~ FinishUpdate(d),
             ~ (\E c \in conflicts : \E q \in ResolutionEvents(d, c) :
                  SendResolution(d, c, q))
      PROVE  Quiet
  <2>1. CASE \/ \E r \in Records : BeginUpdate(d, r)
             \/ RefuseUpdate(d)
    BY <2>1 DEF BeginUpdate, RefuseUpdate, envVars, deviceVars, vars, Quiet
  <2>2. CASE FinishResolution(d) \/ LoseResolution(d)
    BY <2>2, FinishIsQuiet
  <2> QED
    BY <1>3, <2>1, <2>2 DEF DeviceStep
<1>4. ASSUME NEW d \in Devices, DeviceStep(d)
      PROVE  \/ \E r \in Records, ver \in 1..MaxVersion : Edits(d, r, ver)
             \/ \E c \in conflicts : \E q \in ResolutionEvents(d, c) :
                  SendResolution(d, c, q)
             \/ Quiet
  BY <1>3, <1>4, EditIs
<1>5. ASSUME NEW c \in Cycles,
             \/ SendPush(c) \/ Pull(c) \/ Accept(c) \/ SkipSeen(c)
             \/ Quarantine(c) \/ Decide(c) \/ WriteRecord(c)
             \/ WriteConflict(c) \/ RecordEvent(c) \/ EndCycle(c)
             \/ AbandonCycle(c)
             \/ \E due \in SUBSET outbox[DeviceOf[c]] : StartCycle(c, due)
      PROVE  Quiet
  <2>1. UNCHANGED <<lastId, body, outbox, resolving>>
    BY <1>5 DEF SendPush, Pull, Accept, SkipSeen, Quarantine, Decide,
                WriteRecord, WriteConflict, RecordEvent, EndCycle,
                AbandonCycle, StartCycle, envVars, deviceVars
  <2>2. CASE SendPush(c)
    BY <2>1, <2>2 DEF Quiet
  <2>3. CASE ~SendPush(c)
    <3>1. UNCHANGED <<open, events>>
      BY <1>5, <2>3 DEF Pull, Accept, SkipSeen, Quarantine, Decide,
                  WriteRecord, WriteConflict, RecordEvent, EndCycle,
                  AbandonCycle, StartCycle, vars
    <3> QED
      BY <2>1, <3>1 DEF Quiet
  <2> QED
    BY <2>2, <2>3
<1>6. ASSUME NEW c \in Cycles,
             \/ CycleStep(c) \/ CycleFault(c)
             \/ \E due \in SUBSET outbox[DeviceOf[c]] : StartCycle(c, due)
      PROVE  \/ MarkSent(c) \/ MarkConflicted(c)
             \/ /\ PushRefused(c) \/ PushAborted(c) \/ PushLost(c)
                /\ MarkFailed(c)
             \/ Quiet
  BY <1>5, <1>6 DEF CycleStep, CycleFault, PushRefused, PushAborted, PushLost
<1> QED
  BY <1>1, <1>2, <1>4, <1>6 DEF SystemNext

\* What marking an entry does to the outbox.
LEMMA MarkIs ==
  ASSUME DeviceTypes, NEW d \in Devices, NEW q,
         \A p \in outbox[d] : p.req.id = q.id => p.req = q, NEW n \in Nat,
         NEW s \in {"pending", "retry", "manual", "sent", "conflict"},
         outbox' = Mark(d, q.id, s, n)
  PROVE  /\ \A x \in Devices : Queued(x)' = Queued(x)
         /\ \A x \in Devices \ {d} : outbox'[x] = outbox[x]
         /\ \A p \in outbox'[d] :
              p \in outbox[d] \/ (p.req = q /\ p.state = s)
         /\ \A o \in outbox[d] : o.req.id # q.id => o \in outbox'[d]
         /\ \A o \in outbox[d] : o.req.id = q.id =>
              \E p \in outbox'[d] : p.req = o.req /\ p.state = s
<1>1. \A x \in Devices : Queued(x)' = Queued(x)
  BY MarkKeepsQueued
<1>2. PICK id : id = q.id
  OBVIOUS
<1>3. outbox' = Mark(d, id, s, n)
  BY <1>2
<1>4. \A x \in Devices \ {d} : outbox'[x] = outbox[x]
  BY <1>3, MarkMarks
<1>5. \A p \in outbox'[d] : p \notin outbox[d] =>
        p.state = s /\ \E o \in outbox[d] : o.req.id = id /\ p.req = o.req
  BY <1>3, MarkMarks
<1>6. \A o \in outbox[d] : \E p \in outbox'[d] :
        /\ p.req = o.req
        /\ o.req.id # id => p = o
        /\ o.req.id = id => p.state = s
  BY <1>3, MarkMarks
<1> QED
  BY <1>1, <1>2, <1>4, <1>5, <1>6

\* A mark tells the truth about the log.
LEMMA MarkStep ==
  ASSUME BaseInv, Identified, NEW c \in Cycles,
         \/ MarkSent(c) \/ MarkConflicted(c)
         \/ /\ PushRefused(c) \/ PushAborted(c) \/ PushLost(c)
            /\ MarkFailed(c)
  PROVE  /\ UNCHANGED <<lastId, body, resolving, open, events, cursor, seen,
                        draft, quarantine, kept>>
         /\ \A x \in Devices : Queued(x)' = Queued(x)
         /\ NextToSend(c) \in cycle[c].queue
         /\ NextToSend(c) \in Queued(DeviceOf[c])
         /\ NextToSend(c) \in Requests
         /\ \A x \in Devices \ {DeviceOf[c]} : outbox'[x] = outbox[x]
         /\ \A p \in outbox'[DeviceOf[c]] :
              \/ p \in outbox[DeviceOf[c]]
              \/ /\ p.req = NextToSend(c)
                 /\ \/ ~MarkSent(c) /\ ~MarkConflicted(c)
                       /\ p.state \in {"retry", "manual"}
                    \/ \E e \in events :
                         /\ e.req = p.req
                         /\ e.applied => p.state = "sent"
                         /\ ~e.applied => p.state = "conflict"
                         /\ MarkSent(c) => e.applied
                         /\ MarkConflicted(c) => ~e.applied
         /\ \A o \in outbox[DeviceOf[c]] : o.req.id # NextToSend(c).id =>
              o \in outbox'[DeviceOf[c]]
<1> USE DEF BaseInv
<1> DEFINE d == DeviceOf[c]
<1> DEFINE q == NextToSend(c)
<1>1. d \in Devices
  BY DevicesAssumption
<1>2. cycle[c].queue \subseteq Queued(d)
  BY DEF ThreadsReal
<1>3. cycle[c].queue # {}
  BY DEF MarkSent, MarkConflicted, PushRefused, PushAborted, PushLost, Sending
<1>4. q \in cycle[c].queue /\ q \in Queued(d) /\ q \in Requests
  BY <1>2, <1>3, NextToSendIs
<1>5. UNCHANGED <<lastId, body, resolving, open, events, cursor, seen, draft,
                  quarantine, kept>>
  BY DEF MarkSent, MarkConflicted, MarkFailed, vars, envVars
<1>6. \A p \in outbox[d] : p.req.id = q.id => p.req = q
  <2>1. \A p \in outbox[d] : p.req \in Queued(d)
    BY DEF Queued
  <2>2. q \in Made /\ \A p \in outbox[d] : p.req \in Made
    BY <1>1, <1>4, <2>1, MadeIs
  <2> QED
    BY <2>2 DEF Identified
<1> HIDE DEF q
<1>7. ASSUME NEW n \in Nat,
             NEW s \in {"pending", "retry", "manual", "sent", "conflict"},
             outbox' = Mark(d, q.id, s, n)
      PROVE  /\ \A x \in Devices : Queued(x)' = Queued(x)
             /\ \A x \in Devices \ {d} : outbox'[x] = outbox[x]
             /\ \A p \in outbox'[d] :
                  p \in outbox[d] \/ (p.req = q /\ p.state = s)
             /\ \A o \in outbox[d] : o.req.id # q.id => o \in outbox'[d]
  BY <1>1, <1>6, <1>7, MarkIs
<1>8. CASE MarkSent(c) \/ MarkConflicted(c)
  <2>1. PICK n \in Nat, e \in events :
          /\ e.req = q
          /\ outbox' = Mark(d, e.req.id,
                            IF e.applied THEN "sent" ELSE "conflict", n)
          /\ MarkSent(c) => e.applied
          /\ MarkConflicted(c) => ~e.applied
    BY <1>2, <1>8, MarkAnsweredTypes DEF q
  <2>2. PICK s \in {"pending", "retry", "manual", "sent", "conflict"} :
          /\ e.applied => s = "sent"
          /\ ~e.applied => s = "conflict"
          /\ outbox' = Mark(d, q.id, s, n)
    <3>1. CASE e.applied
      BY <2>1, <3>1
    <3>2. CASE ~e.applied
      BY <2>1, <3>2
    <3> QED
      BY <3>1, <3>2
  <2> QED
    BY <1>4, <1>5, <1>7, <2>1, <2>2 DEF q
<1>9. CASE ~MarkSent(c) /\ ~MarkConflicted(c)
  <2>1. MarkFailed(c)
    BY <1>9
  <2>2. PICK n \in Nat, s \in {"retry", "manual"} :
          outbox' = Mark(d, q.id, s, n)
    BY <1>2, <1>3, <2>1, MarkFailedTypes DEF q
  <2> QED
    BY <1>4, <1>5, <1>7, <1>9, <2>2 DEF q
<1> QED
  BY <1>8, <1>9

\* Every step keeps IdInv.
LEMMA IdStep ==
  ASSUME BaseInv, CloudInv, IdInv, [Next]_vars, [SystemNext]_sysVars
  PROVE  IdInv'
<1> USE DEF IdInv
<1>1. DeviceTypes /\ TypeOK /\ lastId \in Nat /\ Made \subseteq Requests
  BY MadeAreRequests DEF BaseInv, CloudInv, DeviceTypes
<1>2. RecordedOnce' /\ events \subseteq events'
  BY RecordedOnceStep, LogGrows
<1>3. ASSUME NEW d \in Devices, NEW r \in Records, NEW ver \in 1..MaxVersion,
             Edits(d, r, ver)
      PROVE  IdInv'
  <2>1. PICK q \in Requests, o \in Entries :
          /\ Draws(q)
          /\ o.req = q /\ o.state = "pending"
          /\ outbox'[d] = outbox[d] \cup {o}
          /\ \A x \in Devices \ {d} : outbox'[x] = outbox[x]
    BY <1>3, MadeByEdit DEF Edits
  <2>2. Identified' /\ \A p \in Made : p.id # q.id
    BY <1>1, <2>1, IdentifiedDraws
  <2>3. QueuedOnce'
    <3>1. \A x \in Devices : \A p \in Queued(x)' :
            p \in Queued(x) \/ (x = d /\ p = q)
      BY <2>1 DEF Queued
    <3>2. \A x \in Devices : \A p \in Queued(x) : p.id # q.id
      BY <2>2, MadeIs
    <3> QED
      BY <3>1, <3>2 DEF QueuedOnce
  <2>4. OutboxTruthful'
    <3>1. \A x \in Devices : \A p \in outbox'[x] :
            p \in outbox[x] \/ p.state \notin {"sent", "conflict"}
      BY <2>1
    <3> QED
      BY <1>2, <3>1, TruthKept
  <2> QED
    BY <1>2, <2>2, <2>3, <2>4
<1>4. ASSUME NEW d \in Devices, NEW c \in conflicts,
             NEW q \in ResolutionEvents(d, c), SendResolution(d, c, q)
      PROVE  IdInv'
  <2>1. /\ \A x \in Devices : Queued(x)' = Queued(x)
        /\ (lastId' = lastId /\ Made' \subseteq Made) \/ Draws(q)
    BY <1>4, MadeByResolution
  <2>2. Identified'
    BY <1>1, <2>1, IdentifiedDraws, IdentifiedKept
  <2>3. QueuedOnce'
    BY <2>1 DEF QueuedOnce
  <2>4. outbox' = outbox
    BY <1>4 DEF SendResolution, deviceVars
  <2> QED
    BY <1>2, <2>2, <2>3, <2>4, TruthKept
<1>5. ASSUME NEW c \in Cycles,
             \/ MarkSent(c) \/ MarkConflicted(c)
             \/ /\ PushRefused(c) \/ PushAborted(c) \/ PushLost(c)
                /\ MarkFailed(c)
      PROVE  IdInv'
  <2>1. /\ UNCHANGED <<lastId, resolving, open, events>>
        /\ \A x \in Devices : Queued(x)' = Queued(x)
        /\ \A x \in Devices \ {DeviceOf[c]} : outbox'[x] = outbox[x]
        /\ \A p \in outbox'[DeviceOf[c]] :
              \/ p \in outbox[DeviceOf[c]]
              \/ p.state \notin {"sent", "conflict"}
              \/ \E e \in events : /\ e.req = p.req
                                   /\ e.applied => p.state = "sent"
                                   /\ ~e.applied => p.state = "conflict"
    BY <1>5, MarkStep
  <2>2. Made' \subseteq Made
    BY <2>1, MadeByOther
  <2>3. Identified' /\ QueuedOnce'
    BY <2>1, <2>2, IdentifiedKept DEF QueuedOnce
  <2>4. OutboxTruthful'
    BY <1>2, <2>1, TruthKept
  <2> QED
    BY <1>2, <2>3, <2>4
<1>6. ASSUME Quiet PROVE IdInv'
  <2>1. /\ UNCHANGED <<lastId, outbox>>
        /\ \A x \in Devices : Queued(x)' = Queued(x)
    BY <1>6 DEF Quiet, Queued
  <2>2. Made' \subseteq Made
    BY <1>6, <2>1, MadeByOther DEF Quiet
  <2>3. Identified' /\ QueuedOnce'
    BY <2>1, <2>2, IdentifiedKept DEF QueuedOnce
  <2>4. OutboxTruthful'
    BY <1>2, <2>1, TruthKept
  <2> QED
    BY <1>2, <2>3, <2>4
<1> QED
  BY <1>1, <1>3, <1>4, <1>5, <1>6, StepKinds

\* IdInv holds at the start.
LEMMA IdInit ==
  ASSUME SystemInit
  PROVE  IdInv
<1>1. /\ \A d \in Devices : Queued(d) = {}
      /\ \A d \in Devices : outbox[d] = {}
      /\ events = {} /\ open = {} /\ \A d \in Devices : resolving[d] = {}
  BY DEF SystemInit, Init, Queued
<1>2. \A q \in Made : FALSE
  BY <1>1, MadeIs
<1> QED
  BY <1>1, <1>2
     DEF IdInv, Identified, QueuedOnce, RecordedOnce, OutboxTruthful

\* Whatever requests and answers are lost, and however many threads push the
\* same entry, an entry marked "sent" is on its record's line and one marked
\* "conflict" is kept as a branch (push_record_event's answer to a repeated
\* event, mark_outbox_sent and mark_outbox_conflicted).
THEOREM OutboxTellsTruth == SystemSpec => []OutboxTruthful
<1>1. SystemInit => BaseInv /\ CloudInv /\ IdInv
  BY BaseInit, InitInv, IdInit DEF SystemInit
<1>2. BaseInv /\ CloudInv /\ IdInv /\ [SystemNext]_sysVars
        => BaseInv' /\ CloudInv' /\ IdInv'
  <2>1. CloudInv => TypeOK
    BY DEF CloudInv
  <2> QED
    BY <2>1, BaseStep, NextInv, IdStep
<1>3. IdInv => OutboxTruthful
  BY DEF IdInv
<1> QED
  BY <1>1, <1>2, <1>3, PTL DEF SystemSpec

-----------------------------------------------------------------------------
(* Which step changes what                                                 *)

Runs(c) ==
  \/ CycleStep(c) \/ CycleFault(c)
  \/ \E due \in SUBSET outbox[DeviceOf[c]] : StartCycle(c, due)

\* What the steps of a sync thread may change.
LEMMA CyclePlain ==
  ASSUME NEW c \in Cycles, Runs(c)
  PROVE  /\ UNCHANGED <<draft, resolving, lastId, body>>
         /\ \E t : cycle' = [cycle EXCEPT ![c] = t]
         /\ WriteRecord(c) \/ MarkConflicted(c) \/ UNCHANGED local
         /\ RecordEvent(c) \/ UNCHANGED seen
         /\ RecordEvent(c) \/ Quarantine(c) \/ UNCHANGED cursor
         /\ Quarantine(c) \/ UNCHANGED quarantine
         /\ WriteConflict(c) \/ UNCHANGED kept
         /\ MarkConflicted(c) \/ UNCHANGED blocked
         /\ SendPush(c) \/ UNCHANGED vars
<1>1. CASE \/ SendPush(c) \/ Pull(c) \/ Accept(c) \/ SkipSeen(c) \/ Decide(c)
           \/ EndCycle(c) \/ AbandonCycle(c)
           \/ \E due \in SUBSET outbox[DeviceOf[c]] : StartCycle(c, due)
  <2>1. UNCHANGED <<deviceVars, draft, resolving, lastId, body>>
    BY <1>1 DEF SendPush, Pull, Accept, SkipSeen, Decide, EndCycle,
                AbandonCycle, StartCycle, envVars
  <2>2. \E t : cycle' = [cycle EXCEPT ![c] = t]
    BY <1>1 DEF SendPush, Pull, Accept, SkipSeen, Decide, EndCycle,
                AbandonCycle, StartCycle, NextEvent
  <2>3. SendPush(c) \/ UNCHANGED vars
    BY <1>1 DEF Pull, Accept, SkipSeen, Decide, EndCycle,
                AbandonCycle, StartCycle
  <2> QED
    BY <2>1, <2>2, <2>3 DEF deviceVars
<1>2. CASE MarkSent(c) \/ MarkConflicted(c) \/ MarkFailed(c)
  BY <1>2 DEF MarkSent, MarkConflicted, MarkFailed, SentOne, envVars
<1>3. CASE \/ Quarantine(c) \/ WriteRecord(c) \/ WriteConflict(c)
           \/ RecordEvent(c)
  BY <1>3 DEF Quarantine, WriteRecord, WriteConflict, RecordEvent, NextEvent,
              envVars
<1> QED
  BY <1>1, <1>2, <1>3
     DEF Runs, CycleStep, CycleFault, PushRefused, PushAborted, PushLost

\* The user's steps.
UserStep(d) ==
  \/ \E r \in Records : Create(d, r) \/ BeginUpdate(d, r)
  \/ FinishUpdate(d) \/ RefuseUpdate(d)
Resolves(d) ==
  \/ \E c \in conflicts : \E q \in ResolutionEvents(d, c) :
       SendResolution(d, c, q)
  \/ FinishResolution(d) \/ LoseResolution(d)

\* A step is one of the cloud, of an editor, of a resolution or of a thread.
LEMMA NextIs ==
  ASSUME [SystemNext]_sysVars
  PROVE  \/ UNCHANGED <<envVars, deviceVars, threadVars>>
            /\ (UNCHANGED vars \/ \E t \in open : Commit(t))
         \/ UNCHANGED <<lastId, body, deviceVars, threadVars>>
            /\ \E t \in open : Rollback(t)
         \/ \E d \in Devices : UserStep(d) \/ Resolves(d)
         \/ \E c \in Cycles : Runs(c)
BY DEF SystemNext, CloudCommit, CloudRollback, DeviceStep, Runs, UserStep,
       Resolves, sysVars

\* What an editor's steps may change.
LEMMA UserPlain ==
  ASSUME DeviceTypes, NEW d \in Devices, UserStep(d)
  PROVE  /\ UNCHANGED <<vars, cycle, resolving, faults, seen, cursor, kept,
                        blocked, quarantine>>
         /\ \E t : draft' = [draft EXCEPT ![d] = t]
         /\ (\E r \in Records : Create(d, r)) \/ FinishUpdate(d)
              \/ UNCHANGED <<envVars, local, outbox>>
<1>1. CASE \/ \E r \in Records : BeginUpdate(d, r)
           \/ RefuseUpdate(d)
  BY <1>1 DEF BeginUpdate, RefuseUpdate, envVars, deviceVars
<1>2. CASE FinishUpdate(d)
  BY <1>2 DEF FinishUpdate, PutEdit
<1>3. CASE \E r \in Records : Create(d, r)
  <2>1. UNCHANGED <<vars, cycle, resolving, faults, seen, cursor, kept,
                    blocked, quarantine, draft>>
    BY <1>3 DEF Create, PutEdit, threadVars
  <2>2. draft' = [draft EXCEPT ![d] = draft[d]]
    BY <2>1 DEF DeviceTypes
  <2> QED
    BY <1>3, <2>1, <2>2
<1> QED
  BY <1>1, <1>2, <1>3 DEF UserStep

\* What a resolution's steps may change.
LEMMA ResolvesPlain ==
  ASSUME NEW d \in Devices, Resolves(d)
  PROVE  /\ UNCHANGED <<outbox, seen, cursor, kept, quarantine, draft, cycle>>
         /\ \E t : resolving' = [resolving EXCEPT ![d] = t]
         /\ FinishResolution(d) \/ UNCHANGED <<local, blocked>>
BY DEF Resolves, SendResolution, Await, FinishResolution, LoseResolution,
       deviceVars, envVars

\* A thread's locals change in its own steps only.
LEMMA WhoRuns ==
  ASSUME DeviceTypes, [SystemNext]_sysVars, NEW c \in Cycles,
         cycle'[c] # cycle[c]
  PROVE  Runs(c)
<1>1. cycle' # cycle
  OBVIOUS
<1>2. PICK x \in Cycles : Runs(x)
  BY <1>1, NextIs, UserPlain, ResolvesPlain DEF threadVars
<1>3. PICK t : cycle' = [cycle EXCEPT ![x] = t]
  BY <1>2, CyclePlain
<1> QED
  BY <1>2, <1>3 DEF DeviceTypes

\* A draft is begun, or is over.
LEMMA WhoDrafts ==
  ASSUME DeviceTypes, [SystemNext]_sysVars, NEW d \in Devices,
         draft'[d] # draft[d]
  PROVE  /\ UserStep(d)
         /\ draft'[d] = NoDraft \/ \E r \in Records : BeginUpdate(d, r)
<1>1. draft' # draft
  OBVIOUS
<1>2. PICK x \in Devices : UserStep(x)
  BY <1>1, NextIs, CyclePlain, ResolvesPlain DEF threadVars
<1>3. PICK t : draft' = [draft EXCEPT ![x] = t]
  BY <1>2, UserPlain
<1>4. x = d
  BY <1>3 DEF DeviceTypes
<1>5. CASE \E r \in Records : Create(d, r)
  BY <1>1, <1>5 DEF Create, threadVars
<1>6. CASE FinishUpdate(d) \/ RefuseUpdate(d)
  BY <1>2, <1>4, <1>6 DEF FinishUpdate, RefuseUpdate, DeviceTypes
<1> QED
  BY <1>2, <1>4, <1>5, <1>6 DEF UserStep

\* A device's resolution changes in its own steps only.
LEMMA WhoResolves ==
  ASSUME DeviceTypes, [SystemNext]_sysVars, NEW d \in Devices,
         resolving'[d] # resolving[d]
  PROVE  Resolves(d)
<1>1. resolving' # resolving
  OBVIOUS
<1>2. PICK x \in Devices : Resolves(x)
  BY <1>1, NextIs, CyclePlain, UserPlain DEF threadVars
<1>3. PICK t : resolving' = [resolving EXCEPT ![x] = t]
  BY <1>2, ResolvesPlain
<1> QED
  BY <1>2, <1>3 DEF DeviceTypes

\* The rows change in four ways; a step that moves only the base a row names
\* leaves its version and its body.
LEMMA RowsMove ==
  ASSUME DeviceTypes, HasPage, [SystemNext]_sysVars,
         NEW x \in Devices, NEW s \in Records
  PROVE  \/ local'[x][s].ver = local[x][s].ver
            /\ local'[x][s].body = local[x][s].body
         \/ Create(x, s) /\ local'[x][s].ver = 1
         \/ /\ FinishUpdate(x) /\ draft[x].rec = s
            /\ local'[x][s].ver = draft[x].ver
         \/ \E c \in Cycles :
              /\ DeviceOf[c] = x /\ WriteRecord(c)
              /\ s = Current(c).req.rec
              /\ local'[x][s].ver = Current(c).req.ver
<1>1. local \in [Devices -> [Records -> Rows]]
  BY DEF DeviceTypes
<1>2. CASE UNCHANGED local
  BY <1>2
<1>3. ASSUME NEW d \in Devices, NEW r \in Records, Create(d, r)
      PROVE  \/ local'[x][s] = local[x][s]
             \/ x = d /\ s = r /\ local'[x][s].ver = 1
  <2>1. 1 \in 1..MaxVersion
    BY DevicesAssumption, BoundsAssumption
  <2>2. PutEdit(d, r, 1)
    BY <1>3 DEF Create
  <2>3. PICK row \in Rows :
          /\ row.ver = 1 /\ local'[d][r] = row
          /\ \A y \in Devices, t \in Records :
                y # d \/ t # r => local'[y][t] = local[y][t]
    BY <2>1, <2>2, PutEditDoes
  <2> QED
    BY <2>3
<1>4. ASSUME NEW d \in Devices, FinishUpdate(d)
      PROVE  \/ local'[x][s] = local[x][s]
             \/ x = d /\ s = draft[d].rec /\ local'[x][s].ver = draft[d].ver
  <2>1. draft[d] \in [rec : Records, ver : 1..MaxVersion]
    BY <1>4 DEF DeviceTypes, FinishUpdate, Drafts
  <2>2. PICK r \in Records, ver \in 1..MaxVersion :
          r = draft[d].rec /\ ver = draft[d].ver
    BY <2>1
  <2>3. PutEdit(d, r, ver)
    BY <1>4, <2>2 DEF FinishUpdate
  <2>4. PICK row \in Rows :
          /\ row.ver = ver /\ local'[d][r] = row
          /\ \A y \in Devices, t \in Records :
                y # d \/ t # r => local'[y][t] = local[y][t]
    BY <2>3, PutEditDoes
  <2> QED
    BY <2>2, <2>4
<1>5. ASSUME NEW d \in Devices, NEW r \in Records, NEW v,
             local' = [local EXCEPT ![d][r].cv = v]
      PROVE  /\ local'[x][s].ver = local[x][s].ver
             /\ local'[x][s].body = local[x][s].body
  <2>1. PICK row \in Rows : row = local[d][r]
    BY <1>1
  <2>2. PICK new : new = [row EXCEPT !.cv = v]
    OBVIOUS
  <2>3. new.ver = row.ver /\ new.body = row.body
    BY <2>2, SMT DEF Rows
  <2>4. local' = [local EXCEPT ![d][r] = new]
    BY <1>1, <1>5, <2>1, <2>2
  <2> QED
    BY <1>1, <2>1, <2>3, <2>4
<1>6. ASSUME NEW d \in Devices, FinishResolution(d)
      PROVE  /\ local'[x][s].ver = local[x][s].ver
             /\ local'[x][s].body = local[x][s].body
  <2>1. CASE UNCHANGED local
    BY <2>1
  <2>2. CASE ~UNCHANGED local
    <3>1. PICK y \in resolving[d] :
            local' = [local EXCEPT ![d][y.req.rec].cv = y.req.vid]
      BY <1>6, <2>2 DEF FinishResolution
    <3>2. y.req.rec \in Records
      BY DEF DeviceTypes, Resolutions, Requests
    <3> QED
      BY <1>5, <3>1, <3>2
  <2> QED
    BY <2>1, <2>2
<1>7. ASSUME NEW c \in Cycles, MarkConflicted(c)
      PROVE  /\ local'[x][s].ver = local[x][s].ver
             /\ local'[x][s].body = local[x][s].body
  <2>1. NextToSend(c) \in Requests
    BY <1>7, NextToSendIs DEF MarkConflicted, Sending
  <2>2. NextToSend(c).rec \in Records /\ DeviceOf[c] \in Devices
    BY <2>1, DevicesAssumption DEF Requests
  <2>3. \/ UNCHANGED local
        \/ local' = [local EXCEPT ![DeviceOf[c]][NextToSend(c).rec].cv =
                       NextToSend(c).base]
    BY <1>7 DEF MarkConflicted
  <2> QED
    BY <1>5, <2>2, <2>3
<1>8. ASSUME NEW c \in Cycles, WriteRecord(c)
      PROVE  \/ local'[x][s] = local[x][s]
             \/ /\ DeviceOf[c] = x /\ s = Current(c).req.rec
                /\ local'[x][s].ver = Current(c).req.ver
  <2>1. Current(c) \in LogEvents /\ DeviceOf[c] \in Devices
    BY <1>8, CurrentIs, DevicesAssumption DEF WriteRecord, HasPage
  <2>2. PICK q \in Requests : q = Current(c).req
    BY <2>1 DEF LogEvents
  <2>3. PICK row : row = [ver |-> q.ver, body |-> body[q.vid], cv |-> q.vid]
    OBVIOUS
  <2>4. local' = [local EXCEPT ![DeviceOf[c]][q.rec] = row]
    BY <1>8, <2>2, <2>3 DEF WriteRecord
  <2>5. q.rec \in Records /\ row.ver = q.ver
    BY <2>3 DEF Requests
  <2> QED
    BY <1>1, <2>1, <2>2, <2>4, <2>5
<1>9. ASSUME NEW d \in Devices, UserStep(d)
      PROVE  \/ UNCHANGED local
             \/ \E r \in Records : Create(d, r)
             \/ FinishUpdate(d)
  BY <1>9, UserPlain
<1>10. ASSUME NEW d \in Devices, Resolves(d)
       PROVE  UNCHANGED local \/ FinishResolution(d)
  BY <1>10, ResolvesPlain
<1>11. ASSUME NEW c \in Cycles, Runs(c)
       PROVE  UNCHANGED local \/ WriteRecord(c) \/ MarkConflicted(c)
  BY <1>11, CyclePlain
<1> QED
  BY <1>2, <1>3, <1>4, <1>6, <1>7, <1>8, <1>9, <1>10, <1>11, NextIs
     DEF deviceVars

\* What apply_remote_event decides, it decides from what it reads.
LEMMA DecideDoes ==
  ASSUME DeviceTypes, TypeOK, HasPage, NEW c \in Cycles, Decide(c)
  PROVE  /\ cycle'[c].page = cycle[c].page
         /\ cycle'[c].after = cycle[c].after
         /\ cycle'[c].plan = PlanFor(DeviceOf[c], Current(c))
         /\ cycle'[c].plan.does = "nothing" => cycle'[c].pc = "record"
         /\ cycle'[c].plan.does # "nothing" => cycle'[c].pc = "write"
         /\ UNCHANGED <<local, kept, outbox, events>>
<1>1. PICK plan : plan = PlanFor(DeviceOf[c], Current(c))
  OBVIOUS
<1>2. PICK s \in {"record", "write"} :
        /\ cycle' = [cycle EXCEPT ![c].plan = plan, ![c].pc = s]
        /\ plan.does = "nothing" => s = "record"
        /\ plan.does # "nothing" => s = "write"
  BY <1>1 DEF Decide
<1>3. DeviceOf[c] \in Devices /\ Current(c) \in LogEvents
  BY CurrentIs, DevicesAssumption DEF Decide, HasPage
<1>4. Current(c).req.rec \in Records
  BY <1>3 DEF LogEvents, Requests
<1>5. local[DeviceOf[c]][Current(c).req.rec].body \in VersionIds \cup {Null}
  BY <1>3, <1>4 DEF DeviceTypes, Rows
<1>6. plan \in Plans /\ s \in Stages
  BY <1>1, <1>5 DEF PlanFor, Plans, Stages
<1>7. Moved(c, s, cycle[c].after, cycle[c].queue, cycle[c].page, plan)
  BY <1>2, <1>6, DecideMoves
<1>8. UNCHANGED <<local, kept, outbox, events>>
  BY DEF Decide, deviceVars, vars
<1> QED
  BY <1>1, <1>2, <1>7, <1>8 DEF Moved

\* How a thread comes to write, or to record an event as processed.
LEMMA StagesOf ==
  ASSUME DeviceTypes, TypeOK, HasPage, NEW c \in Cycles, Runs(c)
  PROVE  \/ cycle'[c].pc \in {"idle", "push", "await", "apply", "check"}
         \/ /\ Decide(c) /\ cycle'[c].page = cycle[c].page
            /\ cycle'[c].plan = PlanFor(DeviceOf[c], Current(c))
            /\ cycle'[c].plan.does = "nothing" => cycle'[c].pc = "record"
            /\ cycle'[c].plan.does # "nothing" => cycle'[c].pc = "write"
            /\ UNCHANGED <<local, kept, outbox, events>>
         \/ /\ WriteRecord(c) \/ WriteConflict(c)
            /\ cycle'[c].pc = "record" /\ cycle'[c].page = cycle[c].page
<1>1. CASE \/ MarkSent(c) \/ MarkConflicted(c) \/ MarkFailed(c)
  <2>1. cycle' = SentOne(c)
    BY <1>1 DEF MarkSent, MarkConflicted, MarkFailed
  <2> QED
    BY <2>1, SentMoves DEF Moved
<1>2. CASE SkipSeen(c) \/ Quarantine(c) \/ RecordEvent(c)
  <2>1. cycle' = NextEvent(c)
    BY <1>2 DEF SkipSeen, Quarantine, RecordEvent
  <2> QED
    BY <2>1, NextEventMoves DEF Moved
<1>3. CASE EndCycle(c) \/ AbandonCycle(c)
  <2>1. cycle' = [cycle EXCEPT ![c] = Idle]
    BY <1>3 DEF EndCycle, AbandonCycle
  <2> QED
    BY <2>1, EndMoves DEF Moved
<1>4. ASSUME NEW s \in Stages, cycle' = [cycle EXCEPT ![c].pc = s]
      PROVE  cycle'[c].pc = s /\ cycle'[c].page = cycle[c].page
  BY <1>4, StageMoves DEF Moved
<1>5. CASE SendPush(c)
  BY <1>4, <1>5 DEF SendPush, Stages
<1>6. CASE Accept(c)
  BY <1>4, <1>6 DEF Accept, Stages
<1>7. CASE WriteRecord(c) \/ WriteConflict(c)
  BY <1>4, <1>7 DEF WriteRecord, WriteConflict, Stages
<1>8. CASE Pull(c)
  BY <1>8, PullMoves DEF Pull, Moved
<1>9. CASE \E due \in SUBSET outbox[DeviceOf[c]] : StartCycle(c, due)
  BY <1>9 DEF StartCycle, DeviceTypes
<1>10. CASE Decide(c)
  BY <1>10, DecideDoes
<1> QED
  BY <1>1, <1>2, <1>3, <1>5, <1>6, <1>7, <1>8, <1>9, <1>10
     DEF Runs, CycleStep, CycleFault, PushRefused, PushAborted, PushLost

\* A request is queued for good; a new one is an edit of its device or
\* resolves a conflict of its record.
LEMMA MadeHow ==
  ASSUME BaseInv, CloudInv, Identified, [SystemNext]_sysVars
  PROVE  /\ \A x \in Devices : Queued(x) \subseteq Queued(x)'
         /\ \A p \in Made' : p \notin Made =>
              /\ p.id = lastId + 1 /\ p.vid = lastId + 1 /\ lastId' = lastId + 1
              /\ \/ \E x \in Devices : p \in Queued(x)'
                 \/ \E c \in conflicts : p.rec = c.rec
         /\ lastId' = lastId \/ lastId' = lastId + 1
<1>1. ASSUME NEW d \in Devices, NEW r \in Records, NEW ver \in 1..MaxVersion,
             Edits(d, r, ver)
      PROVE  /\ \A x \in Devices : Queued(x) \subseteq Queued(x)'
             /\ \A p \in Made' : p \notin Made =>
                  /\ p.id = lastId + 1 /\ p.vid = lastId + 1
                  /\ lastId' = lastId + 1
                  /\ \E x \in Devices : p \in Queued(x)'
             /\ lastId' = lastId + 1
  <2>1. PICK q \in Requests, o \in Entries :
          /\ Draws(q) /\ o.req = q
          /\ outbox'[d] = outbox[d] \cup {o}
          /\ \A x \in Devices \ {d} : outbox'[x] = outbox[x]
    BY <1>1, MadeByEdit DEF Edits
  <2>2. q \in Queued(d)' /\ \A x \in Devices : Queued(x) \subseteq Queued(x)'
    BY <2>1 DEF Queued
  <2> QED
    BY <2>1, <2>2 DEF Draws
<1>2. ASSUME NEW d \in Devices, NEW c \in conflicts,
             NEW q \in ResolutionEvents(d, c), SendResolution(d, c, q)
      PROVE  /\ \A x \in Devices : Queued(x)' = Queued(x)
             /\ \A p \in Made' : p \notin Made =>
                  /\ p.id = lastId + 1 /\ p.vid = lastId + 1
                  /\ lastId' = lastId + 1
                  /\ p.rec = c.rec
             /\ lastId' = lastId \/ lastId' = lastId + 1
  <2>1. q.rec = c.rec
    BY ResolutionIsRequest DEF BaseInv, CloudInv
  <2> QED
    BY <1>2, <2>1, MadeByResolution DEF Draws
<1>3. ASSUME NEW c \in Cycles,
             \/ MarkSent(c) \/ MarkConflicted(c)
             \/ /\ PushRefused(c) \/ PushAborted(c) \/ PushLost(c)
                /\ MarkFailed(c)
      PROVE  /\ \A x \in Devices : Queued(x)' = Queued(x)
             /\ Made' \subseteq Made /\ lastId' = lastId
  <2>1. /\ UNCHANGED <<lastId, resolving, open, events>>
        /\ \A x \in Devices : Queued(x)' = Queued(x)
    BY <1>3, MarkStep
  <2> QED
    BY <2>1, MadeByOther
<1>4. ASSUME Quiet
      PROVE  /\ \A x \in Devices : Queued(x)' = Queued(x)
             /\ Made' \subseteq Made /\ lastId' = lastId
  <2>1. \A x \in Devices : Queued(x)' = Queued(x)
    BY <1>4 DEF Quiet, Queued
  <2> QED
    BY <1>4, <2>1, MadeByOther DEF Quiet
<1> QED
  BY <1>1, <1>2, <1>3, <1>4, StepKinds DEF BaseInv

\* A row only changes for a request that names its record.
LEMMA RowTouched ==
  ASSUME BaseInv, CloudInv, Identified, [SystemNext]_sysVars,
         NEW x \in Devices, NEW s \in Records, local'[x][s] # local[x][s]
  PROVE  (\E q \in Made : q.rec = s) \/ (\E q \in Queued(x)' : q.rec = s)
<1>1. DeviceTypes /\ HasPage /\ local \in [Devices -> [Records -> Rows]]
  BY DEF BaseInv, DeviceTypes
<1>2. ASSUME NEW d \in Devices, NEW r \in Records, NEW ver \in 1..MaxVersion,
             PutEdit(d, r, ver)
      PROVE  \E q \in Queued(x)' : q.rec = s
  <2>1. PICK q \in Requests, o \in Entries, row \in Rows :
          /\ q.rec = r /\ o.req = q
          /\ outbox'[d] = outbox[d] \cup {o}
          /\ \A y \in Devices, t \in Records :
                y # d \/ t # r => local'[y][t] = local[y][t]
    BY <1>1, <1>2, PutEditDoes
  <2>2. x = d /\ s = r
    BY <2>1
  <2> QED
    BY <2>1, <2>2 DEF Queued
<1>3. ASSUME NEW d \in Devices, FinishResolution(d)
      PROVE  \E q \in Made : q.rec = s
  <2>1. PICK y \in resolving[d] :
          local' = local \/ local' = [local EXCEPT ![d][y.req.rec].cv = y.req.vid]
    BY <1>3 DEF FinishResolution
  <2>2. y.req.rec \in Records
    BY <1>1 DEF DeviceTypes, Resolutions, Requests
  <2>3. PICK r \in Records : r = y.req.rec
    BY <2>2
  <2>4. s = r
    BY <1>1, <2>1, <2>3
  <2> QED
    BY <2>3, <2>4, MadeIs
<1>4. ASSUME NEW c \in Cycles, MarkConflicted(c)
      PROVE  \E q \in Made : q.rec = s
  <2>1. /\ NextToSend(c) \in Queued(DeviceOf[c]) /\ DeviceOf[c] \in Devices
        /\ NextToSend(c).rec \in Records
    BY <1>4, MarkStep, DevicesAssumption DEF Requests
  <2>2. PICK r \in Records : r = NextToSend(c).rec
    BY <2>1
  <2>3. \/ local' = local
        \/ local' = [local EXCEPT ![DeviceOf[c]][r].cv = NextToSend(c).base]
    BY <1>4, <2>2 DEF MarkConflicted
  <2>4. s = r
    BY <1>1, <2>1, <2>3
  <2> QED
    BY <2>1, <2>2, <2>4, MadeIs
<1>5. ASSUME NEW c \in Cycles, WriteRecord(c)
      PROVE  \E q \in Made : q.rec = s
  <2>1. Current(c) \in cycle[c].page /\ DeviceOf[c] \in Devices
    BY <1>1, <1>5, CurrentIs, DevicesAssumption DEF WriteRecord, HasPage
  <2>2. Current(c) \in events
    BY <2>1 DEF BaseInv, ThreadsReal
  <2>3. PICK r \in Records : r = Current(c).req.rec
    BY <2>2 DEF CloudInv, TypeOK, Requests
  <2>4. PICK row : local' = [local EXCEPT ![DeviceOf[c]][r] = row]
    BY <1>5, <2>3 DEF WriteRecord
  <2>5. s = r
    BY <1>1, <2>1, <2>4
  <2> QED
    BY <2>2, <2>3, <2>5, MadeIs
<1>6. local' # local
  OBVIOUS
<1>7. \/ \E d \in Devices : (\E r \in Records : Create(d, r)) \/ FinishUpdate(d)
      \/ \E d \in Devices : FinishResolution(d)
      \/ \E c \in Cycles : WriteRecord(c) \/ MarkConflicted(c)
  BY <1>1, <1>6, NextIs, UserPlain, ResolvesPlain, CyclePlain DEF deviceVars
<1> QED
  BY <1>1, <1>2, <1>3, <1>4, <1>5, <1>7, EditIs DEF Edits

\* A record nobody queued stays unknown until it is created.
LEMMA NowhereStep ==
  ASSUME BaseInv, CloudInv, Identified, NowhereElse, [SystemNext]_sysVars
  PROVE  NowhereElse'
<1> SUFFICES ASSUME NEW r \in Records,
                    \A d \in Devices : \A o \in outbox'[d] : o.req.rec # r
             PROVE  /\ \A q \in Made' : q.rec # r
                    /\ \A d \in Devices :
                         /\ local'[d][r] = NoRecord
                         /\ draft'[d] # NoDraft => draft'[d].rec # r
  BY DEF NowhereElse
<1>1. \A d \in Devices : \A q \in Queued(d)' : q.rec # r
  BY DEF Queued
<1>2. \A d \in Devices : \A q \in Queued(d) : q.rec # r
  BY <1>1, MadeHow
<1>3. \A d \in Devices : \A o \in outbox[d] : o.req.rec # r
  BY <1>2 DEF Queued
<1>4. /\ \A q \in Made : q.rec # r
      /\ \A d \in Devices : /\ local[d][r] = NoRecord
                            /\ draft[d] # NoDraft => draft[d].rec # r
  BY <1>3 DEF NowhereElse
<1>5. \A c \in conflicts : c.rec # r
  <2> SUFFICES ASSUME NEW c \in conflicts PROVE c.rec # r
    OBVIOUS
  <2>1. PICK e \in Applied(c.rec) : TRUE
    BY DEF CloudInv, ConflictsBehindHead
  <2>2. e \in events /\ e.req.rec = c.rec
    BY DEF Applied
  <2> QED
    BY <1>4, <2>2, MadeIs
<1>6. \A q \in Made' : q.rec # r
  BY <1>1, <1>4, <1>5, MadeHow
<1>7. ASSUME NEW d \in Devices PROVE local'[d][r] = NoRecord
  BY <1>1, <1>4, RowTouched
<1>8. ASSUME NEW d \in Devices, draft'[d] # NoDraft
      PROVE  draft'[d].rec # r
  <2>1. CASE draft'[d] = draft[d]
    BY <1>4, <1>8, <2>1
  <2>2. CASE draft'[d] # draft[d]
    <3>1. PICK s \in Records : BeginUpdate(d, s)
      BY <1>8, <2>2, WhoDrafts DEF BaseInv
    <3>2. draft'[d].rec = s /\ local[d][s].ver \in 1..(MaxVersion - 1)
      BY <3>1 DEF BeginUpdate, BaseInv, DeviceTypes
    <3>3. s # r
      BY <1>4, <3>2 DEF NoRecord
    <3> QED
      BY <3>2, <3>3
  <2> QED
    BY <2>1, <2>2
<1> QED
  BY <1>6, <1>7, <1>8

-----------------------------------------------------------------------------
(* While a device serves one request at a time                             *)

\* A device that serves a request starts no other.
LEMMA StartsAlone ==
  ASSUME ~Threaded, NEW d \in Devices, MayStart(d)
  PROVE  /\ \A c \in Cycles : DeviceOf[c] = d => cycle[c].pc = "idle"
         /\ draft[d] = NoDraft /\ resolving[d] = {}
BY DEF MayStart, Busy

\* A thread that becomes busy starts a cycle.
LEMMA WhoStarts ==
  ASSUME DeviceTypes, TypeOK, HasPage, NEW c \in Cycles, Runs(c),
         cycle[c].pc = "idle"
  PROVE  MayStart(DeviceOf[c])
BY DEF Runs, CycleStep, CycleFault, PushRefused, PushAborted, PushLost,
       SendPush, MarkSent, MarkConflicted, Pull, Accept, SkipSeen, Quarantine,
       Decide, WriteRecord, WriteConflict, RecordEvent, EndCycle, AbandonCycle,
       StartCycle, Sending

\* A request starts only on a device that serves none.
LEMMA OneRequestStep ==
  ASSUME ~Threaded, BaseInv, CloudInv, OneRequest, [SystemNext]_sysVars
  PROVE  OneRequest'
<1> USE DEF BaseInv, CloudInv
<1>1. ASSUME NEW d \in Devices, NEW c \in Cycles, DeviceOf[c] = d,
             cycle[c].pc = "idle", cycle'[c].pc # "idle"
      PROVE  /\ draft'[d] = NoDraft /\ resolving'[d] = {}
             /\ \A b \in Cycles : DeviceOf[b] = d /\ b # c =>
                  cycle'[b].pc = "idle"
  <2>1. Runs(c)
    BY <1>1, WhoRuns
  <2>2. MayStart(d)
    BY <1>1, <2>1, WhoStarts
  <2>3. PICK t : cycle' = [cycle EXCEPT ![c] = t]
    BY <2>1, CyclePlain
  <2>4. \A b \in Cycles : b # c => cycle'[b] = cycle[b]
    BY <2>3 DEF DeviceTypes
  <2>5. UNCHANGED <<draft, resolving>>
    BY <2>1, CyclePlain
  <2> QED
    BY <1>1, <2>2, <2>4, <2>5, StartsAlone
<1>2. ASSUME NEW d \in Devices, draft[d] = NoDraft, draft'[d] # NoDraft
      PROVE  /\ resolving'[d] = {}
             /\ \A c \in Cycles : DeviceOf[c] = d => cycle'[c].pc = "idle"
  <2>1. PICK r \in Records : BeginUpdate(d, r)
    BY <1>2, WhoDrafts
  <2>2. MayStart(d) /\ UNCHANGED <<resolving, cycle>>
    BY <2>1 DEF BeginUpdate
  <2> QED
    BY <2>2, StartsAlone
<1>3. ASSUME NEW d \in Devices, resolving[d] = {}, resolving'[d] # {}
      PROVE  /\ draft'[d] = NoDraft
             /\ \A c \in Cycles : DeviceOf[c] = d => cycle'[c].pc = "idle"
  <2>1. Resolves(d)
    BY <1>3, WhoResolves
  <2>2. PICK c \in conflicts : \E q \in ResolutionEvents(d, c) :
          SendResolution(d, c, q)
    BY <1>3, <2>1 DEF Resolves, FinishResolution, LoseResolution
  <2>3. MayStart(d) /\ UNCHANGED <<draft, cycle>>
    BY <2>2 DEF SendResolution
  <2> QED
    BY <2>3, StartsAlone
<1>4. ASSUME NEW d \in Devices, NEW a \in Cycles, NEW b \in Cycles,
             DeviceOf[a] = d, DeviceOf[b] = d,
             cycle'[a].pc # "idle", cycle'[b].pc # "idle"
      PROVE  a = b
  BY <1>1, <1>4 DEF OneRequest
<1>5. ASSUME NEW d \in Devices, NEW c \in Cycles, DeviceOf[c] = d,
             cycle'[c].pc # "idle"
      PROVE  draft'[d] = NoDraft /\ resolving'[d] = {}
  <2>1. CASE cycle[c].pc = "idle"
    BY <1>1, <1>5, <2>1
  <2>2. CASE cycle[c].pc # "idle"
    <3>1. draft[d] = NoDraft /\ resolving[d] = {}
      BY <1>5, <2>2 DEF OneRequest
    <3> QED
      BY <1>2, <1>3, <1>5, <3>1
  <2> QED
    BY <2>1, <2>2
<1>6. ASSUME NEW d \in Devices, draft'[d] # NoDraft
      PROVE  resolving'[d] = {}
  <2>1. CASE draft[d] = NoDraft
    BY <1>2, <1>6, <2>1
  <2>2. CASE draft[d] # NoDraft
    <3>1. resolving[d] = {}
      BY <2>2 DEF OneRequest
    <3> QED
      BY <1>3, <1>6, <3>1
  <2> QED
    BY <2>1, <2>2
<1> HIDE DEF BaseInv, CloudInv
<1> QED
  BY <1>4, <1>5, <1>6 DEF OneRequest

\* A row goes forward: an edit and a put follow the version that was read.
LEMMA RowsGrow ==
  ASSUME ~Threaded, BaseInv, CloudInv, NowhereElse, DraftStands, PlanStands,
         [SystemNext]_sysVars, NEW x \in Devices, NEW s \in Records
  PROVE  \/ local'[x][s].ver = local[x][s].ver
            /\ local'[x][s].body = local[x][s].body
         \/ local'[x][s].ver > local[x][s].ver
<1>1. DeviceTypes /\ HasPage
  BY DEF BaseInv
<1>2. local[x][s].ver \in Nat
  BY <1>1, BoundsAssumption DEF DeviceTypes, Rows
<1>3. CASE Create(x, s) /\ local'[x][s].ver = 1
  <2>1. \A y \in Devices : \A o \in outbox[y] : o.req.rec # s
    BY <1>3 DEF Create
  <2>2. local[x][s] = NoRecord
    BY <2>1 DEF NowhereElse
  <2> QED
    BY <1>3, <2>2 DEF NoRecord
<1>4. CASE FinishUpdate(x) /\ draft[x].rec = s
           /\ local'[x][s].ver = draft[x].ver
  <2>1. draft[x].ver = local[x][s].ver + 1
    BY <1>4 DEF FinishUpdate, DraftStands
  <2> QED
    BY <1>2, <1>4, <2>1
<1>5. ASSUME NEW c \in Cycles, DeviceOf[c] = x, WriteRecord(c),
             s = Current(c).req.rec, local'[x][s].ver = Current(c).req.ver
      PROVE  local'[x][s].ver > local[x][s].ver
  BY <1>5 DEF WriteRecord, PlanStands
<1> QED
  BY <1>1, <1>3, <1>4, <1>5, RowsMove

\* The current event of a page that stays is the same.
LEMMA CurrentStays ==
  ASSUME NEW c, cycle'[c].page = cycle[c].page
  PROVE  Current(c)' = Current(c)
BY DEF Current

\* The event a thread handles is in the log.
LEMMA PageEvent ==
  ASSUME BaseInv, NEW c \in Cycles, cycle[c].pc \in {"check", "write", "record"}
  PROVE  /\ Current(c) \in events /\ Current(c) \in LogEvents
         /\ Current(c) \in cycle[c].page
         /\ DeviceOf[c] \in Devices
         /\ Current(c).req \in Requests /\ Current(c).cursor \in Nat
         /\ Current(c).req.rec \in Records
         /\ Current(c).req.ver \in 1..MaxVersion
<1>1. cycle[c].page # {}
  BY DEF BaseInv, HasPage
<1>2. Current(c) \in cycle[c].page /\ Current(c) \in LogEvents
  BY <1>1, CurrentIs DEF BaseInv
<1>3. Current(c) \in events
  BY <1>2 DEF BaseInv, ThreadsReal
<1> QED
  BY <1>2, <1>3, DevicesAssumption DEF LogEvents, Requests

\* What apply_remote_event writes.
LEMMA WriteRecordDoes ==
  ASSUME BaseInv, NEW c \in Cycles, WriteRecord(c)
  PROVE  LET d == DeviceOf[c]
             q == Current(c).req
         IN /\ local'[d][q.rec].ver = q.ver
            /\ local'[d][q.rec].body = body[q.vid]
            /\ local'[d][q.rec].cv = q.vid
            /\ \A y \in Devices, s \in Records :
                 y # d \/ s # q.rec => local'[y][s] = local[y][s]
<1>1. Current(c).req \in Requests /\ DeviceOf[c] \in Devices
  BY PageEvent DEF WriteRecord
<1>2. PICK q \in Requests : q = Current(c).req
  BY <1>1
<1>3. PICK row : row = [ver |-> q.ver, body |-> body[q.vid], cv |-> q.vid]
  OBVIOUS
<1>4. local' = [local EXCEPT ![DeviceOf[c]][q.rec] = row]
  BY <1>2, <1>3 DEF WriteRecord
<1>5. q.rec \in Records /\ local \in [Devices -> [Records -> Rows]]
  BY DEF BaseInv, DeviceTypes, Requests
<1>6. /\ local'[DeviceOf[c]][q.rec] = row
      /\ \A y \in Devices, s \in Records :
           y # DeviceOf[c] \/ s # q.rec => local'[y][s] = local[y][s]
  BY <1>1, <1>4, <1>5
<1>7. row.ver = q.ver /\ row.body = body[q.vid] /\ row.cv = q.vid
  BY <1>3
<1> QED
  BY <1>2, <1>6, <1>7

\* What put_conflict keeps.
LEMMA WriteConflictDoes ==
  ASSUME BaseInv, NEW c \in Cycles, WriteConflict(c)
  PROVE  \E k \in kept'[DeviceOf[c]] : k.remote = Current(c).req.vid
<1>1. Current(c).req \in Requests /\ DeviceOf[c] \in Devices
  BY PageEvent DEF WriteConflict
<1>2. PICK q \in Requests : q = Current(c).req
  BY <1>1
<1>3. PICK k : k = [rec |-> q.rec, mine |-> cycle[c].plan.mine,
                    remote |-> q.vid]
  OBVIOUS
<1>4. kept' = [kept EXCEPT ![DeviceOf[c]] = @ \cup {k}] /\ k.remote = q.vid
  BY <1>2, <1>3 DEF WriteConflict
<1> QED
  BY <1>1, <1>2, <1>4 DEF BaseInv, DeviceTypes

\* No conflict is removed from a device.
LEMMA KeptGrows ==
  ASSUME BaseInv, [SystemNext]_sysVars, NEW d \in Devices
  PROVE  kept[d] \subseteq kept'[d]
<1>1. CASE UNCHANGED kept
  BY <1>1
<1>2. ASSUME NEW c \in Cycles, WriteConflict(c) PROVE kept[d] \subseteq kept'[d]
  BY <1>2 DEF WriteConflict, BaseInv, DeviceTypes
<1> QED
  BY <1>1, <1>2, NextIs, UserPlain, ResolvesPlain, CyclePlain
     DEF deviceVars, BaseInv

\* What was recorded as processed stays so, and is recorded in one place.
LEMMA SeenGrows ==
  ASSUME BaseInv, [SystemNext]_sysVars, NEW d \in Devices
  PROVE  /\ seen[d] \subseteq seen'[d]
         /\ \A i \in seen'[d] : i \notin seen[d] =>
              \E c \in Cycles : /\ RecordEvent(c) /\ DeviceOf[c] = d
                                /\ i = Current(c).req.id
<1>1. CASE UNCHANGED seen
  BY <1>1
<1>2. ASSUME NEW c \in Cycles, RecordEvent(c)
      PROVE  /\ seen[d] \subseteq seen'[d]
             /\ \A i \in seen'[d] : i \notin seen[d] =>
                  DeviceOf[c] = d /\ i = Current(c).req.id
  <2>1. seen' = [seen EXCEPT ![DeviceOf[c]] = @ \cup {Current(c).req.id}]
    BY <1>2 DEF RecordEvent
  <2> QED
    BY <2>1 DEF BaseInv, DeviceTypes
<1> QED
  BY <1>1, <1>2, NextIs, UserPlain, ResolvesPlain, CyclePlain
     DEF deviceVars, BaseInv

\* Only events of the log are recorded as processed.
LEMMA SeenLoggedStep ==
  ASSUME BaseInv, SeenIsLogged, [SystemNext]_sysVars, events \subseteq events'
  PROVE  SeenIsLogged'
<1> SUFFICES ASSUME NEW d \in Devices, NEW i \in seen'[d]
             PROVE  \E e \in events' : e.req.id = i
  BY DEF SeenIsLogged, Recorded
<1>1. CASE i \in seen[d]
  BY <1>1 DEF SeenIsLogged, Recorded
<1>2. CASE i \notin seen[d]
  <2>1. PICK c \in Cycles : RecordEvent(c) /\ i = Current(c).req.id
    BY <1>2, SeenGrows
  <2>2. Current(c) \in events
    BY <2>1, PageEvent DEF RecordEvent
  <2> QED
    BY <2>1, <2>2
<1> QED
  BY <1>1, <1>2

\* While a thread handles an event, nothing else changes its device's rows.
LEMMA RowsHeld ==
  ASSUME ~Threaded, BaseInv, OneRequest, [SystemNext]_sysVars,
         NEW c \in Cycles, cycle[c].pc # "idle", ~WriteRecord(c),
         NEW s \in Records
  PROVE  /\ local'[DeviceOf[c]][s].ver = local[DeviceOf[c]][s].ver
         /\ local'[DeviceOf[c]][s].body = local[DeviceOf[c]][s].body
<1> DEFINE d == DeviceOf[c]
<1>1. d \in Devices
  BY DevicesAssumption
<1>2. draft[d] = NoDraft
  BY <1>1 DEF OneRequest
<1>3. ~Create(d, s)
  BY <1>1, StartsAlone DEF Create
<1>4. ~FinishUpdate(d)
  BY <1>2 DEF FinishUpdate
<1>5. ASSUME NEW b \in Cycles, DeviceOf[b] = d, WriteRecord(b) PROVE FALSE
  <2>1. b = c
    BY <1>1, <1>5 DEF OneRequest, WriteRecord
  <2> QED
    BY <1>5, <2>1
<1>6. DeviceTypes /\ HasPage
  BY DEF BaseInv
<1> QED
  BY <1>1, <1>3, <1>4, <1>5, <1>6, RowsMove

\* The row an editor read is the row it replaces.
LEMMA DraftStandsStep ==
  ASSUME ~Threaded, BaseInv, OneRequest, DraftStands, [SystemNext]_sysVars
  PROVE  DraftStands'
<1> SUFFICES ASSUME NEW d \in Devices, draft'[d] # NoDraft
             PROVE  draft'[d].ver = local'[d][draft'[d].rec].ver + 1
  BY DEF DraftStands
<1>1. DeviceTypes /\ HasPage
  BY DEF BaseInv
<1>2. CASE draft'[d] # draft[d]
  <2>1. PICK r \in Records : BeginUpdate(d, r)
    BY <1>1, <1>2, WhoDrafts
  <2>2. PICK n \in Int : n = local[d][r].ver
    BY <2>1 DEF BeginUpdate
  <2>3. draft'[d] = [rec |-> r, ver |-> n + 1] /\ local' = local
    BY <1>1, <2>1, <2>2 DEF BeginUpdate, DeviceTypes, deviceVars
  <2> QED
    BY <2>2, <2>3
<1>3. CASE draft'[d] = draft[d]
  <2>1. draft[d].rec \in Records
    BY <1>1, <1>3 DEF DeviceTypes, Drafts
  <2>2. ~Create(d, draft[d].rec)
    BY <1>3, StartsAlone DEF Create
  <2>3. ~FinishUpdate(d)
    BY <1>1, <1>3 DEF FinishUpdate, DeviceTypes
  <2>4. ASSUME NEW c \in Cycles, DeviceOf[c] = d, WriteRecord(c) PROVE FALSE
    BY <1>3, <2>4 DEF OneRequest, WriteRecord
  <2>5. local'[d][draft[d].rec].ver = local[d][draft[d].rec].ver
    BY <1>1, <2>1, <2>2, <2>3, <2>4, RowsMove
  <2> QED
    BY <1>3, <2>5 DEF DraftStands
<1> QED
  BY <1>2, <1>3

\* The row a cycle read is the row it replaces.
LEMMA PlanStandsStep ==
  ASSUME ~Threaded, BaseInv, CloudInv, OneRequest, PlanStands,
         [SystemNext]_sysVars
  PROVE  PlanStands'
<1> SUFFICES ASSUME NEW c \in Cycles, cycle'[c].pc = "write",
                    cycle'[c].plan.does = "put"
             PROVE  /\ Current(c)'.applied
                    /\ Current(c)'.req.ver
                         > local'[DeviceOf[c]][Current(c)'.req.rec].ver
  BY DEF PlanStands
<1>1. DeviceTypes /\ HasPage /\ TypeOK
  BY DEF BaseInv, CloudInv
<1>2. CASE cycle'[c] = cycle[c]
  <2>1. Current(c)' = Current(c) /\ cycle[c].pc = "write"
    BY <1>2, CurrentStays
  <2>2. ~WriteRecord(c)
    <3>1. ASSUME WriteRecord(c) PROVE cycle'[c].pc = "record"
      BY <1>1, <3>1, StageMoves DEF WriteRecord, Moved, Stages
    <3> QED
      BY <3>1
  <2>3. Current(c).req.rec \in Records
    BY <2>1, PageEvent
  <2>4. local'[DeviceOf[c]][Current(c).req.rec].ver
          = local[DeviceOf[c]][Current(c).req.rec].ver
    BY <2>1, <2>2, <2>3, RowsHeld
  <2> QED
    BY <1>2, <2>1, <2>4 DEF PlanStands
<1>3. CASE cycle'[c] # cycle[c]
  <2>1. Runs(c)
    BY <1>1, <1>3, WhoRuns
  <2>2. /\ Decide(c) /\ cycle'[c].page = cycle[c].page
        /\ cycle'[c].plan = PlanFor(DeviceOf[c], Current(c))
        /\ UNCHANGED local
    BY <1>1, <2>1, StagesOf
  <2>3. Current(c)' = Current(c)
    BY <2>2, CurrentStays
  <2>4. PICK e \in LogEvents : e = Current(c) /\ e.req \in Requests
    BY <2>2, PageEvent DEF Decide
  <2>5. PlanFor(DeviceOf[c], e).does = "put"
    BY <2>2, <2>4
  <2>6. ~Competes(DeviceOf[c], e)
    BY <2>5 DEF PlanFor
  <2>7. e.req.rec \in Records /\ e.req.ver \in Nat \ {0} /\ DeviceOf[c] \in Devices
    BY <2>4, DevicesAssumption, BoundsAssumption DEF Requests
  <2>8. local[DeviceOf[c]][e.req.rec].ver \in Nat
    BY <1>1, <2>7, BoundsAssumption DEF DeviceTypes, Rows
  <2>9. e.applied
    BY <2>6, Zenon DEF Competes
  <2>10. e.req.ver > local[DeviceOf[c]][e.req.rec].ver
    <3>1. CASE local[DeviceOf[c]][e.req.rec] = NoRecord
      <4>1. local[DeviceOf[c]][e.req.rec].ver = 0
        BY <3>1 DEF NoRecord
      <4> QED
        BY <2>7, <4>1
    <3>2. CASE local[DeviceOf[c]][e.req.rec] # NoRecord
      <4>1. ~(e.req.ver <= local[DeviceOf[c]][e.req.rec].ver)
        BY <2>6, <3>2 DEF Competes
      <4> QED
        BY <2>7, <2>8, <4>1
    <3> QED
      BY <3>1, <3>2
  <2> QED
    BY <2>2, <2>3, <2>4, <2>9, <2>10
<1> QED
  BY <1>2, <1>3

\* What is on a device stays there.
LEMMA StoredStays ==
  ASSUME ~Threaded, BaseInv, CloudInv, NowhereElse, DraftStands, PlanStands,
         [SystemNext]_sysVars, NEW d \in Devices, NEW e \in LogEvents,
         StoredOn(d, e)
  PROVE  StoredOn(d, e)'
<1>1. CASE \E k \in kept[d] : k.remote = e.req.vid
  BY <1>1, KeptGrows DEF StoredOn
<1>2. CASE e.applied /\ local[d][e.req.rec].ver >= e.req.ver
  <2>1. e.req.rec \in Records /\ e.req.ver \in Nat
    BY DEF LogEvents, Requests
  <2>2. PICK s \in Records : s = e.req.rec
    BY <2>1
  <2>3. local[d][s] \in Rows /\ local'[d][s] \in Rows
    <3>1. DeviceTypes' /\ DeviceTypes
      BY BaseStep DEF BaseInv, CloudInv
    <3> QED
      BY <3>1 DEF DeviceTypes
  <2>4. local[d][s].ver \in Nat /\ local'[d][s].ver \in Nat
    BY <2>3, BoundsAssumption DEF Rows
  <2>5. local'[d][s].ver >= local[d][s].ver
    BY <2>4, RowsGrow
  <2>6. local'[d][e.req.rec].ver >= e.req.ver
    BY <1>2, <2>1, <2>2, <2>4, <2>5
  <2> QED
    BY <1>2, <2>6 DEF StoredOn
<1> QED
  BY <1>1, <1>2 DEF StoredOn

\* An event about to be recorded as processed is stored.
LEMMA AboutToRecordStep ==
  ASSUME ~Threaded, BaseInv, CloudInv, NowhereElse, DraftStands, PlanStands,
         AboutToRecord, [SystemNext]_sysVars
  PROVE  AboutToRecord'
<1> SUFFICES ASSUME NEW c \in Cycles, cycle'[c].pc = "record"
             PROVE  StoredOn(DeviceOf[c], Current(c))'
  BY DEF AboutToRecord
<1>1. DeviceTypes /\ HasPage /\ TypeOK
  BY DEF BaseInv, CloudInv
<1>2. CASE cycle'[c] = cycle[c]
  <2>1. Current(c)' = Current(c) /\ cycle[c].pc = "record"
    BY <1>2, CurrentStays
  <2>2. PICK e \in LogEvents : e = Current(c) /\ DeviceOf[c] \in Devices
    BY <2>1, PageEvent
  <2>3. StoredOn(DeviceOf[c], e)
    BY <2>1, <2>2 DEF AboutToRecord
  <2>4. StoredOn(DeviceOf[c], e)'
    BY <2>2, <2>3, StoredStays
  <2> QED
    BY <2>1, <2>2, <2>4 DEF StoredOn
<1>3. CASE cycle'[c] # cycle[c]
  <2>1. Runs(c)
    BY <1>1, <1>3, WhoRuns
  <2>2. CASE /\ Decide(c) /\ cycle'[c].page = cycle[c].page
             /\ cycle'[c].plan = PlanFor(DeviceOf[c], Current(c))
             /\ cycle'[c].plan.does # "nothing" => cycle'[c].pc = "write"
             /\ UNCHANGED local
    <3>1. Current(c)' = Current(c)
      BY <2>2, CurrentStays
    <3>2. PICK e \in LogEvents : e = Current(c) /\ DeviceOf[c] \in Devices
      BY <2>2, PageEvent DEF Decide
    <3>3. PlanFor(DeviceOf[c], e).does = "nothing"
      BY <2>2, <3>2
    <3>4. Held(DeviceOf[c], e)
      <4>1. ~Held(DeviceOf[c], e) =>
              PlanFor(DeviceOf[c], e).does \in {"keep", "put"}
        BY DEF PlanFor
      <4> QED
        BY <3>3, <4>1
    <3>5. e.applied /\ e.req.ver = local[DeviceOf[c]][e.req.rec].ver
      BY <3>4, Zenon DEF Held, SameContent
    <3>6. e.req.ver \in Nat
      BY DEF LogEvents, Requests
    <3> QED
      BY <2>2, <3>1, <3>2, <3>5, <3>6 DEF StoredOn
  <2>3. CASE WriteRecord(c) /\ cycle'[c].page = cycle[c].page
    <3>1. Current(c)' = Current(c)
      BY <2>3, CurrentStays
    <3>2. PICK e \in LogEvents : e = Current(c)
      BY <2>3, PageEvent DEF WriteRecord
    <3>3. e.applied
      BY <2>3, <3>2 DEF WriteRecord, PlanStands
    <3>4. local'[DeviceOf[c]][e.req.rec].ver = e.req.ver
      BY <2>3, <3>2, WriteRecordDoes
    <3>5. e.req.ver \in Nat
      BY DEF LogEvents, Requests
    <3> QED
      BY <3>1, <3>2, <3>3, <3>4, <3>5 DEF StoredOn
  <2>4. CASE WriteConflict(c) /\ cycle'[c].page = cycle[c].page
    <3>1. Current(c)' = Current(c)
      BY <2>4, CurrentStays
    <3> QED
      BY <2>4, <3>1, WriteConflictDoes DEF StoredOn
  <2> QED
    BY <1>1, <2>1, <2>2, <2>3, <2>4, StagesOf
<1> QED
  BY <1>2, <1>3

\* An event that was recorded as processed stays stored.
LEMMA SeenIsStoredStep ==
  ASSUME ~Threaded, BaseInv, CloudInv, NowhereElse, DraftStands, PlanStands,
         AboutToRecord, SeenIsLogged, SeenIsStored, RecordedOnce',
         [SystemNext]_sysVars, events \subseteq events'
  PROVE  SeenIsStored'
<1> SUFFICES ASSUME NEW d \in Devices, NEW e \in events', e.req.id \in seen'[d]
             PROVE  StoredOn(d, e)'
  BY DEF SeenIsStored, StoredOn
<1>1. events \subseteq LogEvents
  BY DEF CloudInv, TypeOK, LogEvents
<1>2. CASE e.req.id \in seen[d]
  <2>1. PICK f \in events : f.req.id = e.req.id
    BY <1>2 DEF SeenIsLogged, Recorded
  <2>2. f = e
    BY <2>1 DEF RecordedOnce
  <2>3. StoredOn(d, e) /\ e \in LogEvents
    BY <1>1, <1>2, <2>1, <2>2 DEF SeenIsStored, StoredOn
  <2> QED
    BY <2>3, StoredStays
<1>3. CASE e.req.id \notin seen[d]
  <2>1. PICK c \in Cycles : /\ RecordEvent(c) /\ DeviceOf[c] = d
                            /\ e.req.id = Current(c).req.id
    BY <1>3, SeenGrows
  <2>2. PICK f \in events : f = Current(c) /\ f \in LogEvents
    BY <2>1, PageEvent DEF RecordEvent
  <2>3. f = e
    BY <2>1, <2>2 DEF RecordedOnce
  <2>4. StoredOn(d, e) /\ e \in LogEvents
    BY <2>1, <2>2, <2>3 DEF RecordEvent, AboutToRecord
  <2> QED
    BY <2>4, StoredStays
<1> QED
  BY <1>2, <1>3

StoredInv ==
  /\ OneRequest /\ DraftStands /\ PlanStands
  /\ SeenIsLogged /\ AboutToRecord /\ SeenIsStored

\* Every step keeps StoredInv.
LEMMA StoredStep ==
  ASSUME ~Threaded, BaseInv, CloudInv, IdInv, NowhereElse, StoredInv,
         [SystemNext]_sysVars
  PROVE  StoredInv'
<1> USE DEF StoredInv
<1>1. events \subseteq events' /\ IdInv'
  BY BaseStep, IdStep, LogGrows DEF CloudInv
<1>2. RecordedOnce'
  BY <1>1 DEF IdInv
<1>3. OneRequest' /\ DraftStands' /\ PlanStands'
  BY OneRequestStep, DraftStandsStep, PlanStandsStep
<1>4. SeenIsLogged' /\ AboutToRecord' /\ SeenIsStored'
  BY <1>1, <1>2, SeenLoggedStep, AboutToRecordStep, SeenIsStoredStep
<1> QED
  BY <1>3, <1>4

\* StoredInv holds at the start.
LEMMA StoredInit ==
  ASSUME SystemInit
  PROVE  NowhereElse /\ StoredInv
<1>1. /\ \A d \in Devices : /\ outbox[d] = {} /\ resolving[d] = {} /\ seen[d] = {}
                            /\ draft[d] = NoDraft
                            /\ \A r \in Records : local[d][r] = NoRecord
      /\ events = {} /\ open = {}
      /\ \A c \in Cycles : cycle[c] = Idle
  BY DEF SystemInit, Init
<1>2. \A q \in Made : FALSE
  BY <1>1, MadeIs DEF Queued
<1>3. \A c \in Cycles : cycle[c].pc = "idle"
  BY <1>1, IdleIs
<1>4. NowhereElse
  BY <1>1, <1>2 DEF NowhereElse
<1>5. OneRequest /\ DraftStands /\ PlanStands
  BY <1>1, <1>3 DEF OneRequest, DraftStands, PlanStands
<1>6. SeenIsLogged /\ AboutToRecord /\ SeenIsStored
  BY <1>1, <1>3 DEF SeenIsLogged, AboutToRecord, SeenIsStored
<1> QED
  BY <1>4, <1>5, <1>6 DEF StoredInv

\* Everything the layers above this one need of a step.
SystemInv == BaseInv /\ CloudInv /\ IdInv /\ NowhereElse

\* Every step keeps what holds on a threaded server too.
LEMMA SystemStep ==
  ASSUME SystemInv, [SystemNext]_sysVars
  PROVE  SystemInv' /\ [Next]_vars
<1> USE DEF SystemInv
<1>1. BaseInv' /\ [Next]_vars
  BY BaseStep DEF CloudInv
<1>2. CloudInv' /\ IdInv'
  BY <1>1, NextInv, IdStep
<1>3. NowhereElse'
  BY NowhereStep DEF IdInv
<1> QED
  BY <1>1, <1>2, <1>3

\* While a device serves one request at a time, an event is recorded as
\* processed only once its content is in the record's row, or a later one is,
\* or in a conflict beside it, and whatever crashes (apply_remote_event and
\* record_sync_event, two transactions).
THEOREM EventsAreStored == ~Threaded => (SystemSpec => []SeenIsStored)
<1> SUFFICES ASSUME ~Threaded PROVE SystemSpec => []SeenIsStored
  OBVIOUS
<1>1. SystemInit => SystemInv /\ StoredInv
  BY BaseInit, InitInv, IdInit, StoredInit DEF SystemInit, SystemInv
<1>2. SystemInv /\ StoredInv /\ [SystemNext]_sysVars => SystemInv' /\ StoredInv'
  <2>1. SystemInv => BaseInv /\ CloudInv /\ IdInv /\ NowhereElse
    BY DEF SystemInv
  <2> QED
    BY <2>1, SystemStep, StoredStep
<1>3. StoredInv => SeenIsStored
  BY DEF StoredInv
<1> QED
  BY <1>1, <1>2, <1>3, PTL DEF SystemSpec

\* While a device serves one request at a time, a row changes its content
\* only for that of a later version (put_record compares nothing itself: the
\* editor and apply_remote_event did before).
THEOREM RowsOnlyAdvance == ~Threaded => (SystemSpec => NoStaleOverwrite)
<1> SUFFICES ASSUME ~Threaded PROVE SystemSpec => NoStaleOverwrite
  OBVIOUS
<1>1. SystemInit => SystemInv /\ StoredInv
  BY BaseInit, InitInv, IdInit, StoredInit DEF SystemInit, SystemInv
<1>2. SystemInv /\ StoredInv /\ [SystemNext]_sysVars
        => /\ SystemInv' /\ StoredInv'
           /\ [\A d \in Devices, r \in Records :
                 local'[d][r].body # local[d][r].body
                   => local'[d][r].ver > local[d][r].ver]_sysVars
  <2>1. SystemInv => BaseInv /\ CloudInv /\ IdInv /\ NowhereElse
    BY DEF SystemInv
  <2>2. StoredInv => DraftStands /\ PlanStands
    BY DEF StoredInv
  <2>3. ASSUME SystemInv, StoredInv, [SystemNext]_sysVars,
               NEW d \in Devices, NEW r \in Records,
               local'[d][r].body # local[d][r].body
        PROVE  local'[d][r].ver > local[d][r].ver
    BY <2>1, <2>2, <2>3, RowsGrow
  <2> QED
    BY <2>1, <2>3, SystemStep, StoredStep
<1> QED
  BY <1>1, <1>2, PTL DEF SystemSpec, NoStaleOverwrite

-----------------------------------------------------------------------------
(* Heads, versions and bodies                                              *)

\* Every stored version was an event.
VersionsLogged ==
  \A v \in versions : \E e \in events :
    e.req.rec = v.rec /\ e.req.vid = v.vid /\ e.req.ver = v.ver

LogInv == HeadIsLast /\ VersionsLogged

\* A version is stored with its event.
LEMMA VersionsLoggedStep ==
  ASSUME CloudInv, VersionsLogged, [Next]_vars
  PROVE  VersionsLogged'
<1>1. events \subseteq events' /\ TypeOK
  BY LogGrows DEF CloudInv
<1>2. ASSUME versions' = versions PROVE VersionsLogged'
  BY <1>1, <1>2 DEF VersionsLogged
<1>3. ASSUME NEW t \in open, Commit(t) PROVE VersionsLogged'
  <2>1. PICK e \in LogEvents : events' = events \cup {e} /\ e.req = t.req
    BY <1>1, <1>3, CommitDoes
  <2>2. versions' = versions \cup {VersionOf(t)}
    BY <1>3 DEF Commit
  <2>3. /\ VersionOf(t).rec = e.req.rec /\ VersionOf(t).vid = e.req.vid
        /\ VersionOf(t).ver = e.req.ver
    BY <2>1 DEF VersionOf
  <2> QED
    BY <2>1, <2>2, <2>3 DEF VersionsLogged
<1>4. CASE CommitRotation
  <2>1. \A v \in versions : /\ Rewrapped(v).rec = v.rec
                            /\ Rewrapped(v).vid = v.vid
                            /\ Rewrapped(v).ver = v.ver
    <3> SUFFICES ASSUME NEW v \in Versions
                 PROVE  /\ Rewrapped(v).rec = v.rec
                        /\ Rewrapped(v).vid = v.vid
                        /\ Rewrapped(v).ver = v.ver
      BY <1>1 DEF TypeOK
    <3> QED
      BY DEF Rewrapped, Versions
  <2>2. \A w \in versions' : \E v \in versions : w = v \/ w = Rewrapped(v)
    BY <1>4 DEF CommitRotation
  <2>3. \A w \in versions' : \E v \in versions :
          w.rec = v.rec /\ w.vid = v.vid /\ w.ver = v.ver
    BY <2>1, <2>2
  <2> QED
    BY <1>1, <2>3 DEF VersionsLogged
<1>5. ASSUME \/ \E q \in Requests : Push(q) \/ \E c \in conflicts : Resolve(c, q)
             \/ \E t \in open : Rollback(t)
             \/ \E c \in conflicts, e \in events : ResolveWithHead(c, e)
             \/ BeginRotation
             \/ \E batch \in SUBSET versions : StageRewrap(batch)
             \/ \E complete \in BOOLEAN : SetEnvelopes(complete)
             \/ UNCHANGED vars
      PROVE  versions' = versions
  BY <1>5 DEF Push, Resolve, Rollback, ResolveWithHead, BeginRotation,
              StageRewrap, SetEnvelopes, vars
<1> QED
  BY <1>2, <1>3, <1>4, <1>5 DEF Next

\* The head's version number is that of its event.
LEMMA HeadEvent ==
  ASSUME CloudInv, NEW r \in Records, NEW e \in Applied(r),
         e.req.vid = heads[r].vid
  PROVE  e.req.ver = heads[r].ver
<1>1. heads[r].vid # Null
  BY DEF CloudInv, LinearHistory
<1>2. \A f \in Applied(r) : f.req.base # e.req.vid
  BY <1>1 DEF CloudInv, HeadOnLine
<1> QED
  BY <1>2 DEF CloudInv, LinearHistory

\* A record's line ends with its head.
LEMMA HeadIsLastStep ==
  ASSUME CloudInv, HeadIsLast, [Next]_vars
  PROVE  HeadIsLast'
<1>1. TypeOK
  BY DEF CloudInv
<1>2. ASSUME UNCHANGED <<heads, events>> PROVE HeadIsLast'
  BY <1>2 DEF HeadIsLast, Applied
<1>3. ASSUME NEW t \in open, Commit(t) PROVE HeadIsLast'
  <2>1. PICK e \in LogEvents :
          /\ events' = events \cup {e}
          /\ e.req = t.req /\ e.applied = t.applied
    BY <1>1, <1>3, CommitDoes
  <2>2. t \in Transactions /\ t.req \in Requests
    BY <1>1 DEF TypeOK, Transactions
  <2>3. CASE ~t.applied
    <3>1. heads' = heads
      BY <1>3, <2>3 DEF Commit
    <3>2. \A r \in Records : Applied(r)' = Applied(r)
      BY <2>1, <2>3 DEF Applied
    <3> QED
      BY <3>1, <3>2 DEF HeadIsLast
  <2>4. CASE t.applied
    <3>1. PICK r \in Records, v \in VersionIds, n \in Nat :
            r = t.req.rec /\ v = t.req.vid /\ n = t.req.ver
      BY <2>2, BoundsAssumption DEF Requests
    <3>2. heads' = [heads EXCEPT ![r] = [vid |-> v, ver |-> n]]
      BY <1>3, <2>4, <3>1 DEF Commit
    <3>3. /\ heads'[r].vid = v /\ heads'[r].ver = n
          /\ \A s \in Records \ {r} : heads'[s] = heads[s]
      BY <1>1, <3>2 DEF TypeOK
    <3>4. \A s \in Records \ {r} : Applied(s)' = Applied(s)
      BY <2>1, <3>1 DEF Applied
    <3>5. Applied(r)' = Applied(r) \cup {e}
      BY <2>1, <2>4, <3>1 DEF Applied
    <3>6. FollowsHead(t.req)
      BY <2>4 DEF CloudInv, DecisionStands
    <3>7. ASSUME NEW f \in Applied(r) PROVE f.req.ver < n
      <4>1. heads[r].vid # Null
        BY <3>7 DEF CloudInv, LinearHistory
      <4>2. n = heads[r].ver + 1
        BY <3>1, <3>6, <4>1 DEF FollowsHead
      <4>3. f.req.ver \in Nat /\ heads[r].ver \in Nat
        BY <1>1, BoundsAssumption DEF Applied, TypeOK, Requests
      <4>4. f.req.ver < heads[r].ver \/ f.req.vid = heads[r].vid
        BY DEF HeadIsLast
      <4>5. f.req.ver <= heads[r].ver
        BY <4>3, <4>4, HeadEvent
      <4> QED
        BY <4>2, <4>3, <4>5
    <3>8. e.req.vid = v
      BY <2>1, <3>1
    <3> QED
      BY <3>3, <3>4, <3>5, <3>7, <3>8 DEF HeadIsLast
  <2> QED
    BY <2>3, <2>4
<1>4. ASSUME \/ \E q \in Requests : Push(q) \/ \E c \in conflicts : Resolve(c, q)
             \/ \E t \in open : Rollback(t)
             \/ \E c \in conflicts, e \in events : ResolveWithHead(c, e)
             \/ BeginRotation
             \/ \E batch \in SUBSET versions : StageRewrap(batch)
             \/ \E complete \in BOOLEAN : SetEnvelopes(complete)
             \/ CommitRotation
             \/ UNCHANGED vars
      PROVE  UNCHANGED <<heads, events>>
  BY <1>4 DEF Push, Resolve, Rollback, ResolveWithHead, BeginRotation,
              StageRewrap, SetEnvelopes, CommitRotation, vars
<1> QED
  BY <1>2, <1>3, <1>4 DEF Next

\* The body of a version that was drawn never changes.
LEMMA BodiesStay ==
  ASSUME BaseInv, CloudInv, Identified, [SystemNext]_sysVars,
         NEW v \in VersionIds, v <= lastId
  PROVE  body'[v] = body[v] /\ v <= lastId'
<1>1. DeviceTypes /\ lastId \in Nat /\ v \in Nat
  BY DevicesAssumption DEF BaseInv, DeviceTypes
<1>2. ASSUME NEW d \in Devices, NEW r \in Records, NEW ver \in 1..MaxVersion,
             Edits(d, r, ver)
      PROVE  body'[v] = body[v] /\ lastId' = lastId + 1
  <2>1. lastId' = lastId + 1 /\ body' = [body EXCEPT ![lastId + 1] = lastId + 1]
    BY <1>2 DEF Edits, PutEdit
  <2> QED
    BY <1>1, <2>1 DEF DeviceTypes
<1>3. ASSUME NEW d \in Devices, NEW c \in conflicts,
             NEW q \in ResolutionEvents(d, c), SendResolution(d, c, q)
      PROVE  body'[v] = body[v]
  <2>1. CASE q.id # lastId + 1
    BY <1>3, <2>1 DEF SendResolution
  <2>2. CASE q.id = lastId + 1
    <3>1. q.vid = lastId + 1
      <4>1. CASE \E o \in outbox[d] : o.req = q
        <5>1. q \in Queued(d)
          BY <4>1 DEF Queued
        <5>2. q \in Made
          BY <5>1, MadeIs
        <5> QED
          BY <2>2, <5>2 DEF Identified
      <4> QED
        BY <4>1, ResolutionIsRequest DEF BaseInv, CloudInv
    <3>2. body' = [body EXCEPT ![q.vid] = local[d][c.rec].body]
      BY <1>3, <2>2 DEF SendResolution
    <3> QED
      BY <1>1, <3>1, <3>2 DEF DeviceTypes
  <2> QED
    BY <2>1, <2>2
<1>4. ASSUME NEW c \in Cycles,
             \/ MarkSent(c) \/ MarkConflicted(c)
             \/ /\ PushRefused(c) \/ PushAborted(c) \/ PushLost(c)
                /\ MarkFailed(c)
      PROVE  body' = body
  BY <1>4, MarkStep
<1>5. body'[v] = body[v]
  BY <1>1, <1>2, <1>3, <1>4, StepKinds DEF Quiet
<1>6. lastId' = lastId \/ lastId' = lastId + 1
  BY MadeHow
<1> QED
  BY <1>1, <1>5, <1>6

\* A request names a version that was drawn.
LEMMA MadeIsDrawn ==
  ASSUME BaseInv, CloudInv, Identified, NEW q \in Made
  PROVE  /\ q \in Requests /\ q.vid \in VersionIds /\ q.vid <= lastId
         /\ q.rec \in Records /\ q.ver \in Nat \ {0}
<1>1. q \in Requests
  BY MadeAreRequests DEF BaseInv, CloudInv
<1> QED
  BY <1>1, BoundsAssumption DEF Requests, Identified

\* So an edit keeps its content.
LEMMA ContentStays ==
  ASSUME BaseInv, CloudInv, Identified, [SystemNext]_sysVars,
         NEW q \in Made, NEW d, NEW s,
         local'[d][s].ver = local[d][s].ver,
         local'[d][s].body = local[d][s].body,
         SameContent(q, local[d][s])
  PROVE  SameContent(q, local[d][s])'
<1>1. body'[q.vid] = body[q.vid]
  BY MadeIsDrawn, BodiesStay
<1> QED
  BY <1>1 DEF SameContent

-----------------------------------------------------------------------------
(* Resolutions                                                             *)

\* A resolution belongs to the one request its device serves.
LEMMA ResolvingAlone ==
  ASSUME OneRequest, NEW d \in Devices, resolving[d] # {}
  PROVE  /\ draft[d] = NoDraft
         /\ \A c \in Cycles : DeviceOf[c] = d => cycle[c].pc = "idle"
BY DEF OneRequest

\* While it waits, the device's rows keep their content.
LEMMA RowsWait ==
  ASSUME ~Threaded, BaseInv, OneRequest, [SystemNext]_sysVars,
         NEW d \in Devices, resolving[d] # {}, NEW s \in Records
  PROVE  /\ local'[d][s].ver = local[d][s].ver
         /\ local'[d][s].body = local[d][s].body
<1>1. /\ draft[d] = NoDraft
      /\ \A c \in Cycles : DeviceOf[c] = d => cycle[c].pc = "idle"
  BY ResolvingAlone
<1>2. ~Create(d, s)
  BY StartsAlone DEF Create
<1>3. ~FinishUpdate(d)
  BY <1>1 DEF FinishUpdate
<1>4. ASSUME NEW c \in Cycles, DeviceOf[c] = d, WriteRecord(c) PROVE FALSE
  BY <1>1, <1>4 DEF WriteRecord
<1> QED
  BY <1>2, <1>3, <1>4, RowsMove DEF BaseInv

\* What a resolution waits for.
WaitsFor(d, x) ==
  /\ SameContent(x.req, local[d][x.req.rec])
  /\ \A t \in open : t.req.id = x.req.id => t.applied
  /\ \A e \in events : e.req.id = x.req.id => e.applied
  /\ \A y \in Devices \ {d} : \A q \in Queued(y) : q.id # x.req.id

\* The resolutions stand if each of them has what it waits for.
LEMMA ResolutionWaits ==
  ResolutionStands <=> \A d \in Devices : \A x \in resolving[d] : WaitsFor(d, x)
BY DEF ResolutionStands, WaitsFor, Queued

\* The same after a step.
LEMMA ResolutionWaitsNext ==
  (\A d \in Devices : \A x \in resolving'[d] : WaitsFor(d, x)')
    => ResolutionStands'
BY DEF ResolutionStands, WaitsFor, Queued

\* One that begins has what it needs.
LEMMA ResolutionBegins ==
  ASSUME BaseInv, CloudInv, IdInv, NEW d \in Devices, NEW c \in conflicts,
         NEW q \in ResolutionEvents(d, c), SendResolution(d, c, q),
         NEW x \in resolving'[d], [SystemNext]_sysVars
  PROVE  x.req = q /\ WaitsFor(d, x)'
<1> USE DEF IdInv
<1>1. /\ q \in Requests /\ q.rec = c.rec /\ c.rec \in Records
      /\ \/ \E o \in outbox[d] : o.req = q /\ SameContent(q, local[d][c.rec])
         \/ /\ q.id = lastId + 1 /\ q.vid = lastId + 1
            /\ q.ver = local[d][c.rec].ver /\ lastId + 1 \in VersionIds
  BY ResolutionIsRequest DEF BaseInv, CloudInv
<1>2. PICK w : w = [req |-> q, wasBlocked |-> q.rec \in blocked[d]]
  OBVIOUS
<1>3. resolving' = [resolving EXCEPT ![d] = {w}] /\ w.req = q
  BY <1>2 DEF SendResolution, Await
<1>4. x = w
  BY <1>3 DEF BaseInv, DeviceTypes
<1>5. x.req = q /\ local' = local /\ outbox' = outbox
  BY <1>3, <1>4 DEF SendResolution, deviceVars
<1>6. SameContent(q, local[d][q.rec])'
  <2>1. CASE \E o \in outbox[d] : o.req = q /\ SameContent(q, local[d][c.rec])
    <3>1. q \in Queued(d)
      BY <2>1 DEF Queued
    <3>2. q \in Made
      BY <3>1, MadeIs
    <3> QED
      BY <1>1, <1>5, <2>1, <3>2, ContentStays
  <2>2. CASE q.id = lastId + 1 /\ q.vid = lastId + 1
             /\ q.ver = local[d][c.rec].ver /\ lastId + 1 \in VersionIds
    <3>1. body' = [body EXCEPT ![q.vid] = local[d][c.rec].body]
      BY <2>2 DEF SendResolution
    <3>2. body'[q.vid] = local[d][c.rec].body
      BY <2>2, <3>1 DEF BaseInv, DeviceTypes
    <3> QED
      BY <1>1, <1>5, <2>2, <3>2 DEF SameContent
  <2> QED
    BY <1>1, <2>1, <2>2
<1>7. \A y \in Devices \ {d} : \A p \in Queued(y) : p.id # q.id
  <2>1. CASE \E o \in outbox[d] : o.req = q
    <3>1. q \in Queued(d)
      BY <2>1 DEF Queued
    <3> QED
      BY <3>1 DEF QueuedOnce
  <2>2. CASE q.id = lastId + 1
    <3>1. \A y \in Devices : \A p \in Queued(y) : p \in Made
      BY MadeIs
    <3>2. \A p \in Made : p.id \in Nat /\ p.id <= lastId
      BY MadeIsDrawn, DevicesAssumption DEF Identified, Requests
    <3>3. lastId \in Nat
      BY DEF BaseInv, DeviceTypes
    <3> QED
      BY <2>2, <3>1, <3>2, <3>3
  <2> QED
    BY <1>1, <2>1, <2>2
<1>8. /\ \A t \in open' : t.req.id = q.id => t.applied
      /\ \A e \in events' : e.req.id = q.id => e.applied
  <2>1. UNCHANGED events
    BY SendResolutionDoes
  <2>2. CASE Resolve(c, q)
    <3>1. LocksFree(q) /\ ~Recorded(q.id) /\ FollowsHead(q)
          /\ OpenTransaction(q, c.incoming)
      BY <2>2 DEF Resolve
    <3>2. c.incoming \in VersionIds \cup {Null}
      BY DEF CloudInv, TypeOK, Conflicts
    <3>3. PICK t \in Transactions : open' = open \cup {t}
                                    /\ t.applied = FollowsHead(q)
      BY <1>1, <3>1, <3>2, OpenDoes DEF CloudInv
    <3>4. t.applied
      BY <3>1, <3>3, Zenon
    <3> QED
      BY <2>1, <3>1, <3>3, <3>4 DEF LocksFree, Recorded
  <2>3. CASE Recorded(q.id) /\ Answer(q).req = q
             /\ ResolveWithHead(c, Answer(q))
    <3>1. Answer(q) \in events /\ Answer(q).applied /\ open' = open
          /\ LocksFree(q)
      BY <2>3, AnswerIs DEF ResolveWithHead
    <3> QED
      BY <2>1, <2>3, <3>1 DEF RecordedOnce, LocksFree
  <2> QED
    BY <2>2, <2>3 DEF SendResolution
<1>9. \A y \in Devices : Queued(y)' = Queued(y)
  BY <1>5 DEF Queued
<1> QED
  BY <1>5, <1>6, <1>7, <1>8, <1>9 DEF WaitsFor

\* Nothing another device does sends or records the event otherwise.
LEMMA ResolutionWaitsOn ==
  ASSUME ~Threaded, BaseInv, CloudInv, IdInv, OneRequest, [SystemNext]_sysVars,
         NEW d \in Devices, NEW x \in resolving[d], WaitsFor(d, x)
  PROVE  WaitsFor(d, x)'
<1> USE DEF IdInv
<1>1. x.req \in Made
  BY MadeIs
<1>2. /\ x.req \in Requests /\ x.req.rec \in Records
      /\ x.req.id <= lastId /\ x.req.id \in Nat /\ lastId \in Nat
  BY <1>1, MadeIsDrawn, DevicesAssumption
     DEF Identified, Requests, BaseInv, DeviceTypes
<1>3. SameContent(x.req, local[d][x.req.rec])'
  BY <1>1, <1>2, RowsWait, ContentStays DEF WaitsFor
<1>4. \A y \in Devices \ {d} : \A q \in Queued(y)' : q.id # x.req.id
  <2> SUFFICES ASSUME NEW y \in Devices \ {d}, NEW q \in Queued(y)',
                      q.id = x.req.id
               PROVE  FALSE
    OBVIOUS
  <2>1. q \in Made'
    <3>1. (\E z \in Devices : q \in Queued(z)') => q \in Made'
      BY DEF Made
    <3> QED
      BY <3>1
  <2>2. q \in Made
    BY <1>2, <2>1, MadeHow
  <2>3. q = x.req
    BY <1>1, <2>2 DEF Identified
  <2>4. q \in Queued(y)
    <3>1. CASE \E z \in Devices, r \in Records, ver \in 1..MaxVersion :
                 Edits(z, r, ver)
      <4>1. PICK z \in Devices, r \in Records, ver \in 1..MaxVersion :
              Edits(z, r, ver)
        BY <3>1
      <4>2. PICK p \in Requests, o \in Entries :
              /\ Draws(p) /\ o.req = p
              /\ outbox'[z] = outbox[z] \cup {o}
              /\ \A w \in Devices \ {z} : outbox'[w] = outbox[w]
        BY <4>1, MadeByEdit DEF Edits
      <4>3. q = p \/ q \in Queued(y)
        BY <4>2 DEF Queued
      <4> QED
        BY <1>2, <4>2, <4>3 DEF Draws
    <3>2. ASSUME NEW z \in Devices, NEW c \in conflicts,
                 NEW p \in ResolutionEvents(z, c), SendResolution(z, c, p)
          PROVE  Queued(y)' = Queued(y)
      BY <3>2 DEF SendResolution, deviceVars, Queued
    <3>3. ASSUME NEW c \in Cycles,
                 \/ MarkSent(c) \/ MarkConflicted(c)
                 \/ /\ PushRefused(c) \/ PushAborted(c) \/ PushLost(c)
                    /\ MarkFailed(c)
          PROVE  Queued(y)' = Queued(y)
      BY <3>3, MarkStep
    <3>4. ASSUME Quiet PROVE Queued(y)' = Queued(y)
      BY <3>4 DEF Quiet, Queued
    <3> QED
      BY <3>1, <3>2, <3>3, <3>4, StepKinds DEF BaseInv
  <2> QED
    BY <2>4 DEF WaitsFor
<1>5. /\ \A t \in open' : t.req.id = x.req.id => t.applied
      /\ \A e \in events' : e.req.id = x.req.id => e.applied
  <2>1. CASE UNCHANGED <<open, events>>
    BY <2>1 DEF WaitsFor
  <2>2. ASSUME NEW c \in Cycles, SendPush(c)
        PROVE  /\ \A t \in open' : t.req.id = x.req.id => t.applied
               /\ events' = events
    <3>1. PICK t \in Transactions :
            /\ t.req \in Queued(DeviceOf[c]) /\ open' = open \cup {t}
            /\ events' = events
      BY <2>2, SendPushDoes
    <3>2. DeviceOf[c] \in Devices \ {d}
      <4>1. cycle[c].pc # "idle"
        BY <2>2 DEF SendPush, Sending
      <4> QED
        BY <4>1, ResolvingAlone, DevicesAssumption
    <3> QED
      BY <3>1, <3>2 DEF WaitsFor
  <2>3. ASSUME NEW z \in Devices, NEW c \in conflicts,
               NEW q \in ResolutionEvents(z, c), SendResolution(z, c, q)
        PROVE  /\ \A t \in open' : t.req.id = x.req.id => t.applied
               /\ events' = events
    BY <2>3, SendResolutionDoes DEF WaitsFor
  <2>4. ASSUME NEW t \in open, Commit(t)
        PROVE  /\ \A u \in open' : u.req.id = x.req.id => u.applied
               /\ \A e \in events' : e.req.id = x.req.id => e.applied
    <3>1. PICK e \in LogEvents :
            /\ events' = events \cup {e} /\ open' = open \ {t}
            /\ e.req = t.req /\ e.applied = t.applied
      BY <2>4, CommitDoes DEF CloudInv
    <3> QED
      BY <3>1 DEF WaitsFor
  <2>5. ASSUME NEW t \in open, Rollback(t)
        PROVE  open' \subseteq open /\ events' = events
    BY <2>5 DEF Rollback
  <2>6. ASSUME NEW c \in Cycles,
               \/ MarkSent(c) \/ MarkConflicted(c)
               \/ /\ PushRefused(c) \/ PushAborted(c) \/ PushLost(c)
                  /\ MarkFailed(c)
        PROVE  UNCHANGED <<open, events>>
    BY <2>6, MarkStep
  <2>7. ASSUME NEW z \in Devices, NEW r \in Records, NEW ver \in 1..MaxVersion,
               Edits(z, r, ver)
        PROVE  UNCHANGED <<open, events>>
    BY <2>7 DEF Edits, PutEdit, vars
  <2> QED
    BY <2>1, <2>2, <2>3, <2>4, <2>5, <2>6, <2>7, StepKinds
       DEF WaitsFor, Quiet, BaseInv
<1> QED
  BY <1>3, <1>4, <1>5 DEF WaitsFor

\* One that waits keeps what it needs.
LEMMA ResolutionStandsStep ==
  ASSUME ~Threaded, BaseInv, CloudInv, IdInv, OneRequest, ResolutionStands,
         [SystemNext]_sysVars
  PROVE  ResolutionStands'
<1> SUFFICES ASSUME NEW d \in Devices, NEW x \in resolving'[d]
             PROVE  WaitsFor(d, x)'
  BY ResolutionWaitsNext
<1>1. CASE x \in resolving[d]
  BY <1>1, ResolutionWaits, ResolutionWaitsOn
<1>2. CASE x \notin resolving[d]
  <2>1. Resolves(d)
    BY <1>2, WhoResolves DEF BaseInv
  <2>2. PICK c \in conflicts : \E q \in ResolutionEvents(d, c) :
          SendResolution(d, c, q)
    BY <1>2, <2>1
       DEF Resolves, FinishResolution, LoseResolution, BaseInv, DeviceTypes
  <2>3. PICK q \in ResolutionEvents(d, c) : SendResolution(d, c, q)
    BY <2>2
  <2> QED
    BY <2>3, ResolutionBegins
<1> QED
  BY <1>1, <1>2

-----------------------------------------------------------------------------
(* Where the content of a row comes from                                   *)

\* An entry that fails is still to be delivered.
LEMMA FailedStays ==
  ASSUME BaseInv, Identified, NEW c \in Cycles, MarkFailed(c),
         cycle[c].queue # {}, NEW o \in outbox[DeviceOf[c]],
         o.req.id = NextToSend(c).id
  PROVE  \E p \in outbox'[DeviceOf[c]] :
           p.req = o.req /\ p.state \notin {"sent", "conflict"}
<1> DEFINE d == DeviceOf[c]
<1> DEFINE q == NextToSend(c)
<1>1. d \in Devices /\ DeviceTypes /\ HasPage
  BY DevicesAssumption DEF BaseInv
<1>2. cycle[c].queue \subseteq Queued(d)
  BY DEF BaseInv, ThreadsReal
<1>3. q \in Queued(d)
  BY <1>1, <1>2, NextToSendIs
<1>4. \A p \in outbox[d] : p.req.id = q.id => p.req = q
  <2>1. \A p \in outbox[d] : p.req \in Queued(d)
    BY DEF Queued
  <2>2. q \in Made /\ \A p \in outbox[d] : p.req \in Made
    BY <1>1, <1>3, <2>1, MadeIs
  <2> QED
    BY <2>2 DEF Identified
<1>5. PICK n \in Nat, s \in {"retry", "manual"} : outbox' = Mark(d, q.id, s, n)
  BY <1>1, <1>2, MarkFailedTypes
<1>6. PICK p \in outbox'[d] : p.req = o.req /\ p.state = s
  BY <1>1, <1>4, <1>5, MarkIs
<1> QED
  BY <1>6

\* An edit that is to be delivered stays so until it is on the line of its
\* record, or its record is frozen.
LEMMA UndeliveredFate ==
  ASSUME BaseInv, CloudInv, Identified, [SystemNext]_sysVars,
         NEW d \in Devices, NEW r, NEW o \in Undelivered(d, r)
  PROVE  \/ \E p \in Undelivered(d, r)' : p.req = o.req
         \/ \E e \in Applied(r) : e.req = o.req
         \/ r \in blocked'[d]
<1>1. o \in outbox[d] /\ o.req.rec = r /\ o.state \notin {"sent", "conflict"}
  BY DEF Undelivered
<1>2. ASSUME o \in outbox'[d] PROVE \E p \in Undelivered(d, r)' : p.req = o.req
  BY <1>1, <1>2 DEF Undelivered
<1>3. ASSUME NEW x \in Devices, NEW s \in Records, NEW ver \in 1..MaxVersion,
             Edits(x, s, ver)
      PROVE  o \in outbox'[d]
  <2>1. PICK q \in Requests, w \in Entries :
          /\ outbox'[x] = outbox[x] \cup {w}
          /\ \A y \in Devices \ {x} : outbox'[y] = outbox[y]
    BY <1>3, MadeByEdit DEF Edits
  <2> QED
    BY <1>1, <2>1
<1>4. ASSUME NEW x \in Devices, NEW c \in conflicts,
             NEW q \in ResolutionEvents(x, c), SendResolution(x, c, q)
      PROVE  o \in outbox'[d]
  BY <1>1, <1>4 DEF SendResolution, deviceVars
<1>5. ASSUME NEW c \in Cycles,
             \/ MarkSent(c) \/ MarkConflicted(c)
             \/ /\ PushRefused(c) \/ PushAborted(c) \/ PushLost(c)
                /\ MarkFailed(c),
             o \notin outbox'[d]
      PROVE  \/ \E p \in Undelivered(d, r)' : p.req = o.req
             \/ \E e \in Applied(r) : e.req = o.req
             \/ r \in blocked'[d]
  <2>1. /\ NextToSend(c) \in Queued(DeviceOf[c])
        /\ \A x \in Devices \ {DeviceOf[c]} : outbox'[x] = outbox[x]
        /\ \A w \in outbox[DeviceOf[c]] : w.req.id # NextToSend(c).id =>
             w \in outbox'[DeviceOf[c]]
    BY <1>5, MarkStep
  <2>2. d = DeviceOf[c] /\ o.req.id = NextToSend(c).id
    BY <1>1, <1>5, <2>1
  <2>3. o.req = NextToSend(c)
    <3>1. o.req \in Queued(d)
      BY <1>1 DEF Queued
    <3>2. o.req \in Made /\ NextToSend(c) \in Made
      BY <2>1, <2>2, <3>1, MadeIs
    <3> QED
      BY <2>2, <3>2 DEF Identified
  <2>4. CASE MarkSent(c)
    <3>1. /\ Answer(NextToSend(c)) \in events
          /\ Answer(NextToSend(c)).req = NextToSend(c)
          /\ Answer(NextToSend(c)).applied
      BY <2>4, AnswerIs DEF MarkSent
    <3> QED
      BY <1>1, <2>3, <3>1 DEF Applied
  <2>5. CASE MarkConflicted(c)
    <3>1. PICK s : s = NextToSend(c).rec
      OBVIOUS
    <3>2. blocked' = [blocked EXCEPT ![DeviceOf[c]] = @ \cup {s}]
      BY <2>5, <3>1 DEF MarkConflicted
    <3>3. s \in blocked'[d]
      BY <2>2, <3>2 DEF BaseInv, DeviceTypes
    <3> QED
      BY <1>1, <2>3, <3>1, <3>3
  <2>6. CASE /\ PushRefused(c) \/ PushAborted(c) \/ PushLost(c)
             /\ MarkFailed(c)
    <3>1. cycle[c].queue # {}
      BY <2>6 DEF PushRefused, PushAborted, PushLost, Sending
    <3>2. PICK p \in outbox'[d] :
            p.req = o.req /\ p.state \notin {"sent", "conflict"}
      BY <1>1, <2>2, <2>6, <3>1, FailedStays
    <3> QED
      BY <1>1, <3>2 DEF Undelivered
  <2> QED
    BY <1>5, <2>4, <2>5, <2>6
<1>6. ASSUME Quiet PROVE o \in outbox'[d]
  BY <1>1, <1>6 DEF Quiet
<1> QED
  BY <1>2, <1>3, <1>4, <1>5, <1>6, StepKinds DEF BaseInv

\* A record that is not frozen changes by an edit or a put.
LEMMA FreeRowsMove ==
  ASSUME BaseInv, CloudInv, Identified, [SystemNext]_sysVars,
         NEW d \in Devices, NEW r \in Records,
         r \notin blocked[d], r \notin blocked'[d]
  PROVE  \/ local'[d][r] = local[d][r]
         \/ \E ver \in 1..MaxVersion : Edits(d, r, ver)
         \/ \E c \in Cycles : /\ DeviceOf[c] = d /\ WriteRecord(c)
                              /\ r = Current(c).req.rec
<1>1. DeviceTypes /\ HasPage /\ local \in [Devices -> [Records -> Rows]]
      /\ blocked \in [Devices -> SUBSET Records]
  BY DEF BaseInv, DeviceTypes
<1>2. ASSUME NEW x \in Devices,
             (\E s \in Records : Create(x, s)) \/ FinishUpdate(x)
      PROVE  \/ local'[d][r] = local[d][r]
             \/ \E ver \in 1..MaxVersion : Edits(d, r, ver)
  <2>1. PICK s \in Records, ver \in 1..MaxVersion : Edits(x, s, ver)
    BY <1>1, <1>2, EditIs
  <2>2. PICK q \in Requests, o \in Entries, row \in Rows :
          \A y \in Devices, t \in Records :
            y # x \/ t # s => local'[y][t] = local[y][t]
    BY <1>1, <2>1, PutEditDoes DEF Edits
  <2> QED
    BY <2>1, <2>2
<1>3. ASSUME NEW x \in Devices, FinishResolution(x)
      PROVE  local'[d][r] = local[d][r]
  <2>1. PICK y \in resolving[x] :
          \/ local' = local
          \/ /\ y.req.rec \in blocked[x]
             /\ local' = [local EXCEPT ![x][y.req.rec].cv = y.req.vid]
    BY <1>3 DEF FinishResolution
  <2>2. PICK s : s = y.req.rec
    OBVIOUS
  <2>3. CASE local' # local
    <3>1. s \in blocked[x] /\ s \in Records
      BY <1>1, <2>1, <2>2, <2>3
    <3>2. local' = [local EXCEPT ![x][s].cv = y.req.vid]
      BY <2>1, <2>2, <2>3
    <3> QED
      BY <1>1, <3>1, <3>2
  <2> QED
    BY <2>3
<1>4. ASSUME NEW c \in Cycles, MarkConflicted(c)
      PROVE  local'[d][r] = local[d][r]
  <2>1. DeviceOf[c] \in Devices /\ NextToSend(c).rec \in Records
    BY <1>4, MarkStep, DevicesAssumption DEF Requests
  <2>2. PICK s \in Records : s = NextToSend(c).rec
    BY <2>1
  <2>3. blocked' = [blocked EXCEPT ![DeviceOf[c]] = @ \cup {s}]
    BY <1>4, <2>2 DEF MarkConflicted
  <2>4. \/ local' = local
        \/ local' = [local EXCEPT ![DeviceOf[c]][s].cv = NextToSend(c).base]
    BY <1>4, <2>2 DEF MarkConflicted
  <2>5. d # DeviceOf[c] \/ r # s
    BY <1>1, <2>1, <2>3
  <2> QED
    BY <1>1, <2>1, <2>4, <2>5
<1>5. ASSUME NEW c \in Cycles, WriteRecord(c)
      PROVE  \/ local'[d][r] = local[d][r]
             \/ DeviceOf[c] = d /\ r = Current(c).req.rec
  BY <1>5, WriteRecordDoes
<1>6. CASE local' = local
  BY <1>6
<1>7. \/ local' = local
      \/ \E x \in Devices : (\E s \in Records : Create(x, s)) \/ FinishUpdate(x)
      \/ \E x \in Devices : FinishResolution(x)
      \/ \E c \in Cycles : WriteRecord(c) \/ MarkConflicted(c)
  BY <1>1, NextIs, UserPlain, ResolvesPlain, CyclePlain DEF deviceVars
<1> QED
  BY <1>2, <1>3, <1>4, <1>5, <1>6, <1>7

\* A record thaws by a resolution the cloud has recorded.
LEMMA Thaws ==
  ASSUME BaseInv, CloudInv, [SystemNext]_sysVars,
         NEW d \in Devices, NEW r \in Records,
         r \in blocked[d], r \notin blocked'[d]
  PROVE  /\ \E x \in resolving[d] :
              /\ Recorded(x.req.id) /\ x.req.rec = r
              /\ local'[d][r].ver = local[d][r].ver
              /\ local'[d][r].body = local[d][r].body
              /\ local'[d][r].cv = x.req.vid
         /\ UNCHANGED <<body, lastId, events, outbox>>
<1>1. DeviceTypes /\ local \in [Devices -> [Records -> Rows]]
      /\ blocked \in [Devices -> SUBSET Records]
  BY DEF BaseInv, DeviceTypes
<1>2. blocked' # blocked
  OBVIOUS
<1>3. ASSUME NEW c \in Cycles, MarkConflicted(c) PROVE FALSE
  <2>1. blocked' = [blocked EXCEPT ![DeviceOf[c]] = @ \cup {NextToSend(c).rec}]
    BY <1>3 DEF MarkConflicted
  <2> QED
    BY <1>1, <2>1
<1>4. PICK y \in Devices : FinishResolution(y)
  BY <1>1, <1>2, <1>3, NextIs, UserPlain, ResolvesPlain, CyclePlain
     DEF deviceVars
<1>5. PICK x \in resolving[y] :
        /\ Recorded(x.req.id)
        /\ x.req.rec \in blocked[y]
        /\ blocked' = [blocked EXCEPT ![y] = @ \ {x.req.rec}]
        /\ local' = [local EXCEPT ![y][x.req.rec].cv = x.req.vid]
  BY <1>2, <1>4 DEF FinishResolution
<1>6. PICK s \in Records, v \in VersionIds : s = x.req.rec /\ v = x.req.vid
  BY DEF BaseInv, DeviceTypes, Resolutions, Requests
<1>7. y = d /\ s = r
  BY <1>1, <1>5, <1>6
<1>8. PICK row \in Rows : row = local[d][r]
  BY <1>1
<1>9. PICK new : new = [row EXCEPT !.cv = v]
  OBVIOUS
<1>10. new.ver = row.ver /\ new.body = row.body /\ new.cv = v
  BY <1>9, SMT DEF Rows
<1>11. local' = [local EXCEPT ![d][r] = new]
  BY <1>1, <1>5, <1>6, <1>7, <1>8, <1>9
<1>12. local'[d][r] = new
  BY <1>1, <1>11
<1>13. UNCHANGED <<body, lastId, events, outbox>>
  BY <1>4 DEF FinishResolution, envVars, vars
<1> QED
  BY <1>5, <1>6, <1>7, <1>8, <1>10, <1>12, <1>13

\* A row that does not change keeps its source.
LEMMA SourceStays ==
  ASSUME BaseInv, CloudInv, IdInv, [SystemNext]_sysVars,
         NEW d \in Devices, NEW r \in Records, HasSource(d, r),
         local'[d][r].ver = local[d][r].ver,
         local'[d][r].body = local[d][r].body, r \notin blocked'[d],
         events \subseteq events'
  PROVE  HasSource(d, r)'
<1> USE DEF IdInv
<1>1. CASE \E e \in Applied(r) : SameContent(e.req, local[d][r])
  <2>1. PICK e \in Applied(r) : SameContent(e.req, local[d][r])
    BY <1>1
  <2>2. e \in Applied(r)' /\ e.req \in Made
    BY MadeIs DEF Applied
  <2>3. SameContent(e.req, local[d][r])'
    BY <2>1, <2>2, ContentStays
  <2> QED
    BY <2>2, <2>3 DEF HasSource
<1>2. CASE \E o \in Undelivered(d, r) : SameContent(o.req, local[d][r])
  <2>1. PICK o \in Undelivered(d, r) : SameContent(o.req, local[d][r])
    BY <1>2
  <2>2. o.req \in Made
    <3>1. o.req \in Queued(d)
      BY DEF Undelivered, Queued
    <3> QED
      BY <3>1, MadeIs
  <2>3. SameContent(o.req, local[d][r])'
    BY <2>1, <2>2, ContentStays
  <2>4. \/ \E p \in Undelivered(d, r)' : p.req = o.req
        \/ \E e \in Applied(r) : e.req = o.req
    BY UndeliveredFate
  <2>5. Applied(r) \subseteq Applied(r)'
    BY DEF Applied
  <2> QED
    BY <2>3, <2>4, <2>5 DEF HasSource
<1> QED
  BY <1>1, <1>2 DEF HasSource

\* The content of the row an edit or a put leaves.
LEMMA EditHasSource ==
  ASSUME BaseInv, NEW d \in Devices, NEW r \in Records,
         NEW ver \in 1..MaxVersion, Edits(d, r, ver)
  PROVE  HasSource(d, r)'
<1>1. PICK q \in Requests, o \in Entries, row \in Rows :
        /\ q.rec = r /\ q.ver = ver
        /\ o.req = q /\ o.state = "pending"
        /\ row.ver = ver /\ row.body = q.vid
        /\ body'[q.vid] = q.vid
        /\ outbox'[d] = outbox[d] \cup {o}
        /\ local'[d][r] = row
  BY PutEditDoes DEF Edits, BaseInv
<1>2. o \in Undelivered(d, r)'
  BY <1>1 DEF Undelivered
<1>3. SameContent(o.req, local[d][r])'
  BY <1>1 DEF SameContent
<1> QED
  BY <1>2, <1>3 DEF HasSource

\* The source of a row that came from the cloud is its event.
LEMMA PutHasSource ==
  ASSUME BaseInv, PlanStands, NEW c \in Cycles, WriteRecord(c),
         events \subseteq events', NEW r, r = Current(c).req.rec
  PROVE  HasSource(DeviceOf[c], r)'
<1>1. PICK e \in events : e = Current(c) /\ e.req.rec \in Records
  BY PageEvent DEF WriteRecord
<1>2. e.applied
  BY <1>1 DEF WriteRecord, PlanStands
<1>3. /\ local'[DeviceOf[c]][e.req.rec].ver = e.req.ver
      /\ local'[DeviceOf[c]][e.req.rec].body = body[e.req.vid]
      /\ body' = body
  BY <1>1, WriteRecordDoes DEF WriteRecord, envVars
<1>4. r = e.req.rec
  BY <1>1
<1>5. e \in Applied(r)'
  BY <1>2, <1>4 DEF Applied
<1>6. SameContent(e.req, local[DeviceOf[c]][r])'
  BY <1>3, <1>4 DEF SameContent
<1> QED
  BY <1>5, <1>6 DEF HasSource

\* Every step leaves the rows with a source.
LEMMA RowsHaveSourceStep ==
  ASSUME BaseInv, CloudInv, IdInv, PlanStands, ResolutionStands,
         RowsHaveSource, [SystemNext]_sysVars, events \subseteq events'
  PROVE  RowsHaveSource'
<1> USE DEF IdInv
<1> SUFFICES ASSUME NEW d \in Devices, NEW r \in Records,
                    r \notin blocked'[d], local'[d][r] # NoRecord
             PROVE  HasSource(d, r)'
  BY DEF RowsHaveSource
<1>1. CASE r \in blocked[d]
  <2>1. PICK x \in resolving[d] :
          /\ Recorded(x.req.id) /\ x.req.rec = r
          /\ local'[d][r].ver = local[d][r].ver
          /\ local'[d][r].body = local[d][r].body
    BY <1>1, Thaws
  <2>2. PICK e \in events : e.req.id = x.req.id
    BY <2>1 DEF Recorded
  <2>3. e.applied /\ SameContent(x.req, local[d][x.req.rec])
    BY <2>2 DEF ResolutionStands
  <2>4. e.req \in Made /\ x.req \in Made
    BY MadeIs
  <2>5. e.req = x.req
    BY <2>2, <2>4 DEF Identified
  <2>6. e \in Applied(r)'
    BY <2>1, <2>3, <2>5 DEF Applied
  <2>7. SameContent(e.req, local[d][r])
    BY <2>1, <2>3, <2>5
  <2>8. SameContent(e.req, local[d][r])'
    BY <2>1, <2>4, <2>7, ContentStays
  <2> QED
    BY <2>6, <2>8 DEF HasSource
<1>2. CASE r \notin blocked[d]
  <2>1. CASE local'[d][r] = local[d][r]
    <3>1. HasSource(d, r)
      BY <1>2, <2>1 DEF RowsHaveSource
    <3> QED
      BY <2>1, <3>1, SourceStays
  <2>2. CASE \E ver \in 1..MaxVersion : Edits(d, r, ver)
    BY <2>2, EditHasSource
  <2>3. ASSUME NEW c \in Cycles, DeviceOf[c] = d, WriteRecord(c),
               r = Current(c).req.rec
        PROVE  HasSource(d, r)'
    BY <2>3, PutHasSource
  <2> QED
    BY <1>2, <2>1, <2>2, <2>3, FreeRowsMove
<1> QED
  BY <1>1, <1>2

\* A row that names one version names it for good, until it changes.
LEMMA NamesStay ==
  ASSUME BaseInv, CloudInv, Identified, [SystemNext]_sysVars,
         NEW r, NEW row, NamesItsRequest(row, r)
  PROVE  NamesItsRequest(row, r)'
<1>1. lastId \in Nat /\ row.cv \in Nat /\ row.cv \in VersionIds
  BY DevicesAssumption DEF BaseInv, DeviceTypes, NamesItsRequest
<1>2. body'[row.cv] = body[row.cv] /\ row.cv <= lastId'
  BY <1>1, BodiesStay DEF NamesItsRequest
<1>3. ASSUME NEW q \in Made', q.vid = row.cv PROVE q \in Made
  BY <1>1, <1>3, MadeHow DEF NamesItsRequest
<1> QED
  BY <1>1, <1>2, <1>3 DEF NamesItsRequest

\* A row that carries a request's version names that request.
LEMMA NamesTheOne ==
  ASSUME BaseInv, CloudInv, Identified, [SystemNext]_sysVars,
         lastId' = lastId, body' = body, NEW q \in Made, NEW row,
         row.cv = q.vid, row.ver = q.ver, row.body = body[q.vid]
  PROVE  NamesItsRequest(row, q.rec)'
<1>1. q.vid \in VersionIds /\ q.vid <= lastId /\ q.vid = q.id
  BY MadeIsDrawn DEF Identified
<1>2. lastId \in Nat
  BY DEF BaseInv, DeviceTypes
<1>3. ASSUME NEW p \in Made', p.vid = q.vid PROVE p = q
  <2>1. p \in Made
    BY <1>2, MadeHow
  <2> QED
    BY <1>3, <2>1 DEF Identified
<1> QED
  BY <1>1, <1>3 DEF NamesItsRequest

\* An edit's row names the edit's request.
LEMMA EditNamesItsRequest ==
  ASSUME BaseInv, CloudInv, Identified, NEW d \in Devices, NEW r \in Records,
         NEW ver \in 1..MaxVersion, Edits(d, r, ver), [SystemNext]_sysVars
  PROVE  NamesItsRequest(local[d][r], r)'
<1>1. PICK q \in Requests, o \in Entries, row \in Rows :
        /\ q.id = lastId + 1 /\ q.vid = lastId + 1
        /\ q.rec = r /\ q.ver = ver /\ o.req = q
        /\ row.ver = ver /\ row.body = q.vid /\ row.cv = q.vid
        /\ lastId' = lastId + 1 /\ body'[q.vid] = q.vid
        /\ outbox'[d] = outbox[d] \cup {o}
        /\ local'[d][r] = row
  BY PutEditDoes DEF Edits, BaseInv
<1>2. lastId \in Nat /\ q.vid \in VersionIds
  BY DEF BaseInv, DeviceTypes, Requests
<1>3. ASSUME NEW p \in Made', p.vid = q.vid PROVE p = q
  <2>1. p \notin Made
    BY <1>1, <1>2, <1>3, MadeIsDrawn, DevicesAssumption
  <2>2. PICK w \in Requests : Draws(w)
    BY MadeByEdit DEF Edits
  <2>3. p = w
    BY <2>1, <2>2 DEF Draws
  <2>4. q \in Made'
    <3>1. q \in Queued(d)'
      BY <1>1 DEF Queued
    <3> QED
      BY <3>1 DEF Made
  <2>5. q \notin Made
    BY <1>1, <1>2, MadeIsDrawn, DevicesAssumption
  <2> QED
    BY <2>2, <2>3, <2>4, <2>5 DEF Draws
<1> QED
  BY <1>1, <1>2, <1>3 DEF NamesItsRequest

\* Every step leaves the rows naming what they carry.
LEMMA RowsNameRequestsStep ==
  ASSUME BaseInv, CloudInv, IdInv, ResolutionStands, RowsNameRequests,
         [SystemNext]_sysVars
  PROVE  RowsNameRequests'
<1> USE DEF IdInv
<1> SUFFICES ASSUME NEW d \in Devices, NEW r \in Records,
                    r \notin blocked'[d], local'[d][r] # NoRecord
             PROVE  NamesItsRequest(local[d][r], r)'
  BY DEF RowsNameRequests
<1>1. CASE r \in blocked[d]
  <2>1. PICK x \in resolving[d] :
          /\ x.req.rec = r
          /\ local'[d][r].ver = local[d][r].ver
          /\ local'[d][r].body = local[d][r].body
          /\ local'[d][r].cv = x.req.vid
    BY <1>1, Thaws
  <2>2. SameContent(x.req, local[d][r])
    BY <2>1 DEF ResolutionStands
  <2>3. lastId' = lastId /\ body' = body
    BY <1>1, Thaws
  <2>4. x.req \in Made
    BY MadeIs
  <2>5. PICK row : row = local'[d][r]
    OBVIOUS
  <2>6. /\ row.cv = x.req.vid /\ row.ver = x.req.ver
        /\ row.body = body[x.req.vid]
    BY <2>1, <2>2, <2>5 DEF SameContent
  <2>7. NamesItsRequest(row, r)'
    BY <2>1, <2>3, <2>4, <2>6, NamesTheOne
  <2> QED
    BY <2>5, <2>7 DEF NamesItsRequest
<1>2. CASE r \notin blocked[d]
  <2>1. CASE local'[d][r] = local[d][r]
    <3>1. PICK row : row = local[d][r] /\ NamesItsRequest(row, r)
      BY <1>2, <2>1 DEF RowsNameRequests
    <3>2. NamesItsRequest(row, r)'
      BY <3>1, NamesStay
    <3> QED
      BY <2>1, <3>1, <3>2 DEF NamesItsRequest
  <2>2. CASE \E ver \in 1..MaxVersion : Edits(d, r, ver)
    BY <2>2, EditNamesItsRequest
  <2>3. ASSUME NEW c \in Cycles, DeviceOf[c] = d, WriteRecord(c),
               r = Current(c).req.rec
        PROVE  NamesItsRequest(local[d][r], r)'
    <3>1. PICK e \in events : e = Current(c)
      BY <2>3, PageEvent DEF WriteRecord
    <3>2. e.req \in Made
      BY MadeIs
    <3>3. PICK row : row = local'[d][r]
      OBVIOUS
    <3>4. /\ row.cv = e.req.vid /\ row.ver = e.req.ver
          /\ row.body = body[e.req.vid]
      BY <2>3, <3>1, <3>3, WriteRecordDoes
    <3>5. lastId' = lastId /\ body' = body
      BY <2>3 DEF WriteRecord, envVars
    <3>6. NamesItsRequest(row, e.req.rec)'
      BY <3>2, <3>4, <3>5, NamesTheOne
    <3> QED
      BY <2>3, <3>1, <3>3, <3>6 DEF NamesItsRequest
  <2> QED
    BY <1>2, <2>1, <2>2, <2>3, FreeRowsMove
<1> QED
  BY <1>1, <1>2

-----------------------------------------------------------------------------
(* What a device shows                                                     *)

ShownInv ==
  /\ SystemInv /\ StoredInv /\ LogInv
  /\ ResolutionStands /\ RowsHaveSource /\ RowsNameRequests

\* ShownInv holds at the start.
LEMMA ShownInit ==
  ASSUME SystemInit
  PROVE  ShownInv
<1>1. SystemInv /\ StoredInv
  BY BaseInit, InitInv, IdInit, StoredInit DEF SystemInit, SystemInv
<1>2. /\ events = {} /\ versions = {}
      /\ \A d \in Devices : /\ resolving[d] = {}
                            /\ \A r \in Records : local[d][r] = NoRecord
  BY DEF SystemInit, Init
<1>3. LogInv
  BY <1>2 DEF LogInv, HeadIsLast, VersionsLogged, Applied
<1>4. ResolutionStands
  BY <1>2 DEF ResolutionStands
<1>5. RowsHaveSource /\ RowsNameRequests
  BY <1>2 DEF RowsHaveSource, RowsNameRequests
<1> QED
  BY <1>1, <1>3, <1>4, <1>5 DEF ShownInv

\* Every step keeps ShownInv.
LEMMA ShownStep ==
  ASSUME ~Threaded, ShownInv, [SystemNext]_sysVars
  PROVE  ShownInv'
<1>1. BaseInv /\ CloudInv /\ IdInv /\ NowhereElse
  BY DEF ShownInv, SystemInv
<1>2. OneRequest /\ PlanStands
  BY DEF ShownInv, StoredInv
<1>3. SystemInv' /\ [Next]_vars
  BY SystemStep DEF ShownInv
<1>4. events \subseteq events'
  BY <1>3, LogGrows
<1>5. StoredInv'
  BY <1>1, StoredStep DEF ShownInv
<1>6. LogInv'
  BY <1>1, <1>3, VersionsLoggedStep, HeadIsLastStep DEF ShownInv, LogInv
<1>7. ResolutionStands'
  BY <1>1, <1>2, ResolutionStandsStep DEF ShownInv
<1>8. RowsHaveSource'
  BY <1>1, <1>2, <1>4, RowsHaveSourceStep DEF ShownInv
<1>9. RowsNameRequests'
  BY <1>1, RowsNameRequestsStep DEF ShownInv
<1> QED
  BY <1>3, <1>5, <1>6, <1>7, <1>8, <1>9 DEF ShownInv

\* A device that processed the event of the head has it, or keeps it.
LEMMA ShownConverges ==
  ASSUME ShownInv
  PROVE  Converged
<1> SUFFICES ASSUME NEW d \in Devices, NEW r \in Records,
                    Applied(r) # {}, Undelivered(d, r) = {},
                    \A e \in events : e.req.rec = r => e.req.id \in seen[d],
                    r \notin blocked[d],
                    ~ \E k \in kept[d] : k.remote = heads[r].vid
             PROVE  /\ local[d][r].ver = heads[r].ver
                    /\ local[d][r].body = body[heads[r].vid]
  BY DEF Converged
<1>1. CloudInv /\ DeviceTypes /\ TypeOK
  BY DEF ShownInv, SystemInv, BaseInv, CloudInv
<1>2. heads[r].vid # Null
  BY <1>1 DEF CloudInv, LinearHistory
<1>3. PICK h \in Applied(r) :
        h.req.vid = heads[r].vid /\ h.req.ver = heads[r].ver
  BY <1>1, <1>2 DEF CloudInv, HeadOnLine
<1>4. h \in events /\ h.req.rec = r /\ h.req.id \in seen[d]
  BY <1>3 DEF Applied
<1>5. local[d][r].ver >= h.req.ver
  BY <1>3, <1>4 DEF ShownInv, StoredInv, SeenIsStored
<1>6. h.req \in Made
  BY <1>4, MadeIs
<1>7. h.req.ver \in Nat \ {0} /\ local[d][r].ver \in Nat
  <2>1. h.req.ver \in Nat \ {0}
    BY <1>1, <1>6, MadeIsDrawn DEF ShownInv, SystemInv, IdInv
  <2>2. local[d][r] \in Rows
    BY <1>1 DEF DeviceTypes
  <2> QED
    BY <2>1, <2>2, BoundsAssumption DEF Rows
<1>8. local[d][r] # NoRecord
  BY <1>5, <1>7 DEF NoRecord
<1>9. PICK e \in Applied(r) : SameContent(e.req, local[d][r])
  BY <1>8 DEF ShownInv, RowsHaveSource, HasSource
<1>10. e.req.vid = heads[r].vid
  BY <1>3, <1>5, <1>7, <1>9 DEF ShownInv, LogInv, HeadIsLast, SameContent
<1>11. e.req.ver = heads[r].ver
  BY <1>1, <1>10, HeadEvent
<1> QED
  BY <1>9, <1>10, <1>11 DEF SameContent

\* A version that was stored is the one its row names.
LEMMA ShownNames ==
  ASSUME ShownInv
  PROVE  RowNamesItsVersion
<1> SUFFICES ASSUME NEW d \in Devices, NEW r \in Records,
                    r \notin blocked[d], local[d][r] # NoRecord,
                    NEW v \in versions, v.rec = r, v.vid = local[d][r].cv
             PROVE  v.ver = local[d][r].ver /\ body[v.vid] = local[d][r].body
  BY DEF RowNamesItsVersion
<1>1. PICK e \in events : e.req.vid = v.vid /\ e.req.ver = v.ver
  BY DEF ShownInv, LogInv, VersionsLogged
<1>2. e.req \in Made
  BY MadeIs
<1>3. NamesItsRequest(local[d][r], r)
  BY DEF ShownInv, RowsNameRequests
<1> QED
  BY <1>1, <1>2, <1>3 DEF NamesItsRequest

\* While a device serves one request at a time, one that has processed every
\* event of a record, has nothing left to deliver for it and is not frozen on
\* it shows the cloud's head or keeps it in a conflict, whatever was lost,
\* retried or interrupted before (run_sync_cycle).
THEOREM DevicesConverge == ~Threaded => (SystemSpec => []Converged)
<1> SUFFICES ASSUME ~Threaded PROVE SystemSpec => []Converged
  OBVIOUS
<1>1. SystemInit => ShownInv
  BY ShownInit
<1>2. ShownInv /\ [SystemNext]_sysVars => ShownInv'
  BY ShownStep
<1>3. ShownInv => Converged
  BY ShownConverges
<1> QED
  BY <1>1, <1>2, <1>3, PTL DEF SystemSpec

\* While a device serves one request at a time, the version its row names,
\* which the next edit gives as its base, is the one the row shows, except
\* while the record is frozen (put_record, clear_sync_block).
THEOREM EditsBuildOnTheRow ==
  ~Threaded => (SystemSpec => []RowNamesItsVersion)
<1> SUFFICES ASSUME ~Threaded PROVE SystemSpec => []RowNamesItsVersion
  OBVIOUS
<1>1. SystemInit => ShownInv
  BY ShownInit
<1>2. ShownInv /\ [SystemNext]_sysVars => ShownInv'
  BY ShownStep
<1>3. ShownInv => RowNamesItsVersion
  BY ShownNames
<1> QED
  BY <1>1, <1>2, <1>3, PTL DEF SystemSpec

-----------------------------------------------------------------------------
(* The log of one record                                                   *)

OneRecord == \A r, s \in Records : r = s

\* With one record, a transaction that is open lies beyond the whole log.
LEMMA OpenLast ==
  ASSUME OneRecord, CloudInv, NEW t \in open, NEW e \in events
  PROVE  e.cursor < t.cursor /\ e.cursor \in Nat /\ t.cursor \in Nat
<1>1. e.req.rec \in Records /\ t.req.rec \in Records
  BY DEF CloudInv, TypeOK, Transactions, Requests
<1>2. e.req.rec = t.req.rec
  BY <1>1 DEF OneRecord
<1> QED
  BY <1>2 DEF CloudInv, DecisionStands, TypeOK, Transactions

\* The log grows by the event of an open transaction, and a transaction is
\* opened beyond every cursor handed out before.
LEMMA LogMoves ==
  ASSUME CloudInv, [Next]_vars
  PROVE  /\ \/ events' = events
            \/ \E t \in open : Commit(t) /\ UNCHANGED nextCursor
         /\ nextCursor' \in {nextCursor, nextCursor + 1}
         /\ \A t \in open' : t \in open \/ t.cursor = nextCursor + 1
<1>1. CASE vars' = vars
  BY <1>1 DEF vars
<1>2. ASSUME NEW t \in open, Commit(t)
      PROVE  UNCHANGED nextCursor /\ open' \subseteq open
  BY <1>2 DEF Commit
<1>3. ASSUME NEW t \in open, Rollback(t)
      PROVE  UNCHANGED <<events, nextCursor>> /\ open' \subseteq open
  BY <1>3 DEF Rollback
<1>4. ASSUME NEW q, NEW branch, OpenTransaction(q, branch), events' = events
      PROVE  /\ nextCursor' = nextCursor + 1
             /\ \A t \in open' : t \in open \/ t.cursor = nextCursor + 1
  BY <1>4 DEF OpenTransaction
<1>5. ASSUME NEW q, Push(q)
      PROVE  OpenTransaction(q, Null) /\ events' = events
  BY <1>5 DEF Push
<1>6. ASSUME NEW c, NEW q, Resolve(c, q)
      PROVE  OpenTransaction(q, c.incoming) /\ events' = events
  BY <1>6 DEF Resolve
<1>7. CASE \/ \E c \in conflicts, e \in events : ResolveWithHead(c, e)
           \/ UNCHANGED <<events, nextCursor, open>>
  BY <1>7 DEF ResolveWithHead
<1> QED
  BY <1>1, <1>2, <1>3, <1>4, <1>5, <1>6, <1>7
     DEF Next, BeginRotation, StageRewrap, SetEnvelopes, CommitRotation

\* The events of one record commit in the order of their cursors.
LEMMA LogInOrderStep ==
  ASSUME OneRecord, CloudInv, LogInOrder, [Next]_vars
  PROVE  LogInOrder'
<1>1. CASE events' = events
  BY <1>1 DEF LogInOrder
<1>2. ASSUME NEW t \in open, Commit(t) PROVE LogInOrder'
  <2>1. PICK e \in LogEvents : events' = events \cup {e} /\ e.cursor = t.cursor
    BY <1>2, CommitDoes DEF CloudInv
  <2>2. IsFiniteSet(events')
    BY <2>1, FS_AddElement DEF LogInOrder
  <2>3. \A f \in events : f.cursor # e.cursor
    BY <2>1, OpenLast
  <2> QED
    BY <2>1, <2>2, <2>3 DEF LogInOrder
<1> QED
  BY <1>1, <1>2, LogMoves

\* A cursor moves to an event that is then processed.
LEMMA CursorMoves ==
  ASSUME BaseInv, [SystemNext]_sysVars, NEW d \in Devices
  PROVE  \/ cursor'[d] = cursor[d]
         \/ \E c \in Cycles :
              /\ DeviceOf[c] = d /\ cycle[c].pc \in {"check", "record"}
              /\ UNCHANGED vars
              /\ cursor'[d] \in {cursor[d], Current(c).cursor}
              /\ cursor[d] <= cursor'[d]
              /\ \/ Current(c).req.id \in seen'[d]
                 \/ Current(c).cursor \in quarantine'[d]
<1>1. CASE UNCHANGED cursor
  BY <1>1
<1>2. ASSUME NEW c \in Cycles, RecordEvent(c) \/ Quarantine(c), DeviceOf[c] = d
      PROVE  /\ cycle[c].pc \in {"check", "record"} /\ UNCHANGED vars
             /\ cursor'[d] \in {cursor[d], Current(c).cursor}
             /\ cursor[d] <= cursor'[d]
             /\ \/ Current(c).req.id \in seen'[d]
                \/ Current(c).cursor \in quarantine'[d]
  <2>1. cycle[c].pc \in {"check", "record"} /\ UNCHANGED vars
    BY <1>2 DEF RecordEvent, Quarantine
  <2>2. cursor' = [cursor EXCEPT ![d] = Max({@, Current(c).cursor})]
    BY <1>2 DEF RecordEvent, Quarantine
  <2>3. cursor[d] \in Nat /\ Current(c).cursor \in Nat
    BY <2>1, PageEvent DEF BaseInv, DeviceTypes
  <2>4. cursor'[d] = Max({cursor[d], Current(c).cursor})
    BY <2>2 DEF BaseInv, DeviceTypes
  <2>5. /\ cursor'[d] \in {cursor[d], Current(c).cursor}
        /\ cursor[d] <= cursor'[d]
    BY <2>3, <2>4, MaxOfTwo
  <2>6. CASE RecordEvent(c)
    BY <1>2, <2>1, <2>5, <2>6 DEF RecordEvent, BaseInv, DeviceTypes
  <2>7. CASE Quarantine(c)
    BY <1>2, <2>1, <2>5, <2>7 DEF Quarantine, BaseInv, DeviceTypes
  <2> QED
    BY <1>2, <2>6, <2>7
<1>3. ASSUME NEW c \in Cycles, RecordEvent(c) \/ Quarantine(c), DeviceOf[c] # d
      PROVE  cursor'[d] = cursor[d]
  BY <1>3 DEF RecordEvent, Quarantine, BaseInv, DeviceTypes
<1> QED
  BY <1>1, <1>2, <1>3, NextIs, UserPlain, ResolvesPlain, CyclePlain
     DEF deviceVars, BaseInv

\* What was processed stays so.
LEMMA ProcessedStays ==
  ASSUME BaseInv, [SystemNext]_sysVars, NEW d \in Devices, NEW e,
         Processed(d, e)
  PROVE  Processed(d, e)'
<1>1. seen[d] \subseteq seen'[d]
  BY SeenGrows
<1>2. quarantine[d] \subseteq quarantine'[d]
  <2>1. ASSUME NEW c \in Cycles, Quarantine(c)
        PROVE  quarantine[d] \subseteq quarantine'[d]
    BY <2>1 DEF Quarantine, BaseInv, DeviceTypes
  <2> QED
    BY <2>1, NextIs, UserPlain, ResolvesPlain, CyclePlain
       DEF deviceVars, BaseInv
<1> QED
  BY <1>1, <1>2 DEF Processed

\* How a thread's page changes.
LEMMA PagesOf ==
  ASSUME DeviceTypes, TypeOK, HasPage, NEW c \in Cycles, Runs(c)
  PROVE  /\ cycle'[c].after \in {cycle[c].after, cursor[DeviceOf[c]], 0}
         /\ \/ cycle'[c].page \in {cycle[c].page, {}, Page(cycle[c].after)}
            \/ /\ cycle'[c].page = cycle[c].page \ {Current(c)}
               /\ \/ Current(c).req.id \in seen'[DeviceOf[c]]
                  \/ Current(c).cursor \in quarantine'[DeviceOf[c]]
<1>1. CASE \/ MarkSent(c) \/ MarkConflicted(c) \/ MarkFailed(c)
  <2>1. cycle' = SentOne(c)
    BY <1>1 DEF MarkSent, MarkConflicted, MarkFailed
  <2> QED
    BY <2>1, SentMoves DEF Moved
<1>2. CASE SkipSeen(c) \/ Quarantine(c) \/ RecordEvent(c)
  <2>1. cycle' = NextEvent(c)
    BY <1>2 DEF SkipSeen, Quarantine, RecordEvent
  <2>2. DeviceOf[c] \in Devices
    BY DevicesAssumption
  <2>3. \/ Current(c).req.id \in seen'[DeviceOf[c]]
        \/ Current(c).cursor \in quarantine'[DeviceOf[c]]
    BY <1>2, <2>2 DEF SkipSeen, Quarantine, RecordEvent, deviceVars,
                      DeviceTypes
  <2> QED
    BY <2>1, <2>3, NextEventMoves DEF Moved
<1>3. CASE EndCycle(c) \/ AbandonCycle(c)
  <2>1. cycle' = [cycle EXCEPT ![c] = Idle]
    BY <1>3 DEF EndCycle, AbandonCycle
  <2> QED
    BY <2>1, EndMoves DEF Moved
<1>4. ASSUME NEW s \in Stages, cycle' = [cycle EXCEPT ![c].pc = s]
      PROVE  cycle'[c].after = cycle[c].after /\ cycle'[c].page = cycle[c].page
  BY <1>4, StageMoves DEF Moved
<1>5. CASE SendPush(c) \/ Accept(c) \/ WriteRecord(c) \/ WriteConflict(c)
  BY <1>4, <1>5 DEF SendPush, Accept, WriteRecord, WriteConflict, Stages
<1>6. CASE Pull(c)
  BY <1>6, PullMoves DEF Pull, Moved
<1>7. CASE \E due \in SUBSET outbox[DeviceOf[c]] : StartCycle(c, due)
  BY <1>7 DEF StartCycle, DeviceTypes
<1>8. CASE Decide(c)
  BY <1>8, DecideDoes
<1> QED
  BY <1>1, <1>2, <1>3, <1>5, <1>6, <1>7, <1>8
     DEF Runs, CycleStep, CycleFault, PushRefused, PushAborted, PushLost

\* The first events after a cursor leave no hole.
LEMMA PageHasNoHole ==
  ASSUME LogInOrder, TypeOK, NEW after, NEW p \in Page(after),
         NEW e \in events, e.cursor < p.cursor, e.cursor > after
  PROVE  e \in Page(after)
<1> DEFINE later == {x \in events : x.cursor > after}
<1> DEFINE Before(n) == {f \in later : f.cursor < n}
<1>1. \A x \in events : x.cursor \in Nat
  BY DEF TypeOK
<1>2. p \in events /\ Cardinality(Before(p.cursor)) < PageSize
  BY DEF Page
<1>3. IsFiniteSet(Before(p.cursor))
  <2>1. Before(p.cursor) \in SUBSET events /\ IsFiniteSet(events)
    BY DEF LogInOrder
  <2> QED
    BY <2>1, FS_Subset
<1>4. Before(e.cursor) \in SUBSET Before(p.cursor)
  BY <1>1, <1>2
<1> HIDE DEF Before
<1>5. /\ Cardinality(Before(e.cursor)) <= Cardinality(Before(p.cursor))
      /\ Cardinality(Before(e.cursor)) \in Nat
      /\ Cardinality(Before(p.cursor)) \in Nat
  BY <1>3, <1>4, FS_Subset, FS_CardinalityType
<1>6. Cardinality(Before(e.cursor)) < PageSize
  BY <1>2, <1>5, DevicesAssumption
<1> QED
  BY <1>6 DEF Before, Page

PageInv == LogInOrder /\ CursorsBehind /\ PagesWhole /\ NoSkippedEvent

\* No cursor reaches a transaction that is still open.
LEMMA CursorsBehindStep ==
  ASSUME OneRecord, BaseInv, CloudInv, CursorsBehind, [SystemNext]_sysVars,
         [Next]_vars
  PROVE  CursorsBehind'
<1>1. /\ nextCursor \in Nat /\ TypeOK /\ DeviceTypes /\ HasPage
      /\ \A d \in Devices : cursor[d] \in Nat /\ cursor'[d] \in Nat
  <2>1. BaseInv'
    BY BaseStep DEF CloudInv
  <2> QED
    BY <2>1 DEF CloudInv, TypeOK, BaseInv, DeviceTypes
<1>2. ASSUME NEW d \in Devices
      PROVE  /\ cursor[d] <= cursor'[d] /\ cursor'[d] <= nextCursor'
             /\ \A t \in open' : cursor'[d] < t.cursor
  <2>1. CASE cursor'[d] = cursor[d]
    BY <1>1, <2>1, LogMoves DEF CursorsBehind
  <2>2. ASSUME NEW c \in Cycles, cycle[c].pc \in {"check", "record"},
               UNCHANGED vars,
               cursor'[d] \in {cursor[d], Current(c).cursor},
               cursor'[d] # cursor[d]
        PROVE  /\ cursor'[d] <= nextCursor'
               /\ \A t \in open' : cursor'[d] < t.cursor
    <3>1. PICK e \in events : e = Current(c)
      BY <2>2, PageEvent
    <3>2. open' = open /\ nextCursor' = nextCursor
      BY <2>2 DEF vars
    <3>3. e.cursor <= nextCursor
      BY DEF CloudInv, HeadOnLine
    <3> QED
      BY <2>2, <3>1, <3>2, <3>3, OpenLast
  <2>3. cursor[d] <= cursor'[d]
    BY <1>1, CursorMoves
  <2> QED
    BY <2>1, <2>2, <2>3, CursorMoves
<1>3. ASSUME NEW c \in Cycles
      PROVE  cycle'[c].after <= cursor'[DeviceOf[c]]
  <2>1. DeviceOf[c] \in Devices /\ cycle[c].after \in Nat
    BY <1>1, DevicesAssumption DEF DeviceTypes, CycleStates
  <2>2. cycle[c].after <= cursor[DeviceOf[c]]
    BY DEF CursorsBehind
  <2>3. cycle'[c].after \in {cycle[c].after, cursor[DeviceOf[c]], 0}
    BY <1>1, WhoRuns, PagesOf
  <2>4. cursor[DeviceOf[c]] <= cursor'[DeviceOf[c]]
    BY <1>2, <2>1
  <2> QED
    BY <1>1, <2>1, <2>2, <2>3, <2>4
<1> QED
  BY <1>2, <1>3 DEF CursorsBehind

\* An event that is new lies beyond every cursor and every page.
LEMMA NewEventBeyond ==
  ASSUME OneRecord, BaseInv, CloudInv, CursorsBehind, [SystemNext]_sysVars,
         [Next]_vars, NEW e \in events', e \notin events
  PROVE  /\ e.cursor \in Nat /\ UNCHANGED <<cursor, cycle>>
         /\ \A d \in Devices : cursor[d] < e.cursor
         /\ \A f \in events : f.cursor < e.cursor
<1>1. PICK t \in open : Commit(t)
  BY LogMoves
<1>2. e.cursor = t.cursor
  BY <1>1, CommitDoes DEF CloudInv
<1>3. UNCHANGED <<cursor, cycle>>
  <2>1. ASSUME NEW d \in Devices, Resolves(d) PROVE events' = events
    BY <2>1 DEF Resolves, SendResolution, FinishResolution, LoseResolution,
                Resolve, ResolveWithHead, vars
  <2>2. ASSUME NEW c \in Cycles, Runs(c) PROVE events' = events
    BY <2>2, CyclePlain DEF SendPush, Push, vars
  <2>3. ASSUME NEW d \in Devices, UserStep(d) PROVE events' = events
    BY <2>3, UserPlain DEF BaseInv, vars
  <2>4. ASSUME NEW u \in open, Rollback(u) PROVE events' = events
    BY <2>4 DEF Rollback
  <2> QED
    BY <2>1, <2>2, <2>3, <2>4, NextIs DEF deviceVars, threadVars
<1>4. e.cursor \in Nat
  BY <1>2 DEF CloudInv, TypeOK, Transactions
<1>5. \A d \in Devices : cursor[d] < e.cursor
  BY <1>2 DEF CursorsBehind
<1>6. \A f \in events : f.cursor < e.cursor
  BY <1>2, OpenLast
<1> QED
  BY <1>3, <1>4, <1>5, <1>6

\* Every step leaves the pages without a hole.
LEMMA PagesWholeStep ==
  ASSUME OneRecord, BaseInv, CloudInv, PageInv, [SystemNext]_sysVars,
         [Next]_vars
  PROVE  PagesWhole'
<1> USE DEF PageInv
<1> SUFFICES ASSUME NEW c \in Cycles, NEW p \in cycle'[c].page,
                    NEW e \in events', e.cursor < p.cursor,
                    ~Processed(DeviceOf[c], e)'
             PROVE  e \in cycle'[c].page
  BY DEF PagesWhole, Processed
<1>1. DeviceTypes /\ TypeOK /\ HasPage /\ DeviceOf[c] \in Devices
  BY DevicesAssumption DEF BaseInv, CloudInv
<1>2. cycle[c].page \subseteq events /\ \A f \in events : f.cursor \in Nat
  BY <1>1 DEF BaseInv, ThreadsReal, TypeOK
<1>3. e \in events
  <2>1. ASSUME e \notin events PROVE FALSE
    <3>1. e.cursor \in Nat /\ UNCHANGED cycle /\ \A f \in events : f.cursor < e.cursor
      BY <2>1, NewEventBeyond
    <3>2. p \in events
      BY <1>2, <3>1
    <3> QED
      BY <1>2, <3>1, <3>2
  <2> QED
    BY <2>1
<1>4. ~Processed(DeviceOf[c], e)
  BY <1>1, ProcessedStays
<1>5. CASE cycle'[c].page = cycle[c].page
  BY <1>3, <1>4, <1>5 DEF PagesWhole
<1>6. CASE cycle'[c].page = Page(cycle[c].after)
  <2>1. e.cursor > cycle[c].after
    <3>1. ~(e.cursor <= cursor[DeviceOf[c]])
      BY <1>1, <1>3, <1>4 DEF NoSkippedEvent, Processed
    <3>2. cycle[c].after <= cursor[DeviceOf[c]]
      BY DEF CursorsBehind
    <3>3. cycle[c].after \in Nat /\ cursor[DeviceOf[c]] \in Nat
      BY <1>1 DEF DeviceTypes, CycleStates
    <3> QED
      BY <1>2, <1>3, <3>1, <3>2, <3>3
  <2> QED
    BY <1>1, <1>3, <1>6, <2>1, PageHasNoHole
<1>7. CASE /\ cycle'[c].page = cycle[c].page \ {Current(c)}
           /\ \/ Current(c).req.id \in seen'[DeviceOf[c]]
              \/ Current(c).cursor \in quarantine'[DeviceOf[c]]
  <2>1. e \in cycle[c].page
    BY <1>3, <1>4, <1>7 DEF PagesWhole
  <2>2. e # Current(c)
    BY <1>7 DEF Processed
  <2> QED
    BY <1>7, <2>1, <2>2
<1> QED
  BY <1>1, <1>5, <1>6, <1>7, WhoRuns, PagesOf

\* A cursor passes only what was processed.
LEMMA NoSkippedStep ==
  ASSUME OneRecord, BaseInv, CloudInv, PageInv, [SystemNext]_sysVars,
         [Next]_vars
  PROVE  NoSkippedEvent'
<1> USE DEF PageInv
<1> SUFFICES ASSUME NEW d \in Devices, NEW e \in events',
                    e.cursor <= cursor'[d]
             PROVE  Processed(d, e)'
  BY DEF NoSkippedEvent, Processed
<1>1. TypeOK /\ DeviceTypes /\ cursor[d] \in Nat
  BY DEF BaseInv, CloudInv, DeviceTypes
<1>2. e \in events
  <2>1. ASSUME e \notin events PROVE FALSE
    <3>1. e.cursor \in Nat /\ UNCHANGED cursor /\ cursor[d] < e.cursor
      BY <2>1, NewEventBeyond
    <3> QED
      BY <1>1, <3>1
  <2> QED
    BY <2>1
<1>3. CASE e.cursor <= cursor[d]
  <2>1. Processed(d, e)
    BY <1>2, <1>3 DEF NoSkippedEvent, Processed
  <2> QED
    BY <2>1, ProcessedStays
<1>4. CASE ~(e.cursor <= cursor[d])
  <2>1. PICK c \in Cycles :
          /\ DeviceOf[c] = d /\ cycle[c].pc \in {"check", "record"}
          /\ cursor'[d] = Current(c).cursor
          /\ \/ Current(c).req.id \in seen'[d]
             \/ Current(c).cursor \in quarantine'[d]
    BY <1>4, CursorMoves
  <2>2. PICK f \in events : /\ f = Current(c) /\ f \in cycle[c].page
                            /\ f.cursor \in Nat /\ f.req.id = Current(c).req.id
    BY <2>1, PageEvent
  <2>3. CASE e = f
    BY <2>1, <2>2, <2>3 DEF Processed
  <2>4. CASE e # f
    <3>1. e.cursor \in Nat /\ e.cursor # f.cursor
      BY <1>1, <1>2, <2>4 DEF TypeOK, LogInOrder
    <3>2. e.cursor < f.cursor
      BY <2>1, <2>2, <3>1
    <3>3. e \notin cycle[c].page
      <4>1. \A g \in cycle[c].page : f.cursor <= g.cursor
        BY <1>1, <2>2, CurrentIs
      <4> QED
        BY <2>2, <3>1, <3>2, <4>1
    <3>4. Processed(d, e)
      BY <1>2, <2>1, <2>2, <3>2, <3>3 DEF PagesWhole
    <3> QED
      BY <3>4, ProcessedStays
  <2> QED
    BY <2>3, <2>4
<1> QED
  BY <1>3, <1>4

\* The log of one record is read without a gap, on any number of devices and
\* threads and whatever is lost or killed: the row lock makes its events
\* commit in the order of their cursors, and a batch stops at the first event
\* it cannot process.  With two records the cloud hands out a cursor before a
\* lower one is committed, and the property fails.
THEOREM OneRecordIsReadWhole == OneRecord => (SystemSpec => []NoSkippedEvent)
<1> SUFFICES ASSUME OneRecord PROVE SystemSpec => []NoSkippedEvent
  OBVIOUS
<1> DEFINE Inv == BaseInv /\ CloudInv /\ PageInv
<1>1. SystemInit => Inv
  <2> SUFFICES ASSUME SystemInit PROVE Inv
    OBVIOUS
  <2>1. /\ events = {} /\ open = {} /\ nextCursor = 0
        /\ \A d \in Devices : cursor[d] = 0
        /\ \A c \in Cycles : cycle[c] = Idle /\ DeviceOf[c] \in Devices
    BY DevicesAssumption DEF SystemInit, Init
  <2>2. LogInOrder
    BY <2>1, FS_EmptySet DEF LogInOrder
  <2>3. CursorsBehind
    BY <2>1, IdleIs DEF CursorsBehind
  <2>4. PagesWhole /\ NoSkippedEvent
    BY <2>1 DEF PagesWhole, NoSkippedEvent
  <2> QED
    BY <2>2, <2>3, <2>4, BaseInit, InitInv DEF PageInv, SystemInit
<1>2. Inv /\ [SystemNext]_sysVars => Inv'
  <2> SUFFICES ASSUME Inv, [SystemNext]_sysVars PROVE Inv'
    OBVIOUS
  <2>1. BaseInv' /\ [Next]_vars
    BY BaseStep DEF CloudInv
  <2>2. CloudInv'
    BY <2>1, NextInv
  <2>3. LogInOrder' /\ CursorsBehind'
    BY <2>1, LogInOrderStep, CursorsBehindStep DEF PageInv
  <2>4. PagesWhole' /\ NoSkippedEvent'
    BY <2>1, PagesWholeStep, NoSkippedStep
  <2> QED
    BY <2>1, <2>2, <2>3, <2>4 DEF PageInv
<1>3. Inv => NoSkippedEvent
  BY DEF PageInv
<1> HIDE DEF Inv
<1> QED
  BY <1>1, <1>2, <1>3, PTL DEF SystemSpec

=============================================================================
