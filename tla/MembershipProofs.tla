--------------------------- MODULE MembershipProofs ---------------------------
(***************************************************************************)
(* Theorems about the accounts of the organization, for every number of    *)
(* addresses, invitations, devices, sessions and workers and every limit   *)
(* of seats: first of Membership alone, then of the whole of it with the   *)
(* workers of Provisioning and the filings and purges of AccessRetention.  *)
(*                                                                         *)
(* MembershipInv is the inductive invariant of the accounts.  What it adds *)
(* to the properties is ViaSound, where memberships come from: a           *)
(* membership names a request that was accepted, no two name the same, so  *)
(* that the guard of a request never meets a membership it is not about.   *)
(*                                                                         *)
(* RetentionInv is that of the whole.  It adds LeaseSound (a lease runs    *)
(* for an attempt under way at a request that Stands: as long as no        *)
(* account of a member was deleted, an open one has an inviter who may     *)
(* invite) and RowSound: what a worker may still report, of which filing.  *)
(***************************************************************************)
EXTENDS AccessRetention, FiniteSetTheorems, TLAPS

SeatKinds == {"free", "until", "fixed"}
Held(s) == {k \in Keys : s[k] # "free"}

\* A seat ledger whose count is exact.
Balanced(L) ==
  /\ L.seat \in [Keys -> SeatKinds]
  /\ L.used \in 0 .. MaxSeats
  /\ L.used = Cardinality(Held(L.seat))

\* Seats but those of K are as they were, or were swept.
OthersKept(s, t, K) ==
  \A x \in Keys \ K :
    \/ t[x] = s[x]
    \/ x \in Invitations /\ clock[x] # "live" /\ s[x] = "until" /\ t[x] = "free"

\* A membership came of a request that was accepted and of no other's, and an
\* invited one names it.
ViaSound ==
  /\ \A u \in Users : memVia[u] # Nobody =>
       /\ reqStatus[memVia[u]] \in {"finalized", "cancelled"}
       /\ \A v \in Users : memVia[v] = memVia[u] => v = u
  /\ \A u \in Users : memStatus[u] = "invited" => memVia[u] # Nobody

\* A device that was ever registered has a user, and a live session a device.
BoundSound ==
  /\ \A d \in Devices : devStatus[d] # "none" => devUser[d] \in Users
  /\ \A s \in Sessions : sessStatus[s] = "active" => sessDevice[s] \in Devices

MembershipInv ==
  /\ MembershipTypeOK
  /\ LedgerExact
  /\ SeatsFollow
  /\ ViaSound
  /\ BoundSound
  /\ AccessFollowsMembership
  /\ OwnerRemains

-----------------------------------------------------------------------------
LEMMA KeysFinite == IsFiniteSet(Keys)
  BY FS_Union, MembershipAssumption DEF Keys

\* The reservations are finitely many.
LEMMA HeldFinite ==
  ASSUME NEW s
  PROVE  IsFiniteSet(Held(s)) /\ Cardinality(Held(s)) \in Nat
<1>1. Held(s) \in SUBSET Keys
  BY DEF Held
<1>2. IsFiniteSet(Held(s))
  BY <1>1, KeysFinite, FS_Subset
<1> QED
  BY <1>2, FS_CardinalityType

\* Taking a free seat adds one reservation.
LEMMA HeldTaken ==
  ASSUME NEW s \in [Keys -> SeatKinds], NEW k \in Keys, s[k] = "free",
         NEW kind \in {"until", "fixed"}
  PROVE  Cardinality(Held([s EXCEPT ![k] = kind])) = Cardinality(Held(s)) + 1
<1>1. Held([s EXCEPT ![k] = kind]) = Held(s) \cup {k}
  BY DEF Held
<1>2. k \notin Held(s)
  BY DEF Held
<1> QED
  BY <1>1, <1>2, HeldFinite, FS_AddElement

\* Changing the kind of a seat that is held changes no reservation.
LEMMA HeldRenewed ==
  ASSUME NEW s \in [Keys -> SeatKinds], NEW k \in Keys, s[k] # "free",
         NEW kind \in {"until", "fixed"}
  PROVE  Held([s EXCEPT ![k] = kind]) = Held(s)
  BY DEF Held

\* Freeing a set of held seats removes as many reservations.
LEMMA HeldFreed ==
  ASSUME NEW s \in [Keys -> SeatKinds], NEW D, D \subseteq Held(s)
  PROVE  /\ Cardinality(Held([k \in Keys |-> IF k \in D THEN "free" ELSE s[k]]))
              = Cardinality(Held(s)) - Cardinality(D)
         /\ Cardinality(D) \in Nat /\ Cardinality(D) <= Cardinality(Held(s))
<1>1. Held([k \in Keys |-> IF k \in D THEN "free" ELSE s[k]]) = Held(s) \ D
  BY DEF Held
<1>2. Held(s) \cap D = D
  OBVIOUS
<1>3. /\ IsFiniteSet(D) /\ Cardinality(D) <= Cardinality(Held(s))
  BY HeldFinite, FS_Subset
<1> QED
  BY <1>1, <1>2, <1>3, HeldFinite, FS_Difference, FS_CardinalityType

-----------------------------------------------------------------------------
(* The seat ledger stays exact, and what its operations do to the seats.    *)

LEMMA SweepBalanced ==
  ASSUME NEW L, Balanced(L), NEW lag, NEW k \in Keys
  PROVE  /\ Balanced(Sweep(L, lag)) /\ Sweep(L, lag).full = L.full
         /\ OthersKept(L.seat, Sweep(L, lag).seat, {})
         /\ Sweep(L, lag).seat[k] \in {"free", L.seat[k]}
         /\ L.seat[k] = "fixed" => Sweep(L, lag).seat[k] = "fixed"
<1> DEFINE D == Swept(L, lag)
<1> DEFINE t == [x \in Keys |-> IF x \in D THEN "free" ELSE L.seat[x]]
<1>1. D \subseteq Held(L.seat)
  BY DEF Balanced, Swept, Held, Keys
<1>2. /\ Cardinality(Held(t)) = Cardinality(Held(L.seat)) - Cardinality(D)
      /\ Cardinality(D) \in Nat /\ Cardinality(D) <= Cardinality(Held(L.seat))
  BY <1>1, HeldFreed DEF Balanced
<1>3. Sweep(L, lag) = [seat |-> t, used |-> AtLeastZero(L.used - Cardinality(D)),
                       full |-> L.full]
  BY DEF Sweep
<1>4. /\ AtLeastZero(L.used - Cardinality(D)) \in 0 .. MaxSeats
      /\ AtLeastZero(L.used - Cardinality(D)) = Cardinality(Held(t))
  BY <1>2, MembershipAssumption DEF Balanced, AtLeastZero
<1>5. t \in [Keys -> SeatKinds]
  BY DEF Balanced, SeatKinds
<1>6. Balanced(Sweep(L, lag)) /\ Sweep(L, lag).full = L.full
  BY <1>3, <1>4, <1>5 DEF Balanced
<1>7. \A x \in D : x \in Invitations /\ clock[x] # "live" /\ L.seat[x] = "until"
  BY DEF Swept, LiveNow
<1> QED
  BY <1>3, <1>6, <1>7 DEF OthersKept

LEMMA ReserveBalanced ==
  ASSUME NEW L, Balanced(L), NEW k \in Keys, NEW kind, NEW lag,
         kind \in {"until", "fixed"}
  PROVE  LET R == Reserve(L, k, kind, lag) IN
         /\ Balanced(R)
         /\ OthersKept(L.seat, R.seat, {k})
         /\ R.full \/ R.seat[k] = kind \/ (L.seat[k] = "fixed" /\ R.seat[k] = "fixed")
<1> DEFINE S == Sweep(L, lag)
           R == Reserve(L, k, kind, lag)
<1>1. /\ Balanced(S) /\ S.full = L.full
      /\ OthersKept(L.seat, S.seat, {})
      /\ S.seat[k] \in {"free", L.seat[k]}
      /\ L.seat[k] = "fixed" => S.seat[k] = "fixed"
  BY SweepBalanced
<1> HIDE DEF S
<1>2. CASE S.seat[k] = "free" /\ S.used < MaxSeats
  <2>1. R = [seat |-> [S.seat EXCEPT ![k] = kind], used |-> S.used + 1, full |-> S.full]
    BY <1>2 DEF Reserve, Take, S
  <2>2. Cardinality(Held([S.seat EXCEPT ![k] = kind])) = Cardinality(Held(S.seat)) + 1
    BY <1>1, <1>2, HeldTaken DEF Balanced
  <2>3. Balanced(R)
    BY <1>1, <1>2, <2>1, <2>2, MembershipAssumption DEF Balanced, SeatKinds
  <2> QED
    BY <1>1, <1>2, <2>1, <2>3 DEF OthersKept, Balanced
<1>3. CASE S.seat[k] = "free" /\ ~(S.used < MaxSeats)
  <2>1. R = [seat |-> S.seat, used |-> S.used, full |-> TRUE]
    BY <1>3 DEF Reserve, Take, S
  <2> QED
    BY <1>1, <1>3, <2>1 DEF OthersKept, Balanced
<1>4. CASE S.seat[k] # "free"
  <2> DEFINE new == IF S.seat[k] = "fixed" THEN "fixed" ELSE kind
  <2>1. R = [seat |-> [S.seat EXCEPT ![k] = new], used |-> S.used, full |-> S.full]
    BY <1>4 DEF Reserve, Refresh, S
  <2>2. Held([S.seat EXCEPT ![k] = new]) = Held(S.seat)
    BY <1>1, <1>4, HeldRenewed DEF Balanced
  <2>3. Balanced(R)
    BY <1>1, <2>1, <2>2 DEF Balanced, SeatKinds
  <2> QED
    BY <1>1, <1>4, <2>1, <2>3 DEF OthersKept, Balanced
<1> QED
  BY <1>2, <1>3, <1>4

LEMMA ReserveFull ==
  ASSUME NEW L, NEW k, NEW kind, NEW lag, L.full
  PROVE  Reserve(L, k, kind, lag).full
<1> DEFINE S == Sweep(L, lag)
<1>1. S.full
  BY DEF Sweep
<1> HIDE DEF S
<1>2. Take(S, k, kind).full /\ Refresh(S, k, kind).full
  BY <1>1 DEF Take, Refresh
<1> QED
  BY <1>2 DEF Reserve, S

LEMMA ReleaseBalanced ==
  ASSUME NEW L, Balanced(L), NEW k \in Keys
  PROVE  LET R == Release(L, k) IN
         /\ Balanced(R) /\ R.full = L.full
         /\ OthersKept(L.seat, R.seat, {k})
         /\ R.seat[k] = "free"
<1>1. CASE L.seat[k] = "free"
  BY <1>1 DEF Release, OthersKept
<1>2. CASE L.seat[k] # "free"
  <2> DEFINE R == Release(L, k)
             t == [x \in Keys |-> IF x \in {k} THEN "free" ELSE L.seat[x]]
  <2>1. [L.seat EXCEPT ![k] = "free"] = t
    BY DEF Balanced
  <2>2. R = [seat |-> t, used |-> AtLeastZero(L.used - 1), full |-> L.full]
    BY <1>2, <2>1 DEF Release
  <2>3. {k} \subseteq Held(L.seat)
    BY <1>2 DEF Held
  <2>4. Cardinality(Held(t)) = Cardinality(Held(L.seat)) - 1
        /\ 1 <= Cardinality(Held(L.seat))
    <3>1. Cardinality({k}) = 1
      BY FS_Singleton
    <3> QED
      BY <2>3, <3>1, HeldFreed DEF Balanced
  <2>5. t \in [Keys -> SeatKinds]
    BY DEF Balanced, SeatKinds
  <2>6. Balanced(R)
    BY <2>2, <2>4, <2>5, MembershipAssumption DEF Balanced, AtLeastZero
  <2> QED
    BY <2>2, <2>6 DEF OthersKept
<1> QED
  BY <1>1, <1>2

LEMMA OthersKeptTwice ==
  ASSUME NEW s, NEW t, NEW w, NEW K, NEW M, OthersKept(s, t, K), OthersKept(t, w, M)
  PROVE  OthersKept(s, w, K \cup M)
  BY DEF OthersKept

\* A membership that ends, and did not come of a request still open, gives its
\* seat back if it counted.
LEMMA MembershipEnds ==
  ASSUME NEW L, Balanced(L), NEW u \in Users, NEW old, NEW new, NEW rs, NEW lag,
         old.via \in Invitations \cup {Nobody}, ~Counted(new, lag),
         old.via # Nobody => rs[old.via] # "requested"
  PROVE  LET E == OnMembership(L, u, old, new, rs, lag)
             k == SeatKey(u, old.via) IN
         /\ Balanced(E) /\ E.full = L.full
         /\ OthersKept(L.seat, E.seat, {k})
         /\ IF Counted(old, lag) THEN E.seat[k] = "free" ELSE E = L
<1> DEFINE E == OnMembership(L, u, old, new, rs, lag)
           k == SeatKey(u, old.via)
<1>1. k \in Keys
  BY DEF SeatKey, Keys
<1>2. CASE Counted(old, lag)
  <2>1. E = Release(L, k)
    BY <1>2 DEF OnMembership, Vacate
  <2> QED
    BY <1>1, <1>2, <2>1, ReleaseBalanced
<1>3. CASE ~Counted(old, lag)
  <2>1. E = L
    BY <1>3 DEF OnMembership
  <2> QED
    BY <1>3, <2>1 DEF OthersKept
<1> QED
  BY <1>2, <1>3

\* Closing a request nobody has come in by gives its seat back.
LEMMA RequestClosed ==
  ASSUME NEW L, Balanced(L), NEW r \in Invitations, NEW ms, NEW via, NEW lag,
         \A u \in Users : via[u] # r
  PROVE  LET E == OnRequestClosed(L, r, ms, via, lag) IN
         /\ Balanced(E) /\ E.full = L.full
         /\ OthersKept(L.seat, E.seat, {r})
         /\ E.seat[r] = "free"
<1>1. OnRequestClosed(L, r, ms, via, lag) = Release(L, r)
  BY DEF OnRequestClosed
<1>2. r \in Keys
  BY DEF Keys
<1> QED
  BY <1>1, <1>2, ReleaseBalanced

-----------------------------------------------------------------------------
(* The seats of a step: what it takes for them to follow the members.       *)

LEMMA SeatsStillFollow ==
  ASSUME MembershipInv, NEW K, OthersKept(seat, seat', K), UNCHANGED clock,
         memVia' \in [Users -> Invitations \cup {Nobody}],
         \A u \in Users : memStatus'[u] = "active" =>
            \/ seat'[SeatKey(u, memVia'[u])] = "fixed"
            \/ /\ memStatus[u] = "active" /\ memVia'[u] = memVia[u]
               /\ SeatKey(u, memVia[u]) \notin K,
         \A u \in Users : memStatus'[u] = "invited" /\ clock[memVia'[u]] = "live" =>
            \/ seat'[memVia'[u]] # "free"
            \/ memStatus[u] = "invited" /\ memVia'[u] = memVia[u] /\ memVia[u] \notin K,
         \A u \in Users : memStatus'[u] = "invited" => memVia'[u] # Nobody,
         \A r \in Invitations : reqStatus'[r] = "requested" /\ clock[r] = "live" =>
            seat'[r] # "free" \/ (reqStatus[r] = "requested" /\ r \notin K),
         \A k \in K : seat'[k] = "fixed" =>
            \E u \in Users : memStatus'[u] = "active" /\ SeatKey(u, memVia'[u]) = k,
         \A u \in Users : memStatus[u] = "active" /\ SeatKey(u, memVia[u]) \notin K =>
            memStatus'[u] = "active" /\ memVia'[u] = memVia[u]
  PROVE  SeatsFollow'
<1> USE DEF MembershipInv, SeatsFollow
<1>1. ASSUME NEW u \in Users, memStatus'[u] = "active"
      PROVE  seat'[SeatKey(u, memVia'[u])] = "fixed"
  BY <1>1 DEF Seated, OthersKept, SeatKey, Keys, MembershipTypeOK
<1>2. ASSUME NEW u \in Users, memStatus'[u] = "invited", clock'[memVia'[u]] = "live"
      PROVE  seat'[memVia'[u]] # "free"
  BY <1>2 DEF Seated, OthersKept, Keys, MembershipTypeOK
<1>3. ASSUME NEW r \in Invitations, reqStatus'[r] = "requested", clock'[r] = "live"
      PROVE  seat'[r] # "free"
  BY <1>3 DEF Seated, OthersKept, Keys
<1>4. ASSUME NEW k \in Keys, seat'[k] = "fixed"
      PROVE  \E u \in Users : memStatus'[u] = "active" /\ SeatKey(u, memVia'[u]) = k
  <2>1. CASE k \in K
    BY <1>4, <2>1
  <2>2. CASE k \notin K
    <3>1. seat[k] = "fixed"
      BY <1>4, <2>2 DEF OthersKept
    <3>2. PICK u \in Users : memStatus[u] = "active" /\ SeatKey(u, memVia[u]) = k
      BY <3>1 DEF FixedSeatsUsed
    <3> QED
      BY <2>2, <3>2
  <2> QED
    BY <2>1, <2>2
<1>5. Seated'
  BY <1>1, <1>2, <1>3 DEF Seated, SeatKey
<1>6. FixedSeatsUsed'
  BY <1>4 DEF FixedSeatsUsed, SeatKey
<1> QED
  BY <1>5, <1>6

\* The count after a step that applies a balanced ledger.
LEMMA AppliedBalanced ==
  ASSUME NEW L, Balanced(L), Apply(L)
  PROVE  /\ seat' = L.seat /\ used' = L.used /\ ~L.full
         /\ LedgerExact' /\ seat' \in [Keys -> SeatKinds] /\ used' \in 0 .. MaxSeats
  BY DEF Apply, Balanced, LedgerExact, Held

LEMMA LedgerBalanced ==
  ASSUME MembershipInv
  PROVE  /\ Balanced(Ledger) /\ Ledger.seat = seat /\ Ledger.used = used /\ ~Ledger.full
  BY DEF MembershipInv, MembershipTypeOK, LedgerExact, Balanced, Ledger, Held, SeatKinds

-----------------------------------------------------------------------------
(* One lemma for each action that moves seats: the count stays exact, seats *)
(* follow the members and every membership still has its request.           *)
SeatInv == LedgerExact /\ SeatsFollow /\ ViaSound
SeatTypes == seat \in [Keys -> SeatKinds] /\ used \in 0 .. MaxSeats

LEMMA SeatsUntouched ==
  ASSUME MembershipInv, UNCHANGED <<memStatus, memVia, reqStatus, seatVars>>,
         \A r \in Invitations : clock'[r] = "live" => clock[r] = "live"
  PROVE  SeatInv' /\ SeatTypes'
<1> USE DEF MembershipInv, seatVars
<1>1. LedgerExact' /\ SeatTypes'
  BY DEF LedgerExact, SeatTypes, MembershipTypeOK, SeatKinds
<1>2. ViaSound'
  BY DEF ViaSound
<1>3. FixedSeatsUsed'
  BY DEF SeatsFollow, FixedSeatsUsed, SeatKey
<1>4. Seated'
  <2>1. \A u \in Users : memStatus[u] = "invited" => memVia[u] \in Invitations
    BY DEF ViaSound, MembershipTypeOK
  <2> QED
    BY <2>1 DEF SeatsFollow, Seated, SeatKey
<1> QED
  BY <1>1, <1>2, <1>3, <1>4 DEF SeatInv, SeatsFollow

\* No membership names a request that is still open or never began.
LEMMA OpenUnused ==
  ASSUME MembershipInv, NEW r \in Invitations, reqStatus[r] \in {"none", "requested"}
  PROVE  /\ \A u \in Users : memVia[u] # r
         /\ seat[r] # "fixed"
<1>1. \A u \in Users : memVia[u] # r
  BY MembershipAssumption DEF MembershipInv, ViaSound
<1>2. \A u \in Users : SeatKey(u, memVia[u]) # r
  BY <1>1, MembershipAssumption DEF SeatKey
<1> QED
  BY <1>1, <1>2 DEF MembershipInv, SeatsFollow, FixedSeatsUsed, Keys

\* A step that changes requests and no membership, and frees or takes the
\* seats K of requests nobody has come in by.
LEMMA RequestStep ==
  ASSUME MembershipInv, NEW L, Balanced(L), Apply(L),
         UNCHANGED <<memStatus, memVia, clock>>,
         NEW K, K \subseteq Invitations, OthersKept(seat, L.seat, K),
         \A r \in K : reqStatus[r] \in {"none", "requested"} /\ L.seat[r] # "fixed",
         \A r \in Invitations :
            /\ reqStatus[r] \in {"finalized", "cancelled"} => reqStatus'[r] = reqStatus[r]
            /\ reqStatus'[r] = "requested" =>
                 L.seat[r] # "free" \/ (reqStatus[r] = "requested" /\ r \notin K)
  PROVE  SeatInv' /\ SeatTypes'
<1>1. /\ seat' = L.seat /\ LedgerExact' /\ SeatTypes'
  BY AppliedBalanced DEF SeatTypes
<1>2. \A u \in Users : memVia[u] \notin K /\ SeatKey(u, memVia[u]) \notin K
  BY OpenUnused, MembershipAssumption DEF SeatKey
<1>3. ViaSound'
  BY DEF MembershipInv, ViaSound, MembershipTypeOK
<1>4. memVia' \in [Users -> Invitations \cup {Nobody}]
  BY DEF MembershipInv, MembershipTypeOK
<1>5. SeatsFollow'
  BY <1>1, <1>2, <1>4, SeatsStillFollow DEF MembershipInv, ViaSound
<1> QED
  BY <1>1, <1>3, <1>5 DEF SeatInv

\* What the calls of begin_member_invitation do first.
LEMMA LapseEffect ==
  ASSUME MembershipInv, NEW e, NEW lag
  PROVE  \E K \in SUBSET Lapsed(e, lag) :
            /\ Balanced(LedgerAfterLapse(e, lag)) /\ ~LedgerAfterLapse(e, lag).full
            /\ OthersKept(seat, LedgerAfterLapse(e, lag).seat, K)
            /\ \A r \in K : LedgerAfterLapse(e, lag).seat[r] = "free"
<1>0. /\ Balanced(Ledger) /\ Ledger.seat = seat /\ ~Ledger.full
  BY LedgerBalanced
<1>1. CASE Lapsed(e, lag) = {}
  <2>1. LedgerAfterLapse(e, lag) = Ledger
    BY <1>1 DEF LedgerAfterLapse
  <2>2. OthersKept(seat, Ledger.seat, {})
    BY <1>0 DEF OthersKept
  <2> QED
    BY <1>0, <2>1, <2>2
<1>2. CASE Lapsed(e, lag) # {}
  <2>1. PICK r : r = CHOOSE x \in Lapsed(e, lag) : TRUE
    OBVIOUS
  <2>2. r \in Lapsed(e, lag)
    BY <1>2, <2>1
  <2>3. r \in Invitations /\ reqStatus[r] = "requested"
    BY <2>2 DEF Lapsed
  <2>4. LedgerAfterLapse(e, lag) = OnRequestClosed(Ledger, r, memStatus, memVia, lag)
    BY <1>2, <2>1 DEF LedgerAfterLapse
  <2>5. \A u \in Users : memVia[u] # r
    BY <2>3, OpenUnused
  <2>6. /\ Balanced(LedgerAfterLapse(e, lag)) /\ ~LedgerAfterLapse(e, lag).full
        /\ OthersKept(seat, LedgerAfterLapse(e, lag).seat, {r})
        /\ LedgerAfterLapse(e, lag).seat[r] = "free"
    BY <1>0, <2>3, <2>4, <2>5, RequestClosed
  <2> QED
    BY <2>2, <2>6
<1> QED
  BY <1>1, <1>2

LEMMA BeginForMemberSeats ==
  ASSUME MembershipInv, NEW a, NEW e, NEW lag, BeginForMember(a, e, lag)
  PROVE  SeatInv' /\ SeatTypes'
<1>1. PICK L : L = LedgerAfterLapse(e, lag)
  OBVIOUS
<1>2. PICK K \in SUBSET Lapsed(e, lag) :
        Balanced(L) /\ OthersKept(seat, L.seat, K) /\ \A r \in K : L.seat[r] = "free"
  BY <1>1, LapseEffect
<1>3. Apply(L) /\ UNCHANGED <<memStatus, memVia, clock>>
  BY <1>1 DEF BeginForMember, memberVars
<1>4. K \subseteq Invitations /\ \A r \in K : reqStatus[r] = "requested"
  BY <1>2 DEF Lapsed
<1>5. \A r \in Invitations :
        /\ reqStatus[r] \in {"finalized", "cancelled"} => reqStatus'[r] = reqStatus[r]
        /\ reqStatus'[r] = "requested" => reqStatus[r] = "requested" /\ r \notin K
  BY <1>2 DEF BeginForMember, Lapsed
<1> QED
  BY <1>2, <1>3, <1>4, <1>5, RequestStep

LEMMA BeginSeats ==
  ASSUME MembershipInv, NEW a, NEW e, NEW role, NEW r \in Invitations, NEW lag,
         Begin(a, e, role, r, lag)
  PROVE  SeatInv' /\ SeatTypes'
<1>1. PICK L : L = LedgerAfterLapse(e, lag)
  OBVIOUS
<1>2. PICK K \in SUBSET Lapsed(e, lag) :
        Balanced(L) /\ OthersKept(seat, L.seat, K) /\ \A x \in K : L.seat[x] = "free"
  BY <1>1, LapseEffect
<1>3. PICK R : R = Reserve(L, r, "until", lag)
  OBVIOUS
<1>4. Apply(R) /\ UNCHANGED <<memStatus, memVia, clock>> /\ reqStatus[r] = "none"
  BY <1>1, <1>3 DEF Begin, memberVars
<1>5. /\ Balanced(R) /\ OthersKept(L.seat, R.seat, {r})
      /\ R.seat[r] = "until" \/ L.seat[r] = "fixed"
  <2>1. r \in Keys /\ ~R.full
    BY <1>4 DEF Keys, Apply
  <2>2. Balanced(L)
    BY <1>2
  <2>3. /\ Balanced(Reserve(L, r, "until", lag))
        /\ OthersKept(L.seat, Reserve(L, r, "until", lag).seat, {r})
        /\ \/ Reserve(L, r, "until", lag).full
           \/ Reserve(L, r, "until", lag).seat[r] = "until"
           \/ L.seat[r] = "fixed" /\ Reserve(L, r, "until", lag).seat[r] = "fixed"
    BY <2>1, <2>2, ReserveBalanced
  <2> QED
    BY <1>3, <2>1, <2>3
<1>6. r \notin K /\ K \subseteq Invitations /\ \A x \in K : reqStatus[x] = "requested"
  BY <1>2, <1>4 DEF Lapsed
<1>7. L.seat[r] # "fixed"
  BY <1>2, <1>4, <1>6, OpenUnused DEF OthersKept, Keys
<1>8. OthersKept(seat, R.seat, K \cup {r})
  BY <1>2, <1>5, OthersKeptTwice
<1>9. \A x \in K : R.seat[x] # "fixed"
  BY <1>2, <1>5, <1>6 DEF OthersKept, Keys
<1>10. \A x \in Invitations :
         /\ reqStatus[x] \in {"finalized", "cancelled"} => reqStatus'[x] = reqStatus[x]
         /\ reqStatus'[x] = "requested" => x = r \/ (reqStatus[x] = "requested" /\ x \notin K)
  BY <1>2, <1>4 DEF Begin, Lapsed
<1>11. R.seat[r] \notin {"free", "fixed"}
  BY <1>5, <1>7
<1> DEFINE M == K \cup {r}
<1>12. /\ M \subseteq Invitations /\ OthersKept(seat, R.seat, M)
       /\ \A x \in M : reqStatus[x] \in {"none", "requested"} /\ R.seat[x] # "fixed"
  BY <1>4, <1>6, <1>8, <1>9, <1>11
<1>13. \A x \in Invitations :
         /\ reqStatus[x] \in {"finalized", "cancelled"} => reqStatus'[x] = reqStatus[x]
         /\ reqStatus'[x] = "requested" =>
              R.seat[x] # "free" \/ (reqStatus[x] = "requested" /\ x \notin M)
  BY <1>10, <1>11
<1> HIDE DEF M
<1> QED
  BY <1>4, <1>5, <1>12, <1>13, RequestStep

\* cancel_member_invitation of an open request, and an acceptance refused.
LEMMA CloseSeats ==
  ASSUME MembershipInv, NEW r \in Invitations, NEW lag, reqStatus[r] = "requested",
         reqStatus' = [reqStatus EXCEPT ![r] = "cancelled"],
         Apply(OnRequestClosed(Ledger, r, memStatus, memVia, lag)),
         UNCHANGED <<memStatus, memVia, clock>>
  PROVE  SeatInv' /\ SeatTypes'
<1>1. PICK L : L = OnRequestClosed(Ledger, r, memStatus, memVia, lag)
  OBVIOUS
<1>2. Balanced(L) /\ OthersKept(seat, L.seat, {r}) /\ L.seat[r] = "free"
  BY <1>1, LedgerBalanced, OpenUnused, RequestClosed
<1>3. Apply(L)
  BY <1>1
<1>4. \A x \in Invitations : x # r => reqStatus'[x] = reqStatus[x]
  BY DEF MembershipInv, MembershipTypeOK
<1>5. reqStatus'[r] = "cancelled"
  BY DEF MembershipInv, MembershipTypeOK
<1> QED
  BY <1>2, <1>3, <1>4, <1>5, RequestStep

\* What an acceptance leaves of the ledger: the seat of its request, which no
\* sweep of the same call may take.
LEMMA AcceptLedger ==
  ASSUME MembershipInv, NEW u \in Users, NEW r \in Invitations, NEW lag, Accept(u, r, lag),
         NEW L, L = OnMembership(Ledger, u, Membership(u), AsMember("invited", r), reqStatus, lag),
         NEW E, E = OnRequestClosed(L, r, memStatus', memVia', lag)
  PROVE  /\ Balanced(E) /\ Apply(E) /\ OthersKept(seat, E.seat, {r})
         /\ E.seat[r] # "fixed"
         /\ clock[r] = "live" => E.seat[r] # "free"
<1>1. /\ reqStatus[r] = "requested" /\ ~Belongs(u, lag)
      /\ memStatus' = [memStatus EXCEPT ![u] = "invited"]
      /\ memVia' = [memVia EXCEPT ![u] = r]
  BY DEF Accept, Acceptable
<1>4. Apply(E)
  BY DEF Accept
<1>5. ~Counted(Membership(u), lag)
  <2>1. LiveNow(memVia[u], lag) => LiveAtStart(memVia[u], lag)
    BY DEF LiveNow, LiveAtStart
  <2> QED
    BY <1>1, <2>1 DEF Belongs, Counted, Membership
<1>6. Counted(AsMember("invited", r), lag) <=> LiveNow(r, lag)
  BY DEF Counted, AsMember
<1>7. SeatKey(u, r) = r /\ r \in Keys
  BY MembershipAssumption DEF SeatKey, Keys
<1>8. L = IF LiveNow(r, lag) THEN Reserve(Ledger, r, "until", lag) ELSE Ledger
  BY <1>5, <1>6, <1>7 DEF OnMembership, AsMember
<1>9. ~\E v \in Users : memVia'[v] = r /\ memStatus'[v] = "active"
  BY <1>1, OpenUnused DEF MembershipInv, MembershipTypeOK
<1>10. \E v \in Users : memVia'[v] = r /\ memStatus'[v] = "invited"
  BY <1>1 DEF MembershipInv, MembershipTypeOK
<1>11. E = IF LiveNow(r, lag) THEN Reserve(L, r, "until", lag) ELSE Release(L, r)
  BY <1>9, <1>10 DEF OnRequestClosed
<1>12. Balanced(Ledger) /\ Ledger.seat = seat /\ seat[r] # "fixed"
  BY <1>1, LedgerBalanced, OpenUnused
<1>13. CASE LiveNow(r, lag)
  <2>1. E = Reserve(L, r, "until", lag) /\ L = Reserve(Ledger, r, "until", lag) /\ ~E.full
    BY <1>4, <1>8, <1>11, <1>13 DEF Apply
  <2>2. /\ Balanced(L) /\ OthersKept(seat, L.seat, {r})
        /\ L.full \/ L.seat[r] = "until"
    <3>1. PICK M : M = Ledger
      OBVIOUS
    <3>2. Balanced(M) /\ M.seat = seat
      BY <1>12, <3>1
    <3>3. L = Reserve(M, r, "until", lag)
      BY <2>1, <3>1
    <3> QED
      BY <1>7, <1>12, <3>2, <3>3, ReserveBalanced
  <2>3. /\ Balanced(E) /\ OthersKept(L.seat, E.seat, {r})
        /\ E.full \/ E.seat[r] = "until" \/ (L.seat[r] = "fixed" /\ E.seat[r] = "fixed")
    <3>1. Balanced(L)
      BY <2>2
    <3>2. E = Reserve(L, r, "until", lag)
      BY <2>1
    <3> QED
      BY <1>7, <3>1, <3>2, ReserveBalanced, Z3
  <2>4. L.full => E.full
    BY <2>1, ReserveFull
  <2>5. OthersKept(seat, E.seat, {r} \cup {r})
    BY <2>2, <2>3, OthersKeptTwice
  <2>6. {r} \cup {r} = {r}
    OBVIOUS
  <2>7. E.seat[r] = "until"
    BY <2>1, <2>2, <2>3, <2>4
  <2> QED
    BY <1>4, <2>3, <2>5, <2>6, <2>7
<1>14. CASE ~LiveNow(r, lag)
  <2>1. E = Release(Ledger, r)
    BY <1>8, <1>11, <1>14
  <2>2. Balanced(E) /\ OthersKept(seat, E.seat, {r}) /\ E.seat[r] = "free"
    BY <1>7, <1>12, <2>1, ReleaseBalanced
  <2>3. clock[r] # "live"
    BY <1>14 DEF LiveNow
  <2> QED
    BY <1>4, <2>2, <2>3
<1> QED
  BY <1>13, <1>14

LEMMA AcceptSeats ==
  ASSUME MembershipInv, NEW u \in Users, NEW r \in Invitations, NEW lag, Accept(u, r, lag)
  PROVE  SeatInv' /\ SeatTypes'
<1>1. PICK E : /\ Balanced(E) /\ Apply(E) /\ OthersKept(seat, E.seat, {r})
               /\ E.seat[r] # "fixed"
               /\ clock[r] = "live" => E.seat[r] # "free"
  <2>1. PICK L : L = OnMembership(Ledger, u, Membership(u), AsMember("invited", r),
                                  reqStatus, lag)
    OBVIOUS
  <2>2. PICK E : E = OnRequestClosed(L, r, memStatus', memVia', lag)
    OBVIOUS
  <2> QED
    BY <2>1, <2>2, AcceptLedger
<1>2. seat' = E.seat /\ LedgerExact' /\ SeatTypes'
  BY <1>1, AppliedBalanced DEF SeatTypes
<1>3. /\ reqStatus[r] = "requested" /\ memStatus[u] # "active"
      /\ memStatus' = [memStatus EXCEPT ![u] = "invited"]
      /\ memVia' = [memVia EXCEPT ![u] = r]
      /\ reqStatus' = [reqStatus EXCEPT ![r] = "finalized"]
      /\ UNCHANGED clock
  BY DEF Accept, Acceptable, Belongs
<1>4. /\ memStatus'[u] = "invited" /\ memVia'[u] = r /\ reqStatus'[r] = "finalized"
      /\ \A v \in Users \ {u} : memStatus'[v] = memStatus[v] /\ memVia'[v] = memVia[v]
      /\ \A x \in Invitations \ {r} : reqStatus'[x] = reqStatus[x]
      /\ memVia' \in [Users -> Invitations \cup {Nobody}]
  BY <1>3 DEF MembershipInv, MembershipTypeOK
<1>5. \A v \in Users : memVia[v] # r /\ SeatKey(v, memVia[v]) # r
  BY <1>3, OpenUnused, MembershipAssumption DEF SeatKey
<1>6. SeatKey(u, r) = r /\ r # Nobody
  BY MembershipAssumption DEF SeatKey
<1>7. ViaSound'
  <2>1. \A v \in Users : memVia'[v] # Nobody =>
          /\ reqStatus'[memVia'[v]] \in {"finalized", "cancelled"}
          /\ \A w \in Users : memVia'[w] = memVia'[v] => w = v
    BY <1>4, <1>5 DEF MembershipInv, ViaSound, MembershipTypeOK
  <2>2. \A v \in Users : memStatus'[v] = "invited" => memVia'[v] # Nobody
    BY <1>4, <1>6 DEF MembershipInv, ViaSound
  <2> QED
    BY <2>1, <2>2 DEF ViaSound
<1>8. SeatsFollow'
  <2>1. /\ \A v \in Users : memStatus'[v] = "active" =>
             v # u /\ memStatus[v] = "active" /\ memVia'[v] = memVia[v]
        /\ \A v \in Users : memStatus'[v] = "invited" => memVia'[v] # Nobody
        /\ \A v \in Users : memStatus'[v] = "invited" /\ v # u =>
             memStatus[v] = "invited" /\ memVia'[v] = memVia[v]
        /\ \A v \in Users : memStatus[v] = "active" =>
             memStatus'[v] = "active" /\ memVia'[v] = memVia[v]
        /\ \A x \in Invitations : reqStatus'[x] = "requested" =>
             reqStatus[x] = "requested" /\ x # r
    BY <1>3, <1>4, <1>7 DEF ViaSound
  <2> QED
    BY <1>1, <1>2, <1>3, <1>4, <1>5, <2>1, SeatsStillFollow
<1> QED
  BY <1>2, <1>7, <1>8 DEF SeatInv

\* What the end of a membership leaves of the ledger: its seat is not fixed.
LEMMA EndSeats ==
  ASSUME MembershipInv, NEW u \in Users, NEW status \in {"none", "revoked"}, NEW lag,
         NEW via \in Invitations \cup {Nobody}, via # Nobody => via = memVia[u],
         NEW E, E = OnMembership(Ledger, u, Membership(u), AsMember(status, via), reqStatus, lag)
  PROVE  /\ Balanced(E) /\ ~E.full
         /\ OthersKept(seat, E.seat, {SeatKey(u, memVia[u])})
         /\ memStatus[u] = "active" => E.seat[SeatKey(u, memVia[u])] = "free"
         /\ memStatus[u] = "active" \/ E.seat[SeatKey(u, memVia[u])] # "fixed"
<1> DEFINE k == SeatKey(u, memVia[u])
<1>1. PICK L, old, new : L = Ledger /\ old = Membership(u) /\ new = AsMember(status, via)
  OBVIOUS
<1>2. Balanced(L) /\ ~L.full /\ L.seat = seat
  BY <1>1, LedgerBalanced
<1>3. old.via = memVia[u] /\ old.status = memStatus[u] /\ ~Counted(new, lag)
  BY <1>1 DEF Membership, AsMember, Counted
<1>4. old.via \in Invitations \cup {Nobody}
      /\ (old.via # Nobody => reqStatus[old.via] # "requested")
  BY <1>3 DEF MembershipInv, MembershipTypeOK, ViaSound
<1>5. E = OnMembership(L, u, old, new, reqStatus, lag)
  BY <1>1
<1>6. /\ Balanced(E) /\ E.full = L.full
      /\ OthersKept(L.seat, E.seat, {SeatKey(u, old.via)})
      /\ IF Counted(old, lag) THEN E.seat[SeatKey(u, old.via)] = "free" ELSE E = L
  BY <1>2, <1>3, <1>4, <1>5, MembershipEnds
<1>7. memStatus[u] # "active" => seat[k] # "fixed"
  <2>1. SUFFICES ASSUME memStatus[u] # "active", seat[k] = "fixed" PROVE FALSE
    OBVIOUS
  <2>2. PICK v \in Users : memStatus[v] = "active" /\ SeatKey(v, memVia[v]) = k
    BY <2>1, <1>3, <1>4 DEF MembershipInv, SeatsFollow, FixedSeatsUsed, SeatKey, Keys
  <2>3. v = u
    BY <2>2, MembershipAssumption DEF SeatKey, MembershipInv, ViaSound, MembershipTypeOK
  <2> QED
    BY <2>1, <2>2, <2>3
<1>8. Counted(old, lag) \/ memStatus[u] # "active"
  BY <1>3 DEF Counted
<1> QED
  BY <1>2, <1>3, <1>6, <1>7, <1>8

\* A step that ends the membership of u and cancels the open requests M.
LEMMA LeavingStep ==
  ASSUME MembershipInv, NEW u \in Users, NEW status \in {"none", "revoked"},
         NEW M, M \subseteq Invitations, UNCHANGED clock,
         OthersKept(seat, seat', {SeatKey(u, memVia[u])} \cup M),
         seat'[SeatKey(u, memVia[u])] # "fixed",
         \A r \in M : reqStatus[r] = "requested" /\ seat'[r] = "free",
         memStatus' = [memStatus EXCEPT ![u] = status],
         memVia' \in [Users -> Invitations \cup {Nobody}],
         memVia'[u] \in {Nobody, memVia[u]},
         \A v \in Users \ {u} : memVia'[v] = memVia[v],
         \A r \in Invitations :
            /\ reqStatus[r] \in {"finalized", "cancelled"} =>
                 reqStatus'[r] \in {"finalized", "cancelled"}
            /\ reqStatus'[r] = "requested" => reqStatus[r] = "requested" /\ r \notin M
  PROVE  SeatsFollow' /\ ViaSound'
<1> DEFINE K == {SeatKey(u, memVia[u])} \cup M
<1>1. /\ memStatus'[u] = status
      /\ \A v \in Users \ {u} : memStatus'[v] = memStatus[v]
  BY DEF MembershipInv, MembershipTypeOK
<1>2. ViaSound'
  BY <1>1 DEF MembershipInv, ViaSound, MembershipTypeOK
<1>3. \A v \in Users \ {u} : memVia[v] \notin M /\ SeatKey(v, memVia[v]) \notin M
  BY OpenUnused, MembershipAssumption DEF SeatKey
<1>4. \A v \in Users \ {u} : SeatKey(v, memVia[v]) # SeatKey(u, memVia[u])
  BY MembershipAssumption DEF SeatKey, MembershipInv, ViaSound, MembershipTypeOK
<1>5. \A v \in Users \ {u} : memStatus[v] = "invited" => memVia[v] \notin K
  <2>1. \A v \in Users \ {u} : memStatus[v] = "invited" => SeatKey(v, memVia[v]) = memVia[v]
    BY DEF SeatKey, MembershipInv, ViaSound
  <2> QED
    BY <1>3, <1>4, <2>1
<1>6. \A r \in Invitations : reqStatus'[r] = "requested" => r \notin K
  <2>1. ASSUME NEW r \in Invitations, reqStatus'[r] = "requested"
        PROVE  r # SeatKey(u, memVia[u])
    BY <2>1, MembershipAssumption, OpenUnused DEF SeatKey
  <2> QED
    BY <2>1
<1>7. \A x \in K : seat'[x] # "fixed"
  OBVIOUS
<1>8. /\ \A v \in Users : memStatus'[v] = "active" =>
           v # u /\ memStatus[v] = "active" /\ memVia'[v] = memVia[v]
             /\ SeatKey(v, memVia[v]) \notin K
      /\ \A v \in Users : memStatus'[v] = "invited" =>
           v # u /\ memStatus[v] = "invited" /\ memVia'[v] = memVia[v] /\ memVia[v] \notin K
      /\ \A v \in Users : memStatus[v] = "active" /\ SeatKey(v, memVia[v]) \notin K =>
           memStatus'[v] = "active" /\ memVia'[v] = memVia[v]
  BY <1>1, <1>3, <1>4, <1>5
<1>9. OthersKept(seat, seat', K)
  OBVIOUS
<1> HIDE DEF K
<1>10. SeatsFollow'
  BY <1>2, <1>6, <1>7, <1>8, <1>9, SeatsStillFollow DEF ViaSound
<1> QED
  BY <1>2, <1>10

LEMMA DeleteSeats ==
  ASSUME MembershipInv, NEW u \in Users, DeleteAccount(u)
  PROVE  SeatInv' /\ SeatTypes'
<1>1. PICK E : E = OnMembership(Ledger, u, Membership(u), AsMember("none", Nobody),
                                reqStatus, "none")
  OBVIOUS
<1>2. /\ Balanced(E) /\ OthersKept(seat, E.seat, {SeatKey(u, memVia[u])})
      /\ memStatus[u] = "active" => E.seat[SeatKey(u, memVia[u])] = "free"
      /\ memStatus[u] = "active" \/ E.seat[SeatKey(u, memVia[u])] # "fixed"
  BY <1>1, EndSeats
<1>3. /\ Apply(E) /\ UNCHANGED <<clock, reqStatus>>
      /\ memStatus' = [memStatus EXCEPT ![u] = "none"]
      /\ memVia' = [memVia EXCEPT ![u] = Nobody]
  BY <1>1 DEF DeleteAccount
<1>4. seat' = E.seat /\ LedgerExact' /\ SeatTypes'
  BY <1>2, <1>3, AppliedBalanced DEF SeatTypes
<1>5. /\ memVia' \in [Users -> Invitations \cup {Nobody}] /\ memVia'[u] = Nobody
      /\ \A v \in Users \ {u} : memVia'[v] = memVia[v]
  BY <1>3 DEF MembershipInv, MembershipTypeOK
<1>6. PICK M, status : M = {} /\ status = "none"
  OBVIOUS
<1>7. /\ OthersKept(seat, seat', {SeatKey(u, memVia[u])} \cup M)
      /\ seat'[SeatKey(u, memVia[u])] # "fixed"
      /\ M \subseteq Invitations /\ status \in {"none", "revoked"}
      /\ memStatus' = [memStatus EXCEPT ![u] = status]
      /\ \A r \in M : reqStatus[r] = "requested" /\ seat'[r] = "free"
      /\ \A r \in Invitations :
            /\ reqStatus[r] \in {"finalized", "cancelled"} =>
                 reqStatus'[r] \in {"finalized", "cancelled"}
            /\ reqStatus'[r] = "requested" => reqStatus[r] = "requested" /\ r \notin M
  BY <1>2, <1>3, <1>4, <1>6 DEF OthersKept
<1>8. SeatsFollow' /\ ViaSound'
  BY <1>3, <1>5, <1>7, LeavingStep
<1> QED
  BY <1>4, <1>8 DEF SeatInv

\* cancel_member_invitation of an accepted request.
LEMMA CancelFinalizedSeats ==
  ASSUME MembershipInv, NEW a, NEW r \in Invitations, NEW lag, CancelFinalized(a, r, lag)
  PROVE  SeatInv' /\ SeatTypes'
<1> DEFINE invited == {u \in Users : memVia[u] = r /\ memStatus[u] = "invited"}
<1>1. /\ reqStatus[r] = "finalized" /\ reqStatus' = [reqStatus EXCEPT ![r] = "cancelled"]
      /\ memStatus' = [u \in Users |-> IF u \in invited THEN "revoked" ELSE memStatus[u]]
      /\ UNCHANGED <<memVia, clock>>
  BY DEF CancelFinalized
<1>2. \A x \in Invitations :
        /\ reqStatus[x] \in {"finalized", "cancelled"} => reqStatus'[x] \in {"finalized", "cancelled"}
        /\ reqStatus'[x] = "requested" => reqStatus[x] = "requested"
  BY <1>1 DEF MembershipInv, MembershipTypeOK
<1>3. CASE invited = {}
  <2>1. seat' = seat /\ used' = used
    BY <1>3 DEF CancelFinalized, seatVars
  <2>2. memStatus' = memStatus
    BY <1>1, <1>3 DEF MembershipInv, MembershipTypeOK
  <2>3. LedgerExact' /\ SeatTypes'
    BY <2>1 DEF MembershipInv, LedgerExact, SeatTypes, MembershipTypeOK, SeatKinds
  <2>4. ViaSound'
    BY <1>1, <1>2, <2>2 DEF MembershipInv, ViaSound, MembershipTypeOK
  <2>5. OthersKept(seat, seat', {})
    BY <2>1 DEF OthersKept
  <2>6. SeatsFollow'
    BY <1>1, <1>2, <2>1, <2>2, <2>4, <2>5, SeatsStillFollow
       DEF MembershipInv, MembershipTypeOK, ViaSound, SeatsFollow, Seated
  <2> QED
    BY <2>3, <2>4, <2>6 DEF SeatInv
<1>4. CASE invited # {}
  <2>1. PICK u : u = CHOOSE x \in invited : TRUE
    OBVIOUS
  <2>2. u \in invited
    BY <1>4, <2>1
  <2>3. u \in Users /\ memVia[u] = r /\ memStatus[u] = "invited"
    BY <2>2
  <2>4. PICK E : E = OnMembership(Ledger, u, Membership(u), AsMember("revoked", r), reqStatus, lag)
    OBVIOUS
  <2>5. Apply(E)
    BY <1>4, <2>1, <2>4 DEF CancelFinalized
  <2>6. /\ Balanced(E) /\ OthersKept(seat, E.seat, {SeatKey(u, memVia[u])})
        /\ E.seat[SeatKey(u, memVia[u])] # "fixed"
    BY <2>3, <2>4, EndSeats
  <2>7. seat' = E.seat /\ LedgerExact' /\ SeatTypes'
    BY <2>5, <2>6, AppliedBalanced DEF SeatTypes
  <2>8. invited = {u}
    BY <2>3, MembershipAssumption DEF MembershipInv, ViaSound
  <2>9. memStatus' = [memStatus EXCEPT ![u] = "revoked"]
    BY <1>1, <2>8 DEF MembershipInv, MembershipTypeOK
  <2>10. PICK M, status : M = {} /\ status = "revoked"
    OBVIOUS
  <2>11. /\ OthersKept(seat, seat', {SeatKey(u, memVia[u])} \cup M)
         /\ seat'[SeatKey(u, memVia[u])] # "fixed"
         /\ M \subseteq Invitations /\ status \in {"none", "revoked"}
         /\ memStatus' = [memStatus EXCEPT ![u] = status]
         /\ \A x \in M : reqStatus[x] = "requested" /\ seat'[x] = "free"
         /\ \A x \in Invitations :
               /\ reqStatus[x] \in {"finalized", "cancelled"} =>
                    reqStatus'[x] \in {"finalized", "cancelled"}
               /\ reqStatus'[x] = "requested" => reqStatus[x] = "requested" /\ x \notin M
    BY <1>2, <2>6, <2>7, <2>9, <2>10 DEF OthersKept
  <2>12. memVia' \in [Users -> Invitations \cup {Nobody}] /\ memVia' = memVia
    BY <1>1 DEF MembershipInv, MembershipTypeOK
  <2>13. SeatsFollow' /\ ViaSound'
    BY <1>1, <2>3, <2>11, <2>12, LeavingStep
  <2> QED
    BY <2>7, <2>13 DEF SeatInv
<1> QED
  BY <1>3, <1>4

LEMMA RevokeSeats ==
  ASSUME MembershipInv, NEW a, NEW u \in Users, NEW lag, RevokeMember(a, u, lag)
  PROVE  SeatInv' /\ SeatTypes'
<1>1. PICK E : E = OnMembership(Ledger, u, Membership(u), AsMember("revoked", memVia[u]),
                                reqStatus, lag)
  OBVIOUS
<1>2. PICK M : M = {r \in Invitations : reqBy[r] = u /\ reqStatus[r] = "requested"}
  OBVIOUS
<1> DEFINE k == SeatKey(u, memVia[u])
           D == {x \in M : E.seat[x] # "free"}
<1>3. /\ seat' = [x \in Keys |-> IF x \in M THEN "free" ELSE E.seat[x]]
      /\ used' = AtLeastZero(E.used - Cardinality(D))
      /\ memStatus' = [memStatus EXCEPT ![u] = "revoked"]
      /\ memStatus[u] \in {"active", "invited"}
      /\ UNCHANGED <<memVia, clock>>
  BY <1>1, <1>2 DEF RevokeMember
<1>4. /\ Balanced(E) /\ OthersKept(seat, E.seat, {k})
      /\ memStatus[u] = "active" => E.seat[k] = "free"
      /\ memStatus[u] = "active" \/ E.seat[k] # "fixed"
  <2>1. memVia[u] \in Invitations \cup {Nobody}
    BY DEF MembershipInv, MembershipTypeOK
  <2> QED
    BY <1>1, <2>1, EndSeats
<1>5. M \subseteq Keys /\ k \in Keys
  BY <1>2 DEF Keys, SeatKey, MembershipInv, MembershipTypeOK
<1>6. D \subseteq Held(E.seat)
  BY <1>5 DEF Held
<1>7. seat' = [x \in Keys |-> IF x \in D THEN "free" ELSE E.seat[x]]
  BY <1>3, <1>5
<1> HIDE DEF D
<1>8. /\ Cardinality(Held(seat')) = Cardinality(Held(E.seat)) - Cardinality(D)
      /\ Cardinality(D) \in Nat /\ Cardinality(D) <= Cardinality(Held(E.seat))
  <2>1. E.seat \in [Keys -> SeatKinds]
    BY <1>4 DEF Balanced
  <2>2. PICK t : t = [x \in Keys |-> IF x \in D THEN "free" ELSE E.seat[x]]
    OBVIOUS
  <2>3. /\ Cardinality(Held(t)) = Cardinality(Held(E.seat)) - Cardinality(D)
        /\ Cardinality(D) \in Nat /\ Cardinality(D) <= Cardinality(Held(E.seat))
    BY <1>6, <2>1, <2>2, HeldFreed
  <2> QED
    BY <1>7, <2>2, <2>3
<1>9. LedgerExact' /\ SeatTypes'
  <2>1. /\ used' = Cardinality(Held(seat')) /\ used' \in 0 .. MaxSeats
    BY <1>3, <1>4, <1>8, MembershipAssumption DEF Balanced, AtLeastZero
  <2>2. seat' \in [Keys -> SeatKinds]
    BY <1>3, <1>4 DEF Balanced, SeatKinds
  <2> QED
    BY <2>1, <2>2 DEF LedgerExact, SeatTypes, Held
<1>10. PICK status : status = "revoked"
  OBVIOUS
<1>11. /\ OthersKept(seat, seat', {k} \cup M)
       /\ seat'[k] # "fixed"
       /\ M \subseteq Invitations /\ status \in {"none", "revoked"}
       /\ memStatus' = [memStatus EXCEPT ![u] = status]
       /\ \A r \in M : reqStatus[r] = "requested" /\ seat'[r] = "free"
  BY <1>2, <1>3, <1>4, <1>5, <1>10 DEF OthersKept
<1>12. \A r \in Invitations :
         /\ reqStatus[r] \in {"finalized", "cancelled"} =>
              reqStatus'[r] \in {"finalized", "cancelled"}
         /\ reqStatus'[r] = "requested" => reqStatus[r] = "requested" /\ r \notin M
  BY <1>2 DEF RevokeMember
<1>13. memVia' \in [Users -> Invitations \cup {Nobody}] /\ memVia' = memVia
  BY <1>3 DEF MembershipInv, MembershipTypeOK
<1>14. SeatsFollow' /\ ViaSound'
  BY <1>3, <1>11, <1>12, <1>13, LeavingStep
<1> QED
  BY <1>9, <1>14 DEF SeatInv

\* pair_device: with an invited member its seat becomes fixed.
LEMMA PairSeats ==
  ASSUME MembershipInv, NEW a, NEW u \in Users, NEW d, NEW lag, PairDevice(a, u, d, lag)
  PROVE  SeatInv' /\ SeatTypes'
<1>1. /\ Belongs(u, lag) /\ memStatus' = [memStatus EXCEPT ![u] = "active"]
      /\ UNCHANGED <<memVia, clock, reqStatus>>
  BY DEF PairDevice, memberVars, requestVars
<1>2. CASE memStatus[u] = "active"
  <2>1. UNCHANGED seatVars
    BY <1>2 DEF PairDevice
  <2>2. memStatus' = memStatus
    BY <1>1, <1>2 DEF MembershipInv, MembershipTypeOK
  <2> QED
    BY <1>1, <2>1, <2>2, SeatsUntouched
<1>3. CASE memStatus[u] # "active"
  <2>1. memStatus[u] = "invited" /\ memVia[u] \in Invitations /\ memVia[u] # Nobody
    BY <1>1, <1>3 DEF Belongs, MembershipInv, MembershipTypeOK, ViaSound
  <2>2. PICK r : r = memVia[u]
    OBVIOUS
  <2>3. r \in Invitations /\ r \in Keys /\ SeatKey(u, r) = r
    BY <2>1, <2>2 DEF SeatKey, Keys
  <2>4. PICK L, E : L = Ledger /\ E = Reserve(L, r, "fixed", lag)
    OBVIOUS
  <2>5. Apply(E)
    <3>1. OnMembership(Ledger, u, Membership(u), AsMember("active", r), reqStatus, lag)
            = Reserve(Ledger, r, "fixed", lag)
      BY <2>1, <2>2, <2>3 DEF OnMembership, Membership, AsMember, Counted
    <3>2. Apply(OnMembership(Ledger, u, Membership(u), AsMember("active", r), reqStatus, lag))
      BY <1>3, <2>2 DEF PairDevice
    <3> QED
      BY <2>4, <3>1, <3>2
  <2>6. Balanced(L) /\ L.seat = seat
    BY <2>4, LedgerBalanced
  <2>7. /\ Balanced(E) /\ OthersKept(L.seat, E.seat, {r})
        /\ E.full \/ E.seat[r] = "fixed" \/ (L.seat[r] = "fixed" /\ E.seat[r] = "fixed")
    <3>1. E = Reserve(L, r, "fixed", lag)
      BY <2>4
    <3>2. Balanced(L)
      BY <2>6
    <3> QED
      BY <2>3, <3>1, <3>2, ReserveBalanced, Z3
  <2>8. /\ seat' = E.seat /\ LedgerExact' /\ SeatTypes' /\ seat'[r] = "fixed"
    BY <2>5, <2>7, AppliedBalanced DEF SeatTypes, Apply
  <2>9. /\ memStatus'[u] = "active" /\ \A v \in Users \ {u} : memStatus'[v] = memStatus[v]
    BY <1>1 DEF MembershipInv, MembershipTypeOK
  <2>10. \A v \in Users \ {u} : memVia[v] # r /\ SeatKey(v, memVia[v]) # r
    BY <2>1, <2>2, MembershipAssumption DEF MembershipInv, ViaSound, SeatKey
  <2>11. ViaSound'
    BY <1>1, <2>1, <2>9 DEF MembershipInv, ViaSound
  <2>12. /\ OthersKept(seat, seat', {r})
         /\ memVia' \in [Users -> Invitations \cup {Nobody}] /\ memVia' = memVia
    BY <1>1, <2>6, <2>7, <2>8 DEF MembershipInv, MembershipTypeOK
  <2>13. /\ \A v \in Users : memStatus'[v] = "active" =>
              \/ seat'[SeatKey(v, memVia'[v])] = "fixed"
              \/ /\ memStatus[v] = "active" /\ memVia'[v] = memVia[v]
                 /\ SeatKey(v, memVia[v]) \notin {r}
         /\ \A v \in Users : memStatus'[v] = "invited" =>
              memStatus[v] = "invited" /\ memVia'[v] = memVia[v] /\ memVia[v] \notin {r}
         /\ \A v \in Users : memStatus[v] = "active" =>
              memStatus'[v] = "active" /\ memVia'[v] = memVia[v]
    BY <2>2, <2>3, <2>8, <2>9, <2>10, <2>12
  <2>14. \A x \in Invitations : reqStatus'[x] = "requested" =>
           seat'[x] # "free" \/ (reqStatus[x] = "requested" /\ x \notin {r})
    BY <1>1, <2>8
  <2>15. \E v \in Users : memStatus'[v] = "active" /\ SeatKey(v, memVia'[v]) = r
    BY <2>2, <2>3, <2>9, <2>12
  <2>16. SeatsFollow'
    BY <1>1, <2>11, <2>12, <2>13, <2>14, <2>15, SeatsStillFollow DEF ViaSound
  <2> QED
    BY <2>8, <2>11, <2>16 DEF SeatInv
<1> QED
  BY <1>2, <1>3

-----------------------------------------------------------------------------
\* The steps of the accounts, with those of them that Provisioning takes.
MemberStep ==
  \/ \E a \in Users, e \in Users, lag \in CallLags : BeginForMember(a, e, lag)
  \/ MembershipNext
  \/ \E u \in Users : DeleteAccount(u)

LEMMA NextInv == MembershipInv /\ MemberStep => MembershipInv'
<1> SUFFICES ASSUME MembershipInv, MemberStep PROVE MembershipInv'
  OBVIOUS
<1> USE DEF MembershipInv
<1>1. ASSUME NEW a \in Users, NEW e \in Users, NEW lag \in CallLags, BeginForMember(a, e, lag)
      PROVE  MembershipInv'
  <2>1. SeatInv' /\ SeatTypes'
    BY <1>1, BeginForMemberSeats
  <2>2. MembershipTypeOK'
    BY <1>1, <2>1 DEF MembershipTypeOK, SeatTypes, SeatKinds, BeginForMember,
       memberVars, requestVars, seatVars, deviceVars, sessionVars
  <2>3. BoundSound' /\ AccessFollowsMembership'
    BY <1>1 DEF MembershipTypeOK, BoundSound, AccessFollowsMembership, BeginForMember,
       memberVars, requestVars, seatVars, deviceVars, sessionVars
  <2>4. OwnerRemains'
    BY <1>1 DEF MembershipTypeOK, OwnerRemains, Owners, BeginForMember,
       memberVars, requestVars, seatVars, deviceVars, sessionVars
  <2> QED
    BY <2>1, <2>2, <2>3, <2>4 DEF SeatInv
<1>2. ASSUME NEW a \in Users, NEW e \in Users, NEW role \in Roles, NEW r \in Invitations,
             NEW lag \in CallLags, Begin(a, e, role, r, lag)
      PROVE  MembershipInv'
  <2>1. SeatInv' /\ SeatTypes'
    BY <1>2, BeginSeats
  <2>2. MembershipTypeOK'
    BY <1>2, <2>1 DEF MembershipTypeOK, SeatTypes, SeatKinds, Begin,
       memberVars, requestVars, seatVars, deviceVars, sessionVars
  <2>3. BoundSound' /\ AccessFollowsMembership'
    BY <1>2 DEF MembershipTypeOK, BoundSound, AccessFollowsMembership, Begin,
       memberVars, requestVars, seatVars, deviceVars, sessionVars
  <2>4. OwnerRemains'
    BY <1>2 DEF MembershipTypeOK, OwnerRemains, Owners, Begin,
       memberVars, requestVars, seatVars, deviceVars, sessionVars
  <2> QED
    BY <2>1, <2>2, <2>3, <2>4 DEF SeatInv
<1>3. ASSUME NEW a \in Users, NEW r \in Invitations, NEW lag \in CallLags, CancelRequested(a, r, lag)
      PROVE  MembershipInv'
  <2>1. SeatInv' /\ SeatTypes'
    BY <1>3, CloseSeats DEF CancelRequested, memberVars
  <2>2. MembershipTypeOK'
    BY <1>3, <2>1 DEF MembershipTypeOK, SeatTypes, SeatKinds, CancelRequested,
       memberVars, requestVars, seatVars, deviceVars, sessionVars
  <2>3. BoundSound' /\ AccessFollowsMembership'
    BY <1>3 DEF MembershipTypeOK, BoundSound, AccessFollowsMembership, CancelRequested,
       memberVars, requestVars, seatVars, deviceVars, sessionVars
  <2>4. OwnerRemains'
    BY <1>3 DEF MembershipTypeOK, OwnerRemains, Owners, CancelRequested,
       memberVars, requestVars, seatVars, deviceVars, sessionVars
  <2> QED
    BY <2>1, <2>2, <2>3, <2>4 DEF SeatInv
<1>4. ASSUME NEW a \in Users, NEW r \in Invitations, NEW lag \in CallLags, CancelFinalized(a, r, lag)
      PROVE  MembershipInv'
  <2>1. SeatInv' /\ SeatTypes'
    BY <1>4, CancelFinalizedSeats
  <2>2. MembershipTypeOK'
    BY <1>4, <2>1 DEF MembershipTypeOK, SeatTypes, SeatKinds, CancelFinalized, RevokeDevices,
       memberVars, requestVars, seatVars, deviceVars, sessionVars
  <2>3. BoundSound' /\ AccessFollowsMembership'
    BY <1>4 DEF MembershipTypeOK, BoundSound, AccessFollowsMembership, CancelFinalized, RevokeDevices,
       memberVars, requestVars, seatVars, deviceVars, sessionVars
  <2>4. OwnerRemains'
    BY <1>4 DEF MembershipTypeOK, OwnerRemains, Owners, CancelFinalized, RevokeDevices,
       memberVars, requestVars, seatVars, deviceVars, sessionVars
  <2> QED
    BY <2>1, <2>2, <2>3, <2>4 DEF SeatInv
<1>5. ASSUME NEW a \in Users, NEW u \in Users, NEW lag \in CallLags, RevokeMember(a, u, lag)
      PROVE  MembershipInv'
  <2>1. SeatInv' /\ SeatTypes'
    BY <1>5, RevokeSeats
  <2>2. MembershipTypeOK'
    BY <1>5, <2>1 DEF MembershipTypeOK, SeatTypes, SeatKinds, RevokeMember, RevokeDevices,
       memberVars, requestVars, seatVars, deviceVars, sessionVars
  <2>3. BoundSound' /\ AccessFollowsMembership'
    BY <1>5 DEF MembershipTypeOK, BoundSound, AccessFollowsMembership, RevokeMember, RevokeDevices,
       memberVars, requestVars, seatVars, deviceVars, sessionVars
  <2>4. OwnerRemains'
    BY <1>5 DEF MembershipTypeOK, OwnerRemains, Owners, LastOwner, RevokeMember, RevokeDevices,
       memberVars, requestVars, seatVars, deviceVars, sessionVars
  <2> QED
    BY <2>1, <2>2, <2>3, <2>4 DEF SeatInv
<1>6. ASSUME NEW a \in Users, NEW u \in Users, NEW d \in Devices, NEW lag \in CallLags, PairDevice(a, u, d, lag)
      PROVE  MembershipInv'
  <2>1. SeatInv' /\ SeatTypes'
    BY <1>6, PairSeats
  <2>2. MembershipTypeOK'
    BY <1>6, <2>1 DEF MembershipTypeOK, SeatTypes, SeatKinds, PairDevice,
       memberVars, requestVars, seatVars, deviceVars, sessionVars
  <2>3. BoundSound' /\ AccessFollowsMembership'
    BY <1>6 DEF MembershipTypeOK, BoundSound, AccessFollowsMembership, PairDevice,
       memberVars, requestVars, seatVars, deviceVars, sessionVars
  <2>4. OwnerRemains'
    BY <1>6 DEF MembershipTypeOK, OwnerRemains, Owners, PairDevice,
       memberVars, requestVars, seatVars, deviceVars, sessionVars
  <2> QED
    BY <2>1, <2>2, <2>3, <2>4 DEF SeatInv
<1>7. ASSUME NEW u \in Users, SignUp(u)
      PROVE  MembershipInv'
  <2>1. SeatInv' /\ SeatTypes'
    BY <1>7, SeatsUntouched DEF SignUp, requestVars
  <2>2. MembershipTypeOK'
    BY <1>7, <2>1 DEF MembershipTypeOK, SeatTypes, SeatKinds, SignUp,
       memberVars, requestVars, seatVars, deviceVars, sessionVars
  <2>3. BoundSound' /\ AccessFollowsMembership'
    BY <1>7 DEF MembershipTypeOK, BoundSound, AccessFollowsMembership, SignUp,
       memberVars, requestVars, seatVars, deviceVars, sessionVars
  <2>4. OwnerRemains'
    BY <1>7 DEF MembershipTypeOK, OwnerRemains, Owners, SignUp,
       memberVars, requestVars, seatVars, deviceVars, sessionVars
  <2> QED
    BY <2>1, <2>2, <2>3, <2>4 DEF SeatInv
<1>8. ASSUME NEW u \in Users, NEW r \in Invitations, NEW lag \in CallLags, Accept(u, r, lag)
      PROVE  MembershipInv'
  <2>1. SeatInv' /\ SeatTypes'
    BY <1>8, AcceptSeats
  <2>2. MembershipTypeOK'
    BY <1>8, <2>1 DEF MembershipTypeOK, SeatTypes, SeatKinds, Accept, RevokeDevices,
       memberVars, requestVars, seatVars, deviceVars, sessionVars
  <2>3. BoundSound' /\ AccessFollowsMembership'
    <3>1. /\ memStatus[u] # "active" /\ memStatus' = [memStatus EXCEPT ![u] = "invited"]
          /\ RevokeDevices(PendingOf(u), Nobody)
      BY <1>8 DEF Accept, Acceptable, Belongs
    <3>2. \A d \in Devices : devStatus'[d] = "active" <=> devStatus[d] = "active"
      BY <3>1 DEF RevokeDevices, PendingOf
    <3>3. \A s \in Sessions : sessStatus'[s] = "active" =>
            sessStatus[s] = "active" /\ sessDevice[s] \notin PendingOf(u)
      BY <3>1 DEF RevokeDevices
    <3>4. BoundSound'
      BY <3>1, <3>3 DEF RevokeDevices, PendingOf, BoundSound, MembershipTypeOK
    <3>5. UNCHANGED <<devUser, sessDevice>>
      BY <3>1 DEF RevokeDevices
    <3>6. \A s \in Sessions : sessStatus'[s] = "active" => devStatus'[sessDevice'[s]] = "active"
      BY <3>2, <3>3, <3>5 DEF BoundSound, AccessFollowsMembership
    <3>7. \A d \in Devices : devStatus'[d] = "active" => memStatus'[devUser'[d]] = "active"
      BY <3>1, <3>2, <3>5 DEF BoundSound, AccessFollowsMembership, MembershipTypeOK
    <3> QED
      BY <3>4, <3>6, <3>7 DEF AccessFollowsMembership
  <2>4. OwnerRemains'
    BY <1>8 DEF MembershipTypeOK, OwnerRemains, Owners, Acceptable, Belongs, Accept, RevokeDevices,
       memberVars, requestVars, seatVars, deviceVars, sessionVars
  <2> QED
    BY <2>1, <2>2, <2>3, <2>4 DEF SeatInv
<1>9. ASSUME NEW u \in Users, NEW r \in Invitations, NEW lag \in CallLags, AcceptRefused(u, r, lag)
      PROVE  MembershipInv'
  <2>1. SeatInv' /\ SeatTypes'
    BY <1>9, CloseSeats DEF AcceptRefused, Acceptable, memberVars
  <2>2. MembershipTypeOK'
    BY <1>9, <2>1 DEF MembershipTypeOK, SeatTypes, SeatKinds, AcceptRefused,
       memberVars, requestVars, seatVars, deviceVars, sessionVars
  <2>3. BoundSound' /\ AccessFollowsMembership'
    BY <1>9 DEF MembershipTypeOK, BoundSound, AccessFollowsMembership, AcceptRefused,
       memberVars, requestVars, seatVars, deviceVars, sessionVars
  <2>4. OwnerRemains'
    BY <1>9 DEF MembershipTypeOK, OwnerRemains, Owners, AcceptRefused,
       memberVars, requestVars, seatVars, deviceVars, sessionVars
  <2> QED
    BY <2>1, <2>2, <2>3, <2>4 DEF SeatInv
<1>10. ASSUME NEW u \in Users, NEW d \in Devices, RegisterDevice(u, d)
      PROVE  MembershipInv'
  <2>1. SeatInv' /\ SeatTypes'
    BY <1>10, SeatsUntouched DEF RegisterDevice, memberVars, requestVars
  <2>2. MembershipTypeOK'
    BY <1>10, <2>1 DEF MembershipTypeOK, SeatTypes, SeatKinds, RegisterDevice,
       memberVars, requestVars, seatVars, deviceVars, sessionVars
  <2>3. BoundSound' /\ AccessFollowsMembership'
    BY <1>10 DEF MembershipTypeOK, BoundSound, AccessFollowsMembership, RegisterDevice,
       memberVars, requestVars, seatVars, deviceVars, sessionVars
  <2>4. OwnerRemains'
    BY <1>10 DEF MembershipTypeOK, OwnerRemains, Owners, RegisterDevice,
       memberVars, requestVars, seatVars, deviceVars, sessionVars
  <2> QED
    BY <2>1, <2>2, <2>3, <2>4 DEF SeatInv
<1>11. ASSUME NEW a \in Users, NEW d \in Devices, NEW lag \in CallLags,
              RevokeDevice(a, d, lag)
      PROVE  MembershipInv'
  <2>1. SeatInv' /\ SeatTypes'
    BY <1>11, SeatsUntouched DEF RevokeDevice, memberVars, requestVars
  <2>2. MembershipTypeOK'
    BY <1>11, <2>1 DEF MembershipTypeOK, SeatTypes, SeatKinds, RevokeDevice, RevokeDevices,
       memberVars, requestVars, seatVars, deviceVars, sessionVars
  <2>3. BoundSound' /\ AccessFollowsMembership'
    BY <1>11 DEF MembershipTypeOK, BoundSound, AccessFollowsMembership, RevokeDevice, RevokeDevices,
       memberVars, requestVars, seatVars, deviceVars, sessionVars
  <2>4. OwnerRemains'
    BY <1>11 DEF MembershipTypeOK, OwnerRemains, Owners, RevokeDevice, RevokeDevices,
       memberVars, requestVars, seatVars, deviceVars, sessionVars
  <2> QED
    BY <2>1, <2>2, <2>3, <2>4 DEF SeatInv
<1>12. ASSUME NEW s \in Sessions, NEW d \in Devices, BindSession(s, d)
      PROVE  MembershipInv'
  <2>1. SeatInv' /\ SeatTypes'
    BY <1>12, SeatsUntouched DEF BindSession, memberVars, requestVars
  <2>2. MembershipTypeOK'
    BY <1>12, <2>1 DEF MembershipTypeOK, SeatTypes, SeatKinds, BindSession,
       memberVars, requestVars, seatVars, deviceVars, sessionVars
  <2>3. BoundSound' /\ AccessFollowsMembership'
    BY <1>12 DEF MembershipTypeOK, BoundSound, AccessFollowsMembership, BindSession,
       memberVars, requestVars, seatVars, deviceVars, sessionVars
  <2>4. OwnerRemains'
    BY <1>12 DEF MembershipTypeOK, OwnerRemains, Owners, BindSession,
       memberVars, requestVars, seatVars, deviceVars, sessionVars
  <2> QED
    BY <2>1, <2>2, <2>3, <2>4 DEF SeatInv
<1>13. ASSUME NEW s \in Sessions, RevokeSession(s)
      PROVE  MembershipInv'
  <2>1. SeatInv' /\ SeatTypes'
    BY <1>13, SeatsUntouched DEF RevokeSession, memberVars, requestVars
  <2>2. MembershipTypeOK'
    BY <1>13, <2>1 DEF MembershipTypeOK, SeatTypes, SeatKinds, RevokeSession,
       memberVars, requestVars, seatVars, deviceVars, sessionVars
  <2>3. BoundSound' /\ AccessFollowsMembership'
    BY <1>13 DEF MembershipTypeOK, BoundSound, AccessFollowsMembership, RevokeSession,
       memberVars, requestVars, seatVars, deviceVars, sessionVars
  <2>4. OwnerRemains'
    BY <1>13 DEF MembershipTypeOK, OwnerRemains, Owners, RevokeSession,
       memberVars, requestVars, seatVars, deviceVars, sessionVars
  <2> QED
    BY <2>1, <2>2, <2>3, <2>4 DEF SeatInv
<1>14. ASSUME NEW u \in Users, DeleteAccount(u)
      PROVE  MembershipInv'
  <2>1. SeatInv' /\ SeatTypes'
    BY <1>14, DeleteSeats
  <2>2. MembershipTypeOK'
    BY <1>14, <2>1 DEF MembershipTypeOK, SeatTypes, SeatKinds, DeleteAccount, RevokeDevices,
       memberVars, requestVars, seatVars, deviceVars, sessionVars
  <2>3. BoundSound' /\ AccessFollowsMembership'
    BY <1>14 DEF MembershipTypeOK, BoundSound, AccessFollowsMembership, DeleteAccount, RevokeDevices,
       memberVars, requestVars, seatVars, deviceVars, sessionVars
  <2>4. OwnerRemains'
    <3>1. /\ memStatus' = [memStatus EXCEPT ![u] = "none"] /\ memRole' = memRole
          /\ removed' = IF memStatus[u] = "active" THEN removed \cup {u} ELSE removed
      BY <1>14 DEF DeleteAccount
    <3>2. memStatus[u] # "active" => Owners \subseteq Owners'
      BY <3>1 DEF Owners, MembershipTypeOK
    <3> QED
      BY <3>1, <3>2 DEF OwnerRemains
  <2> QED
    BY <2>1, <2>2, <2>3, <2>4 DEF SeatInv
<1>15. ASSUME NEW r \in Invitations, Expire(r)
      PROVE  MembershipInv'
  <2>1. SeatInv' /\ SeatTypes'
    BY <1>15, SeatsUntouched DEF Expire, memberVars, requestVars
  <2>2. MembershipTypeOK'
    BY <1>15, <2>1 DEF MembershipTypeOK, SeatTypes, SeatKinds, Expire,
       memberVars, requestVars, seatVars, deviceVars, sessionVars
  <2>3. BoundSound' /\ AccessFollowsMembership'
    BY <1>15 DEF MembershipTypeOK, BoundSound, AccessFollowsMembership, Expire,
       memberVars, requestVars, seatVars, deviceVars, sessionVars
  <2>4. OwnerRemains'
    BY <1>15 DEF MembershipTypeOK, OwnerRemains, Owners, Expire,
       memberVars, requestVars, seatVars, deviceVars, sessionVars
  <2> QED
    BY <2>1, <2>2, <2>3, <2>4 DEF SeatInv
<1> QED
  BY <1>1, <1>2, <1>3, <1>4, <1>5, <1>6, <1>7, <1>8, <1>9, <1>10, <1>11, <1>12, <1>13, <1>14, <1>15
     DEF MemberStep, MembershipNext, Manage, Invite, Join, Connect

LEMMA InitInv == MembershipInit => MembershipInv
<1> SUFFICES ASSUME MembershipInit PROVE MembershipInv
  OBVIOUS
<1> USE MembershipAssumption DEF MembershipInit
<1>1. MembershipTypeOK
  BY DEF MembershipTypeOK, Managers, Roles, Keys
<1>2. {k \in Keys : seat[k] # "free"} = {Founder}
  BY DEF Keys
<1>3. LedgerExact
  BY <1>2, FS_Singleton DEF LedgerExact
<1>4. Seated /\ FixedSeatsUsed
  BY DEF Seated, FixedSeatsUsed, SeatKey, Keys
<1>5. ViaSound /\ BoundSound
  BY DEF ViaSound, BoundSound
<1>6. AccessFollowsMembership /\ OwnerRemains
  BY DEF AccessFollowsMembership, OwnerRemains, Owners, Roles
<1> QED
  BY <1>1, <1>3, <1>4, <1>5, <1>6 DEF MembershipInv, SeatsFollow

\* The inductive invariant holds in every reachable state.
THEOREM MembershipInvHolds == MembershipSpec => []MembershipInv
<1>1. MembershipInv /\ [MembershipNext]_membershipVars => MembershipInv'
  <2>1. MembershipInv /\ UNCHANGED membershipVars => MembershipInv'
    <3> SUFFICES ASSUME MembershipInv, UNCHANGED membershipVars PROVE MembershipInv'
      OBVIOUS
    <3> USE DEF MembershipInv, membershipVars, memberVars, requestVars, seatVars, deviceVars,
                sessionVars
    <3>1. SeatInv'
      BY SeatsUntouched DEF SeatInv
    <3>2. MembershipTypeOK' /\ BoundSound'
      BY DEF MembershipTypeOK, BoundSound
    <3>3. AccessFollowsMembership' /\ OwnerRemains'
      BY DEF AccessFollowsMembership, OwnerRemains, Owners
    <3> QED
      BY <3>1, <3>2, <3>3 DEF SeatInv
  <2> QED
    BY <2>1, NextInv DEF MemberStep
<1> QED
  BY <1>1, InitInv, PTL DEF MembershipSpec

\* Every row has its columns in range, and no more seats are reserved than
\* there are.
THEOREM MembershipTypes == MembershipSpec => []MembershipTypeOK
  BY MembershipInvHolds, PTL DEF MembershipInv

\* The count of used seats is the number of reservations, whatever order
\* sweeps, refreshes and releases come in.
THEOREM LedgerIsExact == MembershipSpec => []LedgerExact
  BY MembershipInvHolds, PTL DEF MembershipInv

\* Fixed seats and active members follow each other.
THEOREM SeatsFollowMembers == MembershipSpec => []SeatsFollow
  BY MembershipInvHolds, PTL DEF MembershipInv

\* Whoever may use a session has an active device and membership.
THEOREM AccessIsRevoked == MembershipSpec => []AccessFollowsMembership
  BY MembershipInvHolds, PTL DEF MembershipInv

\* The last owner cannot be revoked, not even by a call whose caller is no
\* longer a member.
THEOREM AnOwnerRemains == MembershipSpec => []OwnerRemains
  BY MembershipInvHolds, PTL DEF MembershipInv

-----------------------------------------------------------------------------
(* What the workers, the application and the purge do to the accounts.      *)

\* A request that was made and, while it is open and no account of a member was
\* deleted, has an inviter who may invite.  A call that waited may make one
\* for somebody who may not, which is then never claimed; but revoking him who
\* may cancels what he asked for.
Stands(r) ==
  /\ reqStatus[r] # "none"
  /\ removed = {} /\ reqStatus[r] = "requested" => InviterValid(r)

StandsLast == \A r \in Invitations : Stands(r) => Stands(r)'

\* What every step keeps of requests: who came in by one is never forgotten,
\* one that was cancelled stays so, time does not go back, and one that stands
\* goes on standing.
RowsLast ==
  \A r \in Invitations :
     /\ reqUser[r] # Nobody => reqUser'[r] # Nobody
     /\ reqStatus[r] = "cancelled" => reqStatus'[r] = "cancelled"
     /\ clock[r] # "live" => clock'[r] # "live"

RequestsLast == RowsLast /\ StandsLast

\* Behind an accepted request there is a user, and an open one has an address.
RequestsNamed ==
  \A r \in Invitations : /\ reqStatus[r] = "finalized" => reqUser[r] # Nobody
                         /\ reqStatus[r] = "requested" => reqEmail[r] \in Users

AccountsInv == MembershipInv /\ RequestsNamed

LEMMA InviterKept ==
  ASSUME removed \subseteq removed',
         \A r \in Invitations : reqStatus'[r] = "requested" /\ removed' = {}
                                  /\ reqStatus[r] = "requested" /\ InviterValid(r) =>
            /\ reqBy'[r] = reqBy[r] /\ reqRole'[r] = reqRole[r]
            /\ memStatus'[reqBy[r]] = "active" /\ memRole'[reqBy[r]] = memRole[reqBy[r]],
         \A r \in Invitations : reqStatus[r] # "none" =>
            /\ reqStatus'[r] # "none"
            /\ reqStatus'[r] = "requested" => reqStatus[r] = "requested"
  PROVE  StandsLast
<1> SUFFICES ASSUME NEW r \in Invitations, Stands(r)
             PROVE  Stands(r)'
  BY DEF StandsLast
<1>1. reqStatus'[r] # "none"
  BY DEF Stands
<1>2. ASSUME removed' = {}, reqStatus'[r] = "requested"
      PROVE  InviterValid(r)'
  <2>1. removed = {} /\ reqStatus[r] = "requested" /\ InviterValid(r)
    BY <1>2 DEF Stands
  <2> QED
    BY <1>2, <2>1 DEF InviterValid, Outranks, ActiveAs
<1> QED
  BY <1>1, <1>2 DEF Stands

\* What the steps of the accounts keep of requests and their inviters.
LEMMA RequestsKept ==
  AccountsInv /\ MemberStep => RequestsLast /\ RequestsNamed'
<1> SUFFICES ASSUME AccountsInv, MemberStep
             PROVE  RequestsLast /\ RequestsNamed'
  OBVIOUS
<1> USE DEF AccountsInv, MembershipInv, MembershipTypeOK
<1>1. ASSUME NEW a \in Users, NEW e \in Users, NEW lag \in CallLags, BeginForMember(a, e, lag)
      PROVE  RequestsLast /\ RequestsNamed'
  <2>1. RowsLast
    BY <1>1 DEF RowsLast, BeginForMember, RevokeDevices, memberVars, requestVars, seatVars, deviceVars, sessionVars
  <2>2. RequestsNamed'
    BY <1>1, MembershipAssumption DEF RequestsNamed, BeginForMember, RevokeDevices, memberVars, requestVars, seatVars, deviceVars, sessionVars
  <2>3. StandsLast
    BY <1>1, InviterKept DEF BeginForMember, RevokeDevices, memberVars, requestVars, seatVars, deviceVars, sessionVars, InviterValid
  <2> QED
    BY <2>1, <2>2, <2>3 DEF RequestsLast, RowsLast
<1>2. ASSUME NEW a \in Users, NEW e \in Users, NEW role \in Roles, NEW r \in Invitations,
             NEW lag \in CallLags, Begin(a, e, role, r, lag)
      PROVE  RequestsLast /\ RequestsNamed'
  <2>1. RowsLast
    BY <1>2 DEF RowsLast, Begin, RevokeDevices, memberVars, requestVars, seatVars, deviceVars, sessionVars
  <2>2. RequestsNamed'
    BY <1>2, MembershipAssumption DEF RequestsNamed, Begin, RevokeDevices, memberVars, requestVars, seatVars, deviceVars, sessionVars
  <2>4. \A x \in Invitations \ {r} : reqStatus'[x] = "requested" => reqStatus[x] = "requested"
    BY <1>2 DEF Begin, RevokeDevices, memberVars, requestVars, seatVars, deviceVars, sessionVars
  <2>5. \A x \in Invitations \ {r} : reqBy'[x] = reqBy[x] /\ reqRole'[x] = reqRole[x]
    BY <1>2 DEF Begin, RevokeDevices, memberVars, requestVars, seatVars, deviceVars, sessionVars
  <2>6. reqStatus[r] = "none" /\ UNCHANGED memberVars
    BY <1>2 DEF Begin
  <2>7. /\ reqStatus'[r] = "requested"
        /\ \A x \in Invitations \ {r} : reqStatus[x] # "none" => reqStatus'[x] # "none"
    BY <1>2 DEF Begin
  <2>8. StandsLast
    BY <2>4, <2>5, <2>6, <2>7, InviterKept DEF memberVars, InviterValid
  <2> QED
    BY <2>1, <2>2, <2>8 DEF RequestsLast, RowsLast
<1>3. ASSUME NEW a \in Users, NEW r \in Invitations, NEW lag \in CallLags, CancelRequested(a, r, lag)
      PROVE  RequestsLast /\ RequestsNamed'
  <2>1. RowsLast
    BY <1>3 DEF RowsLast, CancelRequested, RevokeDevices, memberVars, requestVars, seatVars, deviceVars, sessionVars
  <2>2. RequestsNamed'
    BY <1>3, MembershipAssumption DEF RequestsNamed, CancelRequested, RevokeDevices, memberVars, requestVars, seatVars, deviceVars, sessionVars
  <2>3. StandsLast
    BY <1>3, InviterKept DEF CancelRequested, RevokeDevices, memberVars, requestVars, seatVars, deviceVars, sessionVars, InviterValid
  <2> QED
    BY <2>1, <2>2, <2>3 DEF RequestsLast, RowsLast
<1>4. ASSUME NEW a \in Users, NEW r \in Invitations, NEW lag \in CallLags, CancelFinalized(a, r, lag)
      PROVE  RequestsLast /\ RequestsNamed'
  <2>1. RowsLast
    BY <1>4 DEF RowsLast, CancelFinalized, RevokeDevices, memberVars, requestVars, seatVars, deviceVars, sessionVars
  <2>2. RequestsNamed'
    BY <1>4, MembershipAssumption DEF RequestsNamed, CancelFinalized, RevokeDevices, memberVars, requestVars, seatVars, deviceVars, sessionVars
  <2>3. StandsLast
    BY <1>4, InviterKept DEF CancelFinalized, RevokeDevices, memberVars, requestVars, seatVars, deviceVars, sessionVars, InviterValid
  <2> QED
    BY <2>1, <2>2, <2>3 DEF RequestsLast, RowsLast
<1>5. ASSUME NEW a \in Users, NEW u \in Users, NEW lag \in CallLags, RevokeMember(a, u, lag)
      PROVE  RequestsLast /\ RequestsNamed'
  <2>1. RowsLast
    BY <1>5 DEF RowsLast, RevokeMember, RevokeDevices, memberVars, requestVars, seatVars, deviceVars, sessionVars
  <2>2. RequestsNamed'
    BY <1>5, MembershipAssumption DEF RequestsNamed, RevokeMember, RevokeDevices, memberVars, requestVars, seatVars, deviceVars, sessionVars
  <2>3. /\ \A r \in Invitations : reqStatus'[r] = "requested" =>
                reqStatus[r] = "requested" /\ reqBy[r] # u
        /\ \A r \in Invitations : reqStatus[r] # "none" => reqStatus'[r] # "none"
        /\ memStatus' = [memStatus EXCEPT ![u] = "revoked"]
        /\ UNCHANGED <<memRole, removed, reqBy, reqRole>>
    BY <1>5 DEF RevokeMember, RevokeDevices, memberVars, requestVars, seatVars, deviceVars, sessionVars
  <2>4. StandsLast
    BY <2>3, InviterKept DEF InviterValid
  <2> QED
    BY <2>1, <2>2, <2>4 DEF RequestsLast, RowsLast
<1>6. ASSUME NEW a \in Users, NEW u \in Users, NEW d \in Devices, NEW lag \in CallLags,
             PairDevice(a, u, d, lag)
      PROVE  RequestsLast /\ RequestsNamed'
  <2>1. RowsLast
    BY <1>6 DEF RowsLast, PairDevice, RevokeDevices, memberVars, requestVars, seatVars, deviceVars, sessionVars
  <2>2. RequestsNamed'
    BY <1>6, MembershipAssumption DEF RequestsNamed, PairDevice, RevokeDevices, memberVars, requestVars, seatVars, deviceVars, sessionVars
  <2>3. StandsLast
    BY <1>6, InviterKept DEF PairDevice, RevokeDevices, memberVars, requestVars, seatVars, deviceVars, sessionVars, InviterValid
  <2> QED
    BY <2>1, <2>2, <2>3 DEF RequestsLast, RowsLast
<1>7. ASSUME NEW u \in Users, SignUp(u)
      PROVE  RequestsLast /\ RequestsNamed'
  <2>1. RowsLast
    BY <1>7 DEF RowsLast, SignUp, RevokeDevices, memberVars, requestVars, seatVars, deviceVars, sessionVars
  <2>2. RequestsNamed'
    BY <1>7, MembershipAssumption DEF RequestsNamed, SignUp, RevokeDevices, memberVars, requestVars, seatVars, deviceVars, sessionVars
  <2>3. StandsLast
    BY <1>7, InviterKept DEF SignUp, RevokeDevices, memberVars, requestVars, seatVars, deviceVars, sessionVars, InviterValid
  <2> QED
    BY <2>1, <2>2, <2>3 DEF RequestsLast, RowsLast
<1>8. ASSUME NEW u \in Users, NEW r \in Invitations, NEW lag \in CallLags, Accept(u, r, lag)
      PROVE  RequestsLast /\ RequestsNamed'
  <2>0. /\ reqStatus[r] = "requested" /\ memStatus[u] # "active"
        /\ reqStatus' = [reqStatus EXCEPT ![r] = "finalized"]
        /\ reqUser' = [reqUser EXCEPT ![r] = u]
        /\ memStatus' = [memStatus EXCEPT ![u] = "invited"]
        /\ memRole' = [memRole EXCEPT ![u] = reqRole[r]]
        /\ UNCHANGED <<removed, clock, reqBy, reqRole, reqEmail>>
    BY <1>8 DEF Accept, Acceptable, Belongs
  <2>1. RowsLast
    BY <2>0, MembershipAssumption DEF RowsLast
  <2>2. RequestsNamed'
    BY <2>0, MembershipAssumption DEF RequestsNamed
  <2>3. StandsLast
    BY <2>0, InviterKept DEF InviterValid
  <2> QED
    BY <2>1, <2>2, <2>3 DEF RequestsLast, RowsLast
<1>9. ASSUME NEW u \in Users, NEW r \in Invitations, NEW lag \in CallLags, AcceptRefused(u, r, lag)
      PROVE  RequestsLast /\ RequestsNamed'
  <2>1. RowsLast
    BY <1>9 DEF RowsLast, AcceptRefused, RevokeDevices, memberVars, requestVars, seatVars, deviceVars, sessionVars, Acceptable
  <2>2. RequestsNamed'
    BY <1>9, MembershipAssumption DEF RequestsNamed, AcceptRefused, RevokeDevices, memberVars, requestVars, seatVars, deviceVars, sessionVars
  <2>3. StandsLast
    BY <1>9, InviterKept DEF AcceptRefused, RevokeDevices, memberVars, requestVars, seatVars, deviceVars, sessionVars, InviterValid, Acceptable, Belongs
  <2> QED
    BY <2>1, <2>2, <2>3 DEF RequestsLast, RowsLast
<1>10. ASSUME NEW u \in Users, NEW d \in Devices, RegisterDevice(u, d)
      PROVE  RequestsLast /\ RequestsNamed'
  <2>1. RowsLast
    BY <1>10 DEF RowsLast, RegisterDevice, RevokeDevices, memberVars, requestVars, seatVars, deviceVars, sessionVars
  <2>2. RequestsNamed'
    BY <1>10, MembershipAssumption DEF RequestsNamed, RegisterDevice, RevokeDevices, memberVars, requestVars, seatVars, deviceVars, sessionVars
  <2>3. StandsLast
    BY <1>10, InviterKept DEF RegisterDevice, RevokeDevices, memberVars, requestVars, seatVars, deviceVars, sessionVars, InviterValid
  <2> QED
    BY <2>1, <2>2, <2>3 DEF RequestsLast, RowsLast
<1>11. ASSUME NEW a \in Users, NEW d \in Devices, NEW lag \in CallLags,
              RevokeDevice(a, d, lag)
      PROVE  RequestsLast /\ RequestsNamed'
  <2>1. RowsLast
    BY <1>11 DEF RowsLast, RevokeDevice, RevokeDevices, memberVars, requestVars, seatVars, deviceVars, sessionVars
  <2>2. RequestsNamed'
    BY <1>11, MembershipAssumption DEF RequestsNamed, RevokeDevice, RevokeDevices, memberVars, requestVars, seatVars, deviceVars, sessionVars
  <2>3. StandsLast
    BY <1>11, InviterKept DEF RevokeDevice, RevokeDevices, memberVars, requestVars, seatVars, deviceVars, sessionVars, InviterValid
  <2> QED
    BY <2>1, <2>2, <2>3 DEF RequestsLast, RowsLast
<1>12. ASSUME NEW s \in Sessions, NEW d \in Devices, BindSession(s, d)
      PROVE  RequestsLast /\ RequestsNamed'
  <2>1. RowsLast
    BY <1>12 DEF RowsLast, BindSession, RevokeDevices, memberVars, requestVars, seatVars, deviceVars, sessionVars
  <2>2. RequestsNamed'
    BY <1>12, MembershipAssumption DEF RequestsNamed, BindSession, RevokeDevices, memberVars, requestVars, seatVars, deviceVars, sessionVars
  <2>3. StandsLast
    BY <1>12, InviterKept DEF BindSession, RevokeDevices, memberVars, requestVars, seatVars, deviceVars, sessionVars, InviterValid
  <2> QED
    BY <2>1, <2>2, <2>3 DEF RequestsLast, RowsLast
<1>13. ASSUME NEW s \in Sessions, RevokeSession(s)
      PROVE  RequestsLast /\ RequestsNamed'
  <2>1. RowsLast
    BY <1>13 DEF RowsLast, RevokeSession, RevokeDevices, memberVars, requestVars, seatVars, deviceVars, sessionVars
  <2>2. RequestsNamed'
    BY <1>13, MembershipAssumption DEF RequestsNamed, RevokeSession, RevokeDevices, memberVars, requestVars, seatVars, deviceVars, sessionVars
  <2>3. StandsLast
    BY <1>13, InviterKept DEF RevokeSession, RevokeDevices, memberVars, requestVars, seatVars, deviceVars, sessionVars, InviterValid
  <2> QED
    BY <2>1, <2>2, <2>3 DEF RequestsLast, RowsLast
<1>14. ASSUME NEW u \in Users, DeleteAccount(u)
      PROVE  RequestsLast /\ RequestsNamed'
  <2>1. RowsLast
    BY <1>14 DEF RowsLast, DeleteAccount, RevokeDevices, memberVars, requestVars, seatVars, deviceVars, sessionVars
  <2>2. RequestsNamed'
    BY <1>14, MembershipAssumption DEF RequestsNamed, DeleteAccount, RevokeDevices, memberVars, requestVars, seatVars, deviceVars, sessionVars
  <2>3. /\ removed' = IF memStatus[u] = "active" THEN removed \cup {u} ELSE removed
        /\ memStatus' = [memStatus EXCEPT ![u] = "none"]
        /\ UNCHANGED <<memRole, reqRole, reqStatus>>
        /\ \A r \in Invitations : reqBy'[r] = IF reqBy[r] = u THEN Nobody ELSE reqBy[r]
    BY <1>14 DEF DeleteAccount, RevokeDevices, memberVars, requestVars, seatVars, deviceVars, sessionVars
  <2>4. removed' = {} => memStatus[u] # "active"
    BY <2>3
  <2>5. StandsLast
    BY <2>3, <2>4, InviterKept DEF InviterValid
  <2> QED
    BY <2>1, <2>2, <2>5 DEF RequestsLast, RowsLast
<1>15. ASSUME NEW r \in Invitations, Expire(r)
      PROVE  RequestsLast /\ RequestsNamed'
  <2>1. RowsLast
    BY <1>15 DEF RowsLast, Expire, RevokeDevices, memberVars, requestVars, seatVars, deviceVars, sessionVars
  <2>2. RequestsNamed'
    BY <1>15, MembershipAssumption DEF RequestsNamed, Expire, RevokeDevices, memberVars, requestVars, seatVars, deviceVars, sessionVars
  <2>3. StandsLast
    BY <1>15, InviterKept DEF Expire, RevokeDevices, memberVars, requestVars, seatVars, deviceVars, sessionVars, InviterValid
  <2> QED
    BY <2>1, <2>2, <2>3 DEF RequestsLast, RowsLast
<1> QED
  BY <1>1, <1>2, <1>3, <1>4, <1>5, <1>6, <1>7, <1>8, <1>9, <1>10, <1>11, <1>12, <1>13, <1>14, <1>15
     DEF MemberStep, MembershipNext, Manage, Invite, Join, Connect

LEMMA MemberInvKept ==
  ASSUME AccountsInv, MemberStep
  PROVE  AccountsInv' /\ RequestsLast
  BY NextInv, RequestsKept DEF AccountsInv

LEMMA AccountsUntouched ==
  ASSUME AccountsInv, UNCHANGED membershipVars
  PROVE  AccountsInv' /\ RequestsLast
<1> USE DEF AccountsInv, MembershipInv, membershipVars, memberVars, requestVars, seatVars,
            deviceVars, sessionVars
<1>1. SeatInv'
  BY SeatsUntouched DEF SeatInv
<1>2. MembershipTypeOK' /\ BoundSound'
  BY DEF MembershipTypeOK, BoundSound
<1>3. AccessFollowsMembership' /\ OwnerRemains'
  BY DEF AccessFollowsMembership, OwnerRemains, Owners
<1>4. RowsLast /\ RequestsNamed'
  BY DEF RowsLast, RequestsNamed
<1>5. StandsLast
  BY DEF StandsLast, Stands, InviterValid, Outranks, ActiveAs
<1> QED
  BY <1>1, <1>2, <1>3, <1>4, <1>5 DEF SeatInv, RequestsLast

\* A request that a claim or a late answer closes.
LEMMA ClosedKept ==
  ASSUME AccountsInv, NEW r \in Invitations, NEW state, Close(r, state)
  PROVE  AccountsInv' /\ RequestsLast
<1> USE DEF AccountsInv, MembershipInv
<1>0. /\ UNCHANGED <<memberVars, reqEmail, reqRole, reqBy, reqUser, clock,
                     deviceVars, sessionVars>>
      /\ reqStatus' = [reqStatus EXCEPT ![r] = IF @ = "requested" THEN "cancelled" ELSE @]
      /\ IF reqStatus[r] = "requested"
         THEN Apply(OnRequestClosed(Ledger, r, memStatus, memVia, "none"))
         ELSE UNCHANGED seatVars
  BY DEF Close
<1>1. CASE reqStatus[r] # "requested"
  <2>1. UNCHANGED membershipVars
    <3>1. reqStatus' = reqStatus
      BY <1>0, <1>1 DEF MembershipTypeOK
    <3> QED
      BY <1>0, <1>1, <3>1 DEF membershipVars, requestVars
  <2> QED
    BY <2>1, AccountsUntouched
<1>2. CASE reqStatus[r] = "requested"
  <2>0. /\ reqStatus' = [reqStatus EXCEPT ![r] = "cancelled"]
        /\ UNCHANGED <<memStatus, memVia, memRole, removed, accounts, clock>>
    BY <1>0, <1>2 DEF memberVars
  <2>1. SeatInv' /\ SeatTypes'
    BY <1>0, <1>2, <2>0, CloseSeats
  <2>2. MembershipTypeOK'
    BY <1>0, <2>0, <2>1 DEF MembershipTypeOK, SeatTypes, SeatKinds, deviceVars, sessionVars
  <2>3. BoundSound' /\ AccessFollowsMembership'
    BY <1>0, <2>0 DEF BoundSound, AccessFollowsMembership, deviceVars, sessionVars
  <2>4. OwnerRemains'
    BY <2>0 DEF OwnerRemains, Owners
  <2>5. RowsLast /\ RequestsNamed'
    BY <1>0, <2>0 DEF RowsLast, RequestsNamed, MembershipTypeOK
  <2>6. StandsLast
    BY <1>0, <2>0, InviterKept DEF InviterValid, MembershipTypeOK
  <2> QED
    BY <2>1, <2>2, <2>3, <2>4, <2>5, <2>6 DEF SeatInv, RequestsLast
<1> QED
  BY <1>1, <1>2

\* The purge: requests whose time is over, their members who never came, and
\* the request of an approval that nobody carried out.
LEMMA PurgeKept ==
  ASSUME AccountsInv, appStatus = "approved" => appRequest \in Invitations, Purge
  PROVE  AccountsInv' /\ RequestsLast
<1> USE DEF AccountsInv, MembershipInv
<1>0. /\ memStatus' = [u \in Users |-> IF u \in Overdue THEN "revoked" ELSE memStatus[u]]
      /\ reqStatus' = [r \in Invitations |-> IF r \in Closing THEN "cancelled" ELSE reqStatus[r]]
      /\ seat' = [k \in Keys |-> IF k \in Closing THEN "free" ELSE seat[k]]
      /\ used' = AtLeastZero(used - Cardinality({r \in Closing : seat[r] # "free"}))
      /\ UNCHANGED <<accounts, memRole, memVia, removed, reqEmail, reqRole, reqBy, reqUser,
                     clock, deviceVars, sessionVars>>
  BY DEF Purge
<1>1. Closing \subseteq Invitations /\ \A r \in Closing : reqStatus[r] = "requested"
  BY DEF Closing, Lapsing, StaleApproval
<1>2. Overdue \subseteq Users
      /\ \A u \in Overdue : memStatus[u] = "invited" /\ clock[memVia[u]] # "live"
  BY DEF Overdue, LiveNow
<1>3. PICK D : D = {r \in Closing : seat[r] # "free"}
  OBVIOUS
<1>4. D \subseteq Held(seat) /\ seat \in [Keys -> SeatKinds]
  BY <1>1, <1>3 DEF Held, Keys, MembershipTypeOK, SeatKinds
<1>5. /\ Cardinality(Held([k \in Keys |-> IF k \in D THEN "free" ELSE seat[k]]))
           = Cardinality(Held(seat)) - Cardinality(D)
      /\ Cardinality(D) \in Nat /\ Cardinality(D) <= Cardinality(Held(seat))
  BY <1>4, HeldFreed
<1>6. seat' = [k \in Keys |-> IF k \in D THEN "free" ELSE seat[k]]
  BY <1>0, <1>3, <1>4
<1>7. LedgerExact' /\ SeatTypes'
  <2>1. used = Cardinality(Held(seat)) /\ used \in 0 .. MaxSeats
    BY DEF LedgerExact, Held, MembershipTypeOK
  <2>2. used' = used - Cardinality(D) /\ used' \in 0 .. MaxSeats
    BY <1>0, <1>3, <1>5, <2>1, MembershipAssumption DEF AtLeastZero
  <2>3. Held(seat') = {k \in Keys : seat'[k] # "free"}
    BY DEF Held
  <2> QED
    BY <1>4, <1>5, <1>6, <2>1, <2>2, <2>3 DEF LedgerExact, SeatTypes, SeatKinds
<1>8. \A u \in Users : memVia[u] \notin Closing /\ SeatKey(u, memVia[u]) \notin Closing
  BY <1>1, OpenUnused, MembershipAssumption DEF SeatKey
<1>9. OthersKept(seat, seat', Closing)
  BY <1>0 DEF OthersKept
<1>10. ViaSound'
  BY <1>0, <1>1, <1>2 DEF ViaSound, MembershipTypeOK
<1>11. SeatsFollow'
  <2>1. \A u \in Users : memStatus'[u] = "active" <=> memStatus[u] = "active"
    BY <1>0, <1>2
  <2>2. \A u \in Users : memStatus'[u] = "invited" => memStatus[u] = "invited"
    BY <1>0
  <2>3. \A r \in Closing : seat'[r] = "free"
    BY <1>0, <1>1 DEF Keys
  <2>4. \A r \in Invitations : reqStatus'[r] = "requested" =>
          reqStatus[r] = "requested" /\ r \notin Closing
    BY <1>0
  <2>5. memVia' = memVia /\ memVia' \in [Users -> Invitations \cup {Nobody}]
        /\ UNCHANGED clock
    BY <1>0 DEF MembershipTypeOK
  <2>6. \A u \in Users : memStatus'[u] = "invited" => memVia'[u] # Nobody
    BY <2>2, <2>5 DEF ViaSound
  <2>7. PICK K : K = Closing
    OBVIOUS
  <2> QED
    BY <1>8, <1>9, <2>1, <2>2, <2>3, <2>4, <2>5, <2>6, <2>7, SeatsStillFollow
<1>12. MembershipTypeOK'
  BY <1>0, <1>7 DEF MembershipTypeOK, SeatTypes, SeatKinds, deviceVars, sessionVars
<1>13. BoundSound' /\ AccessFollowsMembership'
  <2>1. UNCHANGED <<devStatus, devUser, sessStatus, sessDevice>>
    BY <1>0 DEF deviceVars, sessionVars
  <2>2. \A u \in Users : memStatus[u] = "active" => memStatus'[u] = "active"
    BY <1>0, <1>2
  <2> QED
    BY <2>1, <2>2 DEF BoundSound, AccessFollowsMembership
<1>14. OwnerRemains'
  <2>1. Owners' = Owners
    BY <1>0, <1>2 DEF Owners
  <2> QED
    BY <1>0, <2>1 DEF OwnerRemains
<1>15. RowsLast /\ RequestsNamed'
  BY <1>0, <1>1 DEF RowsLast, RequestsNamed
<1>16. StandsLast
  <2>1. \A r \in Invitations :
          /\ reqStatus'[r] = "requested" => reqStatus[r] = "requested"
          /\ reqStatus[r] # "none" => reqStatus'[r] # "none"
    BY <1>0
  <2>2. \A u \in Users : memStatus[u] = "active" => memStatus'[u] = "active"
    BY <1>0, <1>2
  <2>3. UNCHANGED <<memRole, removed, reqBy, reqRole>>
    BY <1>0
  <2>4. reqBy \in [Invitations -> Users \cup {Nobody}]
    BY DEF MembershipTypeOK
  <2> QED
    BY <2>1, <2>2, <2>3, <2>4, InviterKept DEF InviterValid
<1> QED
  BY <1>7, <1>10, <1>11, <1>12, <1>13, <1>14, <1>15, <1>16 DEF RequestsLast

-----------------------------------------------------------------------------
(* Workers, leases and the application.                                     *)

ProvStates == {"pending", "leased", "retryable", "provisioned", "compensating", "terminal_failed"}

WorkerRows ==
  [step : {"idle", "claim", "invite", "finish", "compensate", "record", "conclude"},
   req : Invitations \cup {Nobody}, app : Nat, attempt : Nat,
   result : {"none", "created", "failed", "exists", "invalid"}, made : BOOLEAN,
   outcome : {"none", "invited", "cancelled", "retryable"}]

RequestFieldsOK ==
  /\ provState \in [Invitations -> ProvStates]
  /\ attempt \in [Invitations -> Nat] /\ claims \in [Invitations -> Nat]
  /\ lease \in [Invitations -> BOOLEAN]

\* A lease runs only for an attempt that is under way, at a request that stands.
LeaseSound == \A r \in Invitations : lease[r] => provState[r] = "leased" /\ Stands(r)

\* The invitation went out or was accepted, or has expired since.
WentOut(r) ==
  \/ provState[r] = "provisioned" \/ reqUser[r] # Nobody
  \/ reqStatus[r] = "cancelled" /\ clock[r] # "live"

\* What a worker may report: it was started for this application or for an
\* earlier one, and it says "invited" only of an invitation that went out.
RowSound(row) ==
  /\ row \in WorkerRows
  /\ row.app <= filing
  /\ row.step # "idle" => row.req \in Invitations
  /\ appStatus = "pending" => row.app # filing
  /\ row.step = "conclude" /\ row.outcome = "invited" /\ row.app = filing
       /\ appStatus = "approved" /\ appRequest = row.req => WentOut(row.req)

WorkersSound ==
  worker \in [Workers -> WorkerRows] /\ \A w \in Workers : RowSound(worker[w])

ApplicationSound ==
  /\ filing \in Nat \ {0} /\ age \in Ages
  /\ appRequest \in Invitations \cup {Nobody}
  /\ appStatus = "approved" => appRequest \in Invitations
  /\ appStatus = "pending" => appRequest = Nobody
  /\ InvitedWasInvited

RetentionInv ==
  /\ AccountsInv
  /\ RequestFieldsOK /\ LeaseSound
  /\ WorkersSound /\ ApplicationSound

\* What LeaseIsItsWorkers says of a step.
LeaseKept ==
  \A r \in Invitations : removed = {} /\ lease[r] /\ ~lease'[r]
    => \/ provState'[r] = "leased"
       \/ \E w \in Workers : /\ worker[w].req = r /\ worker[w].step = "finish"
                             /\ worker[w].attempt = attempt[r]
                             /\ worker'[w].step # "finish"

\* What AddressIsForgotten says of a purge.
AddressKept ==
  contact' => \/ appStatus' = "pending" /\ age # "over"
              \/ /\ appStatus' = "approved"
                 /\ age = "new" \/ (age = "late" /\ lease'[appRequest'])

\* An invitation that went out stays one that did, as long as its state is
\* kept or it is closed after its time.
LEMMA WentOutLasts ==
  ASSUME RequestsLast, NEW r \in Invitations, WentOut(r),
         provState[r] = "provisioned" =>
           provState'[r] = "provisioned"
             \/ (reqStatus'[r] = "cancelled" /\ clock[r] # "live")
  PROVE  WentOut(r)'
  BY DEF RequestsLast, RowsLast, WentOut

\* A worker's row says the same after a step that leaves the application.
LEMMA RowKept ==
  ASSUME UNCHANGED <<filing, appStatus, appRequest>>, NEW row, RowSound(row),
         \A r \in Invitations : WentOut(r) => WentOut(r)'
  PROVE  RowSound(row)'
<1>1. row.step = "conclude" => row.req \in Invitations
  BY DEF RowSound
<1> QED
  BY <1>1 DEF RowSound

\* A worker's row says the same after the application was decided or filed.
LEMMA RowDecided ==
  ASSUME NEW row, RowSound(row), filing \in Nat, filing' \in Nat, filing' >= filing,
         appStatus' = "pending" => filing' > filing,
         appStatus' = "approved" => appStatus = "pending" /\ filing' = filing
  PROVE  RowSound(row)'
<1>1. row.app \in Nat /\ row.app <= filing
  BY DEF RowSound, WorkerRows
<1> QED
  BY <1>1 DEF RowSound

\* Where one worker moves on, the others are where they were.
LEMMA WorkerMoves ==
  ASSUME WorkersSound, NEW w \in Workers, NEW row, RowSound(row)',
         worker' = [worker EXCEPT ![w] = row],
         \A x \in WorkerRows : RowSound(x) => RowSound(x)'
  PROVE  WorkersSound' /\ worker'[w] = row /\ \A v \in Workers \ {w} : worker'[v] = worker[v]
<1>1. /\ worker'[w] = row
      /\ \A v \in Workers \ {w} : worker'[v] = worker[v]
  BY DEF WorkersSound
<1>2. row \in WorkerRows
  BY DEF RowSound
<1>3. worker' \in [Workers -> WorkerRows]
  BY <1>2 DEF WorkersSound
<1>4. ASSUME NEW v \in Workers PROVE RowSound(worker[v])'
  <2>1. PICK x, y : x = worker'[v] /\ y = worker[v]
    OBVIOUS
  <2>2. RowSound(x)'
    <3>1. CASE v = w
      BY <1>1, <2>1, <3>1
    <3>2. CASE v # w
      <4>1. x = y
        BY <1>1, <2>1, <3>2
      <4>2. RowSound(y) => RowSound(y)'
        BY <2>1 DEF WorkersSound
      <4> QED
        BY <2>1, <4>1, <4>2 DEF WorkersSound
    <3> QED
      BY <3>1, <3>2
  <2> QED
    BY <2>1, <2>2 DEF RowSound
<1> QED
  BY <1>1, <1>3, <1>4 DEF WorkersSound

\* A worker that is started.
LEMMA Started ==
  ASSUME NEW w \in Workers, WorkersSound, NEW r \in Invitations, NEW app \in Nat, Start(w, r, app)
  PROVE  \E row \in WorkerRows :
            /\ worker' = [worker EXCEPT ![w] = row] /\ worker[w].step = "idle"
            /\ row.step = "claim" /\ row.req = r /\ row.app = app
<1>1. PICK row : row = [Done EXCEPT !.step = "claim", !.req = r, !.app = app]
  OBVIOUS
<1>2. row = [step |-> "claim", req |-> r, app |-> app, attempt |-> 0,
             result |-> "none", made |-> FALSE, outcome |-> "none"]
  BY <1>1 DEF Done
<1>3. row \in WorkerRows /\ row.step = "claim" /\ row.req = r /\ row.app = app
  BY <1>2 DEF WorkerRows
<1> QED
  BY <1>1, <1>3 DEF Start

\* A worker that is done with the invitation.
LEMMA Concluded ==
  ASSUME NEW w \in Workers, WorkersSound, NEW outcome \in {"invited", "cancelled", "retryable"},
         Conclude(w, outcome)
  PROVE  \E row \in WorkerRows :
            /\ worker' = [worker EXCEPT ![w] = row]
            /\ \/ row.step = "idle" /\ row.app = 0
               \/ /\ row.step = "conclude" /\ row.outcome = outcome
                  /\ row.app = worker[w].app /\ row.req = worker[w].req
<1>0. worker[w] \in WorkerRows
  BY DEF WorkersSound
<1>1. CASE worker[w].app # 0
  <2>1. PICK a : a = [worker[w] EXCEPT !.step = "conclude"]
    OBVIOUS
  <2>2. PICK row : row = [a EXCEPT !.outcome = outcome]
    OBVIOUS
  <2>3. /\ a \in WorkerRows /\ a.step = "conclude"
        /\ a.app = worker[w].app /\ a.req = worker[w].req
    BY <1>0, <2>1 DEF WorkerRows
  <2>4. /\ row \in WorkerRows /\ row.step = "conclude" /\ row.outcome = outcome
        /\ row.app = worker[w].app /\ row.req = worker[w].req
    BY <2>2, <2>3 DEF WorkerRows
  <2>5. worker' = [worker EXCEPT ![w] = [worker[w] EXCEPT !.step = "conclude", !.outcome = outcome]]
    BY <1>1 DEF Conclude
  <2> QED
    BY <2>1, <2>2, <2>4, <2>5
<1>2. CASE worker[w].app = 0
  <2>1. worker' = [worker EXCEPT ![w] = Done]
    BY <1>2 DEF Conclude
  <2>2. Done \in WorkerRows /\ Done.step = "idle" /\ Done.app = 0
    BY DEF Done, WorkerRows
  <2> QED
    BY <2>1, <2>2
<1> QED
  BY <1>1, <1>2

LEMMA WorkersAfter ==
  ASSUME WorkersSound, \A x \in WorkerRows : RowSound(x) => RowSound(x)',
         \/ worker' = worker
         \/ \E w \in Workers, row \in WorkerRows :
               worker' = [worker EXCEPT ![w] = row] /\ RowSound(row)'
  PROVE  WorkersSound'
<1>1. CASE worker' = worker
  <2>1. ASSUME NEW v \in Workers PROVE RowSound(worker[v])'
    <3>1. PICK x : x = worker[v]
      OBVIOUS
    <3>2. x \in WorkerRows /\ RowSound(x)
      BY <3>1 DEF WorkersSound
    <3>3. RowSound(x)' /\ x = worker'[v]
      BY <1>1, <3>1, <3>2
    <3> QED
      BY <3>3 DEF RowSound
  <2> QED
    BY <1>1, <2>1 DEF WorkersSound
<1>2. ASSUME NEW w \in Workers, NEW row \in WorkerRows,
             worker' = [worker EXCEPT ![w] = row], RowSound(row)'
      PROVE  WorkersSound'
  BY <1>2, WorkerMoves
<1> QED
  BY <1>1, <1>2

\* A step of one worker that leaves the application as it is.
LEMMA WorkerStep ==
  ASSUME RetentionInv, AccountsInv', RequestsLast, RequestFieldsOK', LeaseSound', age' \in Ages,
         UNCHANGED <<filing, appStatus, appRequest>>,
         \A r \in Invitations : provState[r] = "provisioned" => provState'[r] = "provisioned",
         NEW w \in Workers, NEW row \in WorkerRows, worker' = [worker EXCEPT ![w] = row],
         row.step # "idle" => row.req \in Invitations,
         row.app \in {0, worker[w].app} \/ (row.app = filing /\ appStatus = "approved"),
         row.step = "conclude" /\ row.outcome = "invited" => WentOut(row.req)'
  PROVE  RetentionInv'
<1>1. ASSUME NEW r \in Invitations, WentOut(r) PROVE WentOut(r)'
  BY <1>1, WentOutLasts
<1>2. \A x \in WorkerRows : RowSound(x) => RowSound(x)'
  BY <1>1, RowKept
<1>3. RowSound(worker[w])
  BY DEF RetentionInv, WorkersSound
<1>4. RowSound(row)'
  BY <1>3 DEF RowSound, RetentionInv, ApplicationSound
<1>5. WorkersSound'
  BY <1>2, <1>4, WorkersAfter DEF RetentionInv
<1>6. ApplicationSound'
  BY <1>1 DEF RetentionInv, ApplicationSound, InvitedWasInvited, WentOut
<1> QED
  BY <1>5, <1>6 DEF RetentionInv

\* A step of the accounts that workers and the application have no part in.
LEMMA AccountsStep ==
  ASSUME RetentionInv, AccountsInv', RequestsLast, UNCHANGED <<requestFields, worker, appVars>>,
         age' \in Ages
  PROVE  RetentionInv' /\ LeaseKept
<1>0. UNCHANGED <<provState, attempt, claims, lease, worker, filing, appStatus, appRequest>>
  BY DEF requestFields, appVars, filingVars
<1>1. ASSUME NEW r \in Invitations, WentOut(r) PROVE WentOut(r)'
  BY <1>0, <1>1, WentOutLasts
<1>2. \A x \in WorkerRows : RowSound(x) => RowSound(x)'
  BY <1>0, <1>1, RowKept
<1>3. WorkersSound'
  BY <1>0, <1>2, WorkersAfter DEF RetentionInv
<1>4. ApplicationSound'
  BY <1>0, <1>1 DEF RetentionInv, ApplicationSound, InvitedWasInvited, WentOut
<1>5. RequestFieldsOK' /\ LeaseSound' /\ LeaseKept
  BY <1>0 DEF RetentionInv, RequestFieldsOK, LeaseSound, LeaseKept, RequestsLast, StandsLast
<1> QED
  BY <1>3, <1>4, <1>5 DEF RetentionInv

\* A step that decides or files the application, and may start a worker for it.
LEMMA ApplicationStep ==
  ASSUME RetentionInv, AccountsInv', RequestsLast, UNCHANGED requestFields, age' \in Ages,
         filing' \in Nat, filing' >= filing,
         appStatus' = "pending" => filing' > filing /\ appRequest' = Nobody,
         appStatus' = "approved" => appStatus = "pending" /\ filing' = filing
                                      /\ appRequest' \in Invitations,
         appRequest' \in Invitations \cup {Nobody},
         appStatus' = "invited" /\ appRequest' # Nobody => WentOut(appRequest)',
         \/ worker' = worker
         \/ \E w \in Workers, row \in WorkerRows :
               /\ worker' = [worker EXCEPT ![w] = row]
               /\ row.step = "claim" /\ row.req \in Invitations
               /\ row.app = filing /\ filing' = filing /\ appStatus' = "approved"
  PROVE  RetentionInv' /\ LeaseKept
<1>0. filing \in Nat \ {0}
  BY DEF RetentionInv, ApplicationSound
<1>1. \A x \in WorkerRows : RowSound(x) => RowSound(x)'
  BY <1>0, RowDecided
<1>2. WorkersSound'
  <2>1. ASSUME NEW w \in Workers, NEW row \in WorkerRows, worker' = [worker EXCEPT ![w] = row],
               row.step = "claim", row.req \in Invitations,
               row.app = filing, filing' = filing, appStatus' = "approved"
        PROVE  RowSound(row)'
    BY <1>0, <2>1 DEF RowSound
  <2> QED
    BY <1>1, <2>1, WorkersAfter DEF RetentionInv
<1>3. ApplicationSound'
  BY <1>0 DEF ApplicationSound, InvitedWasInvited, WentOut
<1>4. RequestFieldsOK' /\ LeaseSound' /\ LeaseKept
  BY DEF RetentionInv, RequestFieldsOK, LeaseSound, LeaseKept, requestFields, RequestsLast, StandsLast
<1> QED
  BY <1>2, <1>3, <1>4 DEF RetentionInv

\* A worker that is started, for the application under decision or for none.
LEMMA StartStep ==
  ASSUME RetentionInv, AccountsInv', RequestsLast, UNCHANGED <<requestFields, appVars>>,
         age' \in Ages, NEW r \in Invitations, NEW app \in Nat,
         app = 0 \/ (app = filing /\ appStatus = "approved"),
         NEW w \in Workers, Start(w, r, app)
  PROVE  RetentionInv' /\ LeaseKept
<1>1. PICK row \in WorkerRows : /\ worker' = [worker EXCEPT ![w] = row]
                                /\ row.step = "claim" /\ row.req = r /\ row.app = app
  BY Started DEF RetentionInv
<1>2. UNCHANGED <<provState, attempt, claims, lease, filing, appStatus, appRequest>>
  BY DEF requestFields, appVars, filingVars
<1>3. RequestFieldsOK' /\ LeaseSound' /\ LeaseKept
  BY <1>2 DEF RetentionInv, RequestFieldsOK, LeaseSound, LeaseKept, RequestsLast, StandsLast
<1>4. RetentionInv'
  BY <1>1, <1>2, <1>3, WorkerStep
<1> QED
  BY <1>3, <1>4

LEMMA DispatchStep ==
  ASSUME RetentionInv, AccountsInv', RequestsLast, UNCHANGED <<requestFields, appVars>>,
         age' \in Ages, NEW r \in Invitations, NEW app \in Nat,
         app = 0 \/ (app = filing /\ appStatus = "approved"), Dispatch(r, app)
  PROVE  RetentionInv' /\ LeaseKept
<1>1. CASE UNCHANGED worker
  BY <1>1, AccountsStep
<1>2. CASE \E w \in Workers : Start(w, r, app)
  BY <1>2, StartStep
<1> QED
  BY <1>1, <1>2 DEF Dispatch

LEMMA ManageKeeps ==
  ASSUME RetentionInv, age' \in Ages, NEW a \in Users, NEW lag \in CallLags, Manage(a, lag),
         UNCHANGED <<requestFields, worker, appVars>>
  PROVE  RetentionInv' /\ LeaseKept
<1>1. MemberStep
  BY DEF MemberStep, MembershipNext
<1> QED
  BY <1>1, MemberInvKept, AccountsStep DEF RetentionInv

\* The calls of invite-member.
LEMMA InviteKeeps ==
  ASSUME RetentionInv, age' \in Ages, NEW a \in Users, NEW e \in Users,
         InviteMember(a, e) \/ InviteNew(a, e) \/ InviteAgain(a, e)
  PROVE  RetentionInv' /\ LeaseKept
<1>1. CASE InviteMember(a, e)
  <2>1. PICK lag \in CallLags : BeginForMember(a, e, lag)
    BY <1>1 DEF InviteMember
  <2>2. MemberStep /\ UNCHANGED <<requestFields, worker, appVars>>
    BY <1>1, <2>1 DEF MemberStep, InviteMember
  <2> QED
    BY <2>2, MemberInvKept, AccountsStep DEF RetentionInv
<1>2. CASE InviteNew(a, e)
  <2>1. PICK role \in Roles, r \in Invitations, lag \in CallLags :
           Begin(a, e, role, r, lag) /\ Dispatch(r, 0)
    BY <1>2 DEF InviteNew
  <2>2. MemberStep /\ UNCHANGED <<requestFields, appVars>>
    BY <1>2, <2>1 DEF MemberStep, MembershipNext, Invite, InviteNew
  <2>3. AccountsInv' /\ RequestsLast
    BY <2>2, MemberInvKept DEF RetentionInv
  <2> QED
    BY <2>1, <2>2, <2>3, DispatchStep
<1>3. CASE InviteAgain(a, e)
  <2>1. PICK r \in Invitations, w \in Workers : Start(w, r, 0)
    BY <1>3 DEF InviteAgain
  <2>2. UNCHANGED <<membershipVars, requestFields, appVars>>
    BY <1>3 DEF InviteAgain
  <2>3. AccountsInv' /\ RequestsLast
    BY <2>2, AccountsUntouched DEF RetentionInv
  <2> QED
    BY <2>1, <2>2, <2>3, StartStep
<1> QED
  BY <1>1, <1>2, <1>3

\* The decisions about the application.
LEMMA DecideKeeps ==
  ASSUME RetentionInv, age' \in Ages, NEW a \in Users,
         Reject(a) \/ Approve(a) \/ ApproveMember(a) \/ ApproveAgain(a)
  PROVE  RetentionInv' /\ LeaseKept
<1>0. /\ filing \in Nat \ {0} /\ appRequest \in Invitations \cup {Nobody}
      /\ appStatus = "pending" => appRequest = Nobody
      /\ appStatus = "approved" => appRequest \in Invitations
      /\ WorkersSound /\ AccountsInv
  BY DEF RetentionInv, ApplicationSound
<1>1. CASE Reject(a)
  <2>1. AccountsInv' /\ RequestsLast
    BY <1>0, <1>1, AccountsUntouched DEF Reject
  <2> QED
    BY <1>0, <1>1, <2>1, ApplicationStep DEF Reject, filingVars
<1>2. CASE ApproveMember(a)
  <2>1. PICK lag \in CallLags : BeginForMember(a, Applicant, lag)
    BY <1>2 DEF ApproveMember
  <2>2. MemberStep
    BY <2>1, ProvisioningAssumption DEF MemberStep
  <2>3. AccountsInv' /\ RequestsLast
    BY <1>0, <2>2, MemberInvKept
  <2> QED
    BY <1>0, <1>2, <2>3, ApplicationStep DEF ApproveMember, filingVars
<1>3. CASE Approve(a)
  <2>1. PICK r \in Invitations, lag \in CallLags :
           /\ contact /\ appStatus = "pending"
           /\ \/ Begin(a, Applicant, "member", r, lag)
              \/ UNCHANGED membershipVars
           /\ appStatus' = "approved" /\ appRequest' = r
           /\ Dispatch(r, filing)
           /\ UNCHANGED <<requestFields, filingVars>>
    BY <1>3 DEF Approve
  <2>2. AccountsInv' /\ RequestsLast
    <3>1. CASE Begin(a, Applicant, "member", r, lag)
      <4>1. MemberStep
        BY <3>1, ProvisioningAssumption DEF MemberStep, MembershipNext, Invite, Roles
      <4> QED
        BY <1>0, <4>1, MemberInvKept
    <3>2. CASE UNCHANGED membershipVars
      BY <1>0, <3>2, AccountsUntouched
    <3> QED
      BY <2>1, <3>1, <3>2
  <2>3. \/ worker' = worker
        \/ \E w \in Workers, row \in WorkerRows :
               /\ worker' = [worker EXCEPT ![w] = row]
               /\ row.step = "claim" /\ row.req \in Invitations /\ row.app = filing
    <3>1. CASE UNCHANGED worker
      BY <3>1
    <3>2. ASSUME NEW w \in Workers, Start(w, r, filing)
          PROVE  \E row \in WorkerRows :
                   /\ worker' = [worker EXCEPT ![w] = row]
                   /\ row.step = "claim" /\ row.req \in Invitations /\ row.app = filing
      BY <1>0, <3>2, Started
    <3> QED
      BY <2>1, <3>1, <3>2 DEF Dispatch
  <2>4. UNCHANGED requestFields /\ filing' = filing
    BY <2>1 DEF filingVars
  <2> QED
    BY <1>0, <2>1, <2>2, <2>3, <2>4, ApplicationStep
<1>4. CASE ApproveAgain(a)
  <2>1. AccountsInv' /\ RequestsLast
    BY <1>0, <1>4, AccountsUntouched DEF ApproveAgain
  <2>2. /\ appStatus = "approved" /\ appRequest' = appRequest /\ filing' = filing
        /\ UNCHANGED <<membershipVars, requestFields, filingVars>>
    BY <1>4 DEF ApproveAgain, filingVars
  <2>3. CASE InvitationMade(appRequest)
    <3>1. appStatus' = "invited" /\ UNCHANGED worker
      BY <1>4, <2>3 DEF ApproveAgain
    <3>2. WentOut(appRequest)
      BY <1>0, <2>2, <2>3 DEF InvitationMade, WentOut, AccountsInv, RequestsNamed
    <3>3. WentOut(appRequest)'
      BY <2>2, <3>2 DEF WentOut, requestFields, membershipVars, requestVars
    <3> QED
      BY <1>0, <2>1, <2>2, <3>1, <3>3, ApplicationStep
  <2>4. CASE ~InvitationMade(appRequest) /\ InvitationOver(appRequest)
    <3>1. appStatus' = "cancelled" /\ UNCHANGED worker
      BY <1>4, <2>4 DEF ApproveAgain
    <3> QED
      BY <1>0, <2>1, <2>2, <3>1, ApplicationStep
  <2>5. CASE ~InvitationMade(appRequest) /\ ~InvitationOver(appRequest)
    <3>1. Dispatch(appRequest, filing) /\ UNCHANGED <<requestFields, appVars>>
      BY <1>4, <2>5 DEF ApproveAgain, appVars
    <3>2. PICK r \in Invitations : r = appRequest
      BY <1>0, <2>2
    <3> QED
      BY <1>0, <2>1, <2>2, <3>1, <3>2, DispatchStep
  <2> QED
    BY <2>3, <2>4, <2>5
<1> QED
  BY <1>1, <1>2, <1>3, <1>4

\* A step of one worker that is done with its invitation.
LEMMA ConcludeStep ==
  ASSUME RetentionInv, AccountsInv', RequestsLast, RequestFieldsOK', LeaseSound', age' \in Ages,
         UNCHANGED appVars,
         \A r \in Invitations : provState[r] = "provisioned" => provState'[r] = "provisioned",
         NEW w \in Workers, worker[w].step # "idle",
         NEW outcome \in {"invited", "cancelled", "retryable"}, Conclude(w, outcome),
         NEW r \in Invitations, r = worker[w].req, outcome = "invited" => WentOut(r)'
  PROVE  RetentionInv'
<1>2. PICK row \in WorkerRows :
         /\ worker' = [worker EXCEPT ![w] = row]
         /\ \/ row.step = "idle" /\ row.app = 0
            \/ /\ row.step = "conclude" /\ row.outcome = outcome
               /\ row.app = worker[w].app /\ row.req = worker[w].req
  BY Concluded DEF RetentionInv
<1>3. UNCHANGED <<filing, appStatus, appRequest>>
  BY DEF appVars, filingVars
<1>4. row.app \in {0, worker[w].app} /\ (row.step # "idle" => row.req \in Invitations)
  BY <1>2
<1>5. row.step = "conclude" /\ row.outcome = "invited" => WentOut(row.req)'
  BY <1>2
<1> QED
  BY <1>2, <1>3, <1>4, <1>5, WorkerStep

\* A step of one worker that goes on with its invitation.
LEMMA ProceedStep ==
  ASSUME RetentionInv, AccountsInv', RequestsLast, RequestFieldsOK', LeaseSound', age' \in Ages,
         UNCHANGED appVars,
         \A r \in Invitations : provState[r] = "provisioned" => provState'[r] = "provisioned",
         NEW w \in Workers, worker[w].step # "idle", NEW row \in WorkerRows,
         worker' = [worker EXCEPT ![w] = row],
         row.req = worker[w].req, row.app = worker[w].app, row.step # "conclude"
  PROVE  RetentionInv'
<1>1. worker[w].req \in Invitations
  BY DEF RetentionInv, WorkersSound, RowSound
<1>2. UNCHANGED <<filing, appStatus, appRequest>>
  BY DEF appVars, filingVars
<1> QED
  BY <1>1, <1>2, WorkerStep

\* The answers of a claim that changes nothing.
LEMMA ClaimAnsweredKeeps ==
  ASSUME RetentionInv, age' \in Ages, NEW w \in Workers, ClaimAnswered(w)
  PROVE  RetentionInv' /\ LeaseKept
<1>0. /\ UNCHANGED <<membershipVars, requestFields, appVars>> /\ worker[w].step = "claim"
  BY DEF ClaimAnswered, Claiming
<1>1. UNCHANGED <<provState, attempt, claims, lease>>
  BY <1>0 DEF requestFields
<1>2. AccountsInv' /\ RequestsLast
  BY <1>0, AccountsUntouched DEF RetentionInv
<1>3. RequestFieldsOK' /\ LeaseSound' /\ LeaseKept
  BY <1>1, <1>2 DEF RetentionInv, RequestFieldsOK, LeaseSound, LeaseKept, RequestsLast, StandsLast
<1>4. PICK r \in Invitations : r = worker[w].req
  BY <1>0 DEF RetentionInv, WorkersSound, RowSound
<1>5. PICK outcome \in {"invited", "cancelled", "retryable"} :
         Conclude(w, outcome) /\ (outcome = "invited" => InvitationMade(r))
  BY <1>4 DEF ClaimAnswered
<1>6. outcome = "invited" => WentOut(r)
  BY <1>4, <1>5 DEF InvitationMade, WentOut, RetentionInv, AccountsInv, RequestsNamed
<1>7. outcome = "invited" => WentOut(r)'
  BY <1>0, <1>1, <1>6 DEF WentOut, membershipVars, requestVars
<1> QED
  BY <1>0, <1>1, <1>2, <1>3, <1>4, <1>5, <1>7, ConcludeStep

\* A claim that closes its invitation.  A running lease would have to be that
\* of an invitation that lost its inviter.
LEMMA ClaimRefusedKeeps ==
  ASSUME RetentionInv, age' \in Ages, NEW w \in Workers, ClaimRefused(w)
  PROVE  RetentionInv' /\ LeaseKept
<1>1. PICK r \in Invitations : r = worker[w].req
  BY DEF ClaimRefused, Claiming, RetentionInv, WorkersSound, RowSound
<1>2. /\ worker[w].step = "claim"
      /\ ~InvitationMade(r) /\ reqStatus[r] = "requested"
      /\ ~InviterValid(r) \/ ~lease[r]
      /\ Close(r, "terminal_failed")
      /\ attempt' = [attempt EXCEPT ![r] = 0]
      /\ Conclude(w, "cancelled")
      /\ UNCHANGED <<claims, appVars>>
  BY <1>1 DEF ClaimRefused, Claiming, Claimable
<1>3. AccountsInv' /\ RequestsLast
  BY <1>2, ClosedKept DEF RetentionInv
<1>4. /\ provState' = [provState EXCEPT ![r] = "terminal_failed"]
      /\ lease' = [lease EXCEPT ![r] = FALSE]
  BY <1>2 DEF Close
<1>5. RequestFieldsOK' /\ LeaseSound'
  BY <1>2, <1>4, <1>3 DEF RetentionInv, RequestFieldsOK, LeaseSound, ProvStates, RequestsLast, StandsLast
<1>6. LeaseKept
  <2>1. removed = {} => ~lease[r]
    BY <1>2 DEF RetentionInv, LeaseSound, Stands
  <2>2. \A x \in Invitations \ {r} : lease'[x] = lease[x]
    BY <1>4 DEF RetentionInv, RequestFieldsOK
  <2> QED
    BY <2>1, <2>2 DEF LeaseKept
<1>7. \A x \in Invitations : provState[x] = "provisioned" => provState'[x] = "provisioned"
  BY <1>2, <1>4 DEF InvitationMade, RetentionInv, RequestFieldsOK
<1> QED
  BY <1>1, <1>2, <1>3, <1>5, <1>6, <1>7, ConcludeStep

LEMMA ClaimKeeps ==
  ASSUME RetentionInv, age' \in Ages, NEW w \in Workers, Claim(w)
  PROVE  RetentionInv' /\ LeaseKept
<1>1. PICK r \in Invitations : r = worker[w].req
  BY DEF Claim, Claiming, RetentionInv, WorkersSound, RowSound
<1>2. /\ worker[w].step = "claim" /\ provState[r] # "provisioned"
      /\ reqStatus[r] = "requested" /\ InviterValid(r)
      /\ provState' = [provState EXCEPT ![r] = "leased"]
      /\ claims' = [claims EXCEPT ![r] = @ + 1]
      /\ attempt' = [attempt EXCEPT ![r] = claims[r] + 1]
      /\ lease' = [lease EXCEPT ![r] = TRUE]
      /\ worker' = [worker EXCEPT ![w] =
                      [worker[w] EXCEPT !.step = "invite", !.attempt = claims[r] + 1]]
      /\ UNCHANGED <<membershipVars, appVars>>
  BY <1>1 DEF Claim, Claiming, Claimable
<1>3. AccountsInv' /\ RequestsLast
  BY <1>2, AccountsUntouched DEF RetentionInv
<1>4. RequestFieldsOK' /\ LeaseSound'
  BY <1>2, <1>3 DEF RetentionInv, RequestFieldsOK, LeaseSound, ProvStates, RequestsLast, StandsLast, Stands
<1>5. LeaseKept
  BY <1>2 DEF RetentionInv, RequestFieldsOK, LeaseKept
<1>6. \A x \in Invitations : provState[x] = "provisioned" => provState'[x] = "provisioned"
  BY <1>2 DEF RetentionInv, RequestFieldsOK
<1>7. PICK n \in Nat : n = claims[r] + 1
  BY DEF RetentionInv, RequestFieldsOK
<1>8. PICK a : a = [worker[w] EXCEPT !.step = "invite"]
  OBVIOUS
<1>9. PICK row : row = [a EXCEPT !.attempt = n]
  OBVIOUS
<1>10. worker[w] \in WorkerRows
  BY DEF RetentionInv, WorkersSound
<1>11. a \in WorkerRows /\ a.step = "invite" /\ a.req = worker[w].req /\ a.app = worker[w].app
  BY <1>8, <1>10 DEF WorkerRows
<1>12. /\ row \in WorkerRows /\ row.step = "invite"
       /\ row.req = worker[w].req /\ row.app = worker[w].app
  BY <1>9, <1>11 DEF WorkerRows
<1>13. worker' = [worker EXCEPT ![w] = row]
  BY <1>2, <1>7, <1>8, <1>9
<1> QED
  BY <1>2, <1>3, <1>4, <1>5, <1>6, <1>12, <1>13, ProceedStep

\* The lease of an attempt runs out.
LEMMA LeaseEndsKeeps ==
  ASSUME RetentionInv, age' \in Ages, NEW r \in Invitations, LeaseEnds(r)
  PROVE  RetentionInv' /\ LeaseKept
<1>1. /\ lease[r] /\ lease' = [lease EXCEPT ![r] = FALSE]
      /\ UNCHANGED <<membershipVars, provState, attempt, claims, worker,
                     filing, appStatus, appRequest>>
  BY DEF LeaseEnds, appVars, filingVars
<1>2. AccountsInv' /\ RequestsLast
  BY <1>1, AccountsUntouched DEF RetentionInv
<1>3. RequestFieldsOK' /\ LeaseSound'
  BY <1>1, <1>2 DEF RetentionInv, RequestFieldsOK, LeaseSound, RequestsLast, StandsLast
<1>4. LeaseKept
  BY <1>1 DEF RetentionInv, RequestFieldsOK, LeaseSound, LeaseKept
<1>5. ASSUME NEW x \in Invitations, WentOut(x) PROVE WentOut(x)'
  BY <1>1, <1>2, <1>5, WentOutLasts
<1>6. \A x \in WorkerRows : RowSound(x) => RowSound(x)'
  BY <1>1, <1>5, RowKept
<1>7. WorkersSound'
  BY <1>1, <1>6, WorkersAfter DEF RetentionInv
<1>8. ApplicationSound'
  BY <1>1, <1>5 DEF RetentionInv, ApplicationSound, InvitedWasInvited, WentOut
<1> QED
  BY <1>2, <1>3, <1>4, <1>7, <1>8 DEF RetentionInv
\* A lease that stays needs nobody to answer for it.
LEMMA LeaseStands ==
  ASSUME lease' = lease
  PROVE  LeaseKept
  BY DEF LeaseKept

\* A worker that reports under the attempt it holds ends its own lease.
LEMMA HolderEnds ==
  ASSUME RequestFieldsOK, NEW w \in Workers, NEW r \in Invitations, r = worker[w].req,
         worker[w].step = "finish", Holds(w), worker'[w].step # "finish",
         lease' = [lease EXCEPT ![r] = FALSE]
  PROVE  LeaseKept
<1>1. \A x \in Invitations \ {r} : lease'[x] = lease[x]
  BY DEF RequestFieldsOK
<1>2. worker[w].attempt = attempt[r]
  BY DEF Holds
<1> QED
  BY <1>1, <1>2 DEF LeaseKept

\* A worker that is done with its invitation is at "finish" no more.
LEMMA ConcludedMoves ==
  ASSUME WorkersSound, NEW w \in Workers, NEW outcome \in {"invited", "cancelled", "retryable"},
         Conclude(w, outcome)
  PROVE  worker'[w].step # "finish"
<1>1. PICK row \in WorkerRows :
         /\ worker' = [worker EXCEPT ![w] = row]
         /\ \/ row.step = "idle" /\ row.app = 0
            \/ /\ row.step = "conclude" /\ row.outcome = outcome
               /\ row.app = worker[w].app /\ row.req = worker[w].req
  BY Concluded
<1>2. worker'[w] = row
  BY <1>1 DEF WorkersSound
<1> QED
  BY <1>1, <1>2

\* A worker at a step that is its only change.
LEMMA Proceeded ==
  ASSUME WorkersSound, NEW w \in Workers, NEW step \in {"compensate", "record"}, Proceed(w, step)
  PROVE  \E row \in WorkerRows :
            /\ worker' = [worker EXCEPT ![w] = row] /\ worker'[w] = row
            /\ row.step = step /\ row.req = worker[w].req /\ row.app = worker[w].app
<1>1. PICK row : row = [worker[w] EXCEPT !.step = step]
  OBVIOUS
<1>2. worker[w] \in WorkerRows
  BY DEF WorkersSound
<1>3. row \in WorkerRows /\ row.step = step /\ row.req = worker[w].req /\ row.app = worker[w].app
  BY <1>1, <1>2 DEF WorkerRows
<1>4. worker' = [worker EXCEPT ![w] = row]
  BY <1>1 DEF Proceed
<1>5. worker'[w] = row
  BY <1>4 DEF WorkersSound
<1> QED
  BY <1>3, <1>4, <1>5

\* The answer of the Auth service.
LEMMA InviteAddressKeeps ==
  ASSUME RetentionInv, age' \in Ages, NEW w \in Workers, InviteAddress(w)
  PROVE  RetentionInv' /\ LeaseKept
<1>1. PICK r \in Invitations : r = worker[w].req
  BY DEF InviteAddress, RetentionInv, WorkersSound, RowSound
<1>2. PICK result \in {"created", "failed", "exists", "invalid"}, made \in BOOLEAN :
        worker' = [worker EXCEPT ![w] =
                     [worker[w] EXCEPT !.step = "finish", !.result = result, !.made = made]]
  BY DEF InviteAddress
<1>3. worker[w].step = "invite" /\ UNCHANGED <<requestFields, appVars>>
  BY DEF InviteAddress
<1>4. SignUp(reqEmail[r]) \/ UNCHANGED membershipVars
  BY <1>1 DEF InviteAddress
<1>5. AccountsInv' /\ RequestsLast
  <2>1. CASE SignUp(reqEmail[r])
    <3>1. PICK e : e = reqEmail[r]
      OBVIOUS
    <3>2. e \in Users
      BY <2>1, <3>1 DEF SignUp, AdmitsAccount, RetentionInv, AccountsInv, RequestsNamed
    <3>3. MemberStep
      BY <2>1, <3>1, <3>2 DEF MemberStep, MembershipNext, Join
    <3> QED
      BY <3>3, MemberInvKept DEF RetentionInv
  <2>2. CASE UNCHANGED membershipVars
    BY <2>2, AccountsUntouched DEF RetentionInv
  <2> QED
    BY <1>4, <2>1, <2>2
<1>6. UNCHANGED <<provState, attempt, claims, lease>>
  BY <1>3 DEF requestFields
<1>7. RequestFieldsOK' /\ LeaseSound' /\ LeaseKept
  BY <1>6, LeaseStands, <1>5 DEF RetentionInv, RequestFieldsOK, LeaseSound, RequestsLast, StandsLast
<1>8. PICK a : a = [worker[w] EXCEPT !.step = "finish"]
  OBVIOUS
<1>9. PICK b : b = [a EXCEPT !.result = result]
  OBVIOUS
<1>10. PICK row : row = [b EXCEPT !.made = made]
  OBVIOUS
<1>11. worker[w] \in WorkerRows
  BY DEF RetentionInv, WorkersSound
<1>12. a \in WorkerRows /\ a.step = "finish" /\ a.req = worker[w].req /\ a.app = worker[w].app
  BY <1>8, <1>11 DEF WorkerRows
<1>13. b \in WorkerRows /\ b.step = "finish" /\ b.req = worker[w].req /\ b.app = worker[w].app
  BY <1>9, <1>12 DEF WorkerRows
<1>14. row \in WorkerRows /\ row.step = "finish" /\ row.req = worker[w].req /\ row.app = worker[w].app
  BY <1>10, <1>13 DEF WorkerRows
<1>15. worker' = [worker EXCEPT ![w] = row]
  BY <1>2, <1>8, <1>9, <1>10
<1> QED
  BY <1>3, <1>5, <1>6, <1>7, <1>14, <1>15, ProceedStep

\* A report under an attempt that is no longer the invitation's.
LEMMA FinishStaleKeeps ==
  ASSUME RetentionInv, age' \in Ages, NEW w \in Workers, FinishStale(w)
  PROVE  RetentionInv' /\ LeaseKept
<1>1. PICK r \in Invitations : r = worker[w].req
  BY DEF FinishStale, RetentionInv, WorkersSound, RowSound
<1>2. PICK outcome \in {"invited", "cancelled", "retryable"} :
         Conclude(w, outcome) /\ outcome # "invited"
  BY DEF FinishStale
<1>3. /\ UNCHANGED <<membershipVars, requestFields, appVars>> /\ worker[w].step = "finish"
  BY DEF FinishStale
<1>4. UNCHANGED <<provState, attempt, claims, lease>>
  BY <1>3 DEF requestFields
<1>5. AccountsInv' /\ RequestsLast
  BY <1>3, AccountsUntouched DEF RetentionInv
<1>6. RequestFieldsOK' /\ LeaseSound' /\ LeaseKept
  BY <1>4, LeaseStands, <1>5 DEF RetentionInv, RequestFieldsOK, LeaseSound, RequestsLast, StandsLast
<1> QED
  BY <1>1, <1>2, <1>3, <1>4, <1>5, <1>6, ConcludeStep

\* A report that is taken: "invited" is said of an invitation that is
\* provisioned by the same step.
LEMMA FinishKeeps ==
  ASSUME RetentionInv, age' \in Ages, NEW w \in Workers, Finish(w)
  PROVE  RetentionInv' /\ LeaseKept
<1>1. PICK r \in Invitations : r = worker[w].req
  BY DEF Finish, RetentionInv, WorkersSound, RowSound
<1>2. PICK state \in {"retryable", "provisioned"} :
        /\ provState' = [provState EXCEPT ![r] = state]
        /\ worker[w].result # "failed" => state = "provisioned"
  BY <1>1 DEF Finish
<1>3. /\ worker[w].step = "finish" /\ Holds(w)
      /\ attempt' = [attempt EXCEPT ![r] = 0]
      /\ lease' = [lease EXCEPT ![r] = FALSE]
      /\ Conclude(w, OutcomeOf(worker[w].result))
      /\ UNCHANGED <<membershipVars, claims, appVars>>
  BY <1>1 DEF Finish
<1>4. PICK outcome \in {"invited", "cancelled", "retryable"} :
         /\ outcome = OutcomeOf(worker[w].result)
         /\ outcome = "invited" => worker[w].result # "failed"
  BY DEF OutcomeOf
<1>5. AccountsInv' /\ RequestsLast
  BY <1>3, AccountsUntouched DEF RetentionInv
<1>6. provState[r] = "leased"
  BY <1>1, <1>3 DEF Holds
<1>7. RequestFieldsOK' /\ LeaseSound'
  BY <1>2, <1>3, <1>5 DEF RetentionInv, RequestFieldsOK, LeaseSound, ProvStates, RequestsLast, StandsLast
<1>8. LeaseKept
  BY <1>1, <1>3, <1>4, ConcludedMoves, HolderEnds DEF RetentionInv
<1>9. \A x \in Invitations : provState[x] = "provisioned" => provState'[x] = "provisioned"
  BY <1>2, <1>6 DEF RetentionInv, RequestFieldsOK
<1>10. outcome = "invited" => WentOut(r)'
  BY <1>2, <1>4 DEF WentOut, RetentionInv, RequestFieldsOK
<1> QED
  BY <1>1, <1>3, <1>4, <1>5, <1>7, <1>8, <1>9, <1>10, ConcludeStep

\* A report on an invitation that closed meanwhile.
LEMMA FinishClosedKeeps ==
  ASSUME RetentionInv, age' \in Ages, NEW w \in Workers, FinishClosed(w)
  PROVE  RetentionInv' /\ LeaseKept
<1>1. PICK r \in Invitations : r = worker[w].req
  BY DEF FinishClosed, RetentionInv, WorkersSound, RowSound
<1>2. PICK state \in {"compensating", "terminal_failed"} : Close(r, state)
  BY <1>1 DEF FinishClosed
<1>3. PICK n \in Nat : attempt' = [attempt EXCEPT ![r] = n]
  BY <1>1 DEF FinishClosed, RetentionInv, RequestFieldsOK
<1>4. /\ worker[w].step = "finish" /\ Holds(w)
      /\ Proceed(w, "compensate") \/ Conclude(w, "cancelled")
      /\ UNCHANGED <<claims, appVars>>
  BY <1>1 DEF FinishClosed
<1>5. AccountsInv' /\ RequestsLast
  BY <1>2, ClosedKept DEF RetentionInv
<1>6. /\ provState' = [provState EXCEPT ![r] = state]
      /\ lease' = [lease EXCEPT ![r] = FALSE]
  BY <1>2 DEF Close
<1>7. RequestFieldsOK' /\ LeaseSound'
  BY <1>3, <1>4, <1>6, <1>5 DEF RetentionInv, RequestFieldsOK, LeaseSound, ProvStates, RequestsLast, StandsLast
<1>8. provState[r] = "leased"
  BY <1>1, <1>4 DEF Holds
<1>9. \A x \in Invitations : provState[x] = "provisioned" => provState'[x] = "provisioned"
  BY <1>6, <1>8 DEF RetentionInv, RequestFieldsOK
<1>10. CASE Conclude(w, "cancelled")
  <2>1. LeaseKept
    BY <1>1, <1>4, <1>6, <1>10, ConcludedMoves, HolderEnds DEF RetentionInv
  <2> QED
    BY <1>1, <1>4, <1>5, <1>7, <1>9, <1>10, <2>1, ConcludeStep
<1>11. CASE Proceed(w, "compensate")
  <2>1. PICK row \in WorkerRows :
            /\ worker' = [worker EXCEPT ![w] = row] /\ worker'[w] = row
            /\ row.step = "compensate" /\ row.req = worker[w].req /\ row.app = worker[w].app
    BY <1>11, Proceeded DEF RetentionInv
  <2>2. LeaseKept
    BY <1>1, <1>4, <1>6, <2>1, HolderEnds DEF RetentionInv
  <2> QED
    BY <1>4, <1>5, <1>7, <1>9, <2>1, <2>2, ProceedStep
<1> QED
  BY <1>4, <1>10, <1>11
\* The account of a closed invitation is deleted.
LEMMA CompensateKeeps ==
  ASSUME RetentionInv, age' \in Ages, NEW w \in Workers, Compensate(w)
  PROVE  RetentionInv' /\ LeaseKept
<1>1. /\ worker[w].step = "compensate" /\ Proceed(w, "record")
      /\ UNCHANGED <<requestFields, appVars>>
      /\ (\E e \in accounts : DeleteAccount(e)) \/ UNCHANGED membershipVars
  BY DEF Compensate
<1>2. AccountsInv' /\ RequestsLast
  <2>1. ASSUME NEW e \in accounts, DeleteAccount(e)
        PROVE  AccountsInv' /\ RequestsLast
    <3>1. e \in Users
      BY DEF RetentionInv, AccountsInv, MembershipInv, MembershipTypeOK
    <3>2. MemberStep
      BY <2>1, <3>1 DEF MemberStep
    <3> QED
      BY <3>2, MemberInvKept DEF RetentionInv
  <2>2. CASE UNCHANGED membershipVars
    BY <2>2, AccountsUntouched DEF RetentionInv
  <2> QED
    BY <1>1, <2>1, <2>2
<1>3. UNCHANGED <<provState, attempt, claims, lease>>
  BY <1>1 DEF requestFields
<1>4. RequestFieldsOK' /\ LeaseSound' /\ LeaseKept
  BY <1>3, LeaseStands, <1>2 DEF RetentionInv, RequestFieldsOK, LeaseSound, RequestsLast, StandsLast
<1>5. PICK row \in WorkerRows :
          /\ worker' = [worker EXCEPT ![w] = row]
          /\ row.step = "record" /\ row.req = worker[w].req /\ row.app = worker[w].app
  BY <1>1, Proceeded DEF RetentionInv
<1> QED
  BY <1>1, <1>2, <1>3, <1>4, <1>5, ProceedStep

\* What was undone is recorded, or the recording answers an error.
LEMMA RecordKeeps ==
  ASSUME RetentionInv, age' \in Ages, NEW w \in Workers, RecordCompensation(w)
  PROVE  RetentionInv' /\ LeaseKept
<1>1. PICK r \in Invitations : r = worker[w].req
  BY DEF RecordCompensation, RetentionInv, WorkersSound, RowSound
<1>2. /\ worker[w].step = "record" /\ Conclude(w, "cancelled")
      /\ UNCHANGED <<membershipVars, claims, lease, appVars>>
  BY DEF RecordCompensation
<1>3. \/ UNCHANGED <<provState, attempt>>
      \/ /\ provState[r] = "compensating"
         /\ provState' = [provState EXCEPT ![r] = "terminal_failed"]
         /\ attempt' = [attempt EXCEPT ![r] = 0]
  <2>1. CASE provState[r] = "compensating" /\ attempt[r] = worker[w].attempt
    BY <1>1, <2>1 DEF RecordCompensation
  <2>2. CASE ~(provState[r] = "compensating" /\ attempt[r] = worker[w].attempt)
    <3>1. \/ /\ provState' = [provState EXCEPT ![r] = provState[r]]
             /\ attempt' = [attempt EXCEPT ![r] = attempt[r]]
          \/ UNCHANGED <<provState, attempt>>
      BY <1>1, <2>2 DEF RecordCompensation
    <3> QED
      BY <3>1 DEF RetentionInv, RequestFieldsOK
  <2> QED
    BY <2>1, <2>2
<1>4. AccountsInv' /\ RequestsLast
  BY <1>2, AccountsUntouched DEF RetentionInv
<1>5. RequestFieldsOK' /\ LeaseSound'
  BY <1>2, <1>3, <1>4 DEF RetentionInv, RequestFieldsOK, LeaseSound, ProvStates, RequestsLast, StandsLast
<1>6. LeaseKept
  BY <1>2, LeaseStands
<1>7. \A x \in Invitations : provState[x] = "provisioned" => provState'[x] = "provisioned"
  BY <1>3 DEF RetentionInv, RequestFieldsOK
<1> QED
  BY <1>1, <1>2, <1>4, <1>5, <1>6, <1>7, ConcludeStep

\* A worker that is let go of.
LEMMA DoneRow == Done \in WorkerRows /\ Done.step = "idle" /\ Done.app = 0
  BY DEF Done, WorkerRows

LEMMA LetGo ==
  ASSUME RetentionInv, age' \in Ages, NEW w \in Workers, worker' = [worker EXCEPT ![w] = Done],
         UNCHANGED <<membershipVars, requestFields, appVars>>
  PROVE  RetentionInv' /\ LeaseKept
<1>1. UNCHANGED <<provState, attempt, claims, lease, filing, appStatus, appRequest>>
  BY DEF requestFields, appVars, filingVars
<1>2. AccountsInv' /\ RequestsLast
  BY AccountsUntouched DEF RetentionInv
<1>3. RequestFieldsOK' /\ LeaseSound' /\ LeaseKept
  BY <1>1, LeaseStands, <1>2 DEF RetentionInv, RequestFieldsOK, LeaseSound, RequestsLast, StandsLast
<1>4. PICK row : row = Done
  OBVIOUS
<1>5. row \in WorkerRows /\ row.step = "idle" /\ row.app = 0
  BY <1>4, DoneRow
<1>6. worker' = [worker EXCEPT ![w] = row]
  BY <1>4
<1> QED
  BY <1>1, <1>2, <1>3, <1>5, <1>6, WorkerStep

\* The application hears of its invitation: of a row that says "invited" the
\* invitation went out.
LEMMA FinishApplicationKeeps ==
  ASSUME RetentionInv, age' \in Ages, NEW w \in Workers, FinishApplication(w)
  PROVE  RetentionInv' /\ LeaseKept
<1>0. /\ worker[w].step = "conclude" /\ worker' = [worker EXCEPT ![w] = Done]
      /\ UNCHANGED <<membershipVars, requestFields, filing, contact, appRequest>>
  BY DEF FinishApplication, filingVars
<1>1. CASE UNCHANGED appStatus
  <2>1. UNCHANGED <<membershipVars, requestFields, appVars>>
    BY <1>0, <1>1 DEF appVars, filingVars
  <2> QED
    BY <1>0, <2>1, LetGo
<1>2. CASE /\ filing = worker[w].app /\ appStatus = "approved" /\ appRequest = worker[w].req
           /\ worker[w].outcome # "retryable" /\ appStatus' = worker[w].outcome
  <2>1. RowSound(worker[w])
    BY DEF RetentionInv, WorkersSound
  <2>2. appStatus' \in {"none", "invited", "cancelled"}
    BY <1>2, <2>1 DEF RowSound, WorkerRows
  <2>3. UNCHANGED <<provState, attempt, claims, lease>>
    BY <1>0 DEF requestFields
  <2>4. AccountsInv' /\ RequestsLast
    BY <1>0, AccountsUntouched DEF RetentionInv
  <2>5. RequestFieldsOK' /\ LeaseSound' /\ LeaseKept
    BY <2>3, LeaseStands, <2>4 DEF RetentionInv, RequestFieldsOK, LeaseSound, RequestsLast, StandsLast
  <2>6. filing \in Nat \ {0} /\ appRequest \in Invitations
    BY <1>2 DEF RetentionInv, ApplicationSound
  <2>7. \A x \in WorkerRows : RowSound(x) => RowSound(x)'
    BY <1>0, <2>2, <2>6, RowDecided
  <2>8. PICK row : row = Done
    OBVIOUS
  <2>9. row \in WorkerRows /\ row.step = "idle" /\ row.app = 0
    BY <2>8, DoneRow
  <2>10. RowSound(row)'
    BY <1>0, <2>6, <2>9 DEF RowSound
  <2>11. WorkersSound'
    BY <1>0, <2>7, <2>8, <2>9, <2>10, WorkersAfter DEF RetentionInv
  <2>12. appStatus' = "invited" => WentOut(appRequest)
    BY <1>0, <1>2, <2>1 DEF RowSound
  <2>13. appStatus' = "invited" => WentOut(appRequest)'
    BY <1>0, <2>3, <2>12 DEF WentOut, membershipVars, requestVars
  <2>14. ApplicationSound'
    BY <1>0, <2>2, <2>6, <2>13 DEF ApplicationSound, InvitedWasInvited, WentOut
  <2> QED
    BY <2>4, <2>5, <2>11, <2>14 DEF RetentionInv
<1> QED
  BY <1>1, <1>2 DEF FinishApplication

\* A worker that stops, or that leaves the invitation to be tried again.
LEMMA StopKeeps ==
  ASSUME RetentionInv, age' \in Ages, NEW w \in Workers, Stop(w)
  PROVE  RetentionInv' /\ LeaseKept
<1>0. worker[w].step # "idle" /\ UNCHANGED <<membershipVars, requestFields, appVars>>
  BY DEF Stop
<1>1. CASE worker' = [worker EXCEPT ![w] = Done]
  BY <1>0, <1>1, LetGo
<1>2. CASE Conclude(w, "retryable")
  <2>1. PICK r \in Invitations : r = worker[w].req
    BY <1>0 DEF RetentionInv, WorkersSound, RowSound
  <2>2. UNCHANGED <<provState, attempt, claims, lease>>
    BY <1>0 DEF requestFields
  <2>3. AccountsInv' /\ RequestsLast
    BY <1>0, AccountsUntouched DEF RetentionInv
  <2>4. RequestFieldsOK' /\ LeaseSound' /\ LeaseKept
    BY <2>2, LeaseStands, <2>3 DEF RetentionInv, RequestFieldsOK, LeaseSound, RequestsLast, StandsLast
  <2> QED
    BY <1>0, <1>2, <2>1, <2>2, <2>3, <2>4, ConcludeStep
<1> QED
  BY <1>1, <1>2 DEF Stop

\* Every step of Provisioning, whatever it does to the age.
LEMMA ProvisioningKeeps ==
  ASSUME RetentionInv, age' \in Ages, ProvisioningNext
  PROVE  RetentionInv' /\ LeaseKept
<1>1. ASSUME NEW w \in Workers, Work(w)
      PROVE  RetentionInv' /\ LeaseKept
  BY <1>1, ClaimAnsweredKeeps, ClaimRefusedKeeps, ClaimKeeps, InviteAddressKeeps,
     FinishStaleKeeps, FinishKeeps, FinishClosedKeeps, CompensateKeeps, RecordKeeps,
     FinishApplicationKeeps, StopKeeps DEF Work
<1>2. ASSUME NEW a \in Users, Administer(a)
      PROVE  RetentionInv' /\ LeaseKept
  BY <1>2, ManageKeeps, InviteKeeps, DecideKeeps DEF Administer
<1>3. ASSUME NEW r \in Invitations, LeaseEnds(r)
      PROVE  RetentionInv' /\ LeaseKept
  BY <1>3, LeaseEndsKeeps
<1>4. ASSUME (\E u \in Users : Join(u)) \/ Connect \/ (\E r \in Invitations : Expire(r)),
             UNCHANGED <<requestFields, worker, appVars>>
      PROVE  RetentionInv' /\ LeaseKept
  <2>1. MemberStep
    BY <1>4 DEF MemberStep, MembershipNext
  <2> QED
    BY <1>4, <2>1, MemberInvKept, AccountsStep DEF RetentionInv
<1> QED
  BY <1>1, <1>2, <1>3, <1>4 DEF ProvisioningNext

\* The address is filed again: nothing that was decided is decided anew, and a
\* worker of the earlier application reports to nobody.
LEMMA FileKeeps ==
  ASSUME RetentionInv, File
  PROVE  RetentionInv' /\ LeaseKept
<1>0. /\ filing \in Nat \ {0} /\ age \in Ages
      /\ UNCHANGED <<membershipVars, requestFields, worker>>
  BY DEF RetentionInv, ApplicationSound, File
<1>1. AccountsInv' /\ RequestsLast
  BY <1>0, AccountsUntouched DEF RetentionInv
<1>2. CASE contact
  <2>1. UNCHANGED appVars /\ age' \in Ages
    BY <1>0, <1>2 DEF File, appVars, filingVars
  <2> QED
    BY <1>0, <1>1, <2>1, AccountsStep
<1>3. CASE ~contact
  <2>1. /\ filing' = filing + 1 /\ appStatus' = "pending" /\ appRequest' = Nobody
        /\ age' \in Ages
    BY <1>3 DEF File, Ages
  <2> QED
    BY <1>0, <1>1, <2>1, ApplicationStep
<1> QED
  BY <1>2, <1>3
\* What the purge does to the requests.
LEMMA PurgeEffect ==
  ASSUME RetentionInv, RequestsLast, Purge
  PROVE  /\ RequestFieldsOK' /\ LeaseSound' /\ LeaseKept
         /\ UNCHANGED <<clock, reqUser, worker, filing>>
         /\ \A r \in Lapsing : reqStatus'[r] = "cancelled" /\ clock[r] # "live"
         /\ \A r \in Invitations \ Closing : provState'[r] = provState[r] /\ lease'[r] = lease[r]
<1>0. /\ provState \in [Invitations -> ProvStates] /\ attempt \in [Invitations -> Nat]
      /\ claims \in [Invitations -> Nat] /\ lease \in [Invitations -> BOOLEAN] /\ LeaseSound
  BY DEF RetentionInv, RequestFieldsOK
<1>1. /\ reqStatus' = [r \in Invitations |-> IF r \in Closing THEN "cancelled" ELSE reqStatus[r]]
      /\ provState' = [r \in Invitations |->
                        IF r \in Closing /\ FenceGoes(r) THEN "terminal_failed" ELSE provState[r]]
      /\ attempt' = [r \in Invitations |-> IF r \in Closing /\ FenceGoes(r) THEN 0 ELSE attempt[r]]
      /\ lease' = [r \in Invitations |-> lease[r] /\ ~(r \in Closing /\ FenceGoes(r))]
      /\ UNCHANGED <<clock, reqUser, claims, worker, filing>>
  BY DEF Purge
<1>2. Lapsing \subseteq Closing /\ Lapsing \subseteq Invitations
  BY DEF Closing, Lapsing
<1>3. \A r \in Lapsing : reqStatus'[r] = "cancelled" /\ clock[r] # "live"
  BY <1>1, <1>2 DEF Lapsing, LiveNow
<1>4. \A r \in Invitations \ Closing : provState'[r] = provState[r]
  BY <1>1
<1>5. \A r \in Invitations : lease'[r] = (lease[r] /\ ~(r \in Closing /\ FenceGoes(r)))
  BY <1>1
<1>6. \A r \in Invitations : lease[r] => ~FenceGoes(r)
  BY <1>0 DEF LeaseSound, FenceGoes, Leased
<1>7. \A r \in Invitations : lease[r] \in BOOLEAN
  BY <1>0
<1>8. \A r \in Invitations : lease'[r] = lease[r]
  BY <1>5, <1>6, <1>7, Zenon
<1>9. LeaseKept
  BY <1>8 DEF LeaseKept
<1>10. lease' \in [Invitations -> BOOLEAN]
  BY <1>1, Zenon
<1>11. provState' \in [Invitations -> ProvStates] /\ attempt' \in [Invitations -> Nat]
  BY <1>0, <1>1 DEF ProvStates
<1>12. RequestFieldsOK'
  BY <1>0, <1>1, <1>10, <1>11 DEF RequestFieldsOK
<1>13. \A r \in Invitations : lease[r] => provState'[r] = provState[r]
  BY <1>1, <1>6
<1>14. LeaseSound'
  BY <1>0, <1>8, <1>13 DEF LeaseSound, RequestsLast, StandsLast
<1> QED
  BY <1>1, <1>3, <1>4, <1>8, <1>9, <1>12, <1>14

\* The purge, of the requests and of the application that asked for one of
\* them: what it closes of an invitation that went out had expired, or the
\* application has lost its address.
LEMMA PurgeKeeps ==
  ASSUME RetentionInv, Purge
  PROVE  RetentionInv' /\ LeaseKept /\ AddressKept
<1>0. /\ filing \in Nat \ {0} /\ age \in Ages /\ appRequest \in Invitations \cup {Nobody}
      /\ appStatus = "pending" => appRequest = Nobody
      /\ appStatus = "approved" => appRequest \in Invitations
  BY DEF RetentionInv, ApplicationSound
<1>1. AccountsInv' /\ RequestsLast
  BY <1>0, PurgeKept DEF RetentionInv
<1>2. /\ RequestFieldsOK' /\ LeaseSound' /\ LeaseKept
      /\ UNCHANGED <<clock, reqUser, worker, filing>>
      /\ \A r \in Lapsing : reqStatus'[r] = "cancelled" /\ clock[r] # "live"
      /\ \A r \in Invitations \ Closing : provState'[r] = provState[r] /\ lease'[r] = lease[r]
  BY <1>1, PurgeEffect
<1>3. /\ appStatus' = StatusAfterPurge
      /\ contact' = (contact /\ ~Forgets)
      /\ appRequest' = IF Forgets THEN Nobody ELSE appRequest
      /\ age' = IF Forgets THEN "new" ELSE age
  BY DEF Purge
<1>4. /\ StaleApproval => StatusAfterPurge = "cancelled"
      /\ StatusAfterPurge \in {"pending", "approved"} =>
           StatusAfterPurge = appStatus /\ ~StaleApproval
      /\ StatusAfterPurge = "pending" => age # "over"
  BY DEF StatusAfterPurge, StaleApproval
<1>5. Forgets <=> appStatus' \notin {"pending", "approved"}
  BY <1>3 DEF Forgets
<1>6. appStatus' = "approved" => Closing = Lapsing /\ appRequest' = appRequest /\ appStatus = "approved"
  BY <1>3, <1>4, <1>5 DEF Closing
<1>7. ASSUME NEW r \in Invitations, appStatus' = "approved", WentOut(r)
      PROVE  WentOut(r)'
  <2>1. CASE r \in Lapsing
    BY <1>2, <2>1 DEF WentOut
  <2>2. CASE r \notin Lapsing
    BY <1>1, <1>2, <1>6, <1>7, <2>2, WentOutLasts
  <2> QED
    BY <2>1, <2>2
<1>8. \A row \in WorkerRows : RowSound(row) => RowSound(row)'
  <2> SUFFICES ASSUME NEW row \in WorkerRows, RowSound(row) PROVE RowSound(row)'
    OBVIOUS
  <2>1. appStatus' = "pending" => row.app # filing'
    BY <1>2, <1>3, <1>4 DEF RowSound
  <2>2. row.step = "conclude" => row.req \in Invitations
    BY DEF RowSound
  <2>3. row.step = "conclude" /\ row.outcome = "invited" /\ row.app = filing'
          /\ appStatus' = "approved" /\ appRequest' = row.req => WentOut(row.req)'
    BY <1>2, <1>6, <1>7, <2>2 DEF RowSound
  <2> QED
    BY <1>2, <2>1, <2>3 DEF RowSound
<1>9. WorkersSound'
  BY <1>2, <1>8, WorkersAfter DEF RetentionInv
<1>10. ApplicationSound'
  <2>1. age' \in Ages /\ filing' \in Nat \ {0} /\ appRequest' \in Invitations \cup {Nobody}
    BY <1>0, <1>2, <1>3 DEF Ages
  <2>2. appStatus' = "invited" => appRequest' = Nobody
    BY <1>3, <1>5
  <2>3. /\ appStatus' = "pending" => appRequest' = Nobody
        /\ appStatus' = "approved" => appRequest' \in Invitations
    BY <1>0, <1>3, <1>4, <1>5
  <2> QED
    BY <2>1, <2>2, <2>3 DEF ApplicationSound, InvitedWasInvited
<1>11. AddressKept
  <2> SUFFICES ASSUME contact' PROVE \/ appStatus' = "pending" /\ age # "over"
                                     \/ /\ appStatus' = "approved"
                                        /\ age = "new" \/ (age = "late" /\ lease'[appRequest'])
    BY DEF AddressKept
  <2>1. ~Forgets
    BY <1>3
  <2>2. CASE appStatus' = "pending"
    BY <1>3, <1>4, <2>2
  <2>3. CASE appStatus' = "approved"
    <3>1. ~StaleApproval /\ appStatus = "approved"
      BY <1>3, <1>4, <2>3
    <3>2. age # "over" /\ (age = "late" => appRequest \notin Lapsing /\ Leased(appRequest))
      BY <3>1 DEF StaleApproval
    <3>3. age = "late" => lease'[appRequest'] = lease[appRequest] /\ lease[appRequest]
      BY <1>0, <1>2, <1>6, <2>3, <3>1, <3>2 DEF Leased
    <3> QED
      BY <1>0, <2>3, <3>2, <3>3 DEF Ages
  <2> QED
    BY <1>5, <2>1, <2>2, <2>3
<1> QED
  BY <1>1, <1>2, <1>9, <1>10, <1>11 DEF RetentionInv

\* Every step keeps the invariant, and what it says of leases.
LEMMA RetentionStep ==
  RetentionInv /\ [RetentionNext]_retentionVars => RetentionInv' /\ LeaseKept
<1> SUFFICES ASSUME RetentionInv, [RetentionNext]_retentionVars
             PROVE  RetentionInv' /\ LeaseKept
  OBVIOUS
<1>0. age \in Ages /\ AccountsInv
  BY DEF RetentionInv, ApplicationSound
<1>1. CASE Provision
  <2>1. age' \in Ages
    BY <1>0, <1>1 DEF Provision, AgeOfDecision, Ages
  <2> QED
    BY <1>1, <2>1, ProvisioningKeeps DEF Provision
<1>2. CASE File
  BY <1>2, FileKeeps
<1>3. CASE NewDay \/ GrowOlder \/ UNCHANGED retentionVars
  <2>1. UNCHANGED provisioningVars /\ age' \in Ages
    BY <1>0, <1>3 DEF NewDay, GrowOlder, retentionVars, Ages
  <2>2. UNCHANGED <<membershipVars, requestFields, worker, appVars>>
    BY <2>1 DEF provisioningVars
  <2>3. AccountsInv' /\ RequestsLast
    BY <1>0, <2>2, AccountsUntouched
  <2> QED
    BY <2>1, <2>2, <2>3, AccountsStep
<1>4. CASE Purge
  BY <1>4, PurgeKeeps
<1> QED
  BY <1>1, <1>2, <1>3, <1>4 DEF RetentionNext, Retain

\* The first application is pending, no worker is under way.
LEMMA RetentionInvInit == RetentionInit => RetentionInv
<1> SUFFICES ASSUME RetentionInit PROVE RetentionInv
  OBVIOUS
<1>1. MembershipInit
  BY DEF RetentionInit, ProvisioningInit
<1>2. AccountsInv
  <2>1. RequestsNamed
    BY <1>1 DEF MembershipInit, RequestsNamed
  <2> QED
    BY <1>1, <2>1, InitInv DEF AccountsInv
<1>3. RequestFieldsOK /\ LeaseSound
  BY DEF RetentionInit, ProvisioningInit, RequestFieldsOK, LeaseSound, ProvStates
<1>4. ApplicationSound
  BY DEF RetentionInit, ProvisioningInit, ApplicationSound, InvitedWasInvited, Ages
<1>5. WorkersSound
  <2>1. ASSUME NEW row, row \in WorkerRows, row.step = "idle", row.app = 0
        PROVE  RowSound(row)
    BY <2>1, <1>4 DEF RowSound, ApplicationSound
  <2>2. \A w \in Workers : worker[w] = Done
    BY DEF RetentionInit, ProvisioningInit
  <2>3. worker \in [Workers -> WorkerRows]
    BY DoneRow DEF RetentionInit, ProvisioningInit
  <2> QED
    BY <2>1, <2>2, <2>3, DoneRow DEF WorkersSound
<1> QED
  BY <1>2, <1>3, <1>4, <1>5 DEF RetentionInv

(* The inductive invariant of the accounts with their workers, applications *)
(* and purges (migrations 0022, 0023, 0027 and 0028).                       *)
THEOREM RetentionInvHolds == RetentionSpec => []RetentionInv
<1>1. RetentionInit => RetentionInv
  BY RetentionInvInit
<1>2. RetentionInv /\ [RetentionNext]_retentionVars => RetentionInv'
  BY RetentionStep
<1> QED
  BY <1>1, <1>2, PTL DEF RetentionSpec

(* What is proved of the accounts alone holds with workers that create and  *)
(* delete accounts and purges that close requests: the seat count is exact, *)
(* nothing that counts goes without a seat, revoked members have no way in, *)
(* and while no account of a member is deleted an owner remains.            *)
THEOREM AccountsStaySound ==
  RetentionSpec => [](LedgerExact /\ SeatsFollow /\ AccessFollowsMembership /\ OwnerRemains)
<1>1. RetentionInv => LedgerExact /\ SeatsFollow /\ AccessFollowsMembership /\ OwnerRemains
  BY DEF RetentionInv, AccountsInv, MembershipInv
<1> QED
  BY <1>1, RetentionInvHolds, PTL

(* An application is called invited only of an invitation that went out or  *)
(* was accepted, or has expired since (0023:600-656, provisioning.mjs),     *)
(* however many workers report late, twice or for an earlier application.   *)
THEOREM InvitedWentOut == RetentionSpec => []InvitedWasInvited
<1>1. RetentionInv => InvitedWasInvited
  BY DEF RetentionInv, ApplicationSound
<1> QED
  BY <1>1, RetentionInvHolds, PTL

(* While no account of a member is deleted, the lease of an attempt ends by *)
(* its time or by its own worker (0028:213-238, 279-305).                   *)
THEOREM LeasesEndByWorker == RetentionSpec => LeaseIsItsWorkers
<1>1. RetentionInit => RetentionInv
  BY RetentionInvInit
<1>2. RetentionInv /\ [RetentionNext]_retentionVars => RetentionInv'
  BY RetentionStep
<1>3. RetentionInv /\ [RetentionNext]_retentionVars
        => [\A r \in Invitations : removed = {} /\ lease[r] /\ ~lease'[r]
              => \/ provState'[r] = "leased"
                 \/ \E w \in Workers : /\ worker[w].req = r /\ worker[w].step = "finish"
                                       /\ worker[w].attempt = attempt[r]
                                       /\ worker'[w].step # "finish"]_retentionVars
  BY RetentionStep DEF LeaseKept
<1> QED
  BY <1>1, <1>2, <1>3, PTL DEF RetentionSpec, LeaseIsItsWorkers

(* After a purge the address is kept only by an application that waits for  *)
(* its decision or for the worker that holds its invitation (0028:252-347). *)
THEOREM PurgeForgets == RetentionSpec => AddressIsForgotten
<1>1. RetentionInit => RetentionInv
  BY RetentionInvInit
<1>2. RetentionInv /\ [RetentionNext]_retentionVars => RetentionInv'
  BY RetentionStep
<1>3. RetentionInv /\ [RetentionNext]_retentionVars
        => [Purge => (contact' => \/ appStatus' = "pending" /\ age # "over"
                                  \/ /\ appStatus' = "approved"
                                     /\ age = "new" \/ (age = "late" /\ lease'[appRequest']))]_retentionVars
  BY PurgeKeeps DEF AddressKept
<1> QED
  BY <1>1, <1>2, <1>3, PTL DEF RetentionSpec, AddressIsForgotten
=============================================================================
