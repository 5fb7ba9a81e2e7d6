----------------------------- MODULE Membership -----------------------------
(***************************************************************************)
(* The accounts of the one organization in the cloud: invitations, seats,  *)
(* memberships, devices and the sessions bound to them (migrations 0015,   *)
(* 0016, 0021, 0026, 0027 and 0030).  Every function that changes a        *)
(* membership locks the organization's row first, so it is one action      *)
(* here.  What it does not wait for is time: now() is the start of the     *)
(* transaction and statement_timestamp() the arrival of the call, and both *)
(* stand still while the call waits for the lock.  A call therefore has a  *)
(* lag, and may take for live an invitation that a later call, which has   *)
(* already run, took for expired.                                          *)
(***************************************************************************)
EXTENDS Integers, FiniteSets

CONSTANTS Users,          \* e-mail addresses, each with at most one account
          Founder,        \* the first owner
          Invitations,    \* identifiers of member_invitation_requests
          Devices, FounderDevice,
          Sessions, FounderSession,
          MaxSeats,       \* 100 in the migration
          MaxPending,     \* pending devices of an active member: 5
          Nobody          \* SQL null

ASSUME MembershipAssumption ==
    /\ Founder \in Users /\ Nobody \notin Users \cup Invitations
    /\ FounderDevice \in Devices /\ FounderSession \in Sessions
    /\ MaxSeats \in Nat \ {0} /\ MaxPending \in Nat
    /\ IsFiniteSet(Users) /\ IsFiniteSet(Invitations)
    /\ Users \cap Invitations = {}

VARIABLES accounts,                        \* auth.users
          memStatus, memRole, memVia,      \* memberships
          reqStatus, reqEmail, reqRole, reqBy, reqUser,  \* invitation requests
          clock,                           \* where expires_at stands to the clock
          seat, used,                      \* seat reservations and their count
          devStatus, devUser, devVia,      \* devices
          sessStatus, sessDevice,          \* device_sessions
          boundAs,                         \* the managing roles in which a user
                                           \* has had a session, as history
          removed                          \* members whose account was deleted

memberVars  == <<accounts, memStatus, memRole, memVia, removed>>
requestVars == <<reqStatus, reqEmail, reqRole, reqBy, reqUser>>
seatVars    == <<seat, used>>
deviceVars  == <<devStatus, devUser, devVia>>
sessionVars == <<sessStatus, sessDevice, boundAs>>
membershipVars == <<memberVars, requestVars, clock, seatVars, deviceVars, sessionVars>>

Managers == {"owner", "admin"}
Roles == Managers \cup {"member"}
Lags  == {"none", "transaction", "statement"}
Keys  == Users \cup Invitations        \* 'member:' and 'invitation:' keys

(* A lag changes what a call sees only while one of these is the case.      *)
CallLags ==
    IF (\E r \in Invitations : clock[r] = "closing")
       \/ (\E s \in Sessions : sessStatus[s] = "revoked")
    THEN Lags ELSE {"none"}
-----------------------------------------------------------------------------
(* expires_at > now() and expires_at > statement_timestamp(), as the call   *)
(* sees them.  While an invitation is "closing" calls that are older than   *)
(* its expiry may still be waiting for the lock.                            *)
LiveAtStart(r, lag) == clock[r] = "live" \/ (clock[r] = "closing" /\ lag # "none")
LiveNow(r, lag)     == clock[r] = "live" \/ (clock[r] = "closing" /\ lag = "statement")

(* The seat ledger of a transaction; full is the exception that rolls the   *)
(* transaction back.                                                        *)
Ledger == [seat |-> seat, used |-> used, full |-> FALSE]

Swept(L, lag) ==
    {k \in Invitations : L.seat[k] = "until" /\ ~LiveNow(k, lag)}

AtLeastZero(n) == IF n < 0 THEN 0 ELSE n

Sweep(L, lag) ==
    [seat |-> [k \in Keys |-> IF k \in Swept(L, lag) THEN "free" ELSE L.seat[k]],
     used |-> AtLeastZero(L.used - Cardinality(Swept(L, lag))),
     full |-> L.full]

Take(L, k, kind) ==
    IF L.used < MaxSeats
    THEN [seat |-> [L.seat EXCEPT ![k] = kind], used |-> L.used + 1, full |-> L.full]
    ELSE [seat |-> L.seat, used |-> L.used, full |-> TRUE]

(* A fixed reservation never becomes an expiring one again. *)
Refresh(L, k, kind) ==
    [seat |-> [L.seat EXCEPT ![k] = IF L.seat[k] = "fixed" THEN "fixed" ELSE kind],
     used |-> L.used, full |-> L.full]

Reserve(L, k, kind, lag) ==
    LET S == Sweep(L, lag)
    IN  IF S.seat[k] = "free" THEN Take(S, k, kind) ELSE Refresh(S, k, kind)

(* Mutant: the count goes down whether or not a row was deleted. *)
ReleaseAnyway(L, k) ==
    [seat |-> [L.seat EXCEPT ![k] = "free"],
     used |-> AtLeastZero(L.used - 1), full |-> L.full]

Release(L, k) ==
    IF L.seat[k] = "free" THEN L
    ELSE [seat |-> [L.seat EXCEPT ![k] = "free"],
          used |-> AtLeastZero(L.used - 1), full |-> L.full]

(* memberships_capacity_guard, for a membership of u that was old and is    *)
(* new, while the requests have the statuses rs.                            *)
SeatKey(u, via) == IF via = Nobody THEN u ELSE via

Counted(m, lag) ==
    m.status = "active" \/ (m.status = "invited" /\ LiveNow(m.via, lag))

Vacate(L, u, old, rs, lag) ==
    IF old.via # Nobody /\ rs[old.via] = "requested" /\ LiveNow(old.via, lag)
    THEN Reserve(L, old.via, "until", lag)
    ELSE Release(L, SeatKey(u, old.via))

(* Mutant: a membership that ends keeps its seat. *)
OnMembershipKept(L, u, old, new, rs, lag) ==
    IF ~Counted(new, lag) THEN L
    ELSE Reserve(L, SeatKey(u, new.via),
                 IF new.status = "active" THEN "fixed" ELSE "until", lag)

OnMembership(L, u, old, new, rs, lag) ==
    LET moved == Counted(old, lag) /\
                 (~Counted(new, lag) \/ SeatKey(u, old.via) # SeatKey(u, new.via))
        M == IF moved THEN Vacate(L, u, old, rs, lag) ELSE L
    IN  IF ~Counted(new, lag) THEN M
        ELSE Reserve(M, SeatKey(u, new.via),
                     IF new.status = "active" THEN "fixed" ELSE "until", lag)

(* member_invitation_capacity_guard, when request r stops being requested   *)
(* and the memberships are ms.                                              *)
(* Mutant: a closed request releases its seat whoever sits on it. *)
OnRequestClosedFree(L, r, ms, via, lag) == Release(L, r)

OnRequestClosed(L, r, ms, via, lag) ==
    LET holds(status) == \E u \in Users : via[u] = r /\ ms[u] = status
    IN  IF holds("active") THEN Reserve(L, r, "fixed", lag)
        ELSE IF holds("invited") /\ LiveNow(r, lag) THEN Reserve(L, r, "until", lag)
        ELSE Release(L, r)

Apply(L) == ~L.full /\ seat' = L.seat /\ used' = L.used

Membership(u) == [status |-> memStatus[u], via |-> memVia[u]]
AsMember(status, via) == [status |-> status, via |-> via]
-----------------------------------------------------------------------------
(* bootstrap_mvp_first_owner and the trigger on its membership. *)
MembershipInit ==
    /\ accounts = {Founder}
    /\ memStatus = [u \in Users |-> IF u = Founder THEN "active" ELSE "none"]
    /\ memRole = [u \in Users |-> IF u = Founder THEN "owner" ELSE "member"]
    /\ memVia = [u \in Users |-> Nobody]
    /\ removed = {}
    /\ reqStatus = [r \in Invitations |-> "none"]
    /\ reqEmail = [r \in Invitations |-> Nobody]
    /\ reqRole = [r \in Invitations |-> "member"]
    /\ reqBy = [r \in Invitations |-> Nobody]
    /\ reqUser = [r \in Invitations |-> Nobody]
    /\ clock = [r \in Invitations |-> "live"]
    /\ seat = [k \in Keys |-> IF k = Founder THEN "fixed" ELSE "free"]
    /\ used = 1
    /\ devStatus = [d \in Devices |-> IF d = FounderDevice THEN "active" ELSE "none"]
    /\ devUser = [d \in Devices |-> IF d = FounderDevice THEN Founder ELSE Nobody]
    /\ devVia = [d \in Devices |-> Nobody]
    /\ sessStatus = [s \in Sessions |-> IF s = FounderSession THEN "active" ELSE "unbound"]
    /\ sessDevice = [s \in Sessions |-> IF s = FounderSession THEN FounderDevice ELSE Nobody]
    /\ boundAs = [u \in Users |-> IF u = Founder THEN {"owner"} ELSE {}]

(* Before it waits, a call is checked for a managing role and a live        *)
(* session; both may be gone when it goes on.                               *)
Admitted(a, lag) ==
    \/ lag = "statement" /\ boundAs[a] # {}
    \/ /\ memStatus[a] = "active" /\ memRole[a] \in Managers
       /\ \E s \in Sessions : /\ sessDevice[s] # Nobody /\ sessStatus[s] = "active"
                              /\ devUser[sessDevice[s]] = a

(* The role is read again under the lock.  That of a caller who is no       *)
(* active member any more is null, and no test of a null raises.            *)
ActiveAs(a, roles) == memStatus[a] = "active" => memRole[a] \in roles

Manages(a, lag) == Admitted(a, lag) /\ ActiveAs(a, Managers)

(* Only an owner may act on an owner. *)
Outranks(a, role) == role = "owner" => ActiveAs(a, {"owner"})

(* Where the check before the wait asks for an owner as well.               *)
MayActOn(a, role, lag) ==
    /\ Manages(a, lag) /\ Outranks(a, role)
    /\ role = "owner" => "owner" \in boundAs[a]

InviterValid(r) ==
    /\ reqBy[r] # Nobody
    /\ memStatus[reqBy[r]] = "active" /\ memRole[reqBy[r]] \in Managers
    /\ Outranks(reqBy[r], reqRole[r])

Belongs(u, lag) ==
    memStatus[u] = "active" \/ (memStatus[u] = "invited" /\ LiveAtStart(memVia[u], lag))

(* Devices whose status a step sets to revoked, with the trigger that       *)
(* revokes the sessions bound to them, or all those of member m.            *)
(* Mutant: without the trigger on devices. *)
RevokeDevicesOnly(D, m) ==
    /\ devStatus' = [d \in Devices |-> IF d \in D THEN "revoked" ELSE devStatus[d]]
    /\ UNCHANGED <<devUser, devVia, sessionVars>>

RevokeDevices(D, m) ==
    /\ devStatus' = [d \in Devices |-> IF d \in D THEN "revoked" ELSE devStatus[d]]
    /\ sessStatus' = [s \in Sessions |->
           IF /\ sessStatus[s] = "active"
              /\ sessDevice[s] \in D \/ devUser[sessDevice[s]] = m
           THEN "revoked" ELSE sessStatus[s]]
    /\ UNCHANGED <<devUser, devVia, sessDevice, boundAs>>

PendingOf(u) == {d \in Devices : devUser[d] = u /\ devStatus[d] = "pending"}
-----------------------------------------------------------------------------
(* begin_member_invitation, for the address e.  Requests of e that have     *)
(* expired are cancelled by every call.                                     *)
Lapsed(e, lag) ==
    {r \in Invitations : /\ reqStatus[r] = "requested" /\ reqEmail[r] = e
                         /\ ~LiveAtStart(r, lag)}

LedgerAfterLapse(e, lag) ==
    IF Lapsed(e, lag) = {} THEN Ledger
    ELSE OnRequestClosed(Ledger, CHOOSE r \in Lapsed(e, lag) : TRUE,
                         memStatus, memVia, lag)

(* A request of this address is under way: the caller gets its identifier. *)
Requested(e, r, lag) ==
    reqStatus[r] = "requested" /\ reqEmail[r] = e /\ LiveAtStart(r, lag)

(* The address already belongs to the organization: the identifier that is  *)
(* returned names no request, whatever role was asked for.  Without a       *)
(* lapsed request the answer changes nothing.                               *)
BeginForMember(a, e, lag) ==
    /\ MayActOn(a, "member", lag)
    /\ \A r \in Invitations : ~Requested(e, r, lag)
    /\ e \in accounts /\ Belongs(e, lag)
    /\ reqStatus' = [r \in Invitations |->
                        IF r \in Lapsed(e, lag) THEN "cancelled" ELSE reqStatus[r]]
    /\ Apply(LedgerAfterLapse(e, lag))
    /\ UNCHANGED <<memberVars, reqEmail, reqRole, reqBy, reqUser, clock,
                   deviceVars, sessionVars>>

Begin(a, e, role, r, lag) ==
    /\ a \in accounts /\ MayActOn(a, role, lag)
    /\ \A x \in Invitations : ~Requested(e, x, lag)
    /\ ~(e \in accounts /\ Belongs(e, lag))
    /\ reqStatus[r] = "none" /\ clock[r] = "live"
    /\ reqStatus' = [x \in Invitations |-> IF x = r THEN "requested"
                        ELSE IF x \in Lapsed(e, lag) THEN "cancelled" ELSE reqStatus[x]]
    /\ reqEmail' = [reqEmail EXCEPT ![r] = e]
    /\ reqRole' = [reqRole EXCEPT ![r] = role]
    /\ reqBy' = [reqBy EXCEPT ![r] = a]
    /\ Apply(Reserve(LedgerAfterLapse(e, lag), r, "until", lag))
    /\ UNCHANGED <<memberVars, reqUser, clock, deviceVars, sessionVars>>

(* An account is created for an address with a live request whose inviter   *)
(* may still invite: hook_v9_before_user_created.                           *)
AdmitsAccount(e) ==
    /\ e \notin accounts
    /\ \E r \in Invitations : /\ reqStatus[r] = "requested" /\ reqEmail[r] = e
                              /\ LiveNow(r, "none") /\ InviterValid(r)

SignUp(e) ==
    /\ AdmitsAccount(e)
    /\ accounts' = accounts \cup {e}
    /\ UNCHANGED <<memStatus, memRole, memVia, removed, requestVars, clock,
                   seatVars, deviceVars, sessionVars>>

(* accept_member_invitation, for the one request of the caller's address.   *)
Acceptable(u, r, lag) ==
    /\ u \in accounts
    /\ reqStatus[r] = "requested" /\ reqEmail[r] = u /\ LiveAtStart(r, lag)

AcceptRefused(u, r, lag) ==
    /\ Acceptable(u, r, lag)
    /\ ~InviterValid(r) \/ Belongs(u, lag)
    /\ reqStatus' = [reqStatus EXCEPT ![r] = "cancelled"]
    /\ Apply(OnRequestClosed(Ledger, r, memStatus, memVia, lag))
    /\ UNCHANGED <<memberVars, reqEmail, reqRole, reqBy, reqUser, clock,
                   deviceVars, sessionVars>>

Accept(u, r, lag) ==
    /\ Acceptable(u, r, lag) /\ InviterValid(r) /\ ~Belongs(u, lag)
    /\ memStatus' = [memStatus EXCEPT ![u] = "invited"]
    /\ memRole' = [memRole EXCEPT ![u] = reqRole[r]]
    /\ memVia' = [memVia EXCEPT ![u] = r]
    /\ reqStatus' = [reqStatus EXCEPT ![r] = "finalized"]
    /\ reqUser' = [reqUser EXCEPT ![r] = u]
    /\ Apply(OnRequestClosed(
           OnMembership(Ledger, u, Membership(u), AsMember("invited", r), reqStatus, lag),
           r, memStatus', memVia', lag))
    /\ RevokeDevices(PendingOf(u), Nobody)
    /\ UNCHANGED <<accounts, removed, reqEmail, reqRole, reqBy, clock>>

(* cancel_member_invitation, of a request nobody has accepted.              *)
CancelRequested(a, r, lag) ==
    /\ Manages(a, lag) /\ Outranks(a, reqRole[r])
    /\ reqStatus[r] = "requested"
    /\ reqStatus' = [reqStatus EXCEPT ![r] = "cancelled"]
    /\ Apply(OnRequestClosed(Ledger, r, memStatus, memVia, lag))
    /\ UNCHANGED <<memberVars, reqEmail, reqRole, reqBy, reqUser, clock,
                   deviceVars, sessionVars>>

(* cancel_member_invitation, of an accepted request whose member is not     *)
(* active yet, or no longer exists.                                         *)
CancelFinalized(a, r, lag) ==
    LET invited == {u \in Users : memVia[u] = r /\ memStatus[u] = "invited"}
    IN  /\ Manages(a, lag) /\ Outranks(a, reqRole[r])
        /\ reqStatus[r] = "finalized"
        /\ \A u \in Users : ~(memVia[u] = r /\ memStatus[u] = "active")
        /\ reqStatus' = [reqStatus EXCEPT ![r] = "cancelled"]
        /\ memStatus' = [u \in Users |-> IF u \in invited THEN "revoked" ELSE memStatus[u]]
        /\ IF invited = {} THEN UNCHANGED <<seatVars, deviceVars, sessionVars>>
           ELSE LET u == CHOOSE u \in invited : TRUE
                IN  /\ Apply(OnMembership(Ledger, u, Membership(u),
                                          AsMember("revoked", r), reqStatus, lag))
                    /\ RevokeDevices({d \in Devices : devVia[d] = r /\
                                                      devStatus[d] = "pending"}, Nobody)
        /\ UNCHANGED <<accounts, memRole, memVia, removed, reqEmail, reqRole, reqBy,
                       reqUser, clock>>

(* register_mvp_device, of a device that is not registered yet; a retry      *)
(* with the same device changes nothing.                                    *)
RegisterDevice(u, d) ==
    /\ u \in accounts
    /\ memStatus[u] = "active" \/ (memStatus[u] = "invited" /\ LiveNow(memVia[u], "none"))
    /\ devStatus[d] = "none"
    /\ Cardinality(PendingOf(u)) < (IF memStatus[u] = "invited" THEN 1 ELSE MaxPending)
    /\ devStatus' = [devStatus EXCEPT ![d] = "pending"]
    /\ devUser' = [devUser EXCEPT ![d] = u]
    /\ devVia' = [devVia EXCEPT ![d] = IF memStatus[u] = "invited" THEN memVia[u] ELSE Nobody]
    /\ UNCHANGED <<memberVars, requestVars, clock, seatVars, sessionVars>>

(* pair_device: the key envelope is delivered, the device becomes active    *)
(* and with it an invited member.                                           *)
PairDevice(a, u, d, lag) ==
    /\ Manages(a, lag) /\ Outranks(a, memRole[u])
    /\ Belongs(u, lag)
    /\ devUser[d] = u /\ devStatus[d] = "pending"
    /\ memStatus[u] = "invited" => devVia[d] = memVia[u]
    /\ devStatus' = [devStatus EXCEPT ![d] = "active"]
    /\ memStatus' = [memStatus EXCEPT ![u] = "active"]
    /\ IF memStatus[u] = "active" THEN UNCHANGED seatVars
       ELSE Apply(OnMembership(Ledger, u, Membership(u), AsMember("active", memVia[u]),
                               reqStatus, lag))
    /\ UNCHANGED <<accounts, memRole, memVia, removed, requestVars, clock, devUser, devVia,
                   sessionVars>>

Owners == {u \in Users : memStatus[u] = "active" /\ memRole[u] = "owner"}

(* Mutant: owners who have not come in yet count. *)
LastOwnerInvited(u) ==
    {v \in Users : memRole[v] = "owner" /\ memStatus[v] \in {"active", "invited"}} = {u}

LastOwner(u) == Owners = {u}

(* revoke_member.                                                           *)
RevokeMember(a, u, lag) ==
    /\ Manages(a, lag) /\ Outranks(a, memRole[u])
    /\ memStatus[u] \in {"active", "invited"}
    /\ ~LastOwner(u)
    /\ memStatus' = [memStatus EXCEPT ![u] = "revoked"]
    /\ LET mine == {r \in Invitations : reqBy[r] = u /\ reqStatus[r] = "requested"}
           via  == IF memStatus[u] = "invited" /\ reqStatus[memVia[u]] = "finalized"
                   THEN {memVia[u]} ELSE {}
           after == OnMembership(Ledger, u, Membership(u), AsMember("revoked", memVia[u]),
                                 reqStatus, lag)
           closed == [k \in Keys |-> IF k \in mine THEN "free" ELSE after.seat[k]]
       IN  \* No membership names a request that is not accepted, so the guard of
           \* the requests this cancels releases their seats and no more.
           /\ reqStatus' = [r \in Invitations |->
                               IF r \in mine \cup via THEN "cancelled" ELSE reqStatus[r]]
           /\ seat' = closed
           /\ used' = AtLeastZero(after.used -
                          Cardinality({k \in mine : after.seat[k] # "free"}))
    /\ RevokeDevices({d \in Devices : devUser[d] = u}, u)
    /\ UNCHANGED <<accounts, memRole, memVia, removed, reqEmail, reqRole, reqBy, reqUser,
                   clock>>

(* revoke_device: no lock but that of the device's row.                     *)
RevokeDevice(a, d, lag) ==
    /\ devStatus[d] \in {"pending", "active"}
    /\ MayActOn(a, memRole[devUser[d]], lag)
    /\ RevokeDevices({d}, Nobody)
    /\ UNCHANGED <<memberVars, requestVars, clock, seatVars>>

(* bind_device_session, of a session not bound yet.                         *)
BindSession(s, d) ==
    /\ sessStatus[s] = "unbound"
    /\ devStatus[d] = "active" /\ memStatus[devUser[d]] = "active"
    /\ sessStatus' = [sessStatus EXCEPT ![s] = "active"]
    /\ sessDevice' = [sessDevice EXCEPT ![s] = d]
    /\ boundAs' = [boundAs EXCEPT ![devUser[d]] = @ \cup (Managers \cap {memRole[devUser[d]]})]
    /\ UNCHANGED <<memberVars, requestVars, clock, seatVars, deviceVars>>

(* revoke_current_device_session.                                           *)
RevokeSession(s) ==
    /\ sessStatus[s] = "active"
    /\ sessStatus' = [sessStatus EXCEPT ![s] = "revoked"]
    /\ UNCHANGED <<memberVars, requestVars, clock, seatVars, deviceVars, sessDevice, boundAs>>

(* Deleting an account takes its membership, devices and sessions with it   *)
(* and leaves null where requests name it; the trigger returns the seat.    *)
DeleteAccount(u) ==
    /\ u \in accounts
    /\ accounts' = accounts \ {u}
    /\ removed' = IF memStatus[u] = "active" THEN removed \cup {u} ELSE removed
    /\ memStatus' = [memStatus EXCEPT ![u] = "none"]
    /\ memVia' = [memVia EXCEPT ![u] = Nobody]
    /\ Apply(OnMembership(Ledger, u, Membership(u), AsMember("none", Nobody),
                          reqStatus, "none"))
    /\ RevokeDevices({d \in Devices : devUser[d] = u}, u)
    /\ reqBy' = [r \in Invitations |-> IF reqBy[r] = u THEN Nobody ELSE reqBy[r]]
    /\ UNCHANGED <<memRole, reqStatus, reqEmail, reqRole, reqUser, clock>>

(* Time passes an expiry, and then the last call that waited since before.  *)
Expire(r) ==
    /\ reqStatus[r] # "none"
    /\ clock' = [clock EXCEPT ![r] = IF clock[r] = "live" THEN "closing" ELSE "over"]
    /\ clock[r] # "over"
    /\ UNCHANGED <<memberVars, requestVars, seatVars, deviceVars, sessionVars>>
-----------------------------------------------------------------------------
Invite(a, e, lag) ==
    \/ Lapsed(e, lag) # {} /\ BeginForMember(a, e, lag)
    \/ \E role \in Roles, r \in Invitations : Begin(a, e, role, r, lag)

Manage(a, lag) ==
    \/ \E r \in Invitations : CancelRequested(a, r, lag) \/ CancelFinalized(a, r, lag)
    \/ \E u \in Users : RevokeMember(a, u, lag) \/ \E d \in Devices : PairDevice(a, u, d, lag)

Join(u) ==
    \/ SignUp(u)
    \/ \E r \in Invitations, lag \in CallLags : Accept(u, r, lag) \/ AcceptRefused(u, r, lag)
    \/ \E d \in Devices : RegisterDevice(u, d)

Connect ==
    \/ \E s \in Sessions : RevokeSession(s) \/ \E d \in Devices : BindSession(s, d)
    \/ \E a \in Users, d \in Devices, lag \in CallLags : RevokeDevice(a, d, lag)

MembershipNext ==
    \/ \E a \in Users, lag \in CallLags : Manage(a, lag) \/ \E e \in Users : Invite(a, e, lag)
    \/ \E u \in Users : Join(u)
    \/ Connect
    \/ \E r \in Invitations : Expire(r)

MembershipSpec == MembershipInit /\ [][MembershipNext]_membershipVars
-----------------------------------------------------------------------------
(* Every row has its columns in range.                                      *)
MembershipTypeOK ==
    /\ accounts \subseteq Users /\ removed \subseteq Users
    /\ memStatus \in [Users -> {"none", "invited", "active", "revoked"}]
    /\ memRole \in [Users -> Roles]
    /\ memVia \in [Users -> Invitations \cup {Nobody}]
    /\ reqStatus \in [Invitations -> {"none", "requested", "finalized", "cancelled"}]
    /\ reqEmail \in [Invitations -> Users \cup {Nobody}]
    /\ reqRole \in [Invitations -> Roles]
    /\ reqBy \in [Invitations -> Users \cup {Nobody}]
    /\ reqUser \in [Invitations -> Users \cup {Nobody}]
    /\ clock \in [Invitations -> {"live", "closing", "over"}]
    /\ seat \in [Keys -> {"free", "until", "fixed"}] /\ used \in 0 .. MaxSeats
    /\ devStatus \in [Devices -> {"none", "pending", "active", "revoked"}]
    /\ devUser \in [Devices -> Users \cup {Nobody}]
    /\ devVia \in [Devices -> Invitations \cup {Nobody}]
    /\ sessStatus \in [Sessions -> {"unbound", "active", "revoked"}]
    /\ sessDevice \in [Sessions -> Devices \cup {Nobody}]
    /\ boundAs \in [Users -> SUBSET Managers]

(* used_seats is the number of reservations, whatever order sweeps,         *)
(* refreshes and releases come in and whatever the lag of the calls: the    *)
(* clamp at zero never hides a count that went wrong (0027:94-212).         *)
LedgerExact == used = Cardinality({k \in Keys : seat[k] # "free"})

(* Nothing that counts goes without a seat: an active member holds one that *)
(* does not expire, and no sweep has taken that of a live request or of an  *)
(* invited member (0027:232-390).                                           *)
Seated ==
    /\ \A u \in Users : memStatus[u] = "active" => seat[SeatKey(u, memVia[u])] = "fixed"
    /\ \A u \in Users : memStatus[u] = "invited" /\ clock[memVia[u]] = "live"
                           => seat[memVia[u]] # "free"
    /\ \A r \in Invitations : reqStatus[r] = "requested" /\ clock[r] = "live"
                                 => seat[r] # "free"

(* No seat is kept by something that is over: a fixed seat has its active   *)
(* member.                                                                  *)
FixedSeatsUsed ==
    \A k \in Keys : seat[k] = "fixed"
        => \E u \in Users : memStatus[u] = "active" /\ SeatKey(u, memVia[u]) = k

(* Fixed seats and active members follow each other, in both directions and *)
(* through every order of cancelling, closing and revoking (0027:232-390).  *)
SeatsFollow == Seated /\ FixedSeatsUsed

(* As long as no account of a member was deleted, there is an owner: two    *)
(* owners may revoke each other, and the call of the one who was revoked    *)
(* while it waited goes ahead, so that only the count of owners stands      *)
(* between it and the last of them (0015:868-966).                          *)
OwnerRemains == removed = {} => Owners # {}

(* A session that may still be used has an active device, and an active     *)
(* device an active member: whatever the order of revocations, pairings and *)
(* bindings (0021:663-722).                                                 *)
AccessFollowsMembership ==
    /\ \A s \in Sessions : sessStatus[s] = "active" => devStatus[sessDevice[s]] = "active"
    /\ \A d \in Devices : devStatus[d] = "active" => memStatus[devUser[d]] = "active"

(* A member came in through a request that was accepted for the address of  *)
(* the member and with the role it named, one member per request.           *)
JoinedByInvitation ==
    \A u \in Users : memStatus[u] \in {"invited", "active"} /\ memVia[u] # Nobody
        => /\ reqStatus[memVia[u]] = "finalized" /\ reqUser[memVia[u]] = u
           /\ reqEmail[memVia[u]] = u /\ reqRole[memVia[u]] = memRole[u]
           /\ \A v \in Users \ {u} : memVia[v] # memVia[u]
=============================================================================
