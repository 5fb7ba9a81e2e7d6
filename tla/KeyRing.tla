------------------------------- MODULE KeyRing -------------------------------
(***************************************************************************)
(* The keys of the personal organization on one desktop: the first start,  *)
(* devices that are paired, recovered and revoked, and the rotation of the *)
(* organization's key that a revocation makes.  Each repository call is a   *)
(* transaction and a request makes several of them; requests run on the    *)
(* threads of the local server, and any of them may end early.             *)
(*                                                                         *)
(* A key and a body are numbers, drawn in order: 0 is no key.  A record's  *)
(* data key is wrapped for one body, one key version and one key; unwrapping*)
(* anything else fails its authentication.                                 *)
(***************************************************************************)
EXTENDS Integers, Sequences, FiniteSets

CONSTANTS Records, Devices,
          Desktop,          \* the device of the first start
          Owner, Members,   \* its user, and the others
          Requests,         \* threads of the server
          MaxKeys, MaxBodies,   \* keys and bodies ever drawn
          Nil

ASSUME KeyRingAssumption ==
    /\ Desktop \in Devices /\ Owner \notin Members
    /\ Nil \notin Records \cup Devices \cup Members \cup {Owner}
    /\ MaxKeys \in Nat \ {0} /\ MaxBodies \in Nat

VARIABLES boot,        \* steps of the first start that are done
          acknowledged,  \* the owner has noted the first recovery code
          orgVersion,  \* organizations.key_version
          vault,       \* local_secrets: the organization's key by version
          rows,        \* encrypted_records
          devUser, devStatus,  \* devices
          sealed,      \* key_envelopes: what a device finds for a version
          recovery,    \* recovery_envelopes: the key a code restores
          shown,       \* recovery codes that reached the owner: version and key
          member,      \* memberships other than the owner's
          pairing,     \* a pairing session
          task,        \* requests under way
          drawn, written,
          overlapped   \* history: two requests were under way at once

ringVars == <<boot, acknowledged, orgVersion, vault, rows, devUser, devStatus, sealed,
              recovery, shown, member, pairing, task, drawn, written, overlapped>>

(* A rotation draws its key before it is known to be kept.                  *)
Versions == 1 .. MaxKeys
NoRow == [body |-> 0, kv |-> 0, wrap |-> [body |-> 0, kv |-> 0, key |-> 0]]

(* The transactions of each request, in order.                              *)
Steps == [create  |-> <<"org", "load", "put">>,
          update  |-> <<"org", "load", "put">>,
          pair    |-> <<"org", "register", "load", "seal">>,
          recover |-> <<"org", "code", "restore", "register", "seal">>,
          rotate  |-> <<"org", "load", "records", "devices", "store", "commit">>]

Idle == [op |-> "idle", at |-> 0, rec |-> Nil, user |-> Nil, dev |-> Nil,
         org |-> 0, key |-> 0, kept |-> [r \in Records |-> NoRow], devs |-> {}]

At(q, step) == task[q].op # "idle" /\ Steps[task[q].op][task[q].at] = step

Advance(q, t) ==
    task' = [task EXCEPT ![q] =
                IF t.at = Len(Steps[t.op]) THEN Idle ELSE [t EXCEPT !.at = t.at + 1]]

(* decrypt_record and rewrap_record_data_key with the key k.                *)
Opens(k, row) == row.wrap = [body |-> row.body, kv |-> row.kv, key |-> k] /\ k # 0

ActiveDevices == {d \in Devices : devStatus[d] = "active"}
IsMember(u) == u \in {Owner} \cup {m \in Members : member[m] = "active"}
Fresh(d) == devStatus[d] = "none" /\ \A q \in Requests : task[q].dev # d
-----------------------------------------------------------------------------
RingInit ==
    /\ boot = 0 /\ acknowledged = FALSE /\ orgVersion = 0
    /\ vault = [v \in Versions |-> 0] /\ recovery = [v \in Versions |-> 0]
    /\ rows = [r \in Records |-> NoRow]
    /\ devUser = [d \in Devices |-> Nil] /\ devStatus = [d \in Devices |-> "none"]
    /\ sealed = [d \in Devices |-> [v \in Versions |-> 0]]
    /\ shown = {} /\ member = [u \in Members |-> "none"]
    /\ pairing = [state |-> "none", user |-> Nil]
    /\ task = [q \in Requests |-> Idle]
    /\ drawn = 0 /\ written = 0 /\ overlapped = FALSE

(* bootstrap_organization, then the pending recovery code and the context   *)
(* that makes the organization the personal one; under one lock.            *)
BootSteps == 8

BootStep ==
    /\ boot < BootSteps /\ boot' = boot + 1
    /\ orgVersion' = IF boot = 0 THEN 1 ELSE orgVersion
    /\ devStatus' = IF boot = 1 THEN [devStatus EXCEPT ![Desktop] = "active"] ELSE devStatus
    /\ devUser' = IF boot = 1 THEN [devUser EXCEPT ![Desktop] = Owner] ELSE devUser
    /\ vault' = IF boot = 2 THEN [vault EXCEPT ![1] = 1] ELSE vault
    /\ drawn' = IF boot = 2 THEN 1 ELSE drawn
    /\ sealed' = IF boot = 4 THEN [sealed EXCEPT ![Desktop][1] = vault[1]] ELSE sealed
    /\ recovery' = IF boot = 5 THEN [recovery EXCEPT ![1] = vault[1]] ELSE recovery
    /\ UNCHANGED <<acknowledged, rows, shown, member, pairing, task, written, overlapped>>

(* Nothing names the organization before its code is stored: the next       *)
(* attempt makes another one.  After that the next start finds it.          *)
BootAgain ==
    /\ boot \in 1 .. BootSteps - 2
    /\ boot' = 0 /\ orgVersion' = 0 /\ drawn' = 0
    /\ vault' = [v \in Versions |-> 0] /\ recovery' = [v \in Versions |-> 0]
    /\ devUser' = [d \in Devices |-> Nil] /\ devStatus' = [d \in Devices |-> "none"]
    /\ sealed' = [d \in Devices |-> [v \in Versions |-> 0]]
    /\ UNCHANGED <<acknowledged, rows, shown, member, pairing, task, written, overlapped>>

(* The code is answered until it is acknowledged; nothing else is allowed   *)
(* before.                                                                  *)
Acknowledge ==
    /\ boot = BootSteps /\ ~acknowledged
    /\ acknowledged' = TRUE /\ shown' = {[v |-> 1, key |-> recovery[1]]}
    /\ UNCHANGED <<boot, orgVersion, vault, rows, devUser, devStatus, sealed, recovery,
                   member, pairing, task, drawn, written, overlapped>>

(* add_member, also of a member that was revoked. *)
AddMember(u) ==
    /\ acknowledged /\ member[u] # "active"
    /\ member' = [member EXCEPT ![u] = "active"]
    /\ UNCHANGED <<boot, acknowledged, orgVersion, vault, rows, devUser, devStatus, sealed,
                   recovery, shown, pairing, task, drawn, written, overlapped>>

(* create_pairing_session; and its time is over. *)
OpenPairing(u) ==
    /\ acknowledged /\ IsMember(u) /\ pairing.state = "none"
    /\ pairing' = [state |-> "open", user |-> u]
    /\ UNCHANGED <<boot, acknowledged, orgVersion, vault, rows, devUser, devStatus, sealed,
                   recovery, shown, member, task, drawn, written, overlapped>>

PairingOver ==
    /\ pairing.state = "open" /\ pairing' = [pairing EXCEPT !.state = "over"]
    /\ UNCHANGED <<boot, acknowledged, orgVersion, vault, rows, devUser, devStatus, sealed,
                   recovery, shown, member, task, drawn, written, overlapped>>
-----------------------------------------------------------------------------
Begin(q, t) ==
    /\ acknowledged /\ task[q] = Idle
    /\ task' = [task EXCEPT ![q] = t]
    /\ overlapped' = (overlapped \/ \E p \in Requests \ {q} : task[p] # Idle)
    /\ UNCHANGED <<boot, acknowledged, orgVersion, vault, rows, devUser, devStatus, sealed,
                   recovery, shown, member, drawn, written>>

A(op) == [Idle EXCEPT !.op = op, !.at = 1]

BeginCreate(q, r) ==
    /\ rows[r] = NoRow /\ devStatus[Desktop] = "active" /\ written < MaxBodies
    /\ Begin(q, [A("create") EXCEPT !.rec = r]) /\ UNCHANGED pairing

(* The row is read and opened with the key of its version.                  *)
BeginUpdate(q, r) ==
    /\ rows[r] # NoRow /\ Opens(vault[rows[r].kv], rows[r]) /\ written < MaxBodies
    /\ Begin(q, [A("update") EXCEPT !.rec = r]) /\ UNCHANGED pairing

(* pair_device, and add_device, which keeps the private key here as well.   *)
BeginPair(q, u, d) ==
    /\ IsMember(u) /\ Fresh(d)
    /\ Begin(q, [A("pair") EXCEPT !.user = u, !.dev = d]) /\ UNCHANGED pairing

(* claim_pairing_session: the code is used up even if its user is no        *)
(* longer a member.                                                         *)
Claim(q, d) ==
    /\ pairing.state = "open" /\ Fresh(d)
    /\ pairing' = [pairing EXCEPT !.state = "over"]
    /\ \/ IsMember(pairing.user) /\ Begin(q, [A("pair") EXCEPT !.user = pairing.user, !.dev = d])
       \/ /\ ~IsMember(pairing.user)
          /\ UNCHANGED <<boot, acknowledged, orgVersion, vault, rows, devUser, devStatus,
                         sealed, recovery, shown, member, task, drawn, written, overlapped>>

BeginRecover(q, d) ==
    /\ Fresh(d)
    /\ Begin(q, [A("recover") EXCEPT !.user = Owner, !.dev = d]) /\ UNCHANGED pairing

(* revoke_device and revoke_member; devs are the devices that get no key.   *)
BeginRevokeDevice(q, d) ==
    /\ devStatus[d] = "active" /\ drawn < MaxKeys
    /\ Begin(q, [A("rotate") EXCEPT !.dev = d, !.devs = {d}]) /\ UNCHANGED pairing

BeginRevokeMember(q, u) ==
    /\ member[u] = "active" /\ drawn < MaxKeys
    /\ Begin(q, [A("rotate") EXCEPT !.user = u,
                                    !.devs = {d \in ActiveDevices : devUser[d] = u}])
    /\ UNCHANGED pairing
-----------------------------------------------------------------------------
ReadOrg(q) ==
    /\ At(q, "org") /\ Advance(q, [task[q] EXCEPT !.org = orgVersion])
    /\ UNCHANGED <<boot, acknowledged, orgVersion, vault, rows, devUser, devStatus, sealed,
                   recovery, shown, member, pairing, drawn, written, overlapped>>

LoadKey(q) ==
    /\ At(q, "load") /\ vault[task[q].org] # 0
    /\ Advance(q, [task[q] EXCEPT !.key = vault[task[q].org]])
    /\ UNCHANGED <<boot, acknowledged, orgVersion, vault, rows, devUser, devStatus, sealed,
                   recovery, shown, member, pairing, drawn, written, overlapped>>

(* put_record compares neither the row's version nor the key's.             *)
Put(q) ==
    LET t == task[q]
        b == written + 1
    IN  /\ At(q, "put")
        /\ rows' = [rows EXCEPT ![t.rec] =
               [body |-> b, kv |-> t.org,
                wrap |-> [body |-> b, kv |-> t.org, key |-> t.key]]]
        /\ written' = b
        /\ Advance(q, t)
        /\ UNCHANGED <<boot, acknowledged, orgVersion, vault, devUser, devStatus, sealed,
                       recovery, shown, member, pairing, drawn, overlapped>>

Register(q) ==
    LET t == task[q]
    IN  /\ At(q, "register")
        /\ devStatus' = [devStatus EXCEPT ![t.dev] = "active"]
        /\ devUser' = [devUser EXCEPT ![t.dev] = t.user]
        /\ Advance(q, t)
        /\ UNCHANGED <<boot, acknowledged, orgVersion, vault, rows, sealed, recovery, shown,
                       member, pairing, drawn, written, overlapped>>

(* seal_org_key_for_device and put_key_envelope. *)
Seal(q) ==
    LET t == task[q]
    IN  /\ At(q, "seal")
        /\ sealed' = [sealed EXCEPT ![t.dev][t.org] = t.key]
        /\ Advance(q, t)
        /\ UNCHANGED <<boot, acknowledged, orgVersion, vault, rows, devUser, devStatus,
                       recovery, shown, member, pairing, drawn, written, overlapped>>

(* recover_org_key, with the code of the version. *)
OpenRecovery(q) ==
    LET t == task[q]
    IN  /\ At(q, "code") /\ [v |-> t.org, key |-> recovery[t.org]] \in shown
        /\ Advance(q, [t EXCEPT !.key = recovery[t.org]])
        /\ UNCHANGED <<boot, acknowledged, orgVersion, vault, rows, devUser, devStatus, sealed,
                       recovery, shown, member, pairing, drawn, written, overlapped>>

Restore(q) ==
    LET t == task[q]
    IN  /\ At(q, "restore")
        /\ vault' = [vault EXCEPT ![t.org] = t.key]
        /\ Advance(q, t)
        /\ UNCHANGED <<boot, acknowledged, orgVersion, rows, devUser, devStatus, sealed,
                       recovery, shown, member, pairing, drawn, written, overlapped>>

(* _rotate_org_key: every record is opened with the old version's key.      *)
ListRecords(q) ==
    LET t == task[q]
    IN  /\ At(q, "records")
        /\ \A r \in Records : rows[r] = NoRow \/ Opens(t.key, rows[r])
        /\ Advance(q, [t EXCEPT !.kept = rows])
        /\ UNCHANGED <<boot, acknowledged, orgVersion, vault, rows, devUser, devStatus, sealed,
                       recovery, shown, member, pairing, drawn, written, overlapped>>

ListDevices(q) ==
    LET t == task[q]
    IN  /\ At(q, "devices")
        /\ Advance(q, [t EXCEPT !.devs = ActiveDevices \ t.devs])
        /\ UNCHANGED <<boot, acknowledged, orgVersion, vault, rows, devUser, devStatus, sealed,
                       recovery, shown, member, pairing, drawn, written, overlapped>>

(* Mutant: the new key is stored under the version it replaces. *)
StoreNewOverOld(q) ==
    LET t == task[q]
    IN  /\ At(q, "store") /\ drawn < MaxKeys /\ t.org < MaxKeys
        /\ drawn' = drawn + 1
        /\ vault' = [vault EXCEPT ![t.org] = drawn + 1]
        /\ Advance(q, [t EXCEPT !.key = drawn + 1])
        /\ UNCHANGED <<boot, acknowledged, orgVersion, rows, devUser, devStatus, sealed,
                       recovery, shown, member, pairing, written, overlapped>>

StoreNew(q) ==
    LET t == task[q]
    IN  /\ At(q, "store") /\ drawn < MaxKeys /\ t.org < MaxKeys
        /\ drawn' = drawn + 1
        /\ vault' = [vault EXCEPT ![t.org + 1] = drawn + 1]
        /\ Advance(q, [t EXCEPT !.key = drawn + 1])
        /\ UNCHANGED <<boot, acknowledged, orgVersion, rows, devUser, devStatus, sealed,
                       recovery, shown, member, pairing, written, overlapped>>

(* apply_key_rotation, one transaction: the unique keys of both envelope    *)
(* tables refuse a version that was already sealed.                         *)
Revoked(t) ==
    IF t.user = Nil THEN {t.dev} ELSE {d \in ActiveDevices : devUser[d] = t.user}

(* Mutant: the envelopes replace those that are there. *)
CommitAllowedAnyway(t) ==
    IF t.user = Nil THEN devStatus[t.dev] = "active" ELSE member[t.user] = "active"

CommitAllowed(t) ==
    /\ IF t.user = Nil THEN devStatus[t.dev] = "active" ELSE member[t.user] = "active"
    /\ \A d \in t.devs : sealed[d][t.org + 1] = 0
    /\ recovery[t.org + 1] = 0

Rewrapped(t) ==
    [r \in Records |->
        IF t.kept[r] = NoRow THEN rows[r]
        ELSE [body |-> rows[r].body, kv |-> t.org + 1,
              wrap |-> [body |-> t.kept[r].body, kv |-> t.org + 1, key |-> t.key]]]

Commit(q) ==
    LET t == task[q]
    IN  /\ At(q, "commit") /\ CommitAllowed(t)
        /\ devStatus' = [d \in Devices |-> IF d \in Revoked(t) THEN "revoked" ELSE devStatus[d]]
        /\ member' = IF t.user = Nil THEN member ELSE [member EXCEPT ![t.user] = "revoked"]
        /\ rows' = Rewrapped(t)
        /\ sealed' = [d \in Devices |->
               IF d \in t.devs THEN [sealed[d] EXCEPT ![t.org + 1] = t.key] ELSE sealed[d]]
        /\ recovery' = [recovery EXCEPT ![t.org + 1] = t.key]
        /\ orgVersion' = t.org + 1
        /\ shown' \in {shown, shown \cup {[v |-> t.org + 1, key |-> t.key]}}
              \* the answer may be lost
        /\ Advance(q, t)
        /\ UNCHANGED <<boot, acknowledged, vault, devUser, pairing, drawn, written, overlapped>>

(* A refusal, an error or the end of the process. *)
Stop(q) ==
    /\ task[q] # Idle /\ task' = [task EXCEPT ![q] = Idle]
    /\ UNCHANGED <<boot, acknowledged, orgVersion, vault, rows, devUser, devStatus, sealed,
                   recovery, shown, member, pairing, drawn, written, overlapped>>
-----------------------------------------------------------------------------
Enter(q) ==
    \/ \E r \in Records : BeginCreate(q, r) \/ BeginUpdate(q, r)
    \/ \E d \in Devices : \/ Claim(q, d) \/ BeginRecover(q, d) \/ BeginRevokeDevice(q, d)
                          \/ \E u \in Members \cup {Owner} : BeginPair(q, u, d)
    \/ \E u \in Members : BeginRevokeMember(q, u)

Work(q) ==
    \/ ReadOrg(q) \/ LoadKey(q) \/ Put(q) \/ Register(q) \/ Seal(q)
    \/ OpenRecovery(q) \/ Restore(q)
    \/ ListRecords(q) \/ ListDevices(q) \/ StoreNew(q) \/ Commit(q)
    \/ Stop(q)

RingNext ==
    \/ BootStep \/ BootAgain \/ Acknowledge \/ PairingOver
    \/ \E u \in Members : AddMember(u)
    \/ \E u \in Members \cup {Owner} : OpenPairing(u)
    \/ \E q \in Requests : Enter(q) \/ Work(q)

RingSpec == RingInit /\ [][RingNext]_ringVars
-----------------------------------------------------------------------------
(* As long as requests come one after the other, whatever step they stop    *)
(* at: every record opens with the vault, the current key is in the vault   *)
(* and behind the recovery code, and a device holds the current key or no   *)
(* key of that version, none if it is revoked (service.py:3518-3594).       *)
KeysUsable ==
    (boot = BootSteps /\ ~overlapped) =>
        /\ \A r \in Records : rows[r] # NoRow => Opens(vault[rows[r].kv], rows[r])
        /\ vault[orgVersion] # 0 /\ recovery[orgVersion] = vault[orgVersion]
        /\ \A d \in Devices :
               sealed[d][orgVersion] \in
                   IF devStatus[d] = "active" THEN {0, vault[orgVersion]} ELSE {0}

(* A recovery code the owner has noted restores, at any time later, the key *)
(* it was given for: a rotation that loses a race does not replace the      *)
(* envelope of the one that won (repository.py:2241-2272).                  *)
CodesStayGood == \A c \in shown : recovery[c.v] = c.key

(* "Store the new local secret first.  If the subsequent SQLite transaction *)
(* fails, the organization remains on the old version and stays usable"     *)
(* (service.py:3579-3580): when no rotation is under way, the vault holds   *)
(* the key the current version's recovery envelope was made for.            *)
FailedRotationHarmless ==
    (acknowledged /\ \A q \in Requests : task[q].op # "rotate")
        => vault[orgVersion] = recovery[orgVersion]
=============================================================================
