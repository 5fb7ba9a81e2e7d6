------------------------------ MODULE Enrollment ------------------------------
(***************************************************************************)
(* How a desktop comes to hold the key of the organization in the cloud:   *)
(* the first owner's manifest and its bootstrap (0021), the registration,  *)
(* pairing and envelope of a device (0015, 0025, 0026), the cloud device   *)
(* context in the local repository, the route devices/self that advances   *)
(* it one stage a call, and the check every cloud call of the desktop      *)
(* passes (v9/api.py, v9/service.py, v9/repository.py).  Each call to the  *)
(* cloud and each transaction is a step; a call may end after any of them. *)
(* A desktop is one user with one device, whose identity it draws once.    *)
(* A key is named by who made it and for which version.                    *)
(***************************************************************************)
EXTENDS Integers, FiniteSets

CONSTANTS Desktops, First,   \* First is the desktop of the first owner
          Calls,             \* requests under way
          MaxCloudKey,       \* rotations in the cloud, whose client is not here
          MaxLocalKey,       \* rotations of the first owner's local organization
          NoKeyYet

ASSUME EnrollmentAssumption ==
  /\ First \in Desktops /\ IsFiniteSet(Desktops)
  /\ MaxCloudKey \in Nat \ {0} /\ MaxLocalKey \in Nat \ {0}

VARIABLES cloudKey,      \* organizations.key_version, 0 before the bootstrap
          member,        \* memberships of the cloud
          remote,        \* devices of the cloud
          envelopes,     \* key_envelopes
          context,       \* cloud_device_context of each desktop
          localKey,      \* key_version of its local organization, 0 if none
          vault,         \* the organization keys among its local secrets
          call           \* what each request does next and what it has read

cloudVars == <<cloudKey, member, remote, envelopes>>
deskVars  == <<context, localKey, vault>>
enrollVars == <<cloudVars, deskVars, call>>

KeyVersions == 1..(IF MaxCloudKey > MaxLocalKey THEN MaxCloudKey ELSE MaxLocalKey)
OrgKey(v, maker) == [version |-> v, maker |-> maker]

(* The key of a version is the one the first envelopes of it were sealed    *)
(* with: the first owner's own, and after that the rotations'.              *)
KeyOf(v) == OrgKey(v, IF v = 1 THEN First ELSE "rotation")

ASSUME NoKeyAssumption ==
  NoKeyYet \notin [version : KeyVersions, maker : Desktops \cup {"rotation"}]

NoContext == [status |-> "none", version |-> 0, wanted |-> 0, marked |-> FALSE]
NoCall == [pc |-> "idle", desk |-> First, seen |-> NoContext, status |-> "none",
           version |-> 0, key |-> NoKeyYet, target |-> First]

EnrollInit ==
  /\ cloudKey = 0
  /\ member = [d \in Desktops |-> "none"]
  /\ remote = [d \in Desktops |-> "none"]
  /\ envelopes = {}
  /\ context = [d \in Desktops |-> NoContext]
  /\ localKey = [d \in Desktops |-> IF d = First THEN 1 ELSE 0]
  /\ vault = [d \in Desktops |-> [v \in KeyVersions |->
                IF d = First /\ v = 1 THEN OrgKey(1, First) ELSE NoKeyYet]]
  /\ call = [q \in Calls |-> NoCall]

Go(q, pc) == call' = [call EXCEPT ![q].pc = pc]
Respond(q) == call' = [call EXCEPT ![q] = NoCall]
GoOrRespond(q, goes, pc) == IF goes THEN Go(q, pc) ELSE Respond(q)

---------------------------------------------------------------------------
(* The first owner's desktop, outside a request. *)

(* Mutant: a second manifest prepares the context anew. *)
PrepareAfresh ==
  /\ context' = [context EXCEPT ![First] =
       [status |-> "pending", version |-> 0, wanted |-> localKey[First], marked |-> FALSE]]
  /\ UNCHANGED <<cloudVars, localKey, vault, call>>

(* export_mvp_owner_manifest: the context, and then its one-time mark. *)
PrepareManifest ==
  /\ context[First].status = "none"
  /\ context' = [context EXCEPT ![First] =
       [status |-> "pending", version |-> 0, wanted |-> localKey[First], marked |-> FALSE]]
  /\ UNCHANGED <<cloudVars, localKey, vault, call>>

MarkManifest ==
  /\ context[First].status # "none"
  /\ ~context[First].marked
  /\ context' = [context EXCEPT ![First].marked = TRUE]
  /\ UNCHANGED <<cloudVars, localKey, vault, call>>

(* The operator runs bootstrap_mvp_first_owner with that manifest. *)
Bootstrap ==
  /\ cloudKey = 0 /\ context[First].marked
  /\ cloudKey' = 1
  /\ member' = [member EXCEPT ![First] = "active"]
  /\ remote' = [remote EXCEPT ![First] = "active"]
  /\ UNCHANGED <<envelopes, deskVars, call>>

(* A device or member of the local organization is revoked: _rotate_org_key. *)
RotateLocally ==
  /\ localKey[First] < MaxLocalKey
  /\ localKey' = [localKey EXCEPT ![First] = @ + 1]
  /\ vault' = [vault EXCEPT ![First][localKey[First] + 1] = OrgKey(localKey[First] + 1, First)]
  /\ UNCHANGED <<cloudVars, context, call>>

---------------------------------------------------------------------------
(* The cloud, on its own: memberships (Membership has how they come about) *)
(* and a rotation (SyncCloud has its records).                             *)

JoinAgain(d) ==
  /\ cloudKey > 0 /\ d # First
  /\ member[d] \in {"none", "revoked"}
  /\ member' = [member EXCEPT ![d] = "invited"]
  /\ UNCHANGED <<cloudKey, remote, envelopes, deskVars, call>>

Expel(d) ==
  /\ d # First /\ member[d] \in {"invited", "active"}
  /\ member' = [member EXCEPT ![d] = "revoked"]
  /\ remote' = [remote EXCEPT ![d] = IF @ = "none" THEN "none" ELSE "revoked"]
  /\ UNCHANGED <<cloudKey, envelopes, deskVars, call>>

EnvelopesOf(d, v) == {e \in envelopes : e.device = d /\ e.version = v}

SealRotation(d) ==
  /\ 0 < cloudKey /\ cloudKey < MaxCloudKey
  /\ remote[d] = "active" /\ EnvelopesOf(d, cloudKey + 1) = {}
  /\ envelopes' = envelopes \cup
       {[device |-> d, version |-> cloudKey + 1, key |-> KeyOf(cloudKey + 1)]}
  /\ UNCHANGED <<cloudKey, member, remote, deskVars, call>>

(* It counts the new envelopes and the active devices. *)
CommitCloudRotation ==
  /\ 0 < cloudKey /\ cloudKey < MaxCloudKey
  /\ Cardinality({e \in envelopes : e.version = cloudKey + 1})
       = Cardinality({d \in Desktops : remote[d] = "active"})
  /\ cloudKey' = cloudKey + 1
  /\ UNCHANGED <<member, remote, envelopes, deskVars, call>>

---------------------------------------------------------------------------
(* devices/self. *)

AskSelf(q, d) ==
  /\ call[q] = NoCall
  /\ member[d] \in {"invited", "active"}
  /\ call' = [call EXCEPT ![q] = [NoCall EXCEPT !.pc = "context", !.desk = d,
                                                 !.status = member[d]]]
  /\ UNCHANGED <<cloudVars, deskVars>>

(* The context, or a new one with a new identity, for key version 1. *)
ReadContext(q) ==
  LET d == call[q].desk IN
  /\ call[q].pc = "context"
  /\ IF context[d].status = "none"
       THEN /\ context' = [context EXCEPT ![d] =
                 [status |-> "pending", version |-> 0, wanted |-> 1, marked |-> FALSE]]
            /\ localKey' = [localKey EXCEPT ![d] = IF @ = 0 THEN 1 ELSE @]
            /\ Go(q, "register")
       ELSE /\ call' = [call EXCEPT ![q].pc = "bind", ![q].seen = context[d]]
            /\ UNCHANGED <<context, localKey>>
  /\ UNCHANGED <<cloudVars, vault>>

(* register_mvp_device: the same identity may come again, a revoked one not. *)
Register(q) ==
  LET d == call[q].desk IN
  /\ call[q].pc = "register"
  /\ remote' = [remote EXCEPT ![d] =
       IF @ = "none" /\ member[d] \in {"invited", "active"} THEN "pending" ELSE @]
  /\ Respond(q)
  /\ UNCHANGED <<cloudKey, member, envelopes, deskVars>>

(* bind_device_session; without an active device a pending desktop *)
(* registers (again), the first owner's waits for the operator. *)
Bound(d) == member[d] = "active" /\ remote[d] = "active"

BindSelf(q) ==
  LET seen == call[q].seen IN
  /\ call[q].pc = "bind"
  /\ IF Bound(call[q].desk) THEN Go(q, "version")
     ELSE GoOrRespond(q, seen.status = "pending" /\ ~seen.marked, "register")
  /\ UNCHANGED <<cloudVars, deskVars>>

ReadVersion(q) ==
  /\ call[q].pc = "version"
  /\ call' = [call EXCEPT ![q].pc = "device", ![q].version = cloudKey]
  /\ UNCHANGED <<cloudVars, deskVars>>

(* can_activate_bootstrapped_cloud_context. *)
MayBootstrap(q) ==
  LET d == call[q].desk  seen == call[q].seen IN
  /\ context[d] = seen /\ seen.status = "pending" /\ seen.marked
  /\ call[q].status = "active"
  /\ seen.wanted = call[q].version /\ localKey[d] = call[q].version

(* With the device's row read: who may go on to an envelope.  An active *)
(* desktop at the cloud's version is done, and never follows it back. *)
ReadDevice(q) ==
  LET seen == call[q].seen IN
  /\ call[q].pc = "device"
  /\ GoOrRespond(q,
       /\ remote[call[q].desk] = "active"
       /\ IF seen.status = "active"
            THEN call[q].status = "active" /\ call[q].version > seen.version
            ELSE seen.marked => MayBootstrap(q),
       "envelope")
  /\ UNCHANGED <<cloudVars, deskVars>>

Founding(q) == call[q].seen.status = "pending" /\ call[q].seen.marked

ReadEnvelope(q) ==
  LET found == EnvelopesOf(call[q].desk, call[q].version) IN
  /\ call[q].pc = "envelope"
  /\ IF found = {} THEN GoOrRespond(q, Founding(q) /\ MayBootstrap(q), "put")
     ELSE call' = [call EXCEPT ![q].pc = "open", ![q].key = (CHOOSE e \in found : TRUE).key]
  /\ UNCHANGED <<cloudVars, deskVars>>

(* put_mvp_first_owner_key_envelope: one envelope, once; another seal of *)
(* the same key is another ciphertext and refused. *)
PutEnvelope(q) ==
  LET d == call[q].desk  v == call[q].version  key == vault[d][v] IN
  /\ call[q].pc = "put"
  /\ IF Bound(d) /\ cloudKey = v /\ envelopes = {}
       THEN /\ envelopes' = {[device |-> d, version |-> v, key |-> key]}
            /\ call' = [call EXCEPT ![q].pc = "open", ![q].key = key]
       ELSE Respond(q) /\ UNCHANGED envelopes
  /\ UNCHANGED <<cloudKey, member, remote, deskVars>>

OpenEnvelope(q) ==
  /\ call[q].pc = "open"
  /\ GoOrRespond(q, Founding(q) => MayBootstrap(q), "activate")
  /\ UNCHANGED <<cloudVars, deskVars>>

(* A key that is already in the vault under this version must be the same. *)
KeyAgrees(d, v, key) == vault[d][v] \in {NoKeyYet, key}

(* The transaction compares the stored context with the one that was read. *)
Unchanged(q) == context[call[q].desk] = call[q].seen

Activate(q) ==
  LET d == call[q].desk  v == call[q].version IN
  /\ call[q].pc = "activate"
  /\ IF KeyAgrees(d, v, call[q].key) /\ Unchanged(q)
       THEN /\ vault' = [vault EXCEPT ![d][v] = call[q].key]
            /\ localKey' = [localKey EXCEPT ![d] = v]
            /\ context' = [context EXCEPT ![d] = [status |-> "active", version |-> v,
                             wanted |-> v, marked |-> call[q].seen.marked]]
            /\ IF Founding(q) THEN call' = [call EXCEPT ![q].pc = "clean", ![q].seen = context'[d]]
                              ELSE Respond(q)
       ELSE Respond(q) /\ UNCHANGED deskVars
  /\ UNCHANGED cloudVars

(* The mark has served. *)
RemoveMark(q) ==
  LET d == call[q].desk IN
  /\ call[q].pc = "clean"
  /\ context' = [context EXCEPT ![d].marked = IF Unchanged(q) THEN FALSE ELSE @]
  /\ Respond(q)
  /\ UNCHANGED <<cloudVars, localKey, vault>>

---------------------------------------------------------------------------
(* devices/<id>/approve, on a desktop whose context is active. *)

AskApprove(q, d, t) ==
  /\ call[q] = NoCall
  /\ context[d].status = "active"
  /\ remote[t] = "pending"
  /\ call' = [call EXCEPT ![q] = [NoCall EXCEPT !.pc = "seal", !.desk = d, !.target = t]]
  /\ UNCHANGED <<cloudVars, deskVars>>

(* Mutant: the local organization's newest key goes out as the version of *)
(* the context. *)
SealForNewest(q) ==
  LET d == call[q].desk IN
  /\ call[q].pc = "seal"
  /\ call' = [call EXCEPT ![q].pc = "pair", ![q].version = context[d].version,
                          ![q].key = vault[d][localKey[d]]]
  /\ UNCHANGED <<cloudVars, deskVars>>

Seal(q) ==
  LET d == call[q].desk IN
  /\ call[q].pc = "seal"
  /\ call' = [call EXCEPT ![q].pc = "pair", ![q].version = localKey[d],
                          ![q].key = vault[d][localKey[d]]]
  /\ UNCHANGED <<cloudVars, deskVars>>

(* pair_device: the envelope, the device and an invited member in one. *)
Pair(q) ==
  LET t == call[q].target IN
  /\ call[q].pc = "pair"
  /\ IF /\ Bound(call[q].desk) /\ call[q].version = cloudKey
        /\ member[t] \in {"invited", "active"} /\ remote[t] = "pending"
       THEN /\ envelopes' = envelopes \cup
                 {[device |-> t, version |-> cloudKey, key |-> call[q].key]}
            /\ remote' = [remote EXCEPT ![t] = "active"]
            /\ member' = [member EXCEPT ![t] = "active"]
       ELSE UNCHANGED <<envelopes, remote, member>>
  /\ Respond(q)
  /\ UNCHANGED <<cloudKey, deskVars>>

---------------------------------------------------------------------------
(* _business_context, before every cloud call: the membership, the local   *)
(* context and its key, the session, the version and the device, in turn.  *)

AskBusiness(q, d) ==
  /\ call[q] = NoCall
  /\ member[d] = "active"
  /\ call' = [call EXCEPT ![q] = [NoCall EXCEPT !.pc = "resolve", !.desk = d]]
  /\ UNCHANGED <<cloudVars, deskVars>>

ResolveContext(q) ==
  LET d == call[q].desk IN
  /\ call[q].pc = "resolve"
  /\ IF context[d].status = "active" /\ vault[d][context[d].version] # NoKeyYet
       THEN call' = [call EXCEPT ![q].pc = "enter", ![q].seen = context[d]]
       ELSE Respond(q)
  /\ UNCHANGED <<cloudVars, deskVars>>

EnterSession(q) ==
  /\ call[q].pc = "enter"
  /\ GoOrRespond(q, Bound(call[q].desk), "current")
  /\ UNCHANGED <<cloudVars, deskVars>>

SameVersion(q) ==
  /\ call[q].pc = "current"
  /\ GoOrRespond(q, cloudKey = call[q].seen.version, "listed")
  /\ UNCHANGED <<cloudVars, deskVars>>

(* The local membership is refreshed only for a context that still stands. *)
StillListed(q) ==
  /\ call[q].pc = "listed"
  /\ GoOrRespond(q, remote[call[q].desk] = "active" /\ Unchanged(q), "granted")
  /\ UNCHANGED <<cloudVars, deskVars>>

(* A call may end anywhere, and what it was answered may be lost. *)
EndCall(q) == call[q] # NoCall /\ Respond(q) /\ UNCHANGED <<cloudVars, deskVars>>

EnrollNext ==
  \/ PrepareManifest \/ MarkManifest \/ Bootstrap \/ RotateLocally \/ CommitCloudRotation
  \/ \E d \in Desktops : JoinAgain(d) \/ Expel(d) \/ SealRotation(d)
  \/ \E q \in Calls :
       \/ \E d \in Desktops : \/ AskSelf(q, d) \/ AskBusiness(q, d)
                              \/ \E t \in Desktops : AskApprove(q, d, t)
       \/ ReadContext(q) \/ Register(q) \/ BindSelf(q) \/ ReadVersion(q) \/ ReadDevice(q)
       \/ ReadEnvelope(q) \/ PutEnvelope(q) \/ OpenEnvelope(q) \/ Activate(q) \/ RemoveMark(q)
       \/ Seal(q) \/ Pair(q)
       \/ ResolveContext(q) \/ EnterSession(q) \/ SameVersion(q) \/ StillListed(q)
       \/ EndCall(q)

EnrollSpec == EnrollInit /\ [][EnrollNext]_enrollVars

---------------------------------------------------------------------------
(* An active desktop holds the cloud's key of the version it is at, no     *)
(* envelope carries another one, and a call that is let through has it:    *)
(* nobody ever writes under a key the others do not have.                  *)
ActiveHoldsKey ==
  /\ \A d \in Desktops : context[d].status = "active" =>
       vault[d][context[d].version] = KeyOf(context[d].version)
  /\ \A e \in envelopes : e.key = KeyOf(e.version)
  /\ \A q \in Calls : call[q].pc = "granted" =>
       vault[call[q].desk][call[q].seen.version] = KeyOf(call[q].seen.version)

(* Once active a desktop stays so and never goes back to an older version, *)
(* whatever two calls at once had read.                                    *)
NeverRollsBack ==
  [][\A d \in Desktops : context[d].status = "active" =>
       context'[d].status = "active" /\ context'[d].version >= context[d].version]_enrollVars

(* Every active device has an envelope of the current version, but the     *)
(* first owner's before it has put its own: "device envelope set           *)
(* incomplete" is what a rotation is refused with otherwise.               *)
EnvelopesComplete ==
  \A d \in Desktops : remote[d] = "active" /\ envelopes # {} => EnvelopesOf(d, cloudKey) # {}

=============================================================================
