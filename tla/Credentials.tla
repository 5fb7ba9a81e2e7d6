------------------------------ MODULE Credentials ------------------------------
(***************************************************************************)
(* A user's own key for an AI provider: stored in the cloud encrypted, its *)
(* data key wrapped for each of the user's desktops (0024), and opened in  *)
(* the memory of one process, which lends it to one caller at a time       *)
(* (v9/api.py, app.py).  One provider.  Every call to the cloud goes out   *)
(* with the session of that moment, and people may sign in and out while   *)
(* a request is under way.  A machine runs one process and is one device   *)
(* of each of its users.                                                   *)
(***************************************************************************)
EXTENDS Integers, FiniteSets

CONSTANTS Persons, Machines,
          Asks,              \* requests under way
          MaxCredential,     \* a bound on credential_version
          MaxEntered,        \* a bound on the keys that people type in
          Nothing

ASSUME CredentialsAssumption ==
  /\ MaxCredential \in Nat \ {0} /\ MaxEntered \in Nat
  /\ Nothing \notin Persons

VARIABLES credential,   \* user_ai_credentials
          wraps,        \* user_ai_key_envelopes, of the version that is stored
          machine,      \* devices, one for each person and machine
          signedIn,     \* who the session of a machine is
          active,       \* _ActiveAiCredentialStore
          entered,      \* how many keys have been typed in
          ask           \* what each request does next and what it has read

credentialVars == <<credential, wraps, machine, signedIn, active, entered, ask>>

(* A data key is as good as the key it encrypts: secret n of its owner. *)
Secret(owner, n) == [owner |-> owner, n |-> n]
NoCredential == [version |-> 0, secret |-> Nothing]
NotActive == [person |-> Nothing, version |-> 0, secret |-> Nothing]
NoAsk == [pc |-> "idle", what |-> "none", on |-> Nothing, person |-> Nothing, version |-> 0,
          secret |-> Nothing, targets |-> {}]

CredentialsInit ==
  /\ credential = [u \in Persons |-> NoCredential]
  /\ wraps = [u \in Persons |-> [p \in Machines |-> Nothing]]
  /\ machine \in [Persons -> [Machines -> {"pending", "active"}]]
  /\ signedIn = [p \in Machines |-> Nothing]
  /\ active = [p \in Machines |-> NotActive]
  /\ entered = 0
  /\ ask = [q \in Asks |-> NoAsk]

cloudPart == <<credential, wraps, machine>>

(* The session of the machine a request runs on, and what the cloud takes   *)
(* it for: current_active_desktop_context.                                  *)
Caller(q) == signedIn[ask[q].on]
Eligible(u, p) == u # Nothing /\ machine[u][p] = "active"
Recognized(q) == Eligible(Caller(q), ask[q].on)

(* The lock of the store is held for as long as the key is lent.            *)
StoreFree(q) == \A other \in Asks : ask[other].pc = "using" => ask[other].on # ask[q].on

To(q, pc) == ask' = [ask EXCEPT ![q].pc = pc]
Done(q) == ask' = [ask EXCEPT ![q] = NoAsk]
ToOrDone(q, goes, pc) == IF goes THEN To(q, pc) ELSE Done(q)

---------------------------------------------------------------------------
(* Sessions and devices, as others leave them. *)

Pairs(u, p) ==
  /\ machine[u][p] = "pending"
  /\ machine' = [machine EXCEPT ![u][p] = "active"]
  /\ UNCHANGED <<credential, wraps, signedIn, active, entered, ask>>

(* The trigger takes the envelopes of a revoked device away. *)
RevokeMachine(u, p) ==
  /\ machine[u][p] = "active"
  /\ machine' = [machine EXCEPT ![u][p] = "revoked"]
  /\ wraps' = [wraps EXCEPT ![u][p] = Nothing]
  /\ UNCHANGED <<credential, signedIn, active, entered, ask>>

Begins(q, p, what, pc) ==
  ask' = [ask EXCEPT ![q] = [NoAsk EXCEPT !.pc = pc, !.what = what, !.on = p]]

(* The sign-in clears first and the sign-out afterwards. *)
AskSignIn(q, p, u) ==
  /\ ask[q] = NoAsk
  /\ ask' = [ask EXCEPT ![q] = [NoAsk EXCEPT !.pc = "clear", !.what = "signin", !.on = p,
                                             !.person = u]]
  /\ UNCHANGED <<cloudPart, signedIn, active, entered>>

CompleteSignIn(q) ==
  /\ ask[q].pc = "session"
  /\ signedIn' = [signedIn EXCEPT ![ask[q].on] = ask[q].person]
  /\ Done(q)
  /\ UNCHANGED <<cloudPart, active, entered>>

SignOut(q, p) ==
  /\ ask[q] = NoAsk /\ signedIn[p] # Nothing
  /\ signedIn' = [signedIn EXCEPT ![p] = Nothing]
  /\ Begins(q, p, "signout", "clear")
  /\ UNCHANGED <<cloudPart, active, entered>>

---------------------------------------------------------------------------
(* The routes on ai/credentials.  Each begins with _business_context. *)

AskAbout(q, p, what, pc) ==
  /\ ask[q] = NoAsk /\ Eligible(signedIn[p], p)
  /\ ask' = [ask EXCEPT ![q] = [NoAsk EXCEPT !.pc = pc, !.what = what, !.on = p,
                                             !.person = signedIn[p]]]
  /\ UNCHANGED <<cloudPart, signedIn, active, entered>>

(* A save or an activation that finds another person signed in clears.      *)
CheckCaller(q) ==
  /\ ask[q].pc = "caller"
  /\ To(q, IF Caller(q) # ask[q].person THEN "clear"
           ELSE IF ask[q].what = "save" THEN "list" ELSE "get")
  /\ UNCHANGED <<cloudPart, signedIn, active, entered>>

(* list_user_ai_credential_devices, and for a save encrypt_api_credential:  *)
(* only devices of the person the key is encrypted for, this one included.  *)
AiDevices(q, version, target) ==
  LET u == Caller(q)  p == ask[q].on IN
  /\ ask[q].pc = "list"
  /\ IF ~Recognized(q) \/ u # ask[q].person THEN Done(q) /\ UNCHANGED entered
     ELSE IF ask[q].what = "save"
       THEN /\ entered < MaxEntered
            /\ entered' = entered + 1
            /\ ask' = [ask EXCEPT ![q].pc = "put", ![q].version = version,
                         ![q].secret = Secret(u, entered'),
                         ![q].targets = {t \in Machines : Eligible(u, t)}]
       ELSE /\ Eligible(u, target)
            /\ ask' = [ask EXCEPT ![q].pc = "get", ![q].targets = {p, target}]
            /\ UNCHANGED entered
  /\ UNCHANGED <<cloudPart, signedIn, active>>

(* get_user_ai_credential: with the envelope of this device or not at all.  *)
Gets(q) ==
  /\ Recognized(q) /\ credential[Caller(q)].version > 0
  /\ wraps[Caller(q)][ask[q].on] # Nothing

(* Mutant: the person is not part of what is authenticated. *)
OpensForCaller(q) == wraps[Caller(q)][ask[q].on] = credential[Caller(q)].secret

(* What was wrapped for another person or another key does not open.        *)
OpensHere(q) ==
  /\ Caller(q) = ask[q].person
  /\ wraps[Caller(q)][ask[q].on] = credential[Caller(q)].secret

GetCredential(q) ==
  /\ ask[q].pc = "get"
  /\ IF Gets(q) /\ OpensHere(q)
       THEN ask' = [ask EXCEPT ![q].pc = IF ask[q].what = "rewrap" THEN "put" ELSE "install",
                               ![q].version = credential[Caller(q)].version,
                               ![q].secret = credential[Caller(q)].secret]
       ELSE Done(q)
  /\ UNCHANGED <<cloudPart, signedIn, active, entered>>

TargetsEligible(u, p, targets) ==
  p \in targets /\ \A t \in targets : Eligible(u, t)

(* put_user_ai_credential: the same version only as it is stored, with      *)
(* envelopes for devices that have none, or the next version with its own.  *)
SameStored(q, old) == ask[q].version = old.version /\ ask[q].secret = old.secret
NextVersion(q, old) == ask[q].version = old.version + 1

Stores(q) ==
  LET u == Caller(q)  p == ask[q].on  old == credential[u] IN
  /\ Recognized(q)
  /\ TargetsEligible(u, p, ask[q].targets) /\ u = ask[q].person
  /\ \/ NextVersion(q, old)
     \/ /\ old.version > 0 /\ SameStored(q, old)
        /\ \A t \in ask[q].targets \ {p} : wraps[u][t] = Nothing

PutCredential(q) ==
  LET u == Caller(q)  secret == ask[q].secret IN
  /\ ask[q].pc = "put"
  /\ IF Stores(q)
       THEN /\ credential' = [credential EXCEPT ![u] = [version |-> ask[q].version, secret |-> secret]]
            /\ wraps' = [wraps EXCEPT ![u] = [t \in Machines |->
                 IF t \in ask[q].targets THEN secret
                 ELSE IF ask[q].version = credential[u].version THEN wraps[u][t] ELSE Nothing]]
            /\ ToOrDone(q, ask[q].what = "save", "clear")
       ELSE Done(q) /\ UNCHANGED <<credential, wraps>>
  /\ UNCHANGED <<machine, signedIn, active, entered>>

DeleteCredential(q) ==
  LET u == Caller(q) IN
  /\ ask[q].pc = "delete"
  /\ IF Recognized(q)
       THEN /\ credential' = [credential EXCEPT ![u] = NoCredential]
            /\ wraps' = [wraps EXCEPT ![u] = [p \in Machines |-> Nothing]]
            /\ To(q, "clear")
       ELSE Done(q) /\ UNCHANGED <<credential, wraps>>
  /\ UNCHANGED <<machine, signedIn, active, entered>>

Install(q) ==
  /\ ask[q].pc = "install" /\ StoreFree(q)
  /\ active' = [active EXCEPT ![ask[q].on] =
       [person |-> ask[q].person, version |-> ask[q].version, secret |-> ask[q].secret]]
  /\ Done(q)
  /\ UNCHANGED <<cloudPart, signedIn, entered>>

ClearActive(q) ==
  /\ ask[q].pc = "clear" /\ StoreFree(q)
  /\ active' = [active EXCEPT ![ask[q].on] = NotActive]
  /\ ToOrDone(q, ask[q].what = "signin", "session")
  /\ UNCHANGED <<cloudPart, signedIn, entered>>

---------------------------------------------------------------------------
(* _lease_ai_runtime: the binding of the active key, checked against the    *)
(* session and the cloud, and then the key itself.                          *)

ReadBinding(q, p) ==
  /\ ask[q] = NoAsk /\ active[p] # NotActive
  /\ \A other \in Asks : ask[other].pc = "using" => ask[other].on # p
  /\ ask' = [ask EXCEPT ![q] = [NoAsk EXCEPT !.pc = "identity", !.what = "use", !.on = p,
                                  !.person = active[p].person, !.version = active[p].version]]
  /\ UNCHANGED <<cloudPart, signedIn, active, entered>>

CheckIdentity(q) ==
  /\ ask[q].pc = "identity"
  /\ To(q, IF Caller(q) = ask[q].person THEN "verify" ELSE "clear")
  /\ UNCHANGED <<cloudPart, signedIn, active, entered>>

VerifyRemote(q) ==
  /\ ask[q].pc = "verify"
  /\ To(q, IF Gets(q) /\ credential[Caller(q)].version = ask[q].version THEN "lease" ELSE "clear")
  /\ UNCHANGED <<cloudPart, signedIn, active, entered>>

BoundAsRead(q) == active[ask[q].on].person = ask[q].person

Lease(q) ==
  LET held == active[ask[q].on] IN
  /\ ask[q].pc = "lease" /\ StoreFree(q)
  /\ IF ~BoundAsRead(q) THEN Done(q) /\ UNCHANGED active
     ELSE IF held.version = ask[q].version
       THEN /\ ask' = [ask EXCEPT ![q].pc = "using", ![q].secret = held.secret]
            /\ UNCHANGED active
       ELSE /\ active' = [active EXCEPT ![ask[q].on] = NotActive]
            /\ Done(q)
  /\ UNCHANGED <<cloudPart, signedIn, entered>>

Return(q) ==
  /\ ask[q].pc = "using" /\ Done(q)
  /\ UNCHANGED <<cloudPart, signedIn, active, entered>>

(* The session outlives the process, the store does not.  A request that    *)
(* fails on its own is one that goes no further.                            *)
RestartMachine(p) ==
  /\ active' = [active EXCEPT ![p] = NotActive]
  /\ ask' = [q \in Asks |-> IF ask[q].on = p THEN NoAsk ELSE ask[q]]
  /\ UNCHANGED <<cloudPart, signedIn, entered>>

CredentialsNext ==
  \/ \E p \in Machines : RestartMachine(p)
  \/ \E u \in Persons, p \in Machines : Pairs(u, p) \/ RevokeMachine(u, p)
  \/ \E q \in Asks, p \in Machines :
       \/ \E u \in Persons : AskSignIn(q, p, u)
       \/ SignOut(q, p) \/ ReadBinding(q, p)
       \/ AskAbout(q, p, "save", "caller") \/ AskAbout(q, p, "rewrap", "list")
       \/ AskAbout(q, p, "activate", "caller") \/ AskAbout(q, p, "delete", "delete")
       \/ \E v \in 1..MaxCredential : AiDevices(q, v, p)
  \/ \E q \in Asks :
       \/ CompleteSignIn(q) \/ CheckCaller(q) \/ GetCredential(q) \/ PutCredential(q) \/ DeleteCredential(q)
       \/ Install(q) \/ ClearActive(q) \/ CheckIdentity(q) \/ VerifyRemote(q) \/ Lease(q)
       \/ Return(q)

CredentialsSpec == CredentialsInit /\ [][CredentialsNext]_credentialVars

---------------------------------------------------------------------------
(* An envelope stands for an active device and opens the key that is        *)
(* stored: none is left of a version before, a deleted row or a device that *)
(* was revoked.                                                             *)
WrapsCurrent ==
  \A u \in Persons, p \in Machines : wraps[u][p] # Nothing =>
    machine[u][p] = "active" /\ credential[u].version > 0 /\ wraps[u][p] = credential[u].secret

(* A key stays with the person who typed it in, in the cloud and in memory, *)
(* and a caller is lent a key of the person whose session it had checked,   *)
(* whoever signs in or out meanwhile.                                       *)
KeyStaysWithPerson ==
  /\ \A u \in Persons : credential[u].version > 0 => credential[u].secret.owner = u
  /\ \A p \in Machines : active[p] # NotActive => active[p].secret.owner = active[p].person
  /\ \A q \in Asks : ask[q].pc = "using" => ask[q].secret.owner = ask[q].person

=============================================================================
