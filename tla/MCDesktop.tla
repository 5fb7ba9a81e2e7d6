------------------------------ MODULE MCDesktop ------------------------------
(***************************************************************************)
(* Model checking of parts that share no state, on the desktop, in the     *)
(* server's process and in the cloud: a behaviour is one of the part it    *)
(* begins with, and the other parts stay as they begin.                    *)
(***************************************************************************)
EXTENDS KeyRing, SnapshotImport, BackgroundJobs, SignedObjects,
        Credentials, TLC

CONSTANTS Parts,       \* the parts to explore
          Symmetric    \* sets of values that can be exchanged

VARIABLES part,
          met     \* two requests of the credentials were under way at once

Symmetry == UNION {Permutations(S) : S \in Symmetric}

(* A bound: once two requests were under way at once, no other begins. *)
OneOverlap == overlapped => \A q \in Requests : task[q] = Idle => task'[q] = Idle

(* Every job under one lock of the process. *)
OneStripe == [j \in Jobs |-> CHOOSE s \in Stripes : TRUE]

(* Bounds of the credentials: of the persons one has a single machine, which *)
(* stays active, and two requests overlap once: after that none begins.      *)
Someone == CHOOSE u \in Persons : TRUE
Home == CHOOSE p \in Machines : TRUE

OneAtHome ==
  /\ \A u \in Persons \ {Someone}, p \in Machines \ {Home} :
       /\ machine[u][Home] = "active" /\ machine[u][p] = "pending"
       /\ \A q \in Asks : ~(ask[q].what = "signin" /\ ask[q].on = p /\ ask[q].person = u)
  /\ \A q \in Asks : ask[q].what = "signin" => signedIn[ask[q].on] # ask[q].person

OneMeeting ==
  /\ met' = (met \/ Cardinality({q \in Asks : ask[q] # NoAsk}) > 1)
  /\ met => \A q \in Asks : ask[q] = NoAsk => ask'[q] = NoAsk

AiInit ==
  /\ CredentialsInit /\ met = FALSE
  /\ machine = [u \in Persons |-> [p \in Machines |-> IF p = Home THEN "active" ELSE "pending"]]

aiVars == <<credentialVars, met>>

DesktopInit == part \in Parts /\ RingInit /\ SnapshotInit /\ JobsInit /\ ObjectsInit /\ AiInit

desktopVars == <<part, ringVars, snapshotVars, jobVars, objectVars, aiVars>>

DesktopNext ==
  \/ /\ part = "keys" /\ RingNext /\ OneOverlap
     /\ UNCHANGED <<part, snapshotVars, jobVars, objectVars, aiVars>>
  \/ part = "import" /\ SnapshotNext /\ UNCHANGED <<part, ringVars, jobVars, objectVars, aiVars>>
  \/ part = "jobs" /\ JobsNext /\ UNCHANGED <<part, ringVars, snapshotVars, objectVars, aiVars>>
  \/ part = "objects" /\ ObjectsNext /\ UNCHANGED <<part, ringVars, snapshotVars, jobVars, aiVars>>
  \/ /\ part = "credentials" /\ CredentialsNext /\ OneAtHome' /\ OneMeeting
     /\ UNCHANGED <<part, ringVars, snapshotVars, jobVars, objectVars>>

DesktopSpec == DesktopInit /\ [][DesktopNext]_desktopVars

=============================================================================
