------------------------------ MODULE MCDevices ------------------------------
(***************************************************************************)
(* Model checking of what a user's devices do: the sync cycles of two      *)
(* devices, the enrollment of devices, and the session of a desktop with   *)
(* the cloud.  The parts share no state: a behaviour is one of the part it  *)
(* begins with, and the other parts stay as they begin.                    *)
(***************************************************************************)
EXTENDS SyncSystem, Enrollment, CloudSession, TLC

CONSTANTS d1, d2,
          Parts,       \* the parts to explore
          Symmetric    \* sets of values that can be exchanged

VARIABLE part

Symmetry == UNION {Permutations(S) : S \in Symmetric}

\* One sync thread per device, named after it.
OwnDevice == [c \in Cycles |-> c]

\* Bound of the cycles: a fault, or as many edits as it takes to thaw a record.
FaultOrLast == faults = 0 \/ lastId <= 3

(* Bounds of the enrollment: the key of the local organization and the       *)
(* cloud's are not both rotated, and of the calls that only read and check   *)
(* one is under way.                                                         *)
OneRotates == ~(localKey[First] > 1 /\ vault[First][2] # KeyOf(2) /\ cloudKey = 2)

OneChecks == \A q1, q2 \in Calls : q1 # q2 =>
  ~({call[q1].pc, call[q2].pc} \subseteq {"resolve", "enter", "current", "listed", "granted"})

devicesVars == <<part, sysVars, enrollVars, sessionVars>>

DevicesInit == /\ part \in Parts
               /\ SystemInit /\ EnrollInit /\ SessionInit

DevicesNext ==
  \/ /\ part = "cycles" /\ SystemNext /\ FaultOrLast'
     /\ UNCHANGED <<part, enrollVars, sessionVars>>
  \/ /\ part = "enrollment" /\ EnrollNext /\ OneRotates' /\ OneChecks'
     /\ UNCHANGED <<part, sysVars, sessionVars>>
  \/ /\ part = "session" /\ SessionNext
     /\ UNCHANGED <<part, sysVars, enrollVars>>

DevicesSpec == DevicesInit /\ [][DevicesNext]_devicesVars

=============================================================================
