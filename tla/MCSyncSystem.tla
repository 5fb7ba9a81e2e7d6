---------------------------- MODULE MCSyncSystem ----------------------------
(***************************************************************************)
(* Model checking of SyncSystem.  Identifiers are the numbers in which     *)
(* they are drawn; 0 is null.                                              *)
(***************************************************************************)
EXTENDS SyncSystem, TLC

CONSTANTS d1, d2, again

\* One sync thread per device, named after it.
OwnDevice == [c \in Cycles |-> c]

\* Two threads on d1, as when a request is issued again before it ended.
TwoOnFirst == [c \in Cycles |-> IF c = d2 THEN d2 ELSE d1]

DeviceSymmetry == Permutations(Devices)

=============================================================================
