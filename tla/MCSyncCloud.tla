---------------------------- MODULE MCSyncCloud ----------------------------
(***************************************************************************)
(* Model checking of SyncCloud: the sets of identifiers are model values   *)
(* and interchangeable.                                                    *)
(***************************************************************************)
EXTENDS SyncCloud, TLC

Symmetry == Permutations(Records) \cup Permutations(VersionIds)
              \cup Permutations(EventIds)

=============================================================================
