-------------------------- MODULE MCHoleActivation --------------------------
(***************************************************************************)
(* Instances of HoleActivation for TLC.  Balls, holes (when all readers    *)
(* are enabled) and sessions are interchangeable.                          *)
(***************************************************************************)
EXTENDS HoleActivation, TLC

Alike == Permutations(Balls) \cup Permutations(Holes) \cup Permutations(Sessions)

=============================================================================
