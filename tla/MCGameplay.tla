----------------------------- MODULE MCGameplay -----------------------------
(***************************************************************************)
(* Instances of Gameplay for TLC.                                          *)
(*                                                                         *)
(* Event ids are interchangeable: the engine only compares them.  TLC      *)
(* explores the states in which the seen ids are an initial segment, one   *)
(* representative of each class of states that differ by renaming ids.     *)
(***************************************************************************)
EXTENDS Gameplay, TLC

CONSTANTS
    MaxEvents,      \* bound: evidence events accepted in one behaviour
    ramp, water     \* a bonus of the first hole, a hazard of the last

MCEventIds == 1 .. MaxEvents

MCHoleFeatures == [h \in Holes |-> (IF h = 1 THEN {ramp} ELSE {})
                                    \cup (IF h = NumHoles THEN {water} ELSE {})]
MCPointsDelta == ramp :> 10 @@ water :> -5
MCMaxTriggers == ramp :> 1 @@ water :> 2
MCAdjustments == {-3}

(* A dense curve and a sparse one.                                         *)
MCScoreCurve == [h \in Holes |-> IF h = 1 THEN 1 :> 100 @@ 2 :> 60
                                  ELSE 2 :> 50 @@ 4 :> 20]

PlayersAlike == Permutations(Players)

(* A fresh id is the least that has not been seen.                         *)
MCNext ==
    \E id \in 1 .. MaxEvents :
        /\ id <= Cardinality(seen) + 1
        /\ \/ DuplicateIgnored(id)
           \/ \E h \in Holes, p \in Players : ProcessFor(id, h, p)

MCSpec == Init /\ [][MCNext]_vars

(* When play starts matters to playMs alone: the clock that runs backwards *)
(* is left to the first hole.                                              *)
LastHoleStartsAtOne == \A p \in Players : play[NumHoles][p].started \in {NoTime, 1}

=============================================================================
