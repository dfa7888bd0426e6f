-------------------------- MODULE MCVenueApplication --------------------------
(***************************************************************************)
(* Instances of VenueApplication for TLC.  Threads are interchangeable.    *)
(***************************************************************************)
EXTENDS VenueApplication, TLC

CONSTANTS teeEdge, cupEdge

MCEvidenceOf ==
    teeEdge :> [action |-> "tee", ball |-> 1] @@ cupEdge :> [action |-> "cup", ball |-> 1]

ThreadsAlike == Permutations(Threads)

=============================================================================
