----------------------------- MODULE MCTagSensors -----------------------------
(***************************************************************************)
(* Instances of TagSensors for TLC.                                        *)
(***************************************************************************)
EXTENDS TagSensors

=============================================================================
