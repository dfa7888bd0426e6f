---------------------------- MODULE MCFieldCapture ----------------------------
(***************************************************************************)
(* An instance of FieldCapture for TLC: two repetitions, two batches.      *)
(***************************************************************************)
EXTENDS FieldCapture
=============================================================================
