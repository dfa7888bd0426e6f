----------------------------- MODULE MCTagCapture -----------------------------
(***************************************************************************)
(* A ring of four samples read two at a time, an episode of two periods    *)
(* after a countdown of one, a sample counter of four bits.                *)
(***************************************************************************)
EXTENDS TagCapture
=============================================================================
