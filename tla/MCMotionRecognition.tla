-------------------------- MODULE MCMotionRecognition --------------------------
(***************************************************************************)
(* Four states, one of them UNKNOWN without a label of its own; a roll and *)
(* a rest must last two frames, a carry at least two and at most three,    *)
(* and four frames without a verdict leave no feasible path for a fifth.   *)
(***************************************************************************)
EXTENDS MotionRecognition

MCStates == <<"STATIONARY", "ROLLING", "CARRIED", "UNKNOWN">>
Named == {MCStates[i] : i \in DOMAIN MCStates}
MCStart == [s \in Named |-> CASE s = "STATIONARY" -> 0 [] s = "UNKNOWN" -> 1 [] OTHER -> 3]
MCTransition ==
    [p \in (Named \X Named)
           \ ({<<"STATIONARY", "STATIONARY">>, <<"UNKNOWN", "UNKNOWN">>}
              \cup {<<"CARRIED", "ROLLING">>, <<"ROLLING", "STATIONARY">>})
        |-> IF "UNKNOWN" \in {p[1], p[2]} THEN 2 ELSE 1]
MCMinimum == [s \in Named |-> IF s = "UNKNOWN" THEN 1 ELSE 2]
MCMaximum == [s \in Named |-> CASE s = "CARRIED" -> 3 [] s = "UNKNOWN" -> 4 [] OTHER -> 9]
MCDeviation ==
    [s \in Named |-> [n \in 1 .. 9 |->
        LET preferred == IF s = "UNKNOWN" THEN 1 ELSE 3 IN
        IF n > preferred THEN n - preferred ELSE preferred - n]]
=============================================================================
