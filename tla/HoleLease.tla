----------------------------- MODULE HoleLease ------------------------------
(***************************************************************************)
(* What venue activation promises, without readers, tokens, credentials or *)
(* clocks: an ordinary hole is held by at most one Ball, a Ball holds at   *)
(* most one hole, and every hold of a hole carries an epoch of its own, so *)
(* that a command naming an earlier epoch can be told from a current one.  *)
(***************************************************************************)
EXTENDS Naturals

CONSTANTS Balls, Holes,
          NoBall    \* nobody: not one of Balls

VARIABLES
    holder,     \* holder[h]: the Ball that holds h, or NoBall
    epoch       \* epoch[h]: how many times h has been granted

leaseVars == <<holder, epoch>>

Init ==
    /\ holder = [h \in Holes |-> NoBall]
    /\ epoch = [h \in Holes |-> 0]

Grant(h, b) ==
    /\ holder[h] = NoBall
    /\ \A g \in Holes : holder[g] # b
    /\ holder' = [holder EXCEPT ![h] = b]
    /\ epoch' = [epoch EXCEPT ![h] = @ + 1]

(* Any set of held holes may be freed at once; the epochs stay.            *)
Free(S) ==
    /\ \A h \in S : holder[h] # NoBall
    /\ holder' = [h \in Holes |-> IF h \in S THEN NoBall ELSE holder[h]]
    /\ UNCHANGED epoch

Next ==
    \/ \E h \in Holes, b \in Balls : Grant(h, b)
    \/ \E S \in SUBSET Holes : Free(S)

Spec == Init /\ [][Next]_leaseVars

=============================================================================
