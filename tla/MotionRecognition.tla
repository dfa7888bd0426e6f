-------------------------- MODULE MotionRecognition ---------------------------
(***************************************************************************)
(* The motion recognizer V1 (motion/recognizer_v1.py): feature frames taken *)
(* from the sample stream as it arrives, selective state emissions, the    *)
(* explicit-duration Viterbi decoder and the events derived from its path. *)
(*                                                                         *)
(* Scores are kept as costs, the negated log probabilities, in natural     *)
(* numbers of any size.  One frame ends at each sample period.  What a     *)
(* frame's features say of the states is an input.                         *)
(***************************************************************************)
EXTENDS Integers, Sequences

CONSTANTS
    States,         \* config.states, in order
    Start,          \* start cost of a state
    Transition,     \* <<state, state>> -> cost; a pair left out is not allowed
    Minimum,        \* state -> minimum_frames
    Maximum,        \* state -> maximum_frames
    Deviation,      \* state -> number of frames -> cost of its distance from the
                    \* preferred number, log_duration_penalty * abs(log(ratio))
    Labels,         \* spec.labels of the linear model
    Windows,        \* windows_s, in sample periods
    UnknownFloor,   \* cost of UNKNOWN where the model has no such label
    OtherCost,      \* cost of a label the model does not choose
    Frames          \* Bound: frames of the capture.

StateSet == {States[i] : i \in DOMAIN States}

Infinite == -1      \* the cost that stands for NEG_INF

Cost == Nat \cup {Infinite}

ASSUME RecognizerAssumption ==
    /\ DOMAIN States = 1 .. Len(States) /\ Len(States) \in Nat
    /\ \A i, j \in DOMAIN States : States[i] = States[j] => i = j
    /\ Start \in [StateSet -> Cost]
    /\ DOMAIN Transition \subseteq StateSet \X StateSet
    /\ \A pair \in DOMAIN Transition : Transition[pair] \in Nat
    /\ Minimum \in [StateSet -> Nat \ {0}] /\ Maximum \in [StateSet -> Nat \ {0}]
    /\ \A s \in StateSet : \A n \in Minimum[s] .. Maximum[s] : Deviation[s][n] \in Nat
    /\ Labels \cup {"UNKNOWN"} = StateSet
    /\ UnknownFloor \in Nat /\ OtherCost \in Nat
    /\ Frames \in Nat \ {0} /\ Windows \subseteq Nat \ {0} /\ Windows # {}

VARIABLES
    pc,         \* "observe", "decode" or "done"
    now,        \* sample periods passed
    samples,    \* the samples that arrived
    frames,     \* quality_ok of each feature frame
    emissions,  \* the cost of each state in each frame
    entries,    \* entries[end][state]: the two cheapest paths ending there
    result      \* the decoded path, its score and its runner-up

vars == <<pc, now, samples, frames, emissions, entries, result>>

NoResult == [path |-> <<>>, score |-> Infinite, runnerUp |-> Infinite]

Init ==
    /\ pc = "observe" /\ now = 0 /\ samples = <<>> /\ frames = <<>> /\ emissions = <<>>
    /\ entries = <<>> /\ result = NoResult

-----------------------------------------------------------------------------
(***************************************************************************)
(* extract_causal_multiscale_frame: the quality of the frame that ends at a *)
(* time.                                                                   *)
(***************************************************************************)

(* Fault: samples after the end of the frame are looked at too.            *)
WholeWindow(stream, end, width) == {i \in DOMAIN stream : end - width <= stream[i].t}

CausalWindow(stream, end, width) ==
    {i \in DOMAIN stream : end - width <= stream[i].t /\ stream[i].t <= end}

Widest == CHOOSE w \in Windows : \A v \in Windows : v <= w

AtLeastTwo(S) == \E i \in S : S \ {i} # {}

QualityOk(stream, end) ==
    LET causal == CausalWindow(stream, end, Widest) IN
    /\ AtLeastTwo(causal)
    /\ \A i \in causal : i + 1 \in causal =>
         stream[i + 1].seq = stream[i].seq + 1 /\ stream[i].t < stream[i + 1].t
    /\ \A w \in Windows :
         LET window == CausalWindow(stream, end, w) IN
         AtLeastTwo(window) /\ \A i \in window : stream[i].ok

-----------------------------------------------------------------------------
(***************************************************************************)
(* SelectiveLinearSoftmax.predict.  The features decide which label is     *)
(* likeliest and whether it is confident; a frame that fails its gate, has *)
(* a feature missing or not finite, or is not confident, is UNKNOWN and    *)
(* nothing else.                                                           *)
(***************************************************************************)
Abstained == [s \in StateSet |-> IF s = "UNKNOWN" THEN 0 ELSE Infinite]

Likely(best) ==
    [s \in StateSet |-> IF s = best THEN 0
                        ELSE IF s \in Labels THEN OtherCost ELSE UnknownFloor]

(* Fault: the quality of a frame is left to the caller.                    *)
Ungated(ok) == {Abstained} \cup {Likely(best) : best \in Labels}

Predictions(ok) == {Abstained} \cup (IF ok THEN {Likely(best) : best \in Labels} ELSE {})

Observe ==
    /\ pc = "observe" /\ now < Frames
    /\ now' = now + 1
    /\ \E how \in {"valid", "invalid", "lost"} :
        samples' = (IF how = "lost" THEN samples
                    ELSE Append(samples, [seq |-> now + 1, t |-> now + 1, ok |-> how = "valid"]))
    /\ LET ok == QualityOk(samples', now + 1) IN
       /\ frames' = Append(frames, ok)
       /\ \E costs \in Predictions(ok) : emissions' = Append(emissions, costs)
    /\ UNCHANGED <<pc, entries, result>>

-----------------------------------------------------------------------------
(***************************************************************************)
(* decode_hsmm.                                                            *)
(***************************************************************************)
EndObservation ==
    /\ pc = "observe" /\ now > 0
    /\ pc' = "decode"
    /\ UNCHANGED <<now, samples, frames, emissions, entries, result>>

Plus(a, b) == IF a = Infinite \/ b = Infinite THEN Infinite ELSE a + b

(* The total of cost[after + 1] .. cost[last].                             *)
Total(cost, after, last) ==
    LET sum[i \in after .. last] == IF i = after THEN 0 ELSE Plus(sum[i - 1], cost[i])
    IN  sum[last]

(* DurationSpec.score.                                                     *)
Dwell(s, n) ==
    IF n < Minimum[s] \/ n > Maximum[s] THEN Infinite ELSE Deviation[s][n]

(* A dwell in a state over the frames start + 1 .. end.                    *)
SegmentCost(s, start, end) ==
    Plus(Dwell(s, end - start), Total([i \in 1 .. now |-> emissions[i][s]], start, end))

TransitionCost(a, b) == IF <<a, b>> \in DOMAIN Transition THEN Transition[<<a, b>>] ELSE Infinite

(* A path is its last dwell and the retained path it continues: the place  *)
(* of that path's state in States and its rank there, 0 for the first dwell.*)
Entry(cost, start, previous, rank) ==
    [cost |-> cost, start |-> start, previous |-> previous, rank |-> rank]

First(s, end) == Entry(Plus(Start[s], SegmentCost(s, 0, end)), 0, 0, 0)

Continued(s, end, start, p, r) ==
    Entry(Plus(Plus(entries[start][States[p]][r].cost, TransitionCost(States[p], s)),
               SegmentCost(s, start, end)),
          start, p, r)

Candidates(s, end) ==
    LET continued ==
          UNION {{Continued(s, end, start, p, r) : r \in DOMAIN entries[start][States[p]]} :
                   start \in 1 .. end - 1, p \in {q \in DOMAIN States : States[q] # s}}
    IN  {e \in {First(s, end)} \cup continued : e.cost # Infinite}

(* candidates.sort is stable: ties keep the order of duration, then of the *)
(* previous state, then of its rank.                                       *)
Before(e, f) ==
    \/ e.cost < f.cost
    \/ e.cost = f.cost /\ e.start > f.start
    \/ e.cost = f.cost /\ e.start = f.start /\ e.previous < f.previous
    \/ e.cost = f.cost /\ e.start = f.start /\ e.previous = f.previous /\ e.rank < f.rank

Foremost(S) == CHOOSE e \in S : \A f \in S : ~Before(f, e)

(* Fault: one path is retained for each state.                             *)
BestOnly(S) == IF S = {} THEN <<>> ELSE <<Foremost(S)>>

TopTwo(S) ==
    IF S = {} THEN <<>>
    ELSE LET e == Foremost(S) IN
         IF S = {e} THEN <<e>> ELSE <<e, Foremost(S \ {e})>>

Column(end) == [s \in StateSet |-> TopTwo(Candidates(s, end))]

DecodeFrame ==
    /\ pc = "decode" /\ Len(entries) < now
    /\ entries' = Append(entries, Column(Len(entries) + 1))
    /\ UNCHANGED <<pc, now, samples, frames, emissions, result>>

(* The two cheapest of the entries of the last frame.                      *)
FinalPaths ==
    TopTwo(UNION {{Entry(entries[now][States[p]][r].cost, now, p, r) :
                     r \in DOMAIN entries[now][States[p]]} : p \in DOMAIN States})

(* The state sequence of each retained path, back to the first frame.      *)
RetainedPaths ==
    LET path[end \in 1 .. now] ==
          [s \in StateSet |-> [r \in DOMAIN entries[end][s] |->
             LET e == entries[end][s][r] IN
             [i \in 1 .. end |-> IF i > e.start THEN s
                                ELSE path[e.start][States[e.previous]][e.rank][i]]]]
    IN  path

Traceback(final) == RetainedPaths[now][States[final.previous]][final.rank]

(* With no feasible path every frame is UNKNOWN.                           *)
Result ==
    IF FinalPaths = <<>> THEN [NoResult EXCEPT !.path = [i \in 1 .. now |-> "UNKNOWN"]]
    ELSE [path |-> Traceback(FinalPaths[1]), score |-> FinalPaths[1].cost,
          runnerUp |-> IF Len(FinalPaths) > 1 THEN FinalPaths[2].cost ELSE Infinite]

Conclude ==
    /\ pc = "decode" /\ Len(entries) = now
    /\ pc' = "done"
    /\ result' = Result
    /\ UNCHANGED <<now, samples, frames, emissions, entries>>

Next == Observe \/ EndObservation \/ DecodeFrame \/ Conclude

Spec == Init /\ [][Next]_vars

-----------------------------------------------------------------------------
(***************************************************************************)
(* derive_transition_events: what the path allows, whatever the event head *)
(* makes likely.                                                           *)
(***************************************************************************)
EventsOf(was, is) ==
    (IF was = "STATIONARY" /\ is = "ROLLING" THEN {"MOTION_ONSET", "IMPACT_CANDIDATE"} ELSE {})
    \cup (IF is = "CARRIED" /\ was # "CARRIED" THEN {"PICKUP_TRANSITION"} ELSE {})
    \cup (IF is = "CARRIED" /\ was \in {"ROLLING", "SETTLING"} THEN {"ROLLING_PICKUP"} ELSE {})
    \cup (IF was = "ROLLING" /\ is \in {"ROLLING", "SETTLING"}
          THEN {"COLLISION_OR_STEP_CANDIDATE"} ELSE {})
    \cup (IF was = "AIRBORNE" /\ is # "AIRBORNE" THEN {"DROP_LANDING_CANDIDATE"} ELSE {})

Events ==
    UNION {EventsOf(result.path[IF i = 1 THEN 1 ELSE i - 1], result.path[i]) \X {i} :
             i \in {j \in DOMAIN result.path : frames[j]}}

-----------------------------------------------------------------------------
(* The cost of the first n states of a path, from the definition of the    *)
(* model: the emission of each frame and, at the last frame of each run of *)
(* a state, how the run was entered and how long it lasted.                *)
RunStart(path, end) ==
    CHOOSE start \in 0 .. end - 1 :
        /\ \A i \in start + 1 .. end : path[i] = path[end]
        /\ start = 0 \/ path[start] # path[end]

RunCost(path, end) ==
    LET start == RunStart(path, end) IN
    Plus(IF start = 0 THEN Start[path[end]] ELSE TransitionCost(path[start], path[end]),
         Dwell(path[end], end - start))

PathCost(path, n) ==
    Total([i \in 1 .. n |-> Plus(emissions[i][path[i]],
                                IF i = n \/ path[i + 1] # path[i] THEN RunCost(path, i) ELSE 0)],
          0, n)

(* The decoder is exact: its path is a cheapest one of all state sequences, *)
(* with the score it reports, and the runner-up is the true second best, so *)
(* that the margin never overstates the confidence.  Without a feasible    *)
(* sequence it answers UNKNOWN.                                            *)
NoCheaper(path, cost) == PathCost(path, now) = Infinite \/ PathCost(path, now) >= cost

DecodeIsExact ==
    pc = "done" =>
        LET paths == [1 .. now -> StateSet]
            others == paths \ {result.path}
        IN IF \A p \in paths : PathCost(p, now) = Infinite
           THEN result.path = [i \in 1 .. now |-> "UNKNOWN"] /\ result.score = Infinite
           ELSE /\ result.path \in paths /\ PathCost(result.path, now) = result.score
                /\ \A p \in paths : NoCheaper(p, result.score)
                /\ IF result.runnerUp = Infinite THEN \A p \in others : PathCost(p, now) = Infinite
                   ELSE /\ \E p \in others : PathCost(p, now) = result.runnerUp
                        /\ \A p \in others : NoCheaper(p, result.runnerUp)

(* An event that marks a change of state is reported on a usable frame only,*)
(* between two states that were each held for at least their minimum, and  *)
(* neither dwell holds an unusable frame, unless it is a dwell in UNKNOWN. *)
Held(i, j) ==
    /\ j - i + 1 >= Minimum[result.path[i]]
    /\ \A k \in i .. j : result.path[k] = result.path[i]
    /\ result.path[i] = "UNKNOWN" \/ \A k \in i .. j : frames[k]

EventsFollowDwells ==
    pc = "done" => \A x \in Events :
        /\ frames[x[2]]
        /\ x[1] # "COLLISION_OR_STEP_CANDIDATE" =>
             /\ \E i \in 1 .. x[2] - 1 : Held(i, x[2] - 1)
             /\ \E j \in x[2] .. now : Held(x[2], j)

(* A frame taken while the capture went on is the frame taken from the     *)
(* whole capture afterwards: what training sees is what a live Ball sees.  *)
FramesAreCausal ==
    pc # "observe" => \A i \in DOMAIN frames : frames[i] = QualityOk(samples, i)
=============================================================================
