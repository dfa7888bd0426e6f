---------------------------- MODULE PickupDetector ----------------------------
(***************************************************************************)
(* The stationary-start pickup detector V0 (motion/pickup_v0.py): how a    *)
(* capture file is read and how evaluate_pickup_v0 decides.                *)
(*                                                                         *)
(* Time is counted in sample periods of the expected source rate.  The     *)
(* samples that are active (beyond either onset threshold) and those whose *)
(* gyroscope is saturated are sets of indices.  Statistics over the samples *)
(* are inputs: whether a baseline that is not all at rest counts as        *)
(* stationary, and whether the three rules pass.                           *)
(***************************************************************************)
EXTENDS Integers, FiniteSets, Sequences, SequencesExt

CONSTANTS
    Baseline,       \* required_pre_go_stationary_s, in samples
    SearchStart,    \* onset.search_start_after_go_s
    Lookahead,      \* onset.lookahead_samples
    MinActive,      \* onset.minimum_active_samples
    ImpulseBefore,  \* vertical_impulse window, relative to the onset
    ImpulseAfter,
    GyroAfter       \* gyro_shape window, from the onset

ASSUME PickupAssumption ==
    /\ {Baseline, SearchStart, Lookahead, MinActive, ImpulseBefore, ImpulseAfter, GyroAfter}
         \subseteq Nat
    /\ 0 < MinActive /\ MinActive <= Lookahead /\ 0 < Baseline

None == -1

-----------------------------------------------------------------------------
(***************************************************************************)
(* read_capture_jsonl.  A line of a capture is a record with a kind; the   *)
(* envelope is what the evaluation sees of the file.                       *)
(***************************************************************************)

(* The members of s at the places in I, in order.                          *)
Picked(s, I) ==
    LET kept[n \in 0 .. Len(s)] ==
          IF n = 0 THEN <<>>
          ELSE IF n \in I THEN Append(kept[n - 1], s[n]) ELSE kept[n - 1]
    IN kept[Len(s)]

Lines(file, kind) == {i \in DOMAIN file : file[i].kind = kind}
OfKind(file, kind) == Picked(file, Lines(file, kind))

ReadCapture(file) ==
    LET marker == OfKind(file, "marker")
        window == OfKind(file, "window")
        result == OfKind(file, "result")
        motion == OfKind(file, "motion")
        labels == {file[i].label : i \in DOMAIN file} \ {""}
        warnings ==
            (IF result = <<>> THEN {"missing_capture_result"} ELSE {})
            \cup (IF labels = {} THEN {"missing_episode_label"} ELSE {})
            \cup (IF Cardinality(labels) > 1 THEN {"multiple_episode_labels"} ELSE {})
            \cup (IF Len(marker) > 1 THEN {"multiple_action_start_markers"} ELSE {})
            \cup (IF marker # <<>> /\ window # <<>> /\ marker[1].t # window[1].t
                  THEN {"action_start_marker_mismatch"} ELSE {})
    IN [samples  |-> [i \in DOMAIN motion |-> motion[i].sample],
        label    |-> IF Cardinality(labels) = 1 THEN CHOOSE l \in labels : TRUE ELSE "",
        go       |-> IF Len(marker) = 1 THEN marker[1].t
                     ELSE IF Len(window) = 1 THEN window[1].t ELSE None,
        passed   |-> result # <<>> /\ Last(result).status = "PASS",
        warnings |-> warnings]

-----------------------------------------------------------------------------
(***************************************************************************)
(* evaluate_pickup_v0 with the frozen detector configuration, in the order *)
(* of its returns.                                                         *)
(***************************************************************************)

(* abs(observed - expected) > expected * tolerance, with a tolerance of a  *)
(* tenth.                                                                  *)
RateUnexpected(s) ==
    LET n == Len(s) - 1
        d == s[Len(s)].t - s[1].t
        off == IF n > d THEN n - d ELSE d - n
    IN d <= 0 \/ 10 * off > d

StructuralReasons(c) ==
    LET s == c.samples
        Pair(P(_, _)) == \E i \in 1 .. Len(s) - 1 : P(s[i], s[i + 1])
        gap(a, b) == b.seq # a.seq + 1
        back(a, b) == b.t <= a.t
    IN (IF ~c.passed THEN {"capture_not_pass"} ELSE {})
       \cup (IF c.go = None THEN {"missing_device_side_go_marker"} ELSE {})
       \cup (IF Len(s) < 2 THEN {"insufficient_samples"}
             ELSE (IF Pair(gap) THEN {"sequence_gap_or_reordering"} ELSE {})
                  \cup (IF Pair(back) THEN {"source_time_regression"} ELSE {})
                  \cup (IF \E i \in DOMAIN s : ~s[i].ok
                        THEN {"sensor_invalid_or_error_bits_nonzero"} ELSE {})
                  \cup (IF RateUnexpected(s) THEN {"unexpected_source_rate"} ELSE {})
                  \cup (c.warnings \ {"missing_capture_result"}))

(* What the manifest says of the episode against what the capture says.    *)
LabelReasons(c, manifest, unsupported) ==
    (IF manifest # "" /\ c.label # "" /\ manifest # c.label
     THEN {"manifest_capture_label_mismatch"} ELSE {})
    \cup (IF (IF manifest # "" THEN manifest ELSE c.label) \in unsupported
          THEN {"unsupported_rolling_start_path"} ELSE {})

(* The samples i of s with from <= t < to.                                 *)
SliceTime(s, from, to) == {i \in DOMAIN s : from <= s[i].t /\ s[i].t < to}

(* _find_onset: the first sample from which enough of the samples looked   *)
(* ahead are active.                                                       *)
OnsetAt(s, active, i) ==
    /\ i + Lookahead - 1 <= Len(s)
    /\ Cardinality(active \cap i .. i + Lookahead - 1) >= MinActive

Onsets(s, active, go) ==
    {i \in DOMAIN s : s[i].t >= go + SearchStart /\ OnsetAt(s, active, i)}

Least(S) == CHOOSE i \in S : \A j \in S : i <= j

AtLeastTwo(n) == IF n < 2 THEN 2 ELSE n

(* Both feature windows hold at least 80 % of the samples they should.     *)
WindowsCovered(s, onset) ==
    /\ Cardinality(SliceTime(s, onset - ImpulseBefore, onset + ImpulseAfter))
         >= AtLeastTwo(((ImpulseBefore + ImpulseAfter) * 8) \div 10)
    /\ Cardinality(SliceTime(s, onset, onset + GyroAfter)) >= AtLeastTwo((GyroAfter * 8) \div 10)

Unknown(reasons) == [decision |-> "UNKNOWN", reasons |-> reasons]

(* The rules of a capture whose onset is at sample i.                      *)
Shape(s, i, clipped, passing) ==
    IF ~WindowsCovered(s, s[i].t) THEN Unknown({"insufficient_feature_window"})
    ELSE IF clipped \cap SliceTime(s, s[i].t, s[i].t + GyroAfter) # {}
    THEN Unknown({"bmi270_gyro_clipping_inside_feature_window"})
    ELSE IF passing THEN [decision |-> "PICKUP_SUSPECTED", reasons |-> {}]
    ELSE [decision |-> "NOT_PICKUP", reasons |-> {"rules"}]

(* The baseline: at least 80 % of its samples, and quiet, which stands for *)
(* its duration and its two statistics.                                    *)
BaselineOf(s, go) == SliceTime(s, go - Baseline, go)

BaselineShort(b) == 10 * Cardinality(b) < 8 * Baseline

(* What the samples may measure: a baseline without activity is quiet, and *)
(* what saturates the gyroscope is activity.                               *)
Measures(c) ==
    {m \in [active : SUBSET DOMAIN c.samples, clipped : SUBSET DOMAIN c.samples,
            quiet : BOOLEAN, passing : BOOLEAN] :
       /\ m.clipped \in {{}, m.active}
       /\ BaselineOf(c.samples, c.go) \cap m.active = {} => m.quiet}

Measured(c, m) ==
    LET s == c.samples
        onsets == Onsets(s, m.active, c.go)
    IN IF BaselineShort(BaselineOf(s, c.go))
       THEN Unknown({"insufficient_pre_go_baseline_samples"})
       ELSE IF ~m.quiet THEN Unknown({"pre_go_baseline_not_stationary"})
       ELSE IF onsets = {} THEN [decision |-> "NOT_PICKUP", reasons |-> {"no_motion_onset"}]
       ELSE Shape(s, Least(onsets), m.clipped, m.passing)

(* Fault: the verdict of the capture itself is not looked at.              *)
EvaluateAnyCapture(c, manifest, unsupported) ==
    LET reasons == (StructuralReasons(c) \ {"capture_not_pass"})
                   \cup LabelReasons(c, manifest, unsupported)
    IN IF reasons # {} THEN {Unknown(reasons)} ELSE {Measured(c, m) : m \in Measures(c)}

EvaluatePickup(c, manifest, unsupported) ==
    LET reasons == StructuralReasons(c) \cup LabelReasons(c, manifest, unsupported)
    IN IF reasons # {} THEN {Unknown(reasons)} ELSE {Measured(c, m) : m \in Measures(c)}
=============================================================================
