---------------------------- MODULE MCRunRecording ----------------------------
(***************************************************************************)
(* An instance of RunRecording for TLC: a capture of three serial lines,   *)
(* each with all of its identity, none or all but one field, two boots of  *)
(* the device and a dropped line, limited to two records or not; a         *)
(* recorder that appends three records out of a round of one hole with a   *)
(* second player, redelivered or in any order, and records that are        *)
(* quarantined, passed over or fatal.                                      *)
(***************************************************************************)
EXTENDS RunRecording, TLC

CONSTANTS p1, p2, ramp

MCHoleFeatures == 1 :> {ramp}
MCPointsDelta == ramp :> 10
MCMaxTriggers == ramp :> 1
MCScoreCurve == <<1 :> 100>>

Valid(id, semantic, player) ==
    [type |-> "evidence_event", version |-> "1.1", bad |-> "", id |-> id, semantic |-> semantic,
     hole |-> 1, player |-> player, time |-> 1, feature |-> ramp, delta |-> 5]

Tee == [Valid("tee", "tee.presented", p1) EXCEPT !.type = "gameplay_event"]
Stroke == Valid("stroke", "stroke.confirmed", p1)
Bonus == Valid("bonus", "feature.confirmed", p1)
Adjust == Valid("adjust", "operator.adjustment", p2)

MCEventIds == {"tee", "stroke", "bonus", "adjust"}

(* The last seven are refused, passed over or fatal.                       *)
MCEvents ==
    {Tee, Stroke, Adjust,
     [Stroke EXCEPT !.type = "range_observation"],
     [Stroke EXCEPT !.version = "2.0"],
     [Stroke EXCEPT !.version = "malformed"],
     [Stroke EXCEPT !.bad = "metadata"],
     [Bonus EXCEPT !.bad = "feature_id"],
     [Adjust EXCEPT !.bad = "points_delta"],
     [Adjust EXCEPT !.bad = "fraction"]}

(* A line without a device is counted as one without a time is.            *)
MCFieldSets == {Identity, {}} \cup {Identity \ {f} : f \in {"time", "sequence", "boot"}}
=============================================================================
