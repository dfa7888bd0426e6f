---------------------------- MODULE EvidenceReplay ----------------------------
(***************************************************************************)
(* Reading evidence back: a line of an append-only JSONL file              *)
(* (recording/jsonl.py, contracts/codec.py), and the deterministic replay  *)
(* of such a file into the scoring engine (evidence/replay.py and          *)
(* evidence/adapter.py) as tools/replay_run.py runs it, twice.             *)
(*                                                                         *)
(* Who writes the file is not said here: RunRecording has the writers.     *)
(***************************************************************************)
EXTENDS Gameplay, Sequences, SequencesExt

VARIABLES
    file,       \* the capture, line by line
    reader,     \* "idle", "reading", or how the replay ended
    snapshot,   \* what read_bytes returned
    at,         \* the line in hand
    refused,    \* the quarantined lines of this pass
    first       \* the report of the first pass, once there is one

NoReport == <<>>

(* A line: the records whose text it has (two, when an append ran into an  *)
(* unterminated line), whether part of the text is missing, and whether it *)
(* ends in a newline.                                                      *)
Entry(recs, cut, ended) == [recs |-> recs, cut |-> cut, ended |-> ended]

ReplayInit ==
    /\ Init
    /\ file = <<>> /\ reader = "idle" /\ snapshot = <<>> /\ at = 0 /\ refused = {}
    /\ first = NoReport

FreshEngine ==
    /\ sessionStatus' = "ready" /\ current' = 1
    /\ active' = [h \in Holes |-> NoPlayer]
    /\ play' = [h \in Holes |-> [p \in Players |-> NewPlayerHoleState]]
    /\ stats' = [p \in Players |-> NewPlayerStats]
    /\ seen' = {}

-----------------------------------------------------------------------------
(***************************************************************************)
(* iter_jsonl and record_from_dict.                                        *)
(***************************************************************************)

(* json.loads: the whole text of exactly one record.                       *)
Parses(e) == ~e.cut /\ Len(e.recs) = 1

(* A line that does not parse is a crash tail only as the last one and     *)
(* without a newline; anything else is corruption.                         *)
Tolerated(lines, i) == i = Len(lines) /\ ~lines[i].ended

Corrupt(lines) == \E i \in DOMAIN lines : ~Parses(lines[i]) /\ ~Tolerated(lines, i)

(* The record classes and the fields each refuses when they are wrong, on  *)
(* top of the envelope's; the contents of a payload are nobody's.          *)
Envelope ==
    {"event_id", "event_type", "source_device_id", "source_boot_id", "trace_id", "sequence",
     "source_monotonic_ns", "edge_received_ns", "raw_evidence_refs", "wall_time"}

ClassFields ==
    [range_observation |-> {"anchor_id", "antenna_path", "distance", "anchor_position_m"},
     motion_observation |-> {"motion_state", "confidence", "accel_mps2", "gyro_rads"},
     physical_sensor_observation |-> {"sensor_id", "sensor_kind", "transition", "health"},
     radio_reception_observation |->
        {"ball_id", "ball_device_id", "ball_boot_id", "ball_radio_sequence", "payload_digest",
         "rssi_dbm", "tx_power_dbm", "channel_index"},
     track_update |-> {"position_m", "velocity_mps", "covariance", "confidence", "track_state"},
     evidence_event |->
        {"semantic_type", "session_id", "fusion_policy_version", "player_id", "confidence"},
     gameplay_event |->
        {"gameplay_type", "session_id", "player_id", "feature_id", "points_delta", "confidence"}]

(* validate_schema_version of a version that is a string.                  *)
VersionError(v) ==
    CASE v = "malformed" -> "SchemaVersionError"
      [] v = "2.0" -> "UnsupportedSchemaVersion"
      [] OTHER -> ""

(* "" when the record is decoded; a version that is not of the form        *)
(* <major>.<minor> raises what iter_jsonl does not catch.                  *)
DecodeError(r) ==
    IF r.type \notin DOMAIN ClassFields \/ r.version = "absent" THEN "RecordCodecError"
    ELSE IF VersionError(r.version) # "" THEN VersionError(r.version)
    ELSE IF r.bad \in Envelope \cup ClassFields[r.type] THEN "RecordCodecError"
    ELSE ""

-----------------------------------------------------------------------------
(***************************************************************************)
(* EvidenceToGameplayAdapter and the engine behind it.                     *)
(***************************************************************************)
SemanticTypes ==
    {"tee.presented", "tee.cancelled", "stroke.confirmed", "feature.confirmed",
     "cup.confirmed", "pickup.detected", "operator.adjustment"}

IsInput(r) == r.type \in {"evidence_event", "gameplay_event"}

Adaptable(r) == r.semantic \in SemanticTypes /\ r.hole \in Holes /\ r.player # NoPlayer

(* from_evidence spreads payload["metadata"], whatever it is.              *)
AdapterRaises(r) == r.type = "evidence_event" /\ r.bad = "metadata" /\ Adaptable(r)

(* process() reaches the handler of an event with a known Ball.            *)
Arrives(r) ==
    /\ Adaptable(r) /\ r.player \in Players
    /\ r.id \notin seen /\ sessionStatus # "complete" /\ r.hole = current

(* What from_evidence takes out of the payload unchecked: a feature_id that *)
(* cannot be a key, a points_delta that cannot be added.  Here and below,  *)
(* r.feature and r.delta stand for the values that would be right.         *)
EngineRaises(r) ==
    /\ r.type = "evidence_event" /\ Arrives(r)
    /\ \/ /\ r.semantic = "feature.confirmed" /\ r.bad = "feature_id"
          /\ active[r.hole] = r.player /\ play[r.hole][r.player].status = "playing"
       \/ r.semantic = "operator.adjustment" /\ r.bad = "points_delta"

(* A points_delta with a decimal point can be added, and then the notice   *)
(* cannot be worded.                                                       *)
AddsFraction(r) ==
    /\ r.type = "evidence_event" /\ Arrives(r)
    /\ r.semantic = "operator.adjustment" /\ r.bad = "fraction"

(* engine.process of an event it accepts.                                  *)
Processed(r) ==
    \/ DuplicateIgnored(r.id)
    \/ /\ r.player \in Players
       /\ \/ /\ r.semantic = "tee.presented"
             /\ TeePresented(r.id, r.hole, r.player) \/ AlreadyArmed(r.id, r.hole, r.player)
          \/ r.semantic = "tee.cancelled" /\ TeeCancelled(r.id, r.hole, r.player)
          \/ r.semantic = "stroke.confirmed" /\ StrokeConfirmed(r.id, r.hole, r.player, r.time)
          \/ /\ r.semantic = "feature.confirmed"
             /\ \/ FeatureConfirmed(r.id, r.hole, r.player, r.feature)
                \/ FeatureLimitIgnored(r.id, r.hole, r.player, r.feature)
          \/ r.semantic = "cup.confirmed" /\ CupConfirmed(r.id, r.hole, r.player, r.time)
          \/ r.semantic = "pickup.detected" /\ PickupDetected(r.id, r.hole, r.player)
          \/ r.semantic = "operator.adjustment" /\ ManualAdjustment(r.id, r.hole, r.player, r.delta)

-----------------------------------------------------------------------------
(***************************************************************************)
(* replay_results, one line at a time.                                     *)
(***************************************************************************)
OpenLog ==
    /\ reader = "idle" /\ reader' = "reading"
    /\ snapshot' = file /\ at' = 1
    /\ UNCHANGED <<vars, file, refused, first>>

Reading == reader = "reading" /\ at <= Len(snapshot)

NextLine == at' = at + 1 /\ UNCHANGED <<file, reader, snapshot, first>>

(* An exception that nothing catches: there is no report.                  *)
Raised(how) ==
    /\ reader' = how /\ snapshot' = <<>> /\ at' = 0 /\ refused' = {} /\ first' = NoReport
    /\ FreshEngine

Fail ==
    /\ Reading
    /\ LET e == snapshot[at] IN
       IF ~Parses(e) THEN ~Tolerated(snapshot, at)
       ELSE DecodeError(e.recs[1]) = "SchemaVersionError"
            \/ /\ DecodeError(e.recs[1]) = ""
               /\ AdapterRaises(e.recs[1]) \/ EngineRaises(e.recs[1])
    /\ Raised("raised") /\ UNCHANGED file

(* Fault: a line the codec or the engine refuses leaves no trace.          *)
RefusalForgotten == refused' = refused

Quarantined == refused' = refused \cup {at}

QuarantineLine ==
    /\ Reading
    /\ LET e == snapshot[at] IN
       IF ~Parses(e) THEN Tolerated(snapshot, at)
       ELSE DecodeError(e.recs[1]) \in {"RecordCodecError", "UnsupportedSchemaVersion"}
    /\ Quarantined /\ NextLine /\ UNCHANGED vars

Accepted(e) == Parses(e) /\ DecodeError(e.recs[1]) = ""

(* Range, motion and other observations are counted and not adapted.       *)
PassOver ==
    /\ Reading /\ Accepted(snapshot[at]) /\ ~IsInput(snapshot[at].recs[1])
    /\ NextLine /\ UNCHANGED <<vars, refused>>

ReplayInput ==
    /\ Reading /\ Accepted(snapshot[at])
    /\ LET r == snapshot[at].recs[1] IN
       /\ IsInput(r) /\ ~AdapterRaises(r) /\ ~EngineRaises(r) /\ ~AddsFraction(r)
       /\ IF Adaptable(r) /\ ENABLED Processed(r)
          THEN Processed(r) /\ UNCHANGED refused
          ELSE UNCHANGED vars /\ Quarantined
    /\ NextLine

(* The line is refused when its points have been added already, and its id *)
(* is not remembered.                                                      *)
RefuseFraction ==
    /\ Reading /\ Accepted(snapshot[at])
    /\ LET r == snapshot[at].recs[1] IN
       /\ AddsFraction(r)
       /\ play' = [play EXCEPT ![r.hole][r.player] = Scored(@, r.delta)]
       /\ stats' = [stats EXCEPT ![r.player] = Scored(@, r.delta)]
    /\ UNCHANGED <<sessionStatus, current, active, seen>>
    /\ Quarantined /\ NextLine

(* assert_deterministic reads the file again, with a fresh engine, and     *)
(* compares the two snapshots; the report is the first one.                *)
ReadAgain ==
    /\ reader = "reading" /\ at > Len(snapshot) /\ first = NoReport
    /\ first' = <<vars, snapshot, refused>>
    /\ snapshot' = file /\ at' = 1 /\ refused' = {} /\ FreshEngine
    /\ UNCHANGED <<file, reader>>

Compare ==
    /\ reader = "reading" /\ at > Len(snapshot) /\ first # NoReport
    /\ IF vars # first[1] THEN Raised("differs")
       ELSE /\ reader' = (IF first[3] = {} THEN "clean" ELSE "quarantines")
            /\ snapshot' = first[2] /\ refused' = first[3]
            /\ at' = 0 /\ first' = NoReport /\ UNCHANGED vars
    /\ UNCHANGED file

ReplayNext ==
    \/ Fail \/ QuarantineLine \/ PassOver \/ ReplayInput \/ RefuseFraction
    \/ ReadAgain \/ Compare

Reported == reader \in {"clean", "quarantines"}
=============================================================================
