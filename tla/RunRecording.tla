----------------------------- MODULE RunRecording -----------------------------
(***************************************************************************)
(* A run directory.  tools/capture_cs.py writes the manifest and its digest,*)
(* the raw serial log, the range records and a summary; a recorder of      *)
(* semantic events writes a manifest and events, through the same          *)
(* AppendOnlyJsonlWriter, and its run can be replayed (EvidenceReplay) at  *)
(* any moment, also while it is being written.                             *)
(*                                                                         *)
(* A writer may be killed and the machine may lose power between any two   *)
(* steps.  A kill leaves what was written; a power loss leaves of each file *)
(* any prefix that holds what was synced.                                  *)
(***************************************************************************)
EXTENDS EvidenceReplay

CONSTANTS
    MaxLines,           \* Bound: serial lines read.
    MaxDeviceBoots,     \* Bound: boots of the device.
    MaxLost,            \* Bound: lines the serial port drops.
    RecordLimits,       \* Values of --max-records; 0 means unlimited.
    FieldSets,          \* Identity fields a line of telemetry may have.
    Events,             \* Records a recorder may append.
    MaxEvents,          \* Bound: appends of a recorder.
    MaxFailedAppends    \* Bound: its appends that fail.

(* The identity telemetry may give of itself, each field on its own; the   *)
(* vendor's text gives none.                                               *)
Identity == {"time", "sequence", "boot", "device"}

ASSUME RecordingAssumption ==
    MaxLines \in Nat /\ MaxDeviceBoots \in Nat /\ MaxLost \in Nat /\ RecordLimits \subseteq Nat
    /\ {MaxEvents, MaxFailedAppends} \subseteq Nat /\ FieldSets \subseteq SUBSET Identity

(* Event ids are globally unique: two events the engine is given under one *)
(* id are two deliveries of one event.                                     *)
ASSUME EventsAssumption ==
    \A r, s \in {e \in Events : IsInput(e) /\ Adaptable(e)} :
        /\ r.id \in EventIds /\ r.time \in Times /\ r.delta \in Adjustments
        /\ r.id = s.id => <<r.semantic, r.hole, r.player>> = <<s.semantic, s.hole, s.player>>

VARIABLES
    tool,       \* "capture_cs" or "events"
    pc,         \* where the tool is
    fsync,      \* not args.no_fsync
    limit,      \* args.max_records
    boot,       \* the device: its boot and the next source sequence
    next,
    lost,       \* lines dropped so far
    line,       \* the line in hand
    manifest,   \* "absent", "torn" (created, not complete) or "whole"
    sidecar,
    raw,        \* raw_serial.log: lines in the file, lines known to be on disk
    rawSynced,
    fileSynced, \* lines of the capture known to be on disk
    count,      \* the counters of the summary
    summary,    \* source_identity_complete, or "absent"
    power,      \* ghost: power has not failed
    appended,   \* ghost: the records handed to append, in order
    acked,      \* ghost: those for which append returned, by position
    due         \* ghost: acked when the replay read the file

engine == <<sessionStatus, current, active, play, stats, seen>>
replay == <<engine, reader, snapshot, at, refused, first, due>>
ghosts == <<appended, acked, due>>

device == <<boot, next, lost>>
sealed == <<manifest, sidecar>>
setting == <<tool, fsync, limit>>
disk == <<file, fileSynced>>
log == <<raw, rawSynced>>
recordingVars == <<setting, pc, device, line, sealed, log, disk, count, summary, power, ghosts,
                   replay>>

(* What a serial line may be: a range, one that names another device, one  *)
(* whose distance is not finite, a malformed line, one about something     *)
(* else.                                                                   *)
Forms == {"range", "foreign", "infinite", "broken", "other"}

NoLine == [form |-> "other", fields |-> {}, boot |-> 0, seq |-> 0]
Fallback == 0       \* fallback_boot_id, one per run

(* device: of each field, the records that have it from the device.        *)
Counters == [local |-> 0, captured |-> 0, errors |-> 0, mismatches |-> 0,
             device |-> [f \in Identity |-> 0]]

RecordingInit ==
    /\ ReplayInit
    /\ tool \in {"capture_cs", "events"}
    /\ pc = "start" /\ fsync \in BOOLEAN
    /\ limit \in (IF tool = "events" THEN {0} ELSE RecordLimits)
    /\ boot = 1 /\ next = 1 /\ lost = 0 /\ line = NoLine
    /\ manifest = "absent" /\ sidecar = "absent"
    /\ raw = 0 /\ rawSynced = 0 /\ fileSynced = 0
    /\ count = Counters /\ summary = "absent" /\ power = TRUE
    /\ appended = <<>> /\ acked = {} /\ due = {}

-----------------------------------------------------------------------------
(***************************************************************************)
(* The device.                                                             *)
(***************************************************************************)
DeviceMoves ==
    /\ tool = "capture_cs"
    /\ UNCHANGED <<setting, pc, line, sealed, log, disk, count, summary, power, ghosts, replay>>

Reboot ==
    /\ boot < MaxDeviceBoots /\ DeviceMoves
    /\ boot' = boot + 1 /\ next' = 1 /\ UNCHANGED lost

DropLine ==
    /\ lost < MaxLost /\ DeviceMoves
    /\ lost' = lost + 1 /\ next' = next + 1 /\ UNCHANGED boot

-----------------------------------------------------------------------------
(***************************************************************************)
(* write_immutable_manifest: each file is created exclusively, written and *)
(* synced; the sidecar comes second.                                       *)
(***************************************************************************)
Sealing ==
    UNCHANGED <<setting, device, line, log, disk, count, summary, power, ghosts, replay>>

CreateManifest ==
    /\ pc = "start" /\ manifest = "absent"
    /\ manifest' = "torn" /\ pc' = "manifest" /\ UNCHANGED sidecar /\ Sealing

WriteManifest ==
    /\ pc = "manifest"
    /\ manifest' = "whole" /\ sidecar' = "torn" /\ pc' = "sidecar" /\ Sealing

WriteSidecar ==
    /\ pc = "sidecar"
    /\ sidecar' = "whole" /\ pc' = (IF tool = "events" THEN "open" ELSE "read")
    /\ UNCHANGED manifest /\ Sealing

(* load_manifest with verify_digest.                                       *)
ManifestLoads == manifest = "whole" /\ sidecar = "whole"

-----------------------------------------------------------------------------
(***************************************************************************)
(* AppendOnlyJsonlWriter.append: one write, then the sync.                 *)
(***************************************************************************)

(* An append to an unterminated line runs into it.                         *)
AppendTo(f, r, cut, ended) ==
    IF f # <<>> /\ ~Last(f).ended
    THEN [f EXCEPT ![Len(f)] = Entry(Append(@.recs, r), @.cut \/ cut, ended)]
    ELSE Append(f, Entry(<<r>>, cut, ended))

(* Fault: a short write goes unnoticed.                                    *)
ShortWriteIgnored == "written"

(* The exception ends capture_cs; a recorder may go on.                    *)
AfterException == IF tool = "events" THEN "open" ELSE "aborted"

AfterShortWrite == AfterException

(* Appends that failed, and the one under way.                             *)
Unacknowledged == Len(appended) - Cardinality(acked)

WriteRecord(r) ==
    /\ appended' = Append(appended, r)
    /\ \/ file' = AppendTo(file, r, FALSE, TRUE) /\ pc' = "written"
       \/ /\ Unacknowledged < MaxFailedAppends
          /\ file' \in {file} \cup {AppendTo(file, r, cut, FALSE) : cut \in BOOLEAN}
          /\ pc' = AfterShortWrite
    /\ UNCHANGED <<setting, device, line, sealed, log, fileSynced, count, summary, power, acked,
                   due, replay>>

AppendSynced ==
    /\ pc = "written"
    /\ fileSynced' = (IF fsync THEN Len(file) ELSE fileSynced)
    /\ acked' = acked \cup {Len(appended)}
    /\ UNCHANGED <<setting, device, line, sealed, log, file, summary, power, appended, due, replay>>

(* A sync that raises: the line stays, on disk or not.                     *)
SyncFails ==
    /\ pc = "written" /\ fsync /\ Unacknowledged <= MaxFailedAppends
    /\ fileSynced' \in fileSynced .. Len(file)
    /\ pc' = AfterException
    /\ UNCHANGED <<setting, device, line, sealed, log, file, count, summary, power, ghosts, replay>>

(* A recorder of events (external: any caller of the writer).              *)
RecordEvent ==
    /\ pc = "open" /\ Len(appended) < MaxEvents
    /\ \E r \in Events : WriteRecord(r)

SyncEvent == tool = "events" /\ AppendSynced /\ pc' = "open" /\ UNCHANGED count

-----------------------------------------------------------------------------
(***************************************************************************)
(* The loop of capture_cs: one serial line at a time.                      *)
(***************************************************************************)
Unwritten == UNCHANGED <<setting, sealed, disk, summary, power, ghosts, replay>>

ReadLine ==
    /\ pc = "read" /\ raw < MaxLines
    /\ \E form \in Forms, fields \in FieldSets :
        /\ line' = [form |-> form, fields |-> IF form = "range" THEN fields ELSE {},
                    boot |-> boot, seq |-> next]
        /\ next' = IF form = "other" THEN next ELSE next + 1
    /\ raw' = raw + 1
    /\ pc' = "flushed"
    /\ UNCHANGED <<boot, lost, rawSynced, count>> /\ Unwritten

(* Fault: the raw log is flushed and never synced.                         *)
RawFlushed == rawSynced' = rawSynced

RawOnDisk == rawSynced' = (IF fsync THEN raw ELSE rawSynced)

SyncRaw ==
    /\ pc = "flushed"
    /\ RawOnDisk
    /\ pc' = "parse"
    /\ UNCHANGED <<device, line, raw, count>> /\ Unwritten

(* CsSerialParser.parse_line and the identity check: lines that give no    *)
(* record.                                                                 *)
SkipLine ==
    /\ pc = "parse" /\ line.form \in {"other", "broken", "foreign"}
    /\ count' = [count EXCEPT !.errors = @ + (IF line.form = "broken" THEN 1 ELSE 0),
                              !.mismatches = @ + (IF line.form = "foreign" THEN 1 ELSE 0)]
    /\ pc' = "read"
    /\ UNCHANGED <<device, line, log>> /\ Unwritten

(* The parser accepts a distance that is not finite, RangeObservation      *)
(* raises, and nothing catches it.                                         *)
RejectRange ==
    /\ pc = "parse" /\ line.form = "infinite" /\ pc' = "aborted"
    /\ UNCHANGED <<device, line, log, count>> /\ Unwritten

(* The record of a line: the device's own identity where it sent one, the  *)
(* run's fallbacks where it did not.                                       *)
RangeRecord(l) ==
    [type |-> "range_observation",
     boot |-> IF "boot" \in l.fields THEN l.boot ELSE Fallback,
     seq  |-> IF "sequence" \in l.fields THEN l.seq ELSE count.local + 1,
     line |-> raw, fields |-> l.fields]

AppendRecord ==
    /\ pc = "parse" /\ line.form = "range"
    /\ WriteRecord(RangeRecord(line))

SyncRecord ==
    /\ tool = "capture_cs" /\ AppendSynced
    /\ count' = [count EXCEPT
                    !.local = @ + 1, !.captured = @ + 1,
                    !.device = [f \in Identity |-> @[f] + (IF f \in line.fields THEN 1 ELSE 0)]]
    /\ pc' = (IF limit > 0 /\ count.captured + 1 >= limit THEN "summary" ELSE "read")

EndOfStream ==
    /\ pc = "read" /\ pc' = "summary"
    /\ UNCHANGED <<device, line, log, count>> /\ Unwritten

(* Fault: a boot id need not come from the device.                         *)
CompleteWithoutBoots ==
    /\ count.captured > 0 /\ count.mismatches = 0
    /\ \A f \in Identity \ {"boot"} : count.device[f] = count.captured

SourceIdentityComplete ==
    /\ count.captured > 0 /\ count.mismatches = 0
    /\ \A f \in Identity : count.device[f] = count.captured

Summarize ==
    /\ pc = "summary" /\ pc' = "done"
    /\ summary' = (IF SourceIdentityComplete THEN "complete" ELSE "incomplete")
    /\ UNCHANGED <<setting, device, line, sealed, log, disk, count, power, ghosts, replay>>

-----------------------------------------------------------------------------
Running == pc \notin {"done", "aborted", "dead"}

(* A recorder between two appends is as good as dead.                      *)
Kill ==
    /\ Running /\ pc # "open" /\ pc' = "dead"
    /\ UNCHANGED <<setting, device, line, sealed, log, disk, count, summary, power, ghosts, replay>>

(* A replay under way is lost with the machine; one that ended has printed *)
(* its report.                                                             *)
LosePower ==
    /\ power /\ power' = FALSE /\ reader # "reading"
    /\ pc' = (IF Running THEN "dead" ELSE pc)
    /\ raw' \in rawSynced .. raw
    /\ \E k \in fileSynced .. Len(file) :
        file' \in {SubSeq(file, 1, k)}
                  \cup (IF k < Len(file)
                        THEN {Append(SubSeq(file, 1, k), Entry(file[k + 1].recs, cut, FALSE)) :
                                cut \in {TRUE, file[k + 1].cut}}
                        ELSE {})
    /\ UNCHANGED <<setting, device, line, sealed, rawSynced, fileSynced, count, summary, ghosts,
                   replay>>

-----------------------------------------------------------------------------
(***************************************************************************)
(* replay_run on a run of events: the manifest first, then the replay.     *)
(***************************************************************************)
Writing == <<setting, pc, device, line, sealed, log, fileSynced, count, summary, power, appended,
             acked>>

StartReplay ==
    /\ tool = "events" /\ ManifestLoads
    /\ OpenLog /\ due' = acked
    /\ UNCHANGED Writing

Replay == ReplayNext /\ UNCHANGED <<Writing, due>>

RecordingNext ==
    \/ Reboot \/ DropLine
    \/ CreateManifest \/ WriteManifest \/ WriteSidecar
    \/ RecordEvent \/ SyncEvent \/ SyncFails
    \/ ReadLine \/ SyncRaw \/ SkipLine \/ RejectRange \/ AppendRecord \/ SyncRecord
    \/ EndOfStream \/ Summarize
    \/ Kill \/ LosePower
    \/ StartReplay \/ Replay

RecordingSpec == RecordingInit /\ [][RecordingNext]_recordingVars

-----------------------------------------------------------------------------
(***************************************************************************)
(* Reading a run back: the lines whose record a reader gets.  Corruption   *)
(* raises instead, so in a file that can be read only the last may be      *)
(* missing.                                                                *)
(***************************************************************************)
Readable == {i \in DOMAIN file : Parses(file[i])}

RecordAt(i) == file[i].recs[1]

(* OrderingTracker over the records: the boot and the highest sequence it  *)
(* remembers after each.                                                   *)
Tracker ==
    LET f[k \in 0 .. Len(file)] ==
          IF k = 0 THEN [boot |-> Fallback, last |-> 0]
          ELSE LET r == RecordAt(k)
               IN  IF k > 1 /\ f[k - 1].boot = r.boot /\ f[k - 1].last > r.seq
                   THEN f[k - 1] ELSE [boot |-> r.boot, last |-> r.seq]
    IN  f

OrderingClean(k) ==
    \/ k = 1
    \/ Tracker[k - 1].boot # RecordAt(k).boot
    \/ RecordAt(k).seq = Tracker[k - 1].last + 1

-----------------------------------------------------------------------------
Durable == power \/ fsync

(* Every record a reader gets out of a capture, interrupted or not, has the *)
(* serial line it refers to in the raw log and a manifest that verifies:   *)
(* evidence never outlives what explains it.                               *)
EvidenceHasProvenance ==
    Durable => \A i \in Readable :
        ManifestLoads /\ (tool = "capture_cs" => RecordAt(i).line <= raw)

(* Whatever interrupts a capture, its file stays readable, with at most    *)
(* the last line set aside as a crash tail, gives the records in the order *)
(* of capture, and has every record the tool counted.                      *)
CaptureIsReadable ==
    tool = "capture_cs" =>
        /\ ~Corrupt(file)
        /\ \A i \in Readable : RecordAt(i) = appended[i]
        /\ Durable => 1 .. count.captured \subseteq Readable

(* A run whose summary calls the source identity complete has records with *)
(* their device's own identity only, never the same event id for two       *)
(* measurements, and, when the ordering tracker finds nothing, no          *)
(* measurement missing between two of the same boot.                       *)
CompleteIsTrustworthy ==
    summary = "complete" =>
        LET Key(i) == <<RecordAt(i).boot, RecordAt(i).seq>> IN
        /\ \A i \in Readable : RecordAt(i).fields = Identity
        /\ \A i, j \in Readable : i # j => Key(i) # Key(j)
        /\ (\A i \in Readable : OrderingClean(i)) =>
             \A i, j \in Readable : \A n \in Key(i)[2] .. Key(j)[2] :
                Key(i)[1] = Key(j)[1] => \E k \in Readable : Key(k) = <<Key(i)[1], n>>

(* A replay that reports has a readable line of its own for every record   *)
(* whose append had returned when it read the file, however often appends  *)
(* failed half-way before.                                                 *)
EveryRecordHasItsLine ==
    Reported /\ Durable =>
        \A k \in due : \E i \in DOMAIN snapshot :
            Parses(snapshot[i]) /\ snapshot[i].recs = <<appended[k]>>

(* A replay without quarantined lines has scored every event of the file,  *)
(* each id once: nothing was refused silently, torn off or counted twice.  *)
CleanReplayScoresEveryEvent ==
    reader = "clean" =>
        LET records == {snapshot[i].recs[1] : i \in DOMAIN snapshot}
            inputs == {r \in records : IsInput(r)}
        IN  /\ \A i \in DOMAIN snapshot : Parses(snapshot[i])
            /\ seen = {r.id : r \in inputs}
            /\ \A h \in Holes, p \in Players :
                 play[h][p].strokes =
                   Cardinality({r.id : r \in {s \in inputs : s.semantic = "stroke.confirmed"
                                                             /\ s.hole = h /\ s.player = p}})

(* What a replay reports is faithful to the run.                           *)
ReplayIsFaithful == EveryRecordHasItsLine /\ CleanReplayScoresEveryEvent
=============================================================================
