------------------------------ MODULE TagCapture ------------------------------
(***************************************************************************)
(* One capture of a Ball's motion over Bluetooth (tools/capture_tag_smp.py *)
(* with putttrack.tag's parsers and TagCaptureSession), and what the pickup *)
(* detector makes of the file it leaves.                                   *)
(*                                                                         *)
(* The Ball samples once a period into a ring, may doze, wake, suffer a    *)
(* sensor fault, recover, reboot, or be asked to freeze its ring by another *)
(* host.  The host sends one request after the other; the request or its   *)
(* answer may be lost, and then the request is repeated.  The tool may be  *)
(* killed at any moment.  Requests are pinned to the Ball's address.       *)
(***************************************************************************)
EXTENDS PickupDetector

CONSTANTS
    Modes,          \* which of "armed", "frozen", "window" the host may use
    Ring,           \* MOTION_HISTORY_SAMPLES
    Chunk,          \* MOTION_WINDOW_SAMPLES
    Modulus,        \* 2^32, the width of the sample sequence
    PreRoll,        \* --armed-countdown, in sample periods
    Episode,        \* --episode-seconds
    Requests,       \* --count
    Retries,        \* --request-retries
    MaxFailures,    \* --max-consecutive-request-failures
    Labels,         \* --label; "" when it is not given
    Manifests,      \* the label of the episode in a manifest, or ""
    Unsupported,    \* unsupported_manifest_labels
    MaxTime,        \* Bound: sample periods.
    MaxTroubles     \* Bound: reboots, faults, naps, freezes of another host, and requests
                    \* without an answer.

(* validate_armed_options: countdown and episode fit in the retained       *)
(* history.                                                                *)
ASSUME CaptureAssumption ==
    /\ {Ring, Chunk, Modulus, PreRoll, Episode, Requests, Retries, MaxFailures} \subseteq Nat \ {0}
    /\ {MaxTime, MaxTroubles} \subseteq Nat
    /\ Modes \subseteq {"armed", "frozen", "window"}
    /\ PreRoll + Episode < Ring

VARIABLES
    now,        \* sample periods passed
    ball,       \* the Ball
    upsets,     \* troubles of the Ball so far
    drops,      \* troubles of the radio: requests that got no answer
    mode, label, \* the host's options
    at,         \* where the host is: the request it sends or the step it takes
    until,      \* the end of the sleep it is in
    tries,      \* attempts of the request under way
    host,       \* what the host has read
    todo,       \* samples it has not written yet
    file,       \* the capture, line by line
    exit,       \* "", "PASS", "FAIL", "killed", or the step that raised
    verdict     \* of the pickup detector

vars == <<now, ball, upsets, drops, mode, label, at, until, tries, host, todo, file, exit, verdict>>

options == <<mode, label>>
world == <<now, upsets>>

NoSample == [boot |-> 0, seq |-> 0, t |-> 0, ok |-> FALSE]
NoStatus == [boot |-> 0, seq |-> 0, up |-> 0, errors |-> 0, generation |-> 0, healthy |-> FALSE]
NoMeta == [id |-> 0, count |-> 0, first |-> 0, last |-> 0]

(* The host's side is forgotten when the tool ends: NoHost.                *)
NoHost == [status |-> NoStatus, marker |-> NoSample, meta |-> NoMeta, chunks |-> <<>>,
           index |-> 0, failed |-> 0, got |-> <<>>]

-----------------------------------------------------------------------------
(***************************************************************************)
(* The Ball (firmware/nrf54l15_tag_app/src/main.c).                        *)
(***************************************************************************)
Sampling == ball.awake /\ ball.healthy

(* sample_motion: every attempt takes the next sequence number and enters  *)
(* the ring, whether the sensors answered or not.                          *)
Sampled(ok) ==
    LET s == [boot |-> ball.boot, seq |-> (ball.seq + 1) % Modulus,
              t |-> now + 1 - ball.since, ok |-> ok]
        longer == Append(ball.ring, s)
    IN [ball EXCEPT !.seq = s.seq, !.motion = s,
                    !.errors = @ + (IF ok THEN 0 ELSE 1),
                    !.ring = IF Len(longer) > Ring THEN Tail(longer) ELSE longer]

(* clear_motion_history: nothing sampled before can be retrieved any more. *)
Cleared(b) == [b EXCEPT !.ring = <<>>, !.frozen = <<>>, !.id = @ + 1]

(* Fault: the ring outlives what interrupts the sampling.                  *)
HistoryKept(b) == b

(* activate_runtime and the end of a recovery.                             *)
Restarted(b) == Cleared(b)

Rebooted ==
    [boot |-> ball.boot + 1, since |-> now, seq |-> 0, ring |-> <<>>, motion |-> NoSample,
     frozen |-> <<>>, id |-> 0, errors |-> 0, generation |-> 0, healthy |-> TRUE,
     awake |-> TRUE]

Freeze == [ball EXCEPT !.frozen = ball.ring, !.id = @ + 1]

Init ==
    /\ now = 1 /\ upsets = 0 /\ drops = 0
    /\ \E first \in {1, Modulus - 2} :
        LET s == [boot |-> 1, seq |-> first, t |-> 1, ok |-> TRUE] IN
        ball = [boot |-> 1, since |-> 0, seq |-> first, ring |-> <<s>>, motion |-> s,
                frozen |-> <<>>, id |-> 0, errors |-> 0, generation |-> 0, healthy |-> TRUE,
                awake |-> TRUE]
    /\ mode \in Modes /\ label \in Labels
    /\ at = "status" /\ until = 0 /\ tries = 0 /\ host = NoHost /\ todo = <<>>
    /\ file = <<>> /\ exit = "" /\ verdict = ""

Working == exit = ""

HostWaits == UNCHANGED <<drops, options, at, until, tries, host, todo, file, exit, verdict>>

Tick ==
    /\ Working /\ now < MaxTime
    /\ now' = now + 1
    /\ ball' = (IF Sampling THEN Sampled(TRUE) ELSE ball)
    /\ UNCHANGED upsets /\ HostWaits

Upset(b) ==
    /\ Working /\ upsets + drops < MaxTroubles
    /\ upsets' = upsets + 1
    /\ ball' = b
    /\ UNCHANGED now /\ HostWaits

SensorError ==
    /\ Sampling /\ now < MaxTime /\ now' = now + 1
    /\ Working /\ upsets + drops < MaxTroubles
    /\ upsets' = upsets + 1
    /\ ball' = Sampled(FALSE)
    /\ HostWaits

Reboot == Upset(Rebooted)

OtherFreeze == Upset(Freeze)

(* Auto policy: idle after the inactivity timeout; the ring stays.         *)
Doze == Sampling /\ Upset([ball EXCEPT !.awake = FALSE])

Wake ==
    /\ Working /\ ~ball.awake
    /\ ball' = [Restarted(ball) EXCEPT !.awake = TRUE]
    /\ UNCHANGED world /\ HostWaits

(* begin_sensor_recovery, then a successful attempt.                       *)
Fail == Sampling /\ Upset([Cleared(ball) EXCEPT !.healthy = FALSE, !.generation = @ + 1])

Recover ==
    /\ Working /\ ~ball.healthy
    /\ ball' = [Restarted(ball) EXCEPT !.healthy = TRUE]
    /\ UNCHANGED world /\ HostWaits

-----------------------------------------------------------------------------
(***************************************************************************)
(* Requests.                                                               *)
(***************************************************************************)
RequestSteps == {"status", "marker", "freeze", "chunk", "window", "final"}

(* What the Ball does on a request.                                        *)
Served(step) == IF step = "freeze" THEN Freeze ELSE ball

Status == [boot |-> ball.boot, seq |-> ball.seq, up |-> now - ball.since,
           errors |-> ball.errors, generation |-> ball.generation, healthy |-> ball.healthy]

(* An answer arrives.                                                      *)
Answered(step) ==
    /\ Working /\ at = step
    /\ ball' = Served(step)
    /\ tries' = 0
    /\ UNCHANGED <<world, drops, options, verdict>>

Stop(how) == exit' = how /\ at' = "end" /\ until' = 0 /\ host' = NoHost /\ todo' = <<>>

Write(line) == file' = Append(file, line)

(* request: the process reports failure, or prints no JSON object, with the *)
(* request executed or not.  After the last attempt it raises; the window  *)
(* loop survives a few such failures in a row.                             *)
NoAnswer ==
    /\ Working /\ at \in RequestSteps /\ upsets + drops < MaxTroubles
    /\ drops' = drops + 1
    /\ ball' \in {ball, Served(at)}
    /\ IF tries + 1 < Retries
       THEN tries' = tries + 1 /\ UNCHANGED <<at, until, host, todo, exit>>
       ELSE /\ tries' = 0
            /\ IF at = "window" /\ host.failed + 1 < MaxFailures
               THEN /\ host' = [host EXCEPT !.failed = @ + 1, !.index = @ + 1]
                    /\ at' = "write"
                    /\ UNCHANGED <<until, todo, exit>>
               ELSE Stop(at)
    /\ UNCHANGED <<now, upsets, options, file, verdict>>

-----------------------------------------------------------------------------
(***************************************************************************)
(* main.                                                                   *)
(***************************************************************************)

(* The first status: TagCaptureSession.start and the checks after it.      *)
GetStatus ==
    /\ Answered("status")
    /\ IF Status.healthy
       THEN /\ host' = [host EXCEPT !.status = Status]
            /\ Write([kind |-> "status", label |-> label])
            /\ at' = (CASE mode = "armed" -> "countdown" [] mode = "frozen" -> "freeze"
                        [] OTHER -> "window")
            /\ until' = now + PreRoll
            /\ UNCHANGED <<todo, exit>>
       ELSE Stop(at) /\ UNCHANGED file

(* run_countdown and the sleep of the episode end no earlier than asked.   *)
Countdown ==
    /\ Working /\ at = "countdown" /\ now >= until
    /\ at' = "marker"
    /\ UNCHANGED <<world, ball, drops, options, until, tries, host, todo, file, exit, verdict>>

(* motion_from_smp of the newest sample; before the first one the packet   *)
(* has no protocol version.                                                *)
GetMarker ==
    /\ Answered("marker")
    /\ IF ball.motion = NoSample THEN Stop(at) /\ UNCHANGED file
       ELSE /\ host' = [host EXCEPT !.marker = ball.motion]
            /\ Write([kind |-> "marker", label |-> label, t |-> ball.motion.t,
                    boot |-> ball.motion.boot])
            /\ at' = "acknowledge"
            /\ UNCHANGED <<until, todo, exit>>

(* GO_READY: the controller answers GO, or the wait times out.             *)
Acknowledge ==
    /\ Working /\ at = "acknowledge"
    /\ \/ at' = "episode" /\ until' = now + Episode /\ UNCHANGED <<host, todo, exit>>
       \/ Stop(at)
    /\ UNCHANGED <<world, ball, drops, options, tries, file, verdict>>

EpisodeOver ==
    /\ Working /\ at = "episode" /\ now >= until
    /\ at' = "freeze"
    /\ UNCHANGED <<world, ball, drops, options, until, tries, host, todo, file, exit, verdict>>

(* The sequence checks of the parsers do not wrap.                         *)
Contiguous(s) == \A i \in 1 .. Len(s) - 1 : s[i + 1].seq = s[i].seq + 1

(* frozen_history_metadata_from_smp; an empty history has no chunks.       *)
Meta == [id |-> ball.id + 1, count |-> Len(ball.ring),
         first |-> IF ball.ring = <<>> THEN 0 ELSE Head(ball.ring).seq,
         last |-> IF ball.ring = <<>> THEN 0 ELSE Last(ball.ring).seq]

MetaValid(m) == IF m.count = 0 THEN m.first = 0 /\ m.last = 0
                ELSE m.last = m.first + m.count - 1

ChunkCount(m) == (m.count + Chunk - 1) \div Chunk

FreezeHistory ==
    /\ Answered("freeze")
    /\ IF MetaValid(Meta)
       THEN /\ host' = [host EXCEPT !.meta = Meta]
            /\ at' = (IF ChunkCount(Meta) = 0 THEN "select" ELSE "chunk")
            /\ UNCHANGED <<until, todo, exit>>
       ELSE Stop(at)
    /\ UNCHANGED file

(* frozen_chunk: whatever is frozen now, with its id.                      *)
ChunkAt(i) == [id |-> ball.id, index |-> i,
               data |-> SubSeq(ball.frozen, i * Chunk + 1,
                               IF Len(ball.frozen) < (i + 1) * Chunk
                               THEN Len(ball.frozen) ELSE (i + 1) * Chunk)]

GetChunk ==
    /\ Answered("chunk")
    /\ host' = [host EXCEPT !.chunks = Append(@, ChunkAt(Len(host.chunks)))]
    /\ at' = (IF Len(host.chunks) + 1 < ChunkCount(host.meta) THEN "chunk" ELSE "select")
    /\ UNCHANGED <<until, todo, file, exit>>

Batch == FlattenSeq([i \in DOMAIN host.chunks |-> host.chunks[i].data])

(* frozen_history_from_smp.                                                *)
HistoryValid ==
    /\ \A i \in DOMAIN host.chunks :
         host.chunks[i].id = host.meta.id /\ Contiguous(host.chunks[i].data)
    /\ Len(Batch) = host.meta.count
    /\ Batch # <<>> =>
         /\ Head(Batch).seq = host.meta.first /\ Last(Batch).seq = host.meta.last
         /\ Contiguous(Batch)

(* select_armed_window.                                                    *)
From == host.marker.t - PreRoll
To == host.marker.t + Episode

(* Fault: the history has to start before the countdown.                   *)
CountdownInside ==
    /\ Batch # <<>>
    /\ Head(Batch).t <= host.marker.t /\ host.marker.t <= Last(Batch).t
    /\ Head(Batch).t < From /\ To <= Last(Batch).t

WindowCovered ==
    /\ Batch # <<>>
    /\ Head(Batch).t <= host.marker.t /\ host.marker.t <= Last(Batch).t
    /\ Head(Batch).t <= From /\ To <= Last(Batch).t

(* The samples of the window, in the order of the batch.                   *)
Selected == LET b == Batch IN
            Picked(b, {i \in DOMAIN b : From <= b[i].t /\ b[i].t <= To})

SelectWindow ==
    /\ Working /\ at = "select"
    /\ IF HistoryValid /\ (mode = "armed" => WindowCovered /\ Len(Selected) >= 2)
       THEN /\ todo' = (IF mode = "armed" THEN Selected ELSE Batch)
            /\ at' = "write"
            /\ IF mode = "armed"
               THEN Write([kind |-> "window", label |-> label, t |-> host.marker.t])
               ELSE UNCHANGED file
            /\ UNCHANGED <<until, host, exit>>
       ELSE Stop(at) /\ UNCHANGED file
    /\ UNCHANGED <<world, ball, drops, options, tries, verdict>>

(* motion_window_from_smp of the newest samples, contiguous or rejected.   *)
Newest == SubSeq(ball.ring, IF Len(ball.ring) > Chunk THEN Len(ball.ring) - Chunk + 1 ELSE 1,
                 Len(ball.ring))

GetWindow ==
    /\ Answered("window")
    /\ IF Contiguous(Newest)
       THEN /\ host' = [host EXCEPT !.failed = 0, !.index = @ + 1]
            /\ todo' = Newest /\ at' = "write" /\ UNCHANGED <<until, exit>>
       ELSE Stop(at)
    /\ UNCHANGED file

(* One tag_motion line; the window loop leaves out sequence numbers it has. *)
WriteSample ==
    /\ Working /\ at = "write" /\ todo # <<>>
    /\ LET s == Head(todo)
           known == mode = "window" /\ \E i \in DOMAIN host.got : host.got[i].seq = s.seq
       IN IF known THEN UNCHANGED <<host, file>>
          ELSE /\ host' = [host EXCEPT !.got = Append(@, s)]
               /\ Write([kind |-> "motion", label |-> label, sample |-> s])
    /\ todo' = Tail(todo)
    /\ UNCHANGED <<world, ball, drops, options, at, until, tries, exit, verdict>>

(* The loop ends after its last request, or once Enter has been pressed.   *)
Written ==
    /\ Working /\ at = "write" /\ todo = <<>>
    /\ \/ at' = "window" /\ mode = "window" /\ host.index < Requests
       \/ at' = "final" /\ (mode = "window" /\ host.index < Requests => host.got # <<>>)
    /\ UNCHANGED <<world, ball, drops, options, until, tries, host, todo, file, exit, verdict>>

-----------------------------------------------------------------------------
(***************************************************************************)
(* TagCaptureSession: observe_motion for each sample, then finalize.       *)
(***************************************************************************)

(* _sequence_delta; None for a step backwards.                             *)
SequenceDelta(current, previous) ==
    LET d == (current - previous) % Modulus IN IF 2 * d >= Modulus THEN None ELSE d

MotionIssues(s) ==
    LET Step(P(_, _)) == \E i \in 1 .. Len(s) - 1 : P(s[i], s[i + 1])
        jump(a, b) == SequenceDelta(b.seq, a.seq) # 1
        back(a, b) == b.t <= a.t
    IN (IF Step(jump) THEN {"sequence"} ELSE {})
       \cup (IF Step(back) THEN {"clock"} ELSE {})
       \cup (IF \E i \in DOMAIN s : ~s[i].ok THEN {"invalid"} ELSE {})

(* Fault: the boot id of the last status is not compared.                  *)
AnyBootStatusIssues(old, new, s) ==
    (IF new.up < old.up THEN {"uptime"} ELSE {})
    \cup (IF SequenceDelta(new.seq, old.seq) = None THEN {"status_sequence"} ELSE {})
    \cup (IF s # <<>> /\ SequenceDelta(new.seq, Last(s).seq) = None THEN {"precedes"} ELSE {})
    \cup (IF ~new.healthy THEN {"health"} ELSE {})
    \cup (IF new.errors # old.errors \/ new.generation # old.generation THEN {"counters"} ELSE {})

StatusIssues(old, new, s) ==
    (IF new.boot # old.boot THEN {"boot_id_changed"} ELSE {})
    \cup (IF new.up < old.up THEN {"uptime"} ELSE {})
    \cup (IF SequenceDelta(new.seq, old.seq) = None THEN {"status_sequence"} ELSE {})
    \cup (IF s # <<>> /\ SequenceDelta(new.seq, Last(s).seq) = None THEN {"precedes"} ELSE {})
    \cup (IF ~new.healthy THEN {"health"} ELSE {})
    \cup (IF new.errors # old.errors \/ new.generation # old.generation THEN {"counters"} ELSE {})

Issues == MotionIssues(host.got) \cup StatusIssues(host.status, Status, host.got)

(* The summary looks again, at the samples in the order of their numbers:  *)
(* no number is missing between the least and the greatest.                *)
Gapless(s) ==
    LET seqs == {s[i].seq : i \in DOMAIN s} IN
    \A a, b \in seqs : \A n \in a .. b : n \in seqs

(* The report is written before the samples are found to be missing.       *)
GetFinal ==
    /\ Answered("final")
    /\ Write([kind |-> "result", label |-> label,
              status |-> IF Issues = {} THEN "PASS" ELSE "FAIL"])
    /\ Stop(IF Issues = {} /\ host.got # <<>> /\ Gapless(host.got) THEN "PASS" ELSE "FAIL")

Kill ==
    /\ Working /\ Stop("killed") /\ tries' = 0
    /\ UNCHANGED <<world, ball, drops, options, file, verdict>>

(* The detector reads the file of a finished capture.                      *)
Evaluate ==
    /\ ~Working /\ verdict = "" /\ file # <<>>
    /\ LET c == ReadCapture(file) IN
       \E manifest \in Manifests :
         verdict' \in {d.decision : d \in EvaluatePickup(c, manifest, Unsupported)}
    /\ UNCHANGED <<world, ball, drops, options, at, until, tries, host, todo, file, exit>>

Next ==
    \/ Tick \/ SensorError \/ Reboot \/ OtherFreeze \/ Doze \/ Wake \/ Fail \/ Recover
    \/ NoAnswer
    \/ GetStatus \/ Countdown \/ GetMarker \/ Acknowledge \/ EpisodeOver
    \/ FreezeHistory \/ GetChunk \/ SelectWindow \/ GetWindow \/ WriteSample \/ Written
    \/ GetFinal \/ Kill
    \/ Evaluate

Spec == Init /\ [][Next]_vars

-----------------------------------------------------------------------------
(* Properties.                                                             *)

(* The capture as the detector reads it, and by its lines.                 *)
Kept == LET c == ReadCapture(file) IN c.samples
Marker == OfKind(file, "marker")
Motions == Lines(file, "motion")
Markers == Lines(file, "marker")
Times == {file[i].sample.t : i \in Motions}

(* A capture that passes holds samples of one boot of the Ball, and its    *)
(* action marker is one of that boot: main.c numbers its samples from the  *)
(* start and counts its freezes from zero again after a reboot, so numbers *)
(* and capture ids may agree across it.                                    *)
PassIsOneBoot ==
    exit = "PASS" =>
        /\ \A i, j \in Motions : file[i].sample.boot = file[j].sample.boot
        /\ \A i \in Motions, k \in Markers : file[i].sample.boot = file[k].boot

(* A frozen history that passes has one valid sample for every period it   *)
(* spans, in order, although neither the parsers nor the session look for a *)
(* pause: what was sampled before a nap or a fault is gone when sampling   *)
(* resumes.  An armed capture spans everything from the countdown to the   *)
(* end of the episode.                                                     *)
HistoryHasNoHole ==
    exit = "PASS" /\ mode # "window" =>
        /\ \A i \in Motions : file[i].sample.ok
        /\ \A i, j \in Motions : i < j => file[i].sample.t < file[j].sample.t
        /\ \A a, b \in Times : a .. b \subseteq Times
        /\ mode = "armed" =>
             /\ Markers # {}
             /\ \A k \in Markers :
                  Times = file[k].t - PreRoll .. file[k].t + Episode

(* A frozen capture that nothing disturbs passes, provided the history is  *)
(* frozen before the ring has let go of the countdown and the sample       *)
(* numbers have not come round.                                            *)
Undisturbed == upsets = 0 /\ drops = 0 /\ ball.seq = now

FrozenInTime ==
    Marker # <<>> /\ ball.frozen # <<>> => Last(ball.frozen).t < Marker[1].t + Ring - PreRoll

HealthyPasses ==
    Undisturbed /\ mode # "window" /\ FrozenInTime =>
        exit \in {"", "PASS", "killed", "acknowledge"}

(* A pickup is suspected only on a complete capture: its samples and its   *)
(* marker are of one boot, no period is missing from the rest before the   *)
(* marker to the end of the motion, and every sample is valid, whatever was *)
(* left in the file by a capture that was killed, raised or failed.        *)
SuspicionIsSound ==
    verdict = "PICKUP_SUSPECTED" =>
        /\ exit = "PASS"
        /\ Len(Marker) = 1
        /\ \A i \in DOMAIN Kept : Kept[i].ok /\ Kept[i].boot = Marker[1].boot
        /\ \A t \in Marker[1].t - Baseline .. Marker[1].t + SearchStart + GyroAfter - 1 :
             \E i \in DOMAIN Kept : Kept[i].t = t

=============================================================================
