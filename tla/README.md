# PuttTrack in TLA+

Specifications of the PuttTrack venue software and Tag firmware, model-checked
with TLC and, for nine of its parts, proved with TLAPS for every number of
players, Balls, threads, frames, failures and events. Every definition is a translation
of the code; `PROJECT.json` ("map") names the lines each one stands for.

## The system

A group checks in at a kiosk and is given Balls. Each Ball carries a Tag (two
motion sensors, Bluetooth, NFC). At a Tee an NFC reader sees the Ball, the Edge
computer grants it the hole and wakes it; sensor nodes at Tee and cup report
debounced edges; the Edge turns edges into evidence and evidence into score.

| Component | Source | State it keeps | Operations | Talks to |
|---|---|---|---|---|
| Gameplay engine | `gameplay/engine.py`, `models.py` | session status, current hole, who is active, scorecards, totals, seen event ids | one handler per evidence event: tee, cancel, stroke, feature, pickup, cup, adjustment | called by the round runtime, under its lock |
| Hole-activation authority (ADR-015) | `venue/activation.py` | registered Balls, eligible Balls per hole, pending requests by token and by Ball, leases by hole and by Ball, epochs, consumed tokens | touch, authorize, heartbeat, motion, end, semantic end, sweep | NFC readers, credential verifier, Balls (power directives) |
| Evidence policy and ordering | `evidence/physical_policy.py`, `ordering.py` | last sequence number and boot per node, decisions by observation id, one cup candidate | evaluate an observation against the turn | asked by the round runtime |
| Round runtime | `venue/runtime.py` | engine, policy, answer cache, audit file, presentation broker | process gameplay, evidence, observations; present a Ball | web threads, sensor bridges; file system |
| Check-in and web application | `venue/session.py`, `web.py` | Balls in use, sessions, booking codes; the current session and runtime | start session, simulate, adjust, observe, event stream | one thread per HTTP request |
| Tag motion firmware | `firmware/nrf54l15_tag_app/src/main.c` | power policy and state, sensor health, interrupt and wake-up mode, reboot guard; motion ring and frozen capture; NFC window | main loop; interrupt, management, Bluetooth and NFC callbacks | sensors over I2C/SPI, host over SMP/BLE |
| Tag capture on the host | `tag/`, `tools/capture_tag_smp.py` | the answers of one capture, its samples and issues, the file | status, countdown, marker, freeze, chunks or windows, final status | Tag, operator, field-capture page |
| PN532 reader, roller motor | `firmware/esp32c3_pn532_reader` | debounce; probe/arm/run windows | serial commands, polling | host |
| Field-capture page | `tools/run_field_capture_ui.py` | batch, attempt, phase, worker threads, ready timer, subprocess | HTTP handlers, workers, timer, close | Tag, capture tool, analysis, operator |
| Recording and replay | `recording/`, `contracts/`, `evidence/replay.py`, `evidence/adapter.py`, `tools/capture_cs.py`, `tools/replay_run.py` | manifest and digest, raw log, append-only JSONL, summary | append, sync, summarise, read, replay | serial port, file system, engine |
| Motion recognition | `motion/recognizer_v1.py`, `motion/pickup_v0.py` | the path tables of one decoding | frames, emissions, decode, events; one verdict per file | capture files |
| Radio planning, vision, datasets, channel sounding | `radio/`, `vision/`, `cs/`, `tools/` | none over time | numerical and parsing functions | |

What is hard here: evidence arrives in any order, twice or after its turn;
request threads read shared state without the lock; an exception half-way
through a handler leaves what was assigned before; an authorization is retried
while the hole changes hands; the Tag's loop is interrupted between any two
reads while each bus operation may fail; the Tag may only reboot itself once
per fault; a host reads a Ball's history piece by piece over a radio that loses
requests and answers, while the Ball dozes, fails, reboots or serves another
host; worker threads, a timer and HTTP handlers hand one phase around; and a
recorder may die, or the power go, between any two writes. `PROJECT.json` ("hazards") lists them line by line with the
properties that watch them, and says why where none does yet.

What makes each component correct: the engine never lets two players hold a
turn, never skips a hole and never counts an event twice; the authority never
gives a hole to two Balls, nor an epoch to two turns; the policy grants a
hole-out only on two independent edges of one turn; the runtime never says
"accepted" of what the game or the audit file lacks; the application never
leaks a Ball or plays two rounds; the Tag never sleeps in a state it cannot be
woken from, and never reboots for ever; a capture that passes is one unbroken
history of one boot, and no other capture is believed; the field-capture page
never counts what was not performed and never leaves its operator stuck; the
decoder's path and margin are the true ones; and evidence on disk never
outlives what explains it, nor does a replay that refused anything pass for clean.

## Modules

| Module | Models | Composed of |
|---|---|---|
| `Gameplay` | the engine, every event handler | |
| `GameplayProofs` | five invariants and an action property of `Gameplay` | `Gameplay` |
| `HoleLease` | abstract: a hole is vacant or held under a fresh epoch | |
| `HoleActivation` | the authority; implements `HoleLease` | `INSTANCE HoleLease` |
| `HoleActivationProofs` | five invariants, an action property, the refinement | `HoleActivation` |
| `PhysicalEvidence` | ordering tracker and Tee/cup policy | |
| `RoundRuntime` | engine + policy + audit file + sensor nodes | `Gameplay`, `PhysicalEvidence` |
| `VenueApplication` | check-in service and request threads | |
| `VenueApplicationProofs` | an invariant and two action properties | `VenueApplication` |
| `TagSensors` | the Tag's main loop and the handlers around it | |
| `TagSensorsProofs` | five invariants | `TagSensors` |
| `TagCapture` | the Ball's ring, freezes and boots against one run of the capture tool | `PickupDetector` |
| `TagCaptureProofs` | two invariants of captures that pass | `TagCapture` |
| `PickupDetector` | how the pickup detector reads a capture file and decides | |
| `FieldCapture` | the field-capture page: handlers, workers, timer, subprocess | |
| `FieldCaptureProofs` | three invariants | `FieldCapture` |
| `MotionRecognition` | frames, emissions, duration decoder, events | |
| `MotionRecognitionProofs` | its three invariants | `MotionRecognition` |
| `EvidenceReplay` | reading JSONL evidence and replaying it into the engine, twice | `Gameplay` |
| `RunRecording` | the recorders of ranges and of events, kills and power loss | `EvidenceReplay` |
| `RuntimeAndRecordingProofs` | of `RoundRuntime`: three invariants, an action property, and that it implements `Gameplay`; of `RunRecording`: the four invariants of captures and replays | `RoundRuntime`, `RunRecording`, `GameplayProofs` |
| `MC*` | instances for TLC | |

### Gameplay

`play[h][p]` is `HoleRuntime.players[p]` of hole `h`, `stats[p]` the player's
running totals, `active[h]` the hole's active player, `seen` the processed
event ids. Each handler of `_dispatch` is an action; a call that raises is no
step, since the engine validates before it assigns. `DuplicateIgnored` is the
call with a known id. Completion points follow `completion_points`, clamping
included. Player names, presentation messages and course parsing are left out.

- `TurnDiscipline`: at most one player holds the turn, on the current hole only,
  and exactly that player's scorecard is mid-play.
- `PhaseAgrees`: a scorecard's status accounts for its strokes, clock, features.
- `HolesInOrder`: every hole before the current one is complete for all, every
  later one untouched; the round is over exactly when every hole is complete.
- `ScoresAddUp`: every total of a player is the sum over the scorecards, plus
  the adjustments, and bonuses and penalties itemise it (`RoundTotals`); every
  arming, stroke, feature and completion on the scorecards was paid for by an
  event id of its own (`OneEventOneScore`); a limited feature scores at most
  its limit per player (`FeatureLedger`).
- `FinishedStaysFinished`: after the last cup nothing changes a score.

### HoleActivation

Dictionaries are functions with `None` for an absent key. Tokens are numbered;
a credential is the verdict of an external verifier. `told` is history: the
last power directive each Ball was given. Handlers that raise are no steps;
handlers that reject are, because they answer with a directive. Time is an
integer that only moves forward.

- `LeaseTablesAgree`: leases found by hole and by Ball are the same leases.
- `LeaseIsEligible`: the holder belongs to the lease's session and is eligible.
- `EpochsFence`: a live lease has its hole's newest epoch, so a command of an
  earlier turn can never match it.
- `NothingIsLeftBehind`: requests by token and by Ball are the same requests
  (`PendingTablesAgree`), deadlines stay within the timing of the turn
  (`LeaseWindow`), and a Ball last told to be active holds a lease
  (`AwakeOnlyWithLease`).
- `TurnNeverSwapped`: no step replaces one Ball's turn by another's.
- `ImplementsHoleLease`: refinement, with `holder` and `epoch` read off the
  lease tables. Touches, credentials, retries and refreshes are stutters.

### PhysicalEvidence and RoundRuntime

`PhysicalEvidence` gives `Evaluate(o, turn)`; `RoundRuntime` composes it with
the engine, the answer cache and the audit file. `edges` holds what the sensor
nodes have ever emitted: a member can be delivered at any time, again, out of
order, or never, and nodes may reboot. One call is one action because it holds
the runtime's lock; what can split it is an exception, and each place that can
raise has a disjunct: the engine refuses (`EvidenceRefused`), the transition
cannot be audited (`EvidenceUnaudited`), the decision cannot
(`AppendDecision`). A decision kept in the policy and an answer kept in the
runtime are different caches; the space between them is where the properties
look. `sound` is the conjunction of the checks that look at the observation
alone, including that its sensor kind is one the policy supports.

- `CandidateTurn`: a cup entry that waits belongs to a ball that was being
  played on that hole; no later turn can be completed by it.
- `CupBacking`: every granted hole-out has its own pair of edges, from
  independent sensors, of one hole, in order (of sequence numbers, or received at
  the same time), within the window, in one boot.
- `RecordsAgree`: an "accepted" answer implies a processed event and an audited
  transition, and the audit file has no transition that did not happen and
  lacks one only for an append that failed.
- `RedeliveryNeverScores`: delivering a decided observation again never changes
  the game, even if its first delivery raised half-way.

### VenueApplication

An action is what a thread does between two unlocked reads of the
application's state. `simulate` is the sequence ReadHole, ReadActive, ReadBall,
ReadTarget, Process; `start_session` runs under the lock in three steps, since
its two assignments to `self.runtime` are visible to readers without the lock.
A round is reduced to hole, turn and who has holed out. The handlers' uncaught
exceptions (a runtime that is gone at the next read) end the request.

- `VenueInOrder`: Balls in use, sessions and booking codes agree; only a run
  directory that cannot be created leaves Balls in use by a session nobody
  plays, one per failure; a round that is not over is the one on the screens.
- `ReleasedRoundIsFrozen`: late requests never change a released round.
- `StalePressRefused`: a button pressed in one turn never acts in another.

### TagSensors

`pc` is the place in `main`'s loop; the handlers (`adxl367_motion_trigger`,
`putttrack_mgmt_set_power_policy`, Bluetooth callbacks) run between any two
labels, and give the semaphore after storing the event. A sensor in `flaky`
may fail any bus operation, others fail none; membership changes at any time.
Timestamps are ages up to the limit they are compared with. `calm` and
`reboots` are history. Assumed of the driver: setting an output data rate does
not touch the wake-up bit, and initialising the chip at boot clears it.

- `IdleCanWake`: idle implies interrupt armed, wake-up mode on, both sensors
  configured.
- `StreamIsReal`: the reported stream rate is non-zero exactly while the Tag
  really samples.
- `NothingSleptOn`: no wake-up or policy change is left behind when the loop
  blocks.
- `OneRebootPerCalm`: between two automatic reboots lies an uninterrupted
  healthy period of the guard's length, or a power cycle.
- `EventuallySettles`: once the sensors work for good and the host is away,
  the Tag ends up healthy or quarantined for good.

Fairness in `TagSensors`: weak for the loop's thread and for the handlers'
`k_sem_give` (the scheduler runs ready threads and interrupts return), and
strong for `Tick`: time passes however often the loop is woken. No fairness is
assumed of sensors, host, or interrupts.

### TagCapture and PickupDetector

The Ball is `ball`: its boot, sample counter, motion ring, frozen copy and
capture id. `Tick` is one sample period; `SensorError`, `Doze`, `Wake`, `Fail`,
`Recover`, `Reboot` and `OtherFreeze` are what `main.c` does to the ring (its
`clear_motion_history` is `Cleared`). The tool is a program counter `at` with
one step per request: the answer arrives, or `NoAnswer` loses it, with the
request executed or not, and the request is repeated up to `Retries` times.
`SelectWindow`, `WriteSample` and `GetFinal` are the parsers, the file and
`TagCaptureSession`. `Kill` ends the tool anywhere. A sample is its boot,
number, time and validity; its measurements are chosen when the pickup detector
(`EvaluatePickup`, the order of its refusals and abstentions kept) reads the
file, since nothing before depends on them. Requests are pinned to the Ball's
address, as the script's own text asks for.

- `PassIsOneBoot`: samples and action marker of a passing capture are of one
  boot, although sample numbers and capture ids recur after a reboot.
- `HistoryHasNoHole`: a frozen history that passes has a valid sample for every
  period it spans, and an armed one spans countdown and episode. (Window mode
  has no such property: a nap leaves a hole in time that numbers do not show.)
- `HealthyPasses`: an undisturbed frozen or armed capture passes, unless the
  ring has let go of the countdown or the 32-bit number has come round.
- `SuspicionIsSound`: the detector suspects a pickup only on a complete, valid
  stretch of one boot of a capture that passed, whatever file it is given.

### FieldCapture

A handler under the lock is one action; a worker is a thread that takes a step
per critical section or subprocess call, so the ready timer, a handler, the
subprocess's lines and an acknowledgement of an earlier attempt come in
between. A power command is confirmed, or fails with the mode written or not;
`_fail_and_restore` lets go of the ready timer before its command (`BeginAbort`).
`counted` is history: the attempt behind each counted repetition. File-system
errors are left out: the code has no handler for them.

- `PhaseHasOneOwner`: a phase that waits for the operator has no worker that
  could still change it; any other phase has exactly one.
- `LowPowerIsTrue`: the page never says low power of a Ball left in research.
- `CountedWasPerformed`: a counted repetition has the file of its own attempt,
  which ended well and acted on a GO painted for that attempt of that batch.
- `OperatorGetsTurn`: every busy phase gives way to one in which the operator
  can act, or the tool is closed.

Fairness in `FieldCapture`: weak for each worker thread and for the end of each
subprocess, since threads run and every request, wait and retry of the capture
tool has a timeout. None is assumed of the operator, the page or the Ball.

### MotionRecognition

One frame ends per sample period; what its features say of the states (a label,
or nothing) and whether its quality suffices are inputs. Scores are costs
(negated log probabilities) in natural numbers of any size, where the code has
floating-point numbers: rounding is left out. `Infinite`, which is -1, stands
for `NEG_INF`. What a dwell's length costs is a table (`Deviation`), since
nothing depends on its being a logarithm. `DecodeFrame` fills one column of the
explicit-duration Viterbi table: of all `Candidates` for a state `TopTwo` keeps
the first two in the order of the code's stable sort (`Before`). `Conclude` ranks
the final paths and follows the chosen one back (`RetainedPaths`).

- `DecodeIsExact`: path, score and runner-up are those of the definition, the
  cost of each of all state sequences being computed from its runs; an
  infeasible sequence answers UNKNOWN.
- `EventsFollowDwells`: an event lies on a usable frame, between two states that
  were each held for their minimum on usable frames (or in UNKNOWN).
- `FramesAreCausal`: a frame computed during capture is the frame computed from
  the whole capture afterwards.

### EvidenceReplay and RunRecording

A file is a sequence of lines; a line has the records whose text it holds (two
when an append ran into an unterminated line), whether text is missing, and
whether it ends in a newline. `EvidenceReplay` reads it line by line (a torn
last line is quarantined, any other unparsable one is fatal; records are
decoded, quarantined, passed over or given to `Gameplay`'s own actions), and
does so twice, as `replay_run` does. The payload of an `evidence_event` is
unchecked: metadata that cannot be spread, a `feature_id` that cannot be a key
and a `points_delta` that cannot be added raise out of the replay
(`AdapterRaises`, `EngineRaises`), and a `points_delta` with a fraction is added
and then refused (`RefuseFraction`). `RunRecording` adds the writers: the
capture of ranges (manifest, digest, raw log, records, summary) and a recorder
of events, the device that reboots, lines the port drops, lines that lack any
field of their `Identity` (each is counted on its own), short writes, a sync
that raises, a kill and a power loss, after which each file is a prefix of what
was written that holds what was synced. After a sync that raised, the line may
or may not be on disk; a later sync that succeeds is taken to put the whole file
there.

- `EvidenceHasProvenance`: every record a reader gets has its raw line and a
  manifest that verifies.
- `CaptureIsReadable`: an interrupted capture stays readable, in order, with at
  most the last line set aside and every counted record present.
- `CompleteIsTrustworthy`: a run called complete has records of its own device,
  one event id per measurement, and no unnoticed gap within a boot.
- `ReplayIsFaithful`: a replay that reports has a line for every append that had
  returned; one without quarantines has scored every event, each id once.

Where records must be on disk, the run syncs (no `--no-fsync`) or loses no power.

## Runs

| Run | Question | Instance | Result |
|---|---|---|---|
| `gameplay` | do all evidence interleavings keep the books? | 2 players, 2 holes, 1 bonus, 1 limited hazard, 13 events (12 finish a round, 1 comes after) | holds |
| `hole_activation` | do tables, epochs, directives agree; does it implement the lease? | 2 Balls, 2 holes, small deadlines so that every timeout happens | holds |
| `live_turn_power` | ADR-015: a live turn is not powered off | same | **violated** |
| `round_turns` | answers, game and audit file | 2 players, 1 hole, 3 observations of 2 nodes, 3 simulated events, 1 failing append | holds |
| `round_holes` | cup candidates across holes and boots | 1 player, 2 holes, 3 observations of 2 nodes, a reboot of one, 5 simulated events | holds |
| `venue_application` | threads against check-in | 2 threads (symmetric), 2 Balls, 2 holes, 2 sessions, 1 failing directory | holds |
| `tag_sensors` | idle, stream, wake-ups, reboots | failure limit 2, 2 attempts, all delays 0 or 1 tick | holds |
| `tag_settles` | recovery ends | failure limit 2, 1 attempt, quiet time 1 tick, other ages 0 | holds |
| `field_capture` | does a phase have one owner, a count a performance, the operator a turn? | 2 sessions of 2 repetitions, 2 attempts, 1 reconnection, 3 threads | holds, 0.4 million states |
| `tag_capture` | what is a passing capture worth, and a verdict on any file? | ring of 4, chunks of 2, countdown 1, episode 2, 4-bit numbers that may start near the wrap, 6 periods, 2 troubles | holds, 1.9 million states |
| `motion_recognition` | is the decoder exact, are events and frames causal? | 4 states, 5 frames, every sequence of verdicts | holds, 10 018 states |
| `recording` | does evidence survive kill and power loss, and does a replay score it? | 3 serial lines with all, none or all but one field of identity, 2 boots, 1 dropped line; 3 appends out of 10 records, 1 failing append | holds, 5.7 million states |

Why these bounds. Turns, cup candidates and leases relate at most two actors at
a time, so two players, Balls, threads and holes give every pairing; the second
hole is there to be advanced to. Thirteen events let the whole round be played
and one event come late. Three observations give entry, presence and one more
(a retry, another player's, or another hole's). Two sessions let one round
follow another. In `TagSensors` a limit of two tells "first failure" from
"limit reached", two attempts tell a retry from the last, and a delay of one
tick tells "due" from "not yet"; ages above a limit behave like the limit, so
they are cut there. `tag_settles` is smaller because liveness checking is
dearer; it keeps suspicion, recovery, degradation, quiet wait, guarded reboot
and quarantine. In `TagCapture` a ring of four holds countdown, marker and
episode exactly, so that one lost freeze overruns it, takes two chunks, and
lets one reboot or foreign freeze fall between them; two troubles give a
disturbance and a lost answer. In `FieldCapture` two repetitions tell the last
from one before, two attempts allow one late acknowledgement, and three threads
are a worker, a fired timer and a successor. Five frames let two dwells of two
frames meet and a maximum dwell be exceeded. In `RunRecording` three lines or
records give a torn one, the one it runs into and one after; the field a line
lacks is the time, the sequence or the boot, since a missing device is counted
as a missing time is (the theorem is about each field). Named bounds:
`MaxEvents`, `MaxTokens`, `MaxTime`, `MaxObservations`, `MaxBoots`,
`MaxSimulated`, `MaxFailures`, `MaxSessions`, `MaxAttempts`, `MaxRetries`,
`MaxTroubles`, `MaxLines`, `MaxDeviceBoots`, `MaxLost`, `MaxFailedAppends`,
`Frames`, `Slots`.

`MCSpec` of `MCGameplay` uses event ids in numeric order, since the engine only compares
them, and starts play on the last hole at the earlier of its two times (the
time matters to a duration only). `MCRoundRuntime` uses state constraints: simulated events are numbered in order
(ids differ only by name), strokes are played at time 0 (their time matters to
a duration only), and, in the two-hole instance, simulated events that leave no
mark are skipped and only the node with the entry sensor reboots. Threads in `MCVenueApplication` are symmetric.

## Where code and documents disagree

Checked as a run that finds the violation:

- A rejected touch or command always answers System OFF, also to a Ball whose
  turn is live (`live_turn_power`; ADR-015, decision 6).

Found while modelling; the models do what the code does, and no property says
otherwise:

- A packet of a node's earlier boot is accepted as a new ordering domain
  (`ordering.py:48`; `PHYSICAL_TEE_CUP_INGRESS.md:70`).
- A decision whose evidence the engine refuses is never audited
  (`runtime.py:344`; `PHYSICAL_TEE_CUP_INGRESS.md:134`).
- A retried observation counts again after the next check-in
  (`runtime.py:136`; `GAMEPLAY_EXPERIENCE.md:51`).
- Recovery from a fault in idle leaves the accelerometer in wake-up mode
  (`main.c:1690`; `NRF54L15_TAG_LOW_POWER.md:23`, `:90`).
- A schema version that is not of the form `<major>.<minor>` raises an exception
  that `iter_jsonl` does not catch, so the record is neither decoded nor
  quarantined (`jsonl.py:118`; `EVIDENCE_FOUNDATION.md:53`): action `Fail` of
  `EvidenceReplay`.
- An adjustment with a fractional `points_delta` is quarantined after its points
  were added, and its id is not remembered, so that the report's snapshot has the
  points of an invalid record, twice if it was recorded twice (`engine.py:272-278`,
  `replay.py:150`; `EVIDENCE_FOUNDATION.md:113`): action `RefuseFraction`.

## Proofs

Proved with TLAPS for every value of the constants, under the named assumptions
the modules declare:

| Theorem | Module | States |
|---|---|---|
| `Typing` | `GameplayProofs` | `Spec => []TypeOK` |
| `OneTurn` | `GameplayProofs` | `Spec => []TurnDiscipline` |
| `SlotPhases` | `GameplayProofs` | `Spec => []PhaseAgrees` |
| `CourseOrder` | `GameplayProofs` | `Spec => []HolesInOrder` |
| `DoneIsDone` | `GameplayProofs` | `Spec => FinishedStaysFinished` |
| `BooksBalance` | `GameplayProofs` | `Spec => []ScoresAddUp` |
| `Typing` | `HoleActivationProofs` | `Spec => []TypeOK` |
| `TablesAgree` | `HoleActivationProofs` | `Spec => []LeaseTablesAgree` |
| `HoldersEligible` | `HoleActivationProofs` | `Spec => []LeaseIsEligible` |
| `Fencing` | `HoleActivationProofs` | `Spec => []EpochsFence` |
| `NothingLeft` | `HoleActivationProofs` | `Spec => []NothingIsLeftBehind` |
| `TurnsNotSwapped` | `HoleActivationProofs` | `Spec => TurnNeverSwapped` |
| `Refinement` | `HoleActivationProofs` | `Spec => ImplementsHoleLease` |
| `RuntimePlaysByTheRules` | `RuntimeAndRecordingProofs` | `RuntimeSpec => Spec` (of `Gameplay`) |
| `CandidateOfItsTurn` | `RuntimeAndRecordingProofs` | `RuntimeSpec => []CandidateTurn` |
| `CupsAreBacked` | `RuntimeAndRecordingProofs` | `RuntimeSpec => []CupBacking` |
| `RecordsTellTheGame` | `RuntimeAndRecordingProofs` | `RuntimeSpec => []RecordsAgree` |
| `RedeliveryIsHarmless` | `RuntimeAndRecordingProofs` | `RuntimeSpec => RedeliveryNeverScores` |
| `BooksInOrder` | `VenueApplicationProofs` | `Spec => []VenueInOrder` |
| `ReleasedRoundsStay` | `VenueApplicationProofs` | `Spec => ReleasedRoundIsFrozen` |
| `StalePressesRefused` | `VenueApplicationProofs` | `Spec => StalePressRefused` |
| `PhaseOwned` | `FieldCaptureProofs` | `Spec => []PhaseHasOneOwner` |
| `PowerKnown` | `FieldCaptureProofs` | `Spec => []LowPowerIsTrue` |
| `CountedPerformed` | `FieldCaptureProofs` | `Spec => []CountedWasPerformed` |
| `TypeCorrect` | `TagSensorsProofs` | `Spec => []TypeOK` |
| `IdleWakes` | `TagSensorsProofs` | `Spec => []IdleCanWake` |
| `StreamReal` | `TagSensorsProofs` | `Spec => []StreamIsReal` |
| `EventsReachLoop` | `TagSensorsProofs` | `Spec => []NothingSleptOn` |
| `NoRebootLoop` | `TagSensorsProofs` | `GuardClear # 0` gives `Spec => []OneRebootPerCalm` |
| `EvidenceExplained` | `RuntimeAndRecordingProofs` | `RecordingSpec => []EvidenceHasProvenance` |
| `CapturesReadable` | `RuntimeAndRecordingProofs` | `RecordingSpec => []CaptureIsReadable` |
| `CompleteRunsTrusted` | `RuntimeAndRecordingProofs` | `RecordingSpec => []CompleteIsTrustworthy` |
| `ReplaysFaithful` | `RuntimeAndRecordingProofs` | `RecordingSpec => []ReplayIsFaithful` |
| `DecodingIsExact` | `MotionRecognitionProofs` | `Spec => []DecodeIsExact` |
| `EventsOnDwells` | `MotionRecognitionProofs` | `Spec => []EventsFollowDwells` |
| `FramesStandLater` | `MotionRecognitionProofs` | `Spec => []FramesAreCausal` |
| `PassesAreOneBoot` | `TagCaptureProofs` | `Spec => []PassIsOneBoot` |
| `HistoriesHaveNoHole` | `TagCaptureProofs` | `Spec => []HistoryHasNoHole` |
| `SuspicionsAreSound` | `TagCaptureProofs` | `EpisodeFits` gives `Spec => []SuspicionIsSound` |
| `UndisturbedPasses` | `TagCaptureProofs` | `NumbersLast` gives `Spec => []HealthyPasses` |

The assumptions: at least one player and one hole, finitely many players and
features, features with integer points and a positive limit, score curves with
a last threshold (`Gameplay`); positive timeouts and a hard maximum beyond the
idle time (`HoleActivation`); observations that name a known hole, Ball and kind
(`RoundRuntime`, `VenueApplication`); event ids that are globally unique, as
`docs/GAMEPLAY_IMPLEMENTATION.md` demands, so that two replayable events under
one id are one event delivered twice, with times and deltas the engine knows
(`RunRecording`; `ReplaysFaithful` needs it: the engine ignores an id it has seen
whatever else the event says); at least one Ball and one hole
(`VenueApplication`); a repetition to count and a thread to run
(`FieldCapture`); positive sizes, counts and durations of a capture, with
countdown and episode inside the ring, as `validate_armed_options` demands
(`TagCapture`); a model whose states are its labels and UNKNOWN, each named once,
with positive minimum and maximum durations and natural costs, and at least one
window (`MotionRecognition`; `build_hsmm_config` rounds durations up to one
frame); a positive failure limit and delays in the order of the code's
constants (`TagSensors`); `None`, `Absent` and their like are outside the sets
they stand beside; and bounds are natural numbers. Three theorems ask for
more: `NoRebootLoop`, since a guard time of zero makes every moment calm (the
code's is five minutes); `SuspicionsAreSound`, whose `EpisodeFits` says that
the countdown covers the detector's baseline and the episode its search start
and gyroscope window (three and ten seconds in the runbook, one second and one
and a half in `configs/research/pickup_detector_v0.json`; what a capture does not
span, it cannot show); and `UndisturbedPasses`, whose `NumbersLast` says that a
capture ends within half the range of the 32-bit sample number, eight months at
a hundred samples a second. Beyond that `_sequence_delta` takes a step forwards
for one backwards and a healthy capture fails.

### The arguments

Each module's theorems follow from one inductive invariant, which its `IInv`
(`RInv`, `RecInv`) names; TLC checked each on the runs' instances first.

*Gameplay.* Four properties are proved together: `HolesInOrder` needs
`TurnDiscipline` (only a mid-play scorecard of the current hole is completed),
which needs `PhaseAgrees`. Lemmas say what an event may do to one scorecard at a
time, so that a handler is met once and not once per property.
`ScoresAddUp` then stands on them: `Balanced` says that an event moves one
player's scorecard on one hole and exactly that player's totals by the same
amounts, and that the marks it leaves are at most one more than before; every
handler is balanced, and a balanced event keeps the books. Sums over holes and
features are recursive functions in the model; that they exist and shift by one
term is proved by the least natural number at which they would not
(`LeastNatural`, `AllNaturals`), since the library's induction principles cannot
be instantiated.

*HoleActivation.* The invariant adds to the properties that a Ball published as
eligible has a session (`EligibleAssigned`): the request a Tee read files copies
the session of its Ball, so typing is not inductive without it. `LeaseSteps`
says that a step does one of four things to the leases (nothing, a release, a
refresh, a grant), so an invariant about leases has four cases and not one per
disjunct of `Next`; refinement maps each of the four to a step of `HoleLease` or
a stutter. `Fencing` and `NothingLeft` add their property to the invariant once
the others hold.

*RoundRuntime.* Every step of the runtime is a step of the engine or leaves the
game alone (`RuntimeStepIsGameStep`), so the runtime implements `Gameplay` and
has its invariant for nothing. What `RInv` adds ties three memories together:
the world (numbers and boots of nodes grow, an edge is stamped when it is sent,
`WorldOK`), the policy (its candidate and its grants, `CandidateOK`, `GrantsOK`:
the one place where a candidate and its turn meet is `DeliverEffect`), and the
answers and the audit file (`RecordsOK`). A decision once cached is only ever
repeated (`RefusedForGood`), which is why a redelivery cannot score.

*VenueApplication.* Whoever is between the two assignments of `self.runtime`
holds the lock and has seen the last round end (`LockHeld`, `ScreensAgree`), so
at most one session is without a round for a reason other than a failure
(`OrphansAccounted`). What a thread has read of a round stays true as far as it
matters, because a round only goes on (`Continues`: hole and turn never go
back): `PressSound` relates each thread's place to what it read, and the event
of a stale press is refused.

*FieldCapture.* `OwnerOK` relates a worker's place to the phase and to the
attempt and subprocess it works for; `Loose` are the workers that can no longer
touch the page (a late acknowledgement, a timer that lost). A handler or worker
hands the phase to one successor (`HandedOver`), so each action is met once.

*TagSensors.* `SensorsOK` says at each place of the loop what the bus operations
so far have established; `ToldOK` that an event stored and not yet seen has its
`k_sem_give` done or under way; `GuardOK` that a reboot sets the guard and only
calm clears it.

*RunRecording.* `SealInv` orders manifest, digest and first record; `FileInv`,
`CountInv` and `LineInv` say of a capture how far file, counters and raw log may
be apart at each place of the loop, and what of each is synced. A power loss
leaves a prefix that holds what was synced and perhaps a part of one line
(`PrefixLeft`), of which nothing in the invariant asks more. `IdentityInv` is what makes a
complete run trustworthy: records stand in the order their lines were read, the
line in hand is newer than all of them, and one record without any one of its
device's fields costs the run its claim (`DeviceInv`: a field's counter is the
number of records only if all have it). From the order it follows that the ordering
tracker always remembers the record before (`TrackerFollows`), so that when it
reports nothing, no number is missing (`NoGap`). For replays, `AckInv` says that
an append that returned has an ended line, its own or one that no reader accepts
(an append that ran into a torn line); a torn line may be set aside only if it
is not ended, so a replay that gets to the end has the records themselves
(`DueInv`). `TallyInv` follows the engine line by line: `Credited` says that an
id counts once, a stroke as one, and nothing else as a stroke. Every replayed
event is a step of `Gameplay` (`ReplayedEvent`), so its invariant holds of both
passes; a fraction that is added and then refused is none, and leaves a sound
round all the same (`FractionKeepsRound`).

*TagCapture.* What a passing capture says of the Ball is decided long before, and
only if no boot came between, which the host learns last. So the invariant is
conditional: as long as the Ball still runs the boot of the first status
(`SameBoot`), everything the host holds is of that boot (`BootInv`), every chunk
with the capture's id is a piece of the one history frozen for it (`ChunkInv`:
another freeze changes the id, and ids only grow within a boot), and what is
written and still to be written is one steady history (`WholeInv`). `BallInv`
makes it steady: whatever interrupts the sampling empties the ring. `FileInv`
lays out the lines. At the last status the comparison of boot ids turns the
condition into a fact. That chunks put together give the history and that the
selection of a steady batch is a stretch of it are lemmas about `FlattenSeq` and
`Picked` by the least natural number at which they would fail. For the detector,
`ResultInv` says which files can hold a result (`Complete`), and that a counted
one with a PASS is of a tool that passed: a suspicion is then refused every
other file by the structural reasons, and what is left is `HistoryHasNoHole`.
The model picks lines and samples by their places (`Picked`), since the prover
cannot expand `SelectSeq`. The converse, that nothing turns an undisturbed
capture down, has an invariant of its own on top (`CleanInv`): as long as nothing
upsets the Ball it is healthy, on its first boot, and every sample is numbered by
its period (`CleanBall`), and at each place of the tool the host has what its
next check asks for (`CleanHost`): announced chunks that make up the whole ring
(`CleanBatch`), a marker between countdown and episode (`CleanTimes`), samples to
write (`CleanSamples`). The ring may have let go of the countdown; that is the
one refusal left, and `FrozenInTime` excludes it (`CleanCovered`).

*MotionRecognition.* The decoder is compared with a definition that knows nothing
of it, the cost of a whole state sequence (`PathCost`), and is exact because of
four facts. A sequence's cost is the cost up to its last change of state, the
transition, and the cost of the last dwell (`PathCostByRuns`), which is how a
candidate is priced. A retained entry is a sequence of the cost it says
(`RetainedAreSound`), and two entries are two sequences (`RetainedAreDistinct`):
two dwells of one state are never adjacent, so a sequence has one place for its
last change. And a feasible sequence that is not retained is no cheaper than two
that are (`FeasibleAreCovered`): what it continues is retained, or no cheaper than
two retained at that frame, and continuing both gives two candidates that are no
dearer (`TopTwoRetains`). Two per state are what the runner-up needs; with one the
last step would fail, and so does the mutant `BestOnly`. `ResultIsExact` puts the
states together. The last three facts are about every frame up to the last, and so
inductions over the table: each is proved from the least frame at which it would
fail. Events (`ResultEvents`) need that a dwell in the decoded sequence is one of
the decoder's, so it lasts at least its minimum (`ChangeIsHeld`), and that an
unusable frame leaves UNKNOWN as the only feasible state (`Predicted`). Frames
(`LaterIsOutside`) need that samples arrive in the order of their times, so a
later sample is outside every earlier window. The invariant itself is what has
been computed so far: `Kept` says that frames, emissions, columns and result are
those of the definitions.

Three findings of the proof attempts changed the models. A sound audit of a cup
needs the order of its two edges: with equal receive times the sequence numbers
need not grow, if a packet of an earlier boot has reset the ordering domain in
between. The runs' instances have no such schedule; `CupBacking` now says what
the policy guarantees. And the properties of a capture speak of lines by their
place in the file, with the same meaning as before. The decoder's candidates are
a set with the sort's order on it, where they were a sorted sequence, its costs
have no upper bound, and any cost may stand for a dwell's length: the theorem is
not about one duration score.

Model-checked only: the two liveness properties, `EventuallySettles` and
`OperatorGetsTurn`, which are out of the prover's reach. (`live_turn_power` shows a
disagreement with a document and has no theorem.)

## Not modelled

- Feature formulas, training, datasets, reports, radio planning, vision: numerical
  functions over real numbers without behaviour over time. The model of the
  recognizers takes their outcome as an input.
- Motion evidence (`motion_policy.py`) and the service planner: pure mappings.
- Course loading, Parquet export, formats of serial lines: parsing, conversion.
- The OTA image: configuration of stock code.
- `operator_adjust`, motion observations and the event stream of the web
  application, `present_ball`'s cues.
- Of the Tag: advertising, NFC window, System OFF; their order against the
  vendor's NFC callbacks is not fixed by the repository.
- The roller and reader firmware and the command-line clients of the bench
  (`capture_field_session.py`, `capture_roller_run.py`, `capture_tag_ble.py`,
  power tools): sequential, and not part of a round.
- Selectors other than a Ball's address in `capture_tag_smp.py`.
- File-system errors in the field-capture page.
- In `HoleActivation` nothing schedules `sweep`, so there is no liveness to
  state.

## Plan

Modelled, in this order: `Gameplay`, `HoleLease` and `HoleActivation` with their
proofs, `PhysicalEvidence` and `RoundRuntime`, `VenueApplication`, `TagSensors`,
`FieldCapture`, `EvidenceReplay` and `RunRecording`, `PickupDetector` and
`TagCapture`, `MotionRecognition`.

Every safety invariant and action property of the runs has its theorem. What is
left is breadth: the motion evidence path of the round runtime, the operator's
adjustments in the web application, and the Tag's advertising and NFC window.
