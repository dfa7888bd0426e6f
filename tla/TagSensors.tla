------------------------------ MODULE TagSensors ------------------------------
(***************************************************************************)
(* The Tag's main loop, firmware/nrf54l15_tag_app/src/main.c: sampling,    *)
(* idle and wake-up, the bounded recovery of its two motion sensors, the   *)
(* guarded warm reboot and quarantine.                                     *)
(*                                                                         *)
(* One thread runs the loop.  Around it the ADXL367 interrupt handler, the *)
(* management handlers and the Bluetooth callbacks change what the loop    *)
(* reads; they can run between any two labels of the loop.  What the loop  *)
(* does between two labels reads at most one thing that they write.        *)
(*                                                                         *)
(* A sensor in `flaky' may fail any bus operation, any other sensor fails  *)
(* none.  Timestamps are kept as ages up to the limit they are compared    *)
(* with; time passes while the loop sleeps.  `calm' and `reboots' are      *)
(* history variables.                                                      *)
(***************************************************************************)
EXTENDS Integers

CONSTANTS
    FailureLimit,   \* SENSOR_FAILURE_STREAK_LIMIT
    MaxAttempts,    \* SENSOR_RECOVERY_MAX_ATTEMPTS
    FirstRetry,     \* SENSOR_RECOVERY_RETRY_INITIAL_MS, in ticks
    SecondRetry,    \* SENSOR_RECOVERY_RETRY_SECOND_MS
    RebootQuiet,    \* SENSOR_REBOOT_QUIET_MS
    AutoIdle,       \* AUTO_IDLE_TIMEOUT_MS
    GuardClear,     \* SENSOR_REBOOT_GUARD_CLEAR_MS
    IdleCheck,      \* IDLE_SENSOR_HEALTH_CHECK_MS
    SuspectCheck    \* SUSPECT_SENSOR_HEALTH_CHECK_MS

ASSUME TimingAssumption ==
    /\ FailureLimit \in Nat \ {0} /\ MaxAttempts \in Nat \ {0} /\ GuardClear \in Nat
    /\ {FirstRetry, SecondRetry, RebootQuiet, AutoIdle, IdleCheck, SuspectCheck} \subseteq Nat
    /\ RebootQuiet <= AutoIdle /\ SuspectCheck <= IdleCheck

Sensors == {"adxl367", "bmi270"}

VARIABLES
    pc,             \* where the main loop is
    chosen,         \* the policy this turn of the loop acts on
    health,         \* sensor_health
    runtime,        \* runtime_state
    ready,          \* the sensors whose _ready flag is set
    streak,         \* _error_streak of each sensor
    attempts,       \* sensor_recovery_attempts_in_episode
    streaming,      \* current_stream_rate_hz # 0
    armed,          \* idle_wake_interrupt_enabled
    wakeBit,        \* the wake-up mode bit in the ADXL367
    suspended,      \* bmi270_spi_suspended
    dead,           \* sensors whose driver failed at boot: not device_is_ready
    retryIn,        \* ticks to next_sensor_recovery_ms
    still,          \* ticks since last_active_motion_ms
    healthyFor,     \* ticks since sensor_healthy_since_ms
    unchecked,      \* ticks since last_idle_sensor_health_check_ms
    guard,          \* sensor_reboot_retention.guard, kept over a warm reboot
    policy,         \* power_policy
    wakeRequested,  \* idle_wake_requested
    sem,            \* power_event_sem
    giving,         \* handlers that have yet to give power_event_sem
    connected,      \* ble_connected
    flaky,          \* sensors that may fail
    calm,           \* ticks of uninterrupted health, up to GuardClear
    reboots         \* warm reboots since the Tag was last calm for GuardClear

sensing == <<health, runtime, ready, streak, attempts, streaming>>
hardware == <<armed, wakeBit, suspended, dead>>
ages == <<retryIn, still, healthyFor, unchecked>>
handlers == <<policy, wakeRequested, sem, giving, connected>>
history == <<calm, reboots>>
vars == <<pc, chosen, sensing, hardware, ages, guard, handlers, flaky, history>>

Policies == {"auto", "research", "idle"}
Faulted == {"recovering", "degraded", "quarantined"}

Goto(label) == pc' = label

-----------------------------------------------------------------------------
(* begin_sensor_recovery, with the interrupt as it is by then.  Disarming  *)
(* drops a pending request; it may fail, and then changes nothing.         *)

(* Fault: an idle Tag goes on idling.                                      *)
StayIdle == UNCHANGED runtime

LeaveIdle == runtime' = "active"

(* Fault: the stream rate goes on being reported.                          *)
StreamGoesOn == UNCHANGED streaming

StopStream == streaming' = FALSE

BeginRecovery(failed, armedNow, requestedNow) ==
    /\ health' = "recovering"
    /\ ready' = ready \ failed
    /\ attempts' = 0
    /\ retryIn' = 0
    /\ StopStream
    /\ LeaveIdle
    /\ \/ /\ armed' = FALSE
          /\ wakeRequested' = (requestedNow /\ ~armedNow)
       \/ /\ armedNow /\ "adxl367" \in flaky
          /\ armed' = TRUE
          /\ wakeRequested' = requestedNow

(* ... called from elsewhere than a failed sample.                         *)
Begin(failed, armedNow, requestedNow) ==
    /\ BeginRecovery(failed, armedNow, requestedNow)
    /\ streak' = [d \in Sensors |-> IF d \in failed THEN FailureLimit ELSE streak[d]]
    /\ UNCHANGED <<still, healthyFor, unchecked>>

-----------------------------------------------------------------------------
(* record_sensor_sample_result.                                            *)

Streak(failed) ==
    [d \in Sensors |-> IF d \notin failed THEN 0
                       ELSE IF streak[d] < FailureLimit THEN streak[d] + 1
                       ELSE FailureLimit]

(* Fault: the healthy time goes on from before the failed samples.         *)
KeepsHealthyTime == healthyFor

HealthySince == IF health = "suspect" THEN 0 ELSE healthyFor

RecordGood ==
    /\ streak' = Streak({})
    /\ health' = IF health = "suspect" THEN "healthy" ELSE health
    /\ healthyFor' = HealthySince
    /\ UNCHANGED <<ready, attempts, retryIn, streaming, runtime, armed, wakeRequested>>

RecordBad(failed) ==
    /\ streak' = Streak(failed)
    /\ UNCHANGED healthyFor
    /\ IF health \notin Faulted /\ \E d \in Sensors : streak'[d] = FailureLimit
       THEN BeginRecovery(failed, armed, wakeRequested)
       ELSE /\ health' = IF health = "healthy" THEN "suspect" ELSE health
            /\ UNCHANGED <<ready, attempts, retryIn, streaming, runtime,
                           armed, wakeRequested>>

Record(failed) == IF failed = {} THEN RecordGood ELSE RecordBad(failed)

-----------------------------------------------------------------------------
(* enter_idle_state, from the active state.                                *)

EnterIdleFails ==
    /\ UNCHANGED <<suspended, sem>>
    /\ \/ /\ flaky # {}                                    \* configure_idle_sensors
          /\ Begin(Sensors, armed, wakeRequested)
          /\ UNCHANGED wakeBit
       \/ /\ "adxl367" \in flaky                          \* enable_idle_wake_interrupt
          /\ Begin({"adxl367"}, armed, wakeRequested)
          /\ UNCHANGED wakeBit
       \/ /\ "adxl367" \in flaky                          \* set_adxl367_wakeup_mode
          /\ Begin({"adxl367"}, TRUE, wakeRequested)
          /\ wakeBit' \in {wakeBit, TRUE}

(* The trigger was set for a moment and fired before its mapping failed.   *)
EnterIdleFiresAndFails ==
    /\ "adxl367" \in flaky
    /\ Begin({"adxl367"}, armed, TRUE)
    /\ sem' = 1
    /\ UNCHANGED <<wakeBit, suspended>>

IdleEntered ==
    /\ armed' = TRUE
    /\ wakeBit' = TRUE
    /\ suspended' = TRUE \/ ("bmi270" \in flaky /\ UNCHANGED suspended)
    /\ streaming' = FALSE
    /\ unchecked' = 0
    /\ runtime' = "idle"
    /\ UNCHANGED <<health, ready, streak, attempts, retryIn, still, healthyFor,
                   wakeRequested, sem>>

EnterIdle == EnterIdleFails \/ EnterIdleFiresAndFails \/ IdleEntered

(* enter_active_state, from the idle state.                                *)
EnterActiveFails ==
    /\ UNCHANGED sem
    /\ \/ /\ armed /\ "adxl367" \in flaky                 \* disable_idle_wake_interrupt
          /\ Begin({"adxl367"}, TRUE, wakeRequested)
          /\ UNCHANGED <<wakeBit, suspended>>
       \/ /\ "adxl367" \in flaky                          \* set_adxl367_wakeup_mode
          /\ Begin({"adxl367"}, FALSE, FALSE)
          /\ wakeBit' \in {wakeBit, FALSE}
          /\ UNCHANGED suspended
       \/ /\ suspended /\ "bmi270" \in flaky              \* resuming the bus
          /\ Begin({"bmi270"}, FALSE, FALSE)
          /\ wakeBit' = FALSE
          /\ UNCHANGED suspended
       \/ /\ flaky # {}                                    \* configure_active_sensors
          /\ Begin(Sensors, FALSE, FALSE)
          /\ wakeBit' = FALSE
          /\ suspended' = FALSE

ActiveEntered ==
    /\ armed' = FALSE
    /\ wakeRequested' = FALSE
    /\ wakeBit' = FALSE
    /\ suspended' = FALSE
    /\ streaming' = TRUE
    /\ still' = 0
    /\ runtime' = "active"
    /\ UNCHANGED <<health, ready, streak, attempts, retryIn, healthyFor, unchecked, sem>>

EnterActive == EnterActiveFails \/ ActiveEntered

-----------------------------------------------------------------------------
(* attempt_sensor_recovery.                                                *)

(* What an attempt finds wrong, once the bus is as `off' says.  A sensor   *)
(* that cannot be configured condemns both.                                *)
AttemptErrors(off) ==
    LET mute == dead \cup IF off THEN {"bmi270"} ELSE {}
        bad == flaky \cup mute
    IN  {E \in SUBSET Sensors :
            /\ mute \subseteq E
            /\ E \subseteq bad \/ (bad # {} /\ E = Sensors)}

RetryDelay == IF attempts' <= 1 THEN FirstRetry ELSE SecondRetry

Recovered ==
    /\ ready' = Sensors
    /\ streak' = [d \in Sensors |-> 0]
    /\ health' = "healthy"
    /\ healthyFor' = 0
    /\ still' = 0
    /\ streaming' = TRUE
    /\ UNCHANGED retryIn

AttemptFailed(errors) ==
    /\ ready' = Sensors \ errors
    /\ IF attempts' >= MaxAttempts
       THEN health' = "degraded" /\ UNCHANGED retryIn
       ELSE retryIn' = RetryDelay /\ UNCHANGED health
    /\ UNCHANGED <<streak, healthyFor, still, streaming>>

Attempt ==
    /\ health = "recovering"
    /\ retryIn = 0
    /\ attempts' = attempts + 1
    /\ suspended' = FALSE \/ (suspended /\ "bmi270" \in flaky /\ suspended' = TRUE)
    /\ \E errors \in AttemptErrors(suspended') :
          IF errors = {} THEN Recovered ELSE AttemptFailed(errors)
    /\ UNCHANGED <<runtime, armed, wakeBit, dead, unchecked, guard>>

-----------------------------------------------------------------------------
(* The other arms of service_sensor_recovery_policy.                       *)

ClearGuard ==
    /\ health = "healthy" /\ guard /\ healthyFor >= GuardClear
    /\ guard' = FALSE
    /\ UNCHANGED <<sensing, hardware, ages>>

(* Fault: the connection is what allows the reboot.                        *)
QuietWhileConnected == health = "degraded" /\ still >= RebootQuiet /\ connected

QuietlyDegraded == health = "degraded" /\ still >= RebootQuiet /\ ~connected

Quarantine ==
    /\ QuietlyDegraded /\ guard
    /\ health' = "quarantined"
    /\ UNCHANGED <<runtime, ready, streak, attempts, streaming, hardware, ages, guard>>

(* Every static variable starts over; the policy is automatic again.       *)
Reset ==
    /\ Goto("boot")
    /\ chosen' = "auto" /\ policy' = "auto"
    /\ health' = "healthy" /\ runtime' = "active"
    /\ ready' = {} /\ streak' = [d \in Sensors |-> 0] /\ attempts' = 0
    /\ streaming' = TRUE
    /\ armed' = FALSE /\ wakeBit' = FALSE /\ suspended' = FALSE
    /\ retryIn' = 0 /\ still' = 0 /\ healthyFor' = 0 /\ unchecked' = 0
    /\ wakeRequested' = FALSE /\ sem' = 0 /\ giving' = {} /\ connected' = FALSE
    /\ dead' \in SUBSET flaky
    /\ UNCHANGED flaky

(* sys_reboot; the guard is in memory that the reboot does not clear.      *)
WarmReboot ==
    /\ pc = "service"
    /\ QuietlyDegraded /\ ~guard
    /\ guard' = TRUE
    /\ Reset
    /\ reboots' = reboots + 1
    /\ calm' = 0

NothingDue ==
    /\ health = "recovering" => retryIn > 0
    /\ health = "healthy" => ~(guard /\ healthyFor >= GuardClear)
    /\ ~QuietlyDegraded
    /\ UNCHANGED <<sensing, hardware, ages, guard>>

-----------------------------------------------------------------------------
(* The main loop.                                                          *)

(* initialize_sensors.                                                     *)
Boot ==
    /\ pc = "boot"
    /\ \E errors \in AttemptErrors(FALSE) :
          IF errors = {}
          THEN ready' = Sensors /\ UNCHANGED <<health, runtime, streak, attempts, streaming,
                                              armed, wakeRequested, ages>>
          ELSE Begin(errors, FALSE, FALSE)
    /\ Goto("service")
    /\ UNCHANGED <<chosen, wakeBit, suspended, dead, guard, policy, sem, giving, connected>>

(* The end of a turn: sleep until the next sample, or block until there is *)
(* something to do.                                                        *)
EndTurn ==
    /\ chosen' = "auto"
    /\ Goto(IF runtime' = "idle" /\ armed' THEN "wait" ELSE "service")

Continue(label) == UNCHANGED chosen /\ Goto(label)

(* Does the policy p ask for the other state?                              *)
AsksFor(p) ==
    \/ p = "idle" /\ runtime = "active"
    \/ p = "research" /\ runtime = "idle"

Service ==
    /\ pc = "service"
    /\ Attempt \/ ClearGuard \/ Quarantine \/ NothingDue
    /\ \/ health' \in Faulted /\ Continue("service")
       \/ health' \notin Faulted /\ AsksFor(policy) /\ chosen' = policy /\ Goto("apply")
       \/ health' \notin Faulted /\ ~AsksFor(policy) /\ chosen' = policy /\ Goto("sense")
    /\ UNCHANGED handlers

Apply ==
    /\ pc = "apply"
    /\ \/ chosen = "idle" /\ EnterIdle
       \/ chosen = "research" /\ EnterActive
    /\ Continue("sense")
    /\ UNCHANGED <<dead, guard, policy, giving, connected>>

(* sample_motion: a sensor that is not ready fails.  A Tag that has been   *)
(* still for long enough idles if the policy is automatic.                 *)
SampleMotion ==
    /\ pc = "sense" /\ runtime = "active"
    /\ \E failed \in SUBSET Sensors :
          /\ Sensors \ ready \subseteq failed
          /\ failed \subseteq flaky \cup (Sensors \ ready)
          /\ Record(failed)
    /\ still' \in {still, 0}
    /\ IF chosen = "auto" /\ health' = "healthy" /\ still' >= AutoIdle
       THEN Continue("settle") ELSE EndTurn
    /\ UNCHANGED <<wakeBit, suspended, dead, unchecked, guard, policy, sem, giving, connected>>

SettleIdle ==
    /\ pc = "settle"
    /\ EnterIdle
    /\ EndTurn
    /\ UNCHANGED <<dead, guard, policy, giving, connected>>

CheckInterval == IF health = "suspect" THEN SuspectCheck ELSE IdleCheck

CheckDue == ~armed \/ unchecked >= CheckInterval

(* A wake-up request is taken, and acted upon if the policy is automatic.  *)
TakeWakeRequest ==
    /\ pc = "sense" /\ runtime = "idle"
    /\ wakeRequested' = (wakeRequested /\ ~armed)
    /\ UNCHANGED <<sensing, hardware, ages, guard, policy, sem, giving, connected>>
    /\ IF armed /\ wakeRequested /\ chosen = "auto" THEN Continue("wake")
       ELSE IF CheckDue THEN Continue("check")
       ELSE EndTurn

(* sample_idle_wake_sensor reads the ADXL367 alone; movement shows after   *)
(* some samples.                                                           *)
SampleIdle ==
    /\ pc = "check"
    /\ unchecked' = IF armed THEN 0 ELSE unchecked
    /\ \/ Record({}) /\ EndTurn
       \/ Record({}) /\ chosen = "auto" /\ Continue("wake")
       \/ "adxl367" \in flaky /\ Record({"adxl367"}) /\ EndTurn
    /\ UNCHANGED <<wakeBit, suspended, dead, still, guard, policy, sem, giving, connected>>

Wake ==
    /\ pc = "wake"
    /\ EnterActive
    /\ EndTurn
    /\ UNCHANGED <<dead, guard, policy, giving, connected>>

WaitTakes ==
    /\ pc = "wait"
    /\ sem = 1
    /\ sem' = 0
    /\ Continue("service")
    /\ UNCHANGED <<sensing, hardware, ages, guard, policy, wakeRequested, giving, connected>>

WaitTimesOut ==
    /\ pc = "wait"
    /\ unchecked >= CheckInterval \/ (guard /\ healthyFor >= GuardClear)
    /\ Continue("service")
    /\ UNCHANGED <<sensing, hardware, ages, guard, handlers>>

MainLoop ==
    \/ Boot \/ Service \/ Apply \/ SampleMotion \/ SettleIdle
    \/ TakeWakeRequest \/ SampleIdle \/ Wake \/ WaitTakes \/ WaitTimesOut

-----------------------------------------------------------------------------
(* The handlers around the loop.  An event is stored before the semaphore  *)
(* is given.                                                               *)

Stays == <<pc, chosen, sensing, hardware, ages, guard, flaky>>

(* Fault: the loop is not told.                                            *)
MotionTriggerUntold ==
    /\ armed
    /\ wakeRequested' = TRUE
    /\ UNCHANGED <<Stays, policy, sem, giving, connected>>

(* adxl367_motion_trigger.                                                 *)
MotionTrigger ==
    /\ armed /\ "trigger" \notin giving
    /\ wakeRequested' = TRUE
    /\ giving' = giving \cup {"trigger"}
    /\ UNCHANGED <<Stays, policy, sem, connected>>

(* putttrack_mgmt_set_power_policy.                                        *)
SetPowerPolicy(p) ==
    /\ "policy" \notin giving
    /\ policy' = p
    /\ giving' = giving \cup {"policy"}
    /\ UNCHANGED <<Stays, wakeRequested, sem, connected>>

Give(handler) ==
    /\ handler \in giving
    /\ sem' = 1
    /\ giving' = giving \ {handler}
    /\ UNCHANGED <<Stays, policy, wakeRequested, connected>>

ConnectionChanges ==
    /\ connected' = ~connected
    /\ UNCHANGED <<Stays, policy, wakeRequested, sem, giving>>

Handlers ==
    \/ MotionTrigger
    \/ \E p \in Policies : SetPowerPolicy(p)
    \/ \E h \in giving : Give(h)
    \/ ConnectionChanges

(* A sensor starts to fail, or works again.                                *)
SensorsChange ==
    /\ \E d \in Sensors : flaky' = (flaky \ {d}) \/ flaky' = flaky \cup {d}
    /\ UNCHANGED <<pc, chosen, sensing, hardware, ages, guard, handlers>>

UpTo(limit, age) == IF age < limit THEN age + 1 ELSE age

Tick ==
    /\ pc \in {"service", "wait"}
    /\ retryIn' = IF retryIn > 0 THEN retryIn - 1 ELSE 0
    /\ still' = UpTo(AutoIdle, still)
    /\ healthyFor' = UpTo(GuardClear, healthyFor)
    /\ unchecked' = UpTo(IdleCheck, unchecked)
    /\ calm' = IF health = "healthy" THEN UpTo(GuardClear, calm) ELSE calm
    /\ reboots' = IF calm' = GuardClear THEN 0 ELSE reboots
    /\ UNCHANGED <<pc, chosen, sensing, hardware, guard, handlers, flaky>>

(* A reset by command keeps the memory with the guard, a new battery does  *)
(* not.                                                                    *)
ExternalReset(cold) ==
    /\ pc # "boot"
    /\ Reset
    /\ guard' = (guard /\ ~cold)
    /\ reboots' = IF cold THEN 0 ELSE reboots
    /\ calm' = 0

Init ==
    /\ pc = "boot"
    /\ chosen = "auto" /\ policy = "auto"
    /\ health = "healthy" /\ runtime = "active"
    /\ ready = {} /\ streak = [d \in Sensors |-> 0] /\ attempts = 0
    /\ streaming = TRUE
    /\ armed = FALSE /\ wakeBit = FALSE /\ suspended = FALSE
    /\ retryIn = 0 /\ still = 0 /\ healthyFor = 0 /\ unchecked = 0
    /\ wakeRequested = FALSE /\ sem = 0 /\ giving = {} /\ connected = FALSE
    /\ flaky \in SUBSET Sensors
    /\ dead \in SUBSET flaky
    /\ guard = FALSE
    /\ calm = 0 /\ reboots = 0

(* Health that is interrupted starts counting afresh.                      *)
Watched ==
    /\ calm' = IF health' = "healthy" THEN calm ELSE 0
    /\ UNCHANGED reboots

Next ==
    \/ MainLoop /\ UNCHANGED flaky /\ Watched
    \/ Handlers /\ UNCHANGED history
    \/ SensorsChange /\ UNCHANGED history
    \/ Tick
    \/ WarmReboot
    \/ \E cold \in BOOLEAN : ExternalReset(cold)

(* The loop's thread and the handlers are scheduled, and time passes       *)
(* however often the loop is woken.                                        *)
Fairness ==
    /\ WF_vars(MainLoop /\ UNCHANGED flaky /\ Watched)
    /\ WF_vars(WarmReboot)
    /\ SF_vars(Tick)
    /\ WF_vars(\E h \in giving : Give(h) /\ UNCHANGED history)

Spec == Init /\ [][Next]_vars /\ Fairness

-----------------------------------------------------------------------------
(* Properties.                                                             *)

(* The Tag cannot sleep through a putt: while it idles its sensors are     *)
(* configured, the interrupt is armed and the accelerometer is in wake-up  *)
(* mode; a fault met while idling or while entering or leaving the idle    *)
(* state always ends in the active state.                                  *)
IdleCanWake ==
    runtime = "idle" /\ pc # "boot" => armed /\ wakeBit /\ ready = Sensors

(* What the status packet tells of the stream is true: the Tag reports a   *)
(* stream exactly while it samples two configured sensors over a bus that  *)
(* is on, whatever transition failed half-way before.                      *)
StreamIsReal ==
    pc # "boot" =>
        /\ streaming <=> runtime = "active" /\ health \notin Faulted
        /\ streaming => ready = Sensors /\ ~suspended

(* No event is slept on: when the loop blocks with the semaphore down and  *)
(* no handler about to give it, there is no wake-up request and no policy  *)
(* that the loop has not acted upon.                                       *)
NothingSleptOn ==
    pc = "wait" /\ sem = 0 /\ giving = {} => ~wakeRequested /\ policy # "research"

(* No reboot loop: between two automatic reboots, the Tag has been healthy *)
(* for GuardClear without interruption, or has lost its memory.            *)
OneRebootPerCalm == reboots <= 1

(* Recovery comes to an end: once the sensors work for good and the host   *)
(* leaves the Tag alone, the Tag ends up healthy or in quarantine for good.*)
EventuallySettles ==
    <>[](flaky = {} /\ ~connected /\ "policy" \notin giving)
        => <>[](health \in {"healthy", "quarantined"})

=============================================================================
