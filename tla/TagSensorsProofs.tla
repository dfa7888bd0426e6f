---------------------------- MODULE TagSensorsProofs ----------------------------
(***************************************************************************)
(* Theorems about TagSensors for every choice of the timing constants.     *)
(*                                                                         *)
(* Four arguments, each an invariant of its own: a sensor fault always     *)
(* leaves the idle state and stops the stream (SensorsOK); what the main   *)
(* loop may assume where it is (LoopOK); an event of which the loop was    *)
(* not told is one it is about to act upon, or one its policy overrides    *)
(* (ToldOK); the guard outlives the reboot until the Tag was calm (GuardOK).*)
(***************************************************************************)
EXTENDS TagSensors, TLAPS

Labels == {"boot", "service", "apply", "sense", "settle", "check", "wake", "wait"}

TypeOK ==
    /\ pc \in Labels /\ chosen \in Policies
    /\ health \in {"healthy", "suspect"} \cup Faulted /\ runtime \in {"active", "idle"}
    /\ ready \in SUBSET Sensors /\ streak \in [Sensors -> 0 .. FailureLimit]
    /\ attempts \in 0 .. MaxAttempts /\ streaming \in BOOLEAN
    /\ armed \in BOOLEAN /\ wakeBit \in BOOLEAN /\ suspended \in BOOLEAN
    /\ dead \in SUBSET Sensors
    /\ retryIn \in Nat /\ still \in 0 .. AutoIdle
    /\ healthyFor \in 0 .. GuardClear /\ unchecked \in 0 .. IdleCheck
    /\ guard \in BOOLEAN /\ policy \in Policies /\ wakeRequested \in BOOLEAN
    /\ sem \in {0, 1} /\ giving \in SUBSET {"trigger", "policy"} /\ connected \in BOOLEAN
    /\ flaky \in SUBSET Sensors
    /\ calm \in 0 .. GuardClear /\ reboots \in Nat

(* A fault ends the idle state and the stream; without one the sensors are *)
(* configured, and their bus is on in the active state.                    *)
SensorsOK ==
    /\ health \in Faulted => runtime = "active" /\ ~streaming
    /\ health \notin Faulted /\ pc # "boot" =>
          /\ ready = Sensors
          /\ streaming <=> runtime = "active"
          /\ runtime = "active" => ~suspended
    /\ runtime = "idle" => armed /\ wakeBit
    /\ pc = "boot" => health = "healthy" /\ runtime = "active" /\ ~suspended /\ streaming
    /\ health = "recovering" => attempts < MaxAttempts

(* What the loop knows where it is.                                        *)
LoopOK ==
    /\ pc = "apply" =>
          /\ health \notin Faulted
          /\ \/ chosen = "idle" /\ runtime = "active"
             \/ chosen = "research" /\ runtime = "idle"
    /\ pc = "settle" => runtime = "active" /\ health = "healthy" /\ chosen = "auto"
    /\ pc \in {"check", "wake", "wait"} => runtime = "idle"
    /\ pc \in {"sense", "check", "wake"} /\ chosen = "research" => runtime = "active"

(* The semaphore is up or about to be given.                               *)
Told == sem = 1 \/ giving # {}

(* Of what the loop has not been told it already knows: the policy is the  *)
(* one it chose, and a wake-up request is one it is about to take or has   *)
(* been overridden by research.                                            *)
ToldOK ==
    ~Told =>
        /\ pc \in {"apply", "sense", "settle", "check", "wake"} => chosen = policy
        /\ pc = "wait" => policy # "research"
        /\ pc \in {"boot", "check", "wake", "wait"} => ~wakeRequested
        /\ wakeRequested /\ runtime = "active" => policy = "research"

(* The guard is up after a reboot, and may be cleared only after the Tag   *)
(* was healthy for as long as it then has been calm.  A guard that clears  *)
(* at once (GuardClear = 0) guards nothing.                                *)
GuardOK ==
    /\ GuardClear # 0 =>
          /\ reboots <= 1
          /\ ~guard => reboots = 0
          /\ calm = GuardClear => reboots = 0
    /\ health = "healthy" => healthyFor <= calm

IInv == TypeOK /\ SensorsOK /\ LoopOK /\ ToldOK /\ GuardOK

-----------------------------------------------------------------------------
(* What the loop's building blocks do.                                     *)

(* A recovery begins: whatever the Tag was doing, it is active and streams *)
(* nothing, and a wake-up request is one there was.                        *)
Begun(requested) ==
    /\ health' = "recovering" /\ runtime' = "active" /\ streaming' = FALSE
    /\ ready' \in SUBSET Sensors /\ attempts' = 0 /\ retryIn' = 0
    /\ armed' \in BOOLEAN /\ wakeRequested' \in BOOLEAN /\ (wakeRequested' => requested)

(* begin_sensor_recovery begins one, whichever sensors failed.             *)
LEMMA BeginRecoveryEffect ==
    ASSUME TypeOK, NEW failed, NEW armedNow \in BOOLEAN, NEW requestedNow \in BOOLEAN,
           BeginRecovery(failed, armedNow, requestedNow)
    PROVE  Begun(requestedNow)
<1>1. ready' \in SUBSET Sensors
  BY DEF BeginRecovery, TypeOK
<1>2. /\ armed' \in BOOLEAN /\ wakeRequested' \in BOOLEAN
      /\ wakeRequested' => requestedNow
  <2>1. CASE armed' = FALSE /\ wakeRequested' = (requestedNow /\ ~armedNow)
    BY <2>1
  <2>2. CASE armed' = TRUE /\ wakeRequested' = requestedNow
    BY <2>2
  <2> QED BY <2>1, <2>2 DEF BeginRecovery
<1> QED BY <1>1, <1>2 DEF BeginRecovery, LeaveIdle, StopStream, Begun

(* ... and called from a transition it leaves the ages alone.              *)
LEMMA BeginEffect ==
    ASSUME TypeOK, NEW failed, NEW armedNow \in BOOLEAN, NEW requestedNow \in BOOLEAN,
           Begin(failed, armedNow, requestedNow)
    PROVE  /\ Begun(requestedNow) /\ streak' \in [Sensors -> 0 .. FailureLimit]
           /\ UNCHANGED <<still, healthyFor, unchecked>>
<1>1. Begun(requestedNow)
  BY BeginRecoveryEffect DEF Begin
<1>2. streak' \in [Sensors -> 0 .. FailureLimit]
  <2>1. streak \in [Sensors -> 0 .. FailureLimit] /\ FailureLimit \in 0 .. FailureLimit
    BY TimingAssumption DEF TypeOK
  <2> QED BY <2>1 DEF Begin
<1> QED BY <1>1, <1>2 DEF Begin

(* A sample either begins a recovery or changes at most the health.        *)
LEMMA RecordEffect ==
    ASSUME TypeOK, NEW failed \in SUBSET Sensors, Record(failed)
    PROVE  /\ streak' \in [Sensors -> 0 .. FailureLimit]
           /\ \/ Begun(wakeRequested) /\ UNCHANGED healthyFor
              \/ /\ UNCHANGED <<ready, attempts, retryIn, streaming, runtime, armed, wakeRequested>>
                 /\ \/ health' = health /\ UNCHANGED healthyFor
                    \/ health = "healthy" /\ health' = "suspect" /\ UNCHANGED healthyFor
                    \/ health = "suspect" /\ health' = "healthy" /\ healthyFor' = 0
<1>1. /\ armed \in BOOLEAN /\ wakeRequested \in BOOLEAN
      /\ streak \in [Sensors -> 0 .. FailureLimit] /\ FailureLimit \in Nat \ {0}
  BY TimingAssumption DEF TypeOK
<1>2. \A f : Streak(f) \in [Sensors -> 0 .. FailureLimit]
  BY <1>1 DEF Streak
<1>3. CASE failed = {}
  <2>1. RecordGood
    BY <1>3 DEF Record
  <2> QED BY <1>2, <2>1 DEF RecordGood, HealthySince
<1>4. CASE failed # {}
  <2>1. RecordBad(failed)
    BY <1>4 DEF Record
  <2>2. streak' \in [Sensors -> 0 .. FailureLimit]
    BY <1>2, <2>1 DEF RecordBad
  <2>3. CASE BeginRecovery(failed, armed, wakeRequested)
    BY <1>1, <2>1, <2>2, <2>3, BeginRecoveryEffect DEF RecordBad
  <2>4. CASE ~BeginRecovery(failed, armed, wakeRequested)
    BY <2>1, <2>2, <2>4 DEF RecordBad
  <2> QED BY <2>3, <2>4
<1> QED BY <1>3, <1>4

(* Entering the idle state ends in it, or in a recovery.                   *)
LEMMA EnterIdleEffect ==
    ASSUME TypeOK, EnterIdle
    PROVE  /\ streak' \in [Sensors -> 0 .. FailureLimit]
           /\ wakeBit' \in BOOLEAN /\ UNCHANGED <<still, healthyFor>>
           /\ \/ /\ Begun(TRUE) /\ UNCHANGED <<suspended, unchecked>>
                 /\ \/ UNCHANGED sem /\ (wakeRequested' => wakeRequested)
                    \/ sem' = 1
              \/ /\ runtime' = "idle" /\ armed' = TRUE /\ wakeBit' = TRUE /\ streaming' = FALSE
                 /\ suspended' \in BOOLEAN /\ unchecked' = 0
                 /\ UNCHANGED <<health, ready, attempts, retryIn, wakeRequested, sem>>
<1>1. /\ armed \in BOOLEAN /\ wakeRequested \in BOOLEAN /\ wakeBit \in BOOLEAN
      /\ suspended \in BOOLEAN /\ streak \in [Sensors -> 0 .. FailureLimit]
  BY DEF TypeOK
<1>2. CASE EnterIdleFails
  <2>1. PICK failed \in SUBSET Sensors, armedNow \in BOOLEAN :
          Begin(failed, armedNow, wakeRequested)
    BY <1>1, <1>2 DEF EnterIdleFails, Sensors
  <2>2. wakeBit' \in BOOLEAN /\ UNCHANGED <<suspended, sem>>
    BY <1>1, <1>2 DEF EnterIdleFails
  <2> QED BY <1>1, <2>1, <2>2, BeginEffect DEF Begun
<1>3. CASE EnterIdleFiresAndFails
  BY <1>1, <1>3, BeginEffect DEF EnterIdleFiresAndFails
<1>4. CASE IdleEntered
  BY <1>1, <1>4 DEF IdleEntered
<1> QED BY <1>2, <1>3, <1>4 DEF EnterIdle

(* Leaving the idle state ends in the active state, recovering or not.     *)
LEMMA EnterActiveEffect ==
    ASSUME TypeOK, EnterActive
    PROVE  /\ streak' \in [Sensors -> 0 .. FailureLimit]
           /\ wakeBit' \in BOOLEAN /\ suspended' \in BOOLEAN
           /\ UNCHANGED <<healthyFor, unchecked, sem>>
           /\ \/ Begun(wakeRequested) /\ UNCHANGED still
              \/ /\ runtime' = "active" /\ armed' = FALSE /\ wakeRequested' = FALSE
                 /\ streaming' = TRUE /\ suspended' = FALSE /\ still' = 0
                 /\ UNCHANGED <<health, ready, attempts, retryIn>>
<1>1. /\ armed \in BOOLEAN /\ wakeRequested \in BOOLEAN /\ wakeBit \in BOOLEAN
      /\ suspended \in BOOLEAN /\ streak \in [Sensors -> 0 .. FailureLimit]
  BY DEF TypeOK
<1>2. CASE EnterActiveFails
  <2>1. PICK failed \in SUBSET Sensors, armedNow \in BOOLEAN,
             requestedNow \in {wakeRequested, FALSE} :
          Begin(failed, armedNow, requestedNow)
    BY <1>1, <1>2 DEF EnterActiveFails, Sensors
  <2>2. wakeBit' \in BOOLEAN /\ suspended' \in BOOLEAN /\ UNCHANGED sem
    BY <1>1, <1>2 DEF EnterActiveFails
  <2> QED BY <1>1, <2>1, <2>2, BeginEffect DEF Begun
<1>3. CASE ActiveEntered
  BY <1>1, <1>3 DEF ActiveEntered
<1> QED BY <1>2, <1>3 DEF EnterActive

(* A step of the loop counts healthy time only while it lasts, and clears  *)
(* the guard only when there was enough of it.                             *)
HealthStep ==
    /\ health' = "healthy" => healthyFor' = 0 \/ (health = "healthy" /\ healthyFor' = healthyFor)
    /\ ~guard' => ~guard \/ (health = "healthy" /\ healthyFor >= GuardClear)

(* Such a step keeps what the guard knows.                                 *)
LEMMA GuardKept ==
    ASSUME TypeOK, GuardOK, HealthStep, Watched
    PROVE  GuardOK' /\ calm' \in 0 .. GuardClear /\ reboots' \in Nat
<1>1. /\ calm \in 0 .. GuardClear /\ reboots \in Nat /\ healthyFor \in 0 .. GuardClear
      /\ GuardClear \in Nat
  BY TimingAssumption DEF TypeOK
<1>2. calm' \in {0, calm} /\ reboots' = reboots /\ (health' = "healthy" => calm' = calm)
  BY DEF Watched
<1>3. GuardClear # 0 => (~guard' => reboots = 0)
  BY <1>1 DEF GuardOK, HealthStep
<1>4. health' = "healthy" => healthyFor' <= calm'
  BY <1>1, <1>2 DEF GuardOK, HealthStep
<1> QED BY <1>1, <1>2, <1>3, <1>4 DEF GuardOK

-----------------------------------------------------------------------------
(* The arms of the recovery policy.                                        *)

(* What an attempt finds wrong are sensors, and the accelerometer's        *)
(* neighbour is one of them while its bus is off.                          *)
LEMMA ErrorsAreSensors ==
    ASSUME TypeOK, NEW off \in BOOLEAN, NEW errors \in AttemptErrors(off)
    PROVE  errors \in SUBSET Sensors /\ (off => errors # {})
BY DEF AttemptErrors, TypeOK, Sensors

(* An attempt recovers both sensors, or counts.                            *)
LEMMA AttemptEffect ==
    ASSUME TypeOK, SensorsOK, Attempt
    PROVE  /\ health = "recovering" /\ attempts' \in 0 .. MaxAttempts /\ suspended' \in BOOLEAN
           /\ streak' \in [Sensors -> 0 .. FailureLimit] /\ ready' \in SUBSET Sensors
           /\ UNCHANGED <<runtime, armed, wakeBit, dead, unchecked, guard>>
           /\ \/ /\ health' = "healthy" /\ ready' = Sensors /\ streaming' = TRUE
                 /\ suspended' = FALSE /\ healthyFor' = 0 /\ still' = 0 /\ retryIn' = retryIn
              \/ /\ health' = "recovering" /\ attempts' < MaxAttempts /\ retryIn' \in Nat
                 /\ UNCHANGED <<streaming, healthyFor, still>>
              \/ /\ health' = "degraded" /\ UNCHANGED <<streaming, healthyFor, still, retryIn>>
<1>1. /\ health = "recovering" /\ attempts' = attempts + 1
      /\ UNCHANGED <<runtime, armed, wakeBit, dead, unchecked, guard>>
  BY DEF Attempt
<1>2. suspended' \in BOOLEAN
  BY DEF Attempt
<1>3. PICK errors \in AttemptErrors(suspended') :
        IF errors = {} THEN Recovered ELSE AttemptFailed(errors)
  BY DEF Attempt
<1>4. errors \in SUBSET Sensors /\ (suspended' => errors # {})
  BY <1>2, <1>3, ErrorsAreSensors
<1>5. /\ attempts \in 0 .. MaxAttempts /\ attempts < MaxAttempts /\ MaxAttempts \in Nat
      /\ FirstRetry \in Nat /\ SecondRetry \in Nat /\ FailureLimit \in Nat
      /\ streak \in [Sensors -> 0 .. FailureLimit]
  BY <1>1, TimingAssumption DEF SensorsOK, TypeOK
<1>6. attempts' \in 0 .. MaxAttempts
  BY <1>1, <1>5
<1>7. CASE errors = {}
  <2>1. Recovered
    BY <1>3, <1>7
  <2>2. streak' \in [Sensors -> 0 .. FailureLimit]
    BY <1>5, <2>1 DEF Recovered
  <2> QED BY <1>1, <1>2, <1>4, <1>6, <1>7, <2>1, <2>2 DEF Recovered
<1>8. CASE errors # {}
  <2>1. AttemptFailed(errors)
    BY <1>3, <1>8
  <2>2. CASE attempts' >= MaxAttempts
    BY <1>1, <1>2, <1>4, <1>5, <1>6, <2>1, <2>2 DEF AttemptFailed
  <2>3. CASE ~(attempts' >= MaxAttempts)
    <3>1. retryIn' \in Nat
      BY <1>5, <2>1, <2>3 DEF AttemptFailed, RetryDelay
    <3>2. attempts' < MaxAttempts
      BY <1>5, <1>6, <2>3
    <3> QED BY <1>1, <1>2, <1>4, <1>5, <1>6, <2>1, <2>3, <3>1, <3>2 DEF AttemptFailed
  <2> QED BY <2>2, <2>3
<1> QED BY <1>7, <1>8

(* Whichever arm is taken, the turn goes on with sensors that are either   *)
(* configured or given up for now.                                         *)
LEMMA PolicyEffect ==
    ASSUME TypeOK, SensorsOK, pc = "service", Attempt \/ ClearGuard \/ Quarantine \/ NothingDue
    PROVE  /\ health' \in {"healthy", "suspect"} \cup Faulted
           /\ attempts' \in 0 .. MaxAttempts /\ suspended' \in BOOLEAN /\ streaming' \in BOOLEAN
           /\ streak' \in [Sensors -> 0 .. FailureLimit] /\ ready' \in SUBSET Sensors
           /\ still' \in 0 .. AutoIdle /\ healthyFor' \in 0 .. GuardClear /\ retryIn' \in Nat
           /\ guard' \in BOOLEAN
           /\ UNCHANGED <<runtime, armed, wakeBit, dead, unchecked>>
           /\ HealthStep
           /\ health' \in Faulted => runtime = "active" /\ ~streaming'
           /\ health' \notin Faulted =>
                 /\ ready' = Sensors
                 /\ streaming' <=> runtime = "active"
                 /\ runtime = "active" => ~suspended'
           /\ health' = "recovering" => attempts' < MaxAttempts
<1>0. /\ health \in {"healthy", "suspect"} \cup Faulted
      /\ attempts \in 0 .. MaxAttempts /\ suspended \in BOOLEAN /\ streaming \in BOOLEAN
      /\ streak \in [Sensors -> 0 .. FailureLimit] /\ ready \in SUBSET Sensors
      /\ still \in 0 .. AutoIdle /\ healthyFor \in 0 .. GuardClear /\ retryIn \in Nat
      /\ guard \in BOOLEAN /\ AutoIdle \in Nat /\ GuardClear \in Nat
  BY TimingAssumption DEF TypeOK
<1>1. CASE Attempt
  <2>1. 0 \in 0 .. AutoIdle /\ 0 \in 0 .. GuardClear
    BY <1>0
  <2>2. /\ health = "recovering" /\ attempts' \in 0 .. MaxAttempts /\ suspended' \in BOOLEAN
        /\ streak' \in [Sensors -> 0 .. FailureLimit] /\ ready' \in SUBSET Sensors
        /\ UNCHANGED <<runtime, armed, wakeBit, dead, unchecked, guard>>
        /\ runtime = "active" /\ ~streaming
    BY <1>0, <1>1, AttemptEffect DEF SensorsOK, Faulted
  <2>3. CASE /\ health' = "healthy" /\ ready' = Sensors /\ streaming' = TRUE
             /\ suspended' = FALSE /\ healthyFor' = 0 /\ still' = 0 /\ retryIn' = retryIn
    BY <1>0, <2>1, <2>2, <2>3 DEF HealthStep, Faulted
  <2>4. CASE /\ health' = "recovering" /\ attempts' < MaxAttempts /\ retryIn' \in Nat
             /\ UNCHANGED <<streaming, healthyFor, still>>
    BY <1>0, <2>2, <2>4 DEF HealthStep, Faulted
  <2>5. CASE health' = "degraded" /\ UNCHANGED <<streaming, healthyFor, still, retryIn>>
    BY <1>0, <2>2, <2>5 DEF HealthStep, Faulted
  <2> QED BY <1>0, <1>1, <2>3, <2>4, <2>5, AttemptEffect
<1>2. CASE ClearGuard
  BY <1>0, <1>2 DEF ClearGuard, sensing, hardware, ages, SensorsOK, HealthStep, Faulted
<1>3. CASE Quarantine
  BY <1>0, <1>3
     DEF Quarantine, QuietlyDegraded, hardware, ages, SensorsOK, HealthStep, Faulted
<1>4. CASE NothingDue
  BY <1>0, <1>4 DEF NothingDue, sensing, hardware, ages, SensorsOK, HealthStep
<1> QED BY <1>1, <1>2, <1>3, <1>4

-----------------------------------------------------------------------------
(* The steps of the loop.                                                  *)

(* The sensors are configured at boot, or a recovery begins.               *)
LEMMA BootKeeps ==
    ASSUME IInv, Boot, UNCHANGED flaky, Watched
    PROVE  IInv'
<1>0. /\ TypeOK /\ SensorsOK /\ ToldOK /\ GuardOK /\ pc = "boot" /\ pc' = "service"
      /\ UNCHANGED <<chosen, wakeBit, suspended, dead, guard, policy, sem, giving, connected>>
  BY DEF IInv, Boot, Goto
<1>1. PICK errors \in AttemptErrors(FALSE) :
        IF errors = {}
        THEN ready' = Sensors /\ UNCHANGED <<health, runtime, streak, attempts, streaming, armed,
                                            wakeRequested, ages>>
        ELSE Begin(errors, FALSE, FALSE)
  BY DEF Boot
<1>2. \/ ready' = Sensors /\ UNCHANGED <<health, runtime, streak, attempts, streaming, armed,
                                        wakeRequested, ages>>
      \/ /\ Begun(FALSE) /\ streak' \in [Sensors -> 0 .. FailureLimit]
         /\ UNCHANGED <<still, healthyFor, unchecked>>
  <2>1. Begin(errors, FALSE, FALSE) =>
           /\ Begun(FALSE) /\ streak' \in [Sensors -> 0 .. FailureLimit]
           /\ UNCHANGED <<still, healthyFor, unchecked>>
    BY <1>0, BeginEffect
  <2> QED BY <1>1, <2>1
<1>3. HealthStep
  BY <1>0, <1>2 DEF SensorsOK, HealthStep, Begun, ages
<1>4. GuardOK' /\ calm' \in 0 .. GuardClear /\ reboots' \in Nat
  BY <1>0, <1>3, GuardKept
<1>5. TypeOK' /\ SensorsOK'
  <2>1. CASE ready' = Sensors /\ UNCHANGED <<health, runtime, streak, attempts, streaming, armed,
                                            wakeRequested, ages>>
    <3>1. TypeOK'
      BY <1>0, <1>4, <2>1 DEF TypeOK, Labels, ages
    <3>2. SensorsOK'
      BY <1>0, <2>1 DEF SensorsOK, Faulted
    <3> QED BY <3>1, <3>2
  <2>2. CASE /\ Begun(FALSE) /\ streak' \in [Sensors -> 0 .. FailureLimit]
             /\ UNCHANGED <<still, healthyFor, unchecked>>
    <3>1. 0 \in 0 .. MaxAttempts /\ 0 \in Nat /\ 0 < MaxAttempts
      BY TimingAssumption
    <3>2. TypeOK'
      BY <1>0, <1>4, <2>2, <3>1 DEF TypeOK, Labels, Begun, Faulted
    <3>3. SensorsOK'
      BY <1>0, <2>2, <3>1 DEF SensorsOK, Begun, Faulted
    <3> QED BY <3>2, <3>3
  <2> QED BY <1>2, <2>1, <2>2
<1>7. LoopOK'
  BY <1>0 DEF LoopOK
<1>8. ToldOK'
  BY <1>0, <1>2 DEF ToldOK, Told, Begun
<1> QED BY <1>4, <1>5, <1>7, <1>8 DEF IInv

(* A turn of the loop starts with the recovery policy and the choice of a  *)
(* power policy.                                                           *)
LEMMA ServiceKeeps ==
    ASSUME IInv, Service, UNCHANGED flaky, Watched
    PROVE  IInv'
<1>0. /\ TypeOK /\ SensorsOK /\ ToldOK /\ GuardOK /\ pc = "service"
      /\ UNCHANGED <<policy, wakeRequested, sem, giving, connected>>
      /\ Attempt \/ ClearGuard \/ Quarantine \/ NothingDue
  BY DEF IInv, Service, handlers
<1>1. \/ health' \in Faulted /\ chosen' = chosen /\ pc' = "service"
      \/ health' \notin Faulted /\ AsksFor(policy) /\ chosen' = policy /\ pc' = "apply"
      \/ health' \notin Faulted /\ ~AsksFor(policy) /\ chosen' = policy /\ pc' = "sense"
  BY DEF Service, Continue, Goto
<1>2. GuardOK' /\ calm' \in 0 .. GuardClear /\ reboots' \in Nat
  BY <1>0, PolicyEffect, GuardKept
<1>3. TypeOK'
  <2>1. pc' \in Labels /\ chosen' \in Policies
    BY <1>0, <1>1 DEF TypeOK, Labels
  <2> QED BY <1>0, <1>2, <2>1, PolicyEffect DEF TypeOK
<1>4. SensorsOK'
  BY <1>0, <1>1, PolicyEffect DEF SensorsOK
<1>5. LoopOK'
  BY <1>0, <1>1, PolicyEffect DEF LoopOK, AsksFor, TypeOK, Policies
<1>6. ToldOK'
  BY <1>0, <1>1, PolicyEffect DEF ToldOK, Told
<1> QED BY <1>2, <1>3, <1>4, <1>5, <1>6 DEF IInv

(* Where a turn goes on after a transition: to a sample, or to its end.    *)
Onward ==
    \/ pc' = "sense" /\ chosen' = chosen /\ chosen # "auto"
    \/ pc' = (IF runtime' = "idle" /\ armed' THEN "wait" ELSE "service") /\ chosen' = "auto"

(* Entering the idle state from the active one.                            *)
LEMMA IdleKeeps ==
    ASSUME IInv, EnterIdle, UNCHANGED <<flaky, dead, guard, policy, giving, connected>>, Watched,
           pc \in {"apply", "settle"}, runtime = "active", chosen # "research", Onward
    PROVE  IInv'
<1>0. /\ TypeOK /\ SensorsOK /\ LoopOK /\ ToldOK /\ GuardOK
      /\ health \notin Faulted /\ ready = Sensors /\ ~suspended
  BY DEF IInv, LoopOK, SensorsOK, Faulted
<1>1. /\ streak' \in [Sensors -> 0 .. FailureLimit]
      /\ wakeBit' \in BOOLEAN /\ UNCHANGED <<still, healthyFor>>
  BY <1>0, EnterIdleEffect
<1>2. pc' \in Labels /\ chosen' \in Policies
  BY <1>0 DEF Onward, Labels, Policies, TypeOK
<1>3. CASE /\ Begun(TRUE) /\ UNCHANGED <<suspended, unchecked>>
           /\ \/ UNCHANGED sem /\ (wakeRequested' => wakeRequested)
              \/ sem' = 1
  <2>1. 0 \in 0 .. MaxAttempts /\ 0 \in Nat /\ 0 < MaxAttempts
    BY TimingAssumption
  <2>2. HealthStep
    BY <1>3 DEF HealthStep, Begun
  <2>3. GuardOK' /\ calm' \in 0 .. GuardClear /\ reboots' \in Nat
    BY <1>0, <2>2, GuardKept
  <2>4. TypeOK'
    BY <1>0, <1>1, <1>2, <1>3, <2>1, <2>3 DEF TypeOK, Begun, Faulted
  <2>5. SensorsOK'
    BY <1>3, <2>1 DEF SensorsOK, Begun, Faulted, Onward
  <2>6. LoopOK'
    BY <1>3 DEF LoopOK, Begun, Onward
  <2>7. ToldOK'
    BY <1>0, <1>3 DEF ToldOK, Told, Begun, Onward
  <2> QED BY <2>3, <2>4, <2>5, <2>6, <2>7 DEF IInv
<1>4. CASE /\ runtime' = "idle" /\ armed' = TRUE /\ wakeBit' = TRUE /\ streaming' = FALSE
           /\ suspended' \in BOOLEAN /\ unchecked' = 0
           /\ UNCHANGED <<health, ready, attempts, retryIn, wakeRequested, sem>>
  <2>1. 0 \in 0 .. IdleCheck
    BY TimingAssumption
  <2>2. HealthStep
    BY <1>1, <1>4 DEF HealthStep
  <2>3. GuardOK' /\ calm' \in 0 .. GuardClear /\ reboots' \in Nat
    BY <1>0, <2>2, GuardKept
  <2>4. TypeOK'
    BY <1>0, <1>1, <1>2, <1>4, <2>1, <2>3 DEF TypeOK
  <2>5. SensorsOK'
    BY <1>0, <1>4 DEF SensorsOK, Faulted, Onward
  <2>6. LoopOK'
    BY <1>4 DEF LoopOK, Onward
  <2>7. ToldOK'
    BY <1>0, <1>4 DEF ToldOK, Told, Onward
  <2> QED BY <2>3, <2>4, <2>5, <2>6, <2>7 DEF IInv
<1> QED BY <1>0, <1>3, <1>4, EnterIdleEffect

(* Leaving the idle state.                                                 *)
LEMMA ActiveKeeps ==
    ASSUME IInv, EnterActive, UNCHANGED <<flaky, dead, guard, policy, giving, connected>>, Watched,
           pc \in {"apply", "wake"}, runtime = "idle", Onward
    PROVE  IInv'
<1>0. /\ TypeOK /\ SensorsOK /\ LoopOK /\ ToldOK /\ GuardOK
      /\ health \notin Faulted /\ ready = Sensors
  BY DEF IInv, LoopOK, SensorsOK, Faulted
<1>1. /\ streak' \in [Sensors -> 0 .. FailureLimit]
      /\ wakeBit' \in BOOLEAN /\ suspended' \in BOOLEAN
      /\ UNCHANGED <<healthyFor, unchecked, sem>>
  BY <1>0, EnterActiveEffect
<1>2. pc' \in Labels /\ chosen' \in Policies
  BY <1>0 DEF Onward, Labels, Policies, TypeOK
<1>3. ~Told /\ wakeRequested => policy = "research"
  BY <1>0 DEF ToldOK, LoopOK
<1>4. CASE Begun(wakeRequested) /\ UNCHANGED still
  <2>1. 0 \in 0 .. MaxAttempts /\ 0 \in Nat /\ 0 < MaxAttempts
    BY TimingAssumption
  <2>2. HealthStep
    BY <1>4 DEF HealthStep, Begun
  <2>3. GuardOK' /\ calm' \in 0 .. GuardClear /\ reboots' \in Nat
    BY <1>0, <2>2, GuardKept
  <2>4. TypeOK'
    BY <1>0, <1>1, <1>2, <1>4, <2>1, <2>3 DEF TypeOK, Begun, Faulted
  <2>5. SensorsOK'
    BY <1>4, <2>1 DEF SensorsOK, Begun, Faulted, Onward
  <2>6. LoopOK'
    BY <1>4 DEF LoopOK, Begun, Onward
  <2>7. ToldOK'
    BY <1>0, <1>1, <1>3, <1>4 DEF ToldOK, Told, Begun, Onward
  <2> QED BY <2>3, <2>4, <2>5, <2>6, <2>7 DEF IInv
<1>5. CASE /\ runtime' = "active" /\ armed' = FALSE /\ wakeRequested' = FALSE
           /\ streaming' = TRUE /\ suspended' = FALSE /\ still' = 0
           /\ UNCHANGED <<health, ready, attempts, retryIn>>
  <2>1. 0 \in 0 .. AutoIdle
    BY TimingAssumption
  <2>2. HealthStep
    BY <1>1, <1>5 DEF HealthStep
  <2>3. GuardOK' /\ calm' \in 0 .. GuardClear /\ reboots' \in Nat
    BY <1>0, <2>2, GuardKept
  <2>4. TypeOK'
    BY <1>0, <1>1, <1>2, <1>5, <2>1, <2>3 DEF TypeOK
  <2>5. SensorsOK'
    BY <1>0, <1>5 DEF SensorsOK, Faulted, Onward
  <2>6. LoopOK'
    BY <1>5 DEF LoopOK, Onward
  <2>7. ToldOK'
    BY <1>0, <1>1, <1>5 DEF ToldOK, Told, Onward
  <2> QED BY <2>3, <2>4, <2>5, <2>6, <2>7 DEF IInv
<1> QED BY <1>0, <1>4, <1>5, EnterActiveEffect

(* The three places from which the loop changes the state of the Tag.      *)
LEMMA TransitionsKeep ==
    ASSUME IInv, Apply \/ SettleIdle \/ Wake, UNCHANGED flaky, Watched
    PROVE  IInv'
<1>0. LoopOK /\ UNCHANGED <<dead, guard, policy, giving, connected>>
  BY DEF IInv, Apply, SettleIdle, Wake
<1>1. CASE Apply
  <2>1. Onward
    BY <1>1 DEF Apply, Continue, Goto, Onward
  <2>2. CASE chosen = "idle" /\ EnterIdle
    BY <1>0, <1>1, <2>1, <2>2, IdleKeeps DEF LoopOK, Apply
  <2>3. CASE chosen = "research" /\ EnterActive
    BY <1>0, <1>1, <2>1, <2>3, ActiveKeeps DEF LoopOK, Apply
  <2> QED BY <1>1, <2>2, <2>3 DEF Apply
<1>2. CASE SettleIdle
  <2>1. Onward
    BY <1>2 DEF SettleIdle, EndTurn, Goto, Onward
  <2> QED BY <1>0, <1>2, <2>1, IdleKeeps DEF LoopOK, SettleIdle
<1>3. CASE Wake
  <2>1. Onward
    BY <1>3 DEF Wake, EndTurn, Goto, Onward
  <2> QED BY <1>0, <1>3, <2>1, ActiveKeeps DEF LoopOK, Wake
<1> QED BY <1>1, <1>2, <1>3

(* A sample of both sensors, in the active state.                          *)
LEMMA SampleMotionKeeps ==
    ASSUME IInv, SampleMotion, UNCHANGED flaky, Watched
    PROVE  IInv'
<1>0. /\ TypeOK /\ SensorsOK /\ LoopOK /\ ToldOK /\ GuardOK /\ pc = "sense" /\ runtime = "active"
      /\ UNCHANGED <<wakeBit, suspended, dead, unchecked, guard, policy, sem, giving, connected>>
  BY DEF IInv, SampleMotion
<1>1. PICK failed \in SUBSET Sensors : Record(failed)
  BY DEF SampleMotion
<1>2. /\ streak' \in [Sensors -> 0 .. FailureLimit]
      /\ \/ Begun(wakeRequested) /\ UNCHANGED healthyFor
         \/ /\ UNCHANGED <<ready, attempts, retryIn, streaming, runtime, armed, wakeRequested>>
            /\ \/ health' = health /\ UNCHANGED healthyFor
               \/ health = "healthy" /\ health' = "suspect" /\ UNCHANGED healthyFor
               \/ health = "suspect" /\ health' = "healthy" /\ healthyFor' = 0
  BY <1>0, <1>1, RecordEffect
<1>3. still' \in 0 .. AutoIdle
  BY <1>0, TimingAssumption DEF SampleMotion, TypeOK
<1>4. runtime' = "active"
  BY <1>0, <1>2 DEF Begun
<1>5. \/ pc' = "settle" /\ chosen' = chosen /\ chosen = "auto" /\ health' = "healthy"
      \/ pc' = "service" /\ chosen' = "auto"
  BY <1>4 DEF SampleMotion, Continue, EndTurn, Goto
<1>6. pc' \in Labels /\ chosen' \in Policies
  BY <1>5 DEF Labels, Policies
<1>7. HealthStep
  BY <1>0, <1>2 DEF HealthStep, Begun
<1>8. GuardOK' /\ calm' \in 0 .. GuardClear /\ reboots' \in Nat
  BY <1>0, <1>7, GuardKept
<1>9. 0 \in 0 .. MaxAttempts /\ 0 \in Nat /\ 0 < MaxAttempts /\ 0 \in 0 .. GuardClear
  BY TimingAssumption
<1>10. TypeOK'
  <2>1. health' \in {"healthy", "suspect"} \cup Faulted /\ healthyFor' \in 0 .. GuardClear
    BY <1>0, <1>2, <1>9 DEF TypeOK, Begun, Faulted
  <2>2. /\ ready' \in SUBSET Sensors /\ attempts' \in 0 .. MaxAttempts /\ retryIn' \in Nat
        /\ streaming' \in BOOLEAN /\ armed' \in BOOLEAN /\ wakeRequested' \in BOOLEAN
    BY <1>0, <1>2, <1>9 DEF TypeOK, Begun
  <2> QED BY <1>0, <1>2, <1>3, <1>4, <1>6, <1>8, <2>1, <2>2 DEF TypeOK
<1>11. SensorsOK'
  BY <1>0, <1>2, <1>4, <1>5, <1>9 DEF SensorsOK, Begun, Faulted
<1>12. LoopOK'
  BY <1>4, <1>5 DEF LoopOK
<1>13. ToldOK'
  <2>1. wakeRequested' => wakeRequested
    BY <1>2 DEF Begun
  <2> QED BY <1>0, <1>5, <2>1 DEF ToldOK, Told
<1> QED BY <1>8, <1>10, <1>11, <1>12, <1>13 DEF IInv

(* A wake-up request is taken.                                             *)
LEMMA TakeWakeRequestKeeps ==
    ASSUME IInv, TakeWakeRequest, UNCHANGED flaky, Watched
    PROVE  IInv'
<1>0. /\ TypeOK /\ SensorsOK /\ LoopOK /\ ToldOK /\ GuardOK /\ pc = "sense" /\ runtime = "idle"
      /\ armed /\ armed \in BOOLEAN
  BY DEF IInv, TakeWakeRequest, SensorsOK, TypeOK
<1>1. UNCHANGED <<health, runtime, ready, streak, attempts, streaming, armed, wakeBit, suspended,
                  dead, retryIn, still, healthyFor, unchecked, guard, policy, sem, giving,
                  connected>>
  BY DEF TakeWakeRequest, sensing, hardware, ages
<1>2. ~wakeRequested' /\ wakeRequested' \in BOOLEAN
  BY <1>0 DEF TakeWakeRequest
<1>3. \/ pc' = "wake" /\ chosen' = chosen
      \/ pc' = "check" /\ chosen' = chosen
      \/ pc' = "wait" /\ chosen' = "auto"
  BY <1>0, <1>1 DEF TakeWakeRequest, Continue, EndTurn, Goto
<1>4. pc' \in Labels /\ chosen' \in Policies
  BY <1>0, <1>3 DEF Labels, Policies, TypeOK
<1>5. HealthStep
  BY <1>1 DEF HealthStep
<1>6. GuardOK' /\ calm' \in 0 .. GuardClear /\ reboots' \in Nat
  BY <1>0, <1>5, GuardKept
<1>7. TypeOK'
  BY <1>0, <1>1, <1>2, <1>4, <1>6 DEF TypeOK
<1>8. SensorsOK'
  BY <1>0, <1>1, <1>3 DEF SensorsOK
<1>9. LoopOK'
  BY <1>0, <1>1, <1>3 DEF LoopOK
<1>10. ToldOK'
  BY <1>0, <1>1, <1>2, <1>3 DEF ToldOK, Told, LoopOK
<1> QED BY <1>6, <1>7, <1>8, <1>9, <1>10 DEF IInv

(* A look at the accelerometer while the Tag idles.                        *)
LEMMA SampleIdleKeeps ==
    ASSUME IInv, SampleIdle, UNCHANGED flaky, Watched
    PROVE  IInv'
<1>0. /\ TypeOK /\ SensorsOK /\ LoopOK /\ ToldOK /\ GuardOK /\ pc = "check" /\ runtime = "idle"
      /\ health \notin Faulted /\ armed
      /\ UNCHANGED <<wakeBit, suspended, dead, still, guard, policy, sem, giving, connected>>
  BY DEF IInv, SampleIdle, SensorsOK, LoopOK
<1>1. PICK failed \in SUBSET Sensors :
        /\ Record(failed)
        /\ \/ EndTurn
           \/ chosen = "auto" /\ Continue("wake") /\ failed = {}
  BY DEF SampleIdle, Sensors
<1>2. /\ streak' \in [Sensors -> 0 .. FailureLimit]
      /\ \/ Begun(wakeRequested) /\ UNCHANGED healthyFor
         \/ /\ UNCHANGED <<ready, attempts, retryIn, streaming, runtime, armed, wakeRequested>>
            /\ \/ health' = health /\ UNCHANGED healthyFor
               \/ health = "healthy" /\ health' = "suspect" /\ UNCHANGED healthyFor
               \/ health = "suspect" /\ health' = "healthy" /\ healthyFor' = 0
  BY <1>0, <1>1, RecordEffect
<1>3. unchecked' \in 0 .. IdleCheck
  BY <1>0, TimingAssumption DEF SampleIdle, TypeOK
<1>4. HealthStep
  BY <1>0, <1>2 DEF HealthStep, Begun
<1>5. GuardOK' /\ calm' \in 0 .. GuardClear /\ reboots' \in Nat
  BY <1>0, <1>4, GuardKept
<1>6. 0 \in 0 .. MaxAttempts /\ 0 \in Nat /\ 0 < MaxAttempts /\ 0 \in 0 .. GuardClear
  BY TimingAssumption
<1>7. failed = {} => runtime' = "idle"
  BY <1>0, <1>1 DEF Record, RecordGood
<1>8. \/ pc' = "wake" /\ chosen' = chosen /\ chosen = "auto" /\ runtime' = "idle"
      \/ pc' = "wait" /\ chosen' = "auto" /\ runtime' = "idle"
      \/ pc' = "service" /\ chosen' = "auto"
  BY <1>1, <1>7 DEF Continue, EndTurn, Goto
<1>9. TypeOK'
  <2>1. pc' \in Labels /\ chosen' \in Policies
    BY <1>8 DEF Labels, Policies
  <2>2. health' \in {"healthy", "suspect"} \cup Faulted /\ healthyFor' \in 0 .. GuardClear
    BY <1>0, <1>2, <1>6 DEF TypeOK, Begun, Faulted
  <2>3. /\ ready' \in SUBSET Sensors /\ attempts' \in 0 .. MaxAttempts /\ retryIn' \in Nat
        /\ streaming' \in BOOLEAN /\ armed' \in BOOLEAN /\ wakeRequested' \in BOOLEAN
        /\ runtime' \in {"active", "idle"}
    BY <1>0, <1>2, <1>6 DEF TypeOK, Begun
  <2> QED BY <1>0, <1>2, <1>3, <1>5, <2>1, <2>2, <2>3 DEF TypeOK
<1>10. SensorsOK'
  <2>1. pc' # "boot"
    BY <1>8
  <2>2. CASE Begun(wakeRequested)
    BY <1>6, <2>1, <2>2 DEF SensorsOK, Begun, Faulted
  <2>3. CASE ~Begun(wakeRequested)
    <3>1. /\ UNCHANGED <<ready, attempts, streaming, runtime, armed>>
          /\ health' \notin Faulted
      BY <1>0, <1>2, <2>3 DEF Faulted
    <3> QED BY <1>0, <2>1, <3>1 DEF SensorsOK, Faulted
  <2> QED BY <2>2, <2>3
<1>11. LoopOK'
  BY <1>8 DEF LoopOK
<1>12. ToldOK'
  <2>1. wakeRequested' => wakeRequested
    BY <1>2 DEF Begun
  <2>2. ~Told => ~wakeRequested /\ chosen = policy /\ chosen # "research"
    BY <1>0 DEF ToldOK, LoopOK
  <2> QED BY <1>0, <1>8, <2>1, <2>2 DEF ToldOK, Told
<1> QED BY <1>5, <1>9, <1>10, <1>11, <1>12 DEF IInv

(* The end of a wait.                                                      *)
LEMMA WaitKeeps ==
    ASSUME IInv, WaitTakes \/ WaitTimesOut, UNCHANGED flaky, Watched
    PROVE  IInv'
<1>0. /\ TypeOK /\ SensorsOK /\ LoopOK /\ ToldOK /\ GuardOK /\ pc = "wait" /\ runtime = "idle"
  BY DEF IInv, WaitTakes, WaitTimesOut, LoopOK
<1>1. /\ pc' = "service" /\ sem' \in {0, sem}
      /\ UNCHANGED <<chosen, health, runtime, ready, streak, attempts, streaming, armed, wakeBit,
                     suspended, dead, retryIn, still, healthyFor, unchecked, guard, policy,
                     wakeRequested, giving, connected>>
  BY DEF WaitTakes, WaitTimesOut, Continue, Goto, sensing, hardware, ages, handlers
<1>2. HealthStep
  BY <1>1 DEF HealthStep
<1>3. GuardOK' /\ calm' \in 0 .. GuardClear /\ reboots' \in Nat
  BY <1>0, <1>2, GuardKept
<1>4. TypeOK'
  BY <1>0, <1>1, <1>3 DEF TypeOK, Labels
<1>5. SensorsOK'
  BY <1>0, <1>1 DEF SensorsOK
<1>6. LoopOK'
  BY <1>1 DEF LoopOK
<1>7. ToldOK'
  BY <1>0, <1>1 DEF ToldOK
<1> QED BY <1>3, <1>4, <1>5, <1>6, <1>7 DEF IInv

(* Whatever the loop does.                                                 *)
LEMMA MainLoopKeeps ==
    ASSUME IInv, MainLoop, UNCHANGED flaky, Watched
    PROVE  IInv'
<1>1. CASE Boot
  BY <1>1, BootKeeps
<1>2. CASE Service
  BY <1>2, ServiceKeeps
<1>3. CASE Apply \/ SettleIdle \/ Wake
  BY <1>3, TransitionsKeep
<1>4. CASE SampleMotion
  BY <1>4, SampleMotionKeeps
<1>5. CASE TakeWakeRequest
  BY <1>5, TakeWakeRequestKeeps
<1>6. CASE SampleIdle
  BY <1>6, SampleIdleKeeps
<1>7. CASE WaitTakes \/ WaitTimesOut
  BY <1>7, WaitKeeps
<1> QED BY <1>1, <1>2, <1>3, <1>4, <1>5, <1>6, <1>7 DEF MainLoop

-----------------------------------------------------------------------------
(* What happens around the loop.                                           *)

(* A handler stores its event before anybody may miss it.                  *)
LEMMA HandlersKeep ==
    ASSUME IInv, Handlers, UNCHANGED history
    PROVE  IInv'
<1>0. TypeOK /\ SensorsOK /\ LoopOK /\ ToldOK /\ GuardOK
  BY DEF IInv
<1>1. /\ UNCHANGED <<pc, chosen, health, runtime, ready, streak, attempts,
                     streaming, armed, wakeBit,
                     suspended, dead, retryIn, still, healthyFor, unchecked, guard, flaky, calm,
                     reboots>>
      /\ \/ /\ wakeRequested' = TRUE /\ giving' = giving \cup {"trigger"} /\ armed
            /\ UNCHANGED <<policy, sem, connected>>
         \/ /\ policy' \in Policies /\ giving' = giving \cup {"policy"}
            /\ UNCHANGED <<wakeRequested, sem, connected>>
         \/ /\ sem' = 1 /\ giving' \in SUBSET giving
            /\ UNCHANGED <<policy, wakeRequested, connected>>
         \/ /\ connected' = ~connected
            /\ UNCHANGED <<policy, wakeRequested, sem, giving>>
  BY DEF Handlers, MotionTrigger, SetPowerPolicy, Give, ConnectionChanges, Stays, sensing, hardware,
         ages, history
<1>2. TypeOK'
  <2>1. /\ policy' \in Policies /\ wakeRequested' \in BOOLEAN /\ connected' \in BOOLEAN
        /\ sem' \in {0, 1}
    BY <1>0, <1>1 DEF TypeOK
  <2>2. giving' \in SUBSET {"trigger", "policy"}
    BY <1>0, <1>1 DEF TypeOK
  <2> QED BY <1>0, <1>1, <2>1, <2>2 DEF TypeOK
<1>3. SensorsOK'
  BY <1>0, <1>1 DEF SensorsOK
<1>4. LoopOK'
  BY <1>0, <1>1 DEF LoopOK
<1>5. ToldOK'
  BY <1>0, <1>1 DEF ToldOK, Told
<1>6. GuardOK'
  BY <1>0, <1>1 DEF GuardOK
<1> QED BY <1>2, <1>3, <1>4, <1>5, <1>6 DEF IInv

(* Sensors fail and work again.                                            *)
LEMMA SensorsChangeKeeps ==
    ASSUME IInv, SensorsChange, UNCHANGED history
    PROVE  IInv'
<1>0. TypeOK /\ SensorsOK /\ LoopOK /\ ToldOK /\ GuardOK
  BY DEF IInv
<1>1. /\ flaky' \in SUBSET Sensors
      /\ UNCHANGED <<pc, chosen, health, runtime, ready, streak, attempts,
                     streaming, armed, wakeBit,
                     suspended, dead, retryIn, still, healthyFor, unchecked, guard, policy,
                     wakeRequested, sem, giving, connected, calm, reboots>>
  BY <1>0 DEF SensorsChange, TypeOK, sensing, hardware, ages, handlers, history
<1>2. TypeOK'
  BY <1>0, <1>1 DEF TypeOK
<1>3. SensorsOK'
  BY <1>0, <1>1 DEF SensorsOK
<1>4. LoopOK'
  BY <1>0, <1>1 DEF LoopOK
<1>5. ToldOK'
  BY <1>0, <1>1 DEF ToldOK, Told
<1>6. GuardOK'
  BY <1>0, <1>1 DEF GuardOK
<1> QED BY <1>2, <1>3, <1>4, <1>5, <1>6 DEF IInv

(* An age that is counted up to a limit stays within it.                   *)
LEMMA UpToEffect ==
    ASSUME NEW limit \in Nat, NEW age \in 0 .. limit
    PROVE  UpTo(limit, age) \in 0 .. limit
BY DEF UpTo

(* Time passes for health and calm alike.                                  *)
LEMMA TickKeeps ==
    ASSUME IInv, Tick
    PROVE  IInv'
<1>0. TypeOK /\ SensorsOK /\ LoopOK /\ ToldOK /\ GuardOK
  BY DEF IInv
<1>1. UNCHANGED <<pc, chosen, health, runtime, ready, streak, attempts, streaming, armed, wakeBit,
                  suspended, dead, guard, policy, wakeRequested, sem, giving, connected, flaky>>
  BY DEF Tick, sensing, hardware, handlers
<1>2. /\ AutoIdle \in Nat /\ GuardClear \in Nat /\ IdleCheck \in Nat /\ retryIn \in Nat
      /\ still \in 0 .. AutoIdle /\ healthyFor \in 0 .. GuardClear /\ unchecked \in 0 .. IdleCheck
      /\ calm \in 0 .. GuardClear /\ reboots \in Nat
  BY <1>0, TimingAssumption DEF TypeOK
<1>3. /\ retryIn' \in Nat /\ still' \in 0 .. AutoIdle
      /\ healthyFor' \in 0 .. GuardClear /\ unchecked' \in 0 .. IdleCheck
  BY <1>2, UpToEffect DEF Tick
<1>4. calm' \in 0 .. GuardClear /\ reboots' \in Nat
  BY <1>2, UpToEffect DEF Tick
<1>5. TypeOK'
  BY <1>0, <1>1, <1>3, <1>4 DEF TypeOK
<1>6. SensorsOK'
  BY <1>0, <1>1 DEF SensorsOK
<1>7. LoopOK'
  BY <1>0, <1>1 DEF LoopOK
<1>8. ToldOK'
  BY <1>0, <1>1 DEF ToldOK, Told
<1>9. GuardOK'
  <2>1. health = "healthy" => healthyFor' <= calm'
    BY <1>0, <1>2 DEF Tick, UpTo, GuardOK
  <2>2. (calm' = GuardClear => reboots' = 0) /\ reboots' \in {0, reboots}
    BY DEF Tick
  <2> QED BY <1>0, <1>1, <2>1, <2>2 DEF GuardOK
<1> QED BY <1>5, <1>6, <1>7, <1>8, <1>9 DEF IInv

(* A reset starts over, and the guard with what it knows of reboots stays  *)
(* or both go.                                                             *)
LEMMA ResetKeeps ==
    ASSUME IInv, Reset, calm' = 0, guard' \in BOOLEAN, reboots' \in Nat,
           GuardClear # 0 => reboots' <= 1 /\ (~guard' => reboots' = 0)
    PROVE  IInv'
<1>1. /\ pc' = "boot" /\ chosen' = "auto" /\ policy' = "auto"
      /\ health' = "healthy" /\ runtime' = "active" /\ streaming' = TRUE
      /\ ready' = {} /\ streak' = [d \in Sensors |-> 0] /\ attempts' = 0
      /\ armed' = FALSE /\ wakeBit' = FALSE /\ suspended' = FALSE
      /\ retryIn' = 0 /\ still' = 0 /\ healthyFor' = 0 /\ unchecked' = 0
      /\ wakeRequested' = FALSE /\ sem' = 0 /\ giving' = {} /\ connected' = FALSE
      /\ flaky' = flaky /\ dead' \in SUBSET flaky
  BY DEF Reset, Goto
<1>2. /\ 0 \in 0 .. MaxAttempts /\ 0 \in 0 .. AutoIdle /\ 0 \in 0 .. GuardClear
      /\ 0 \in 0 .. IdleCheck /\ 0 \in 0 .. FailureLimit
  BY TimingAssumption
<1>3. flaky \in SUBSET Sensors
  BY DEF IInv, TypeOK
<1>4. TypeOK'
  <2>1. streak' \in [Sensors -> 0 .. FailureLimit] /\ dead' \in SUBSET Sensors
    BY <1>1, <1>2, <1>3
  <2> QED BY <1>1, <1>2, <1>3, <2>1 DEF TypeOK, Labels, Policies
<1>5. SensorsOK'
  BY <1>1 DEF SensorsOK, Faulted
<1>6. LoopOK'
  BY <1>1 DEF LoopOK
<1>7. ToldOK'
  BY <1>1 DEF ToldOK
<1>8. GuardOK'
  BY <1>1, <1>2 DEF GuardOK
<1> QED BY <1>4, <1>5, <1>6, <1>7, <1>8 DEF IInv

(* A reboot happens only while there has been none.                        *)
LEMMA ResetsKeep ==
    ASSUME IInv, WarmReboot \/ \E cold \in BOOLEAN : ExternalReset(cold)
    PROVE  IInv'
<1>0. /\ guard \in BOOLEAN /\ reboots \in Nat
      /\ GuardClear # 0 => reboots <= 1 /\ (~guard => reboots = 0)
  BY DEF IInv, TypeOK, GuardOK
<1>1. CASE WarmReboot
  <2>1. reboots' = reboots + 1 /\ guard' = TRUE /\ calm' = 0 /\ Reset /\ ~guard
    BY <1>1 DEF WarmReboot
  <2>2. GuardClear # 0 => reboots' <= 1
    BY <1>0, <2>1
  <2> QED BY <1>0, <2>1, <2>2, ResetKeeps
<1>2. ASSUME NEW cold \in BOOLEAN, ExternalReset(cold)
      PROVE  IInv'
  <2>1. guard' = (guard /\ ~cold) /\ reboots' = (IF cold THEN 0 ELSE reboots) /\ calm' = 0 /\ Reset
    BY <1>2 DEF ExternalReset
  <2>2. /\ guard' \in BOOLEAN /\ reboots' \in Nat
        /\ GuardClear # 0 => reboots' <= 1 /\ (~guard' => reboots' = 0)
    <3>1. CASE cold
      BY <2>1, <3>1
    <3>2. CASE ~cold
      BY <1>0, <2>1, <3>2
    <3> QED BY <3>1, <3>2
  <2> QED BY <2>1, <2>2, ResetKeeps
<1> QED BY <1>1, <1>2

-----------------------------------------------------------------------------
(* The Tag has just been powered.                                          *)
LEMMA InitIInv == ASSUME Init PROVE IInv
<1>1. /\ 0 \in 0 .. MaxAttempts /\ 0 \in 0 .. AutoIdle /\ 0 \in 0 .. GuardClear
      /\ 0 \in 0 .. IdleCheck /\ 0 \in 0 .. FailureLimit /\ 0 \in 0 .. 1
  BY TimingAssumption
<1>2. TypeOK
  <2>1. /\ streak \in [Sensors -> 0 .. FailureLimit] /\ dead \in SUBSET Sensors
        /\ flaky \in SUBSET Sensors
    BY <1>1 DEF Init
  <2> QED BY <1>1, <2>1 DEF Init, TypeOK, Labels, Policies
<1>3. SensorsOK
  BY DEF Init, SensorsOK, Faulted
<1>4. LoopOK
  BY DEF Init, LoopOK
<1>5. ToldOK
  BY DEF Init, ToldOK
<1>6. GuardOK
  BY <1>1 DEF Init, GuardOK
<1> QED BY <1>2, <1>3, <1>4, <1>5, <1>6 DEF IInv

(* Every step keeps the invariant.                                         *)
LEMMA NextKeepsIInv ==
    ASSUME IInv, [Next]_vars
    PROVE  IInv'
<1>1. CASE MainLoop /\ UNCHANGED flaky /\ Watched
  BY <1>1, MainLoopKeeps
<1>2. CASE Handlers /\ UNCHANGED history
  BY <1>2, HandlersKeep
<1>3. CASE SensorsChange /\ UNCHANGED history
  BY <1>3, SensorsChangeKeeps
<1>4. CASE Tick
  BY <1>4, TickKeeps
<1>5. CASE WarmReboot \/ \E cold \in BOOLEAN : ExternalReset(cold)
  BY <1>5, ResetsKeep
<1>6. CASE UNCHANGED vars
  <2>1. UNCHANGED <<pc, chosen, health, runtime, ready, streak, attempts, streaming, armed, wakeBit,
                    suspended, dead, retryIn, still, healthyFor, unchecked, guard, policy,
                    wakeRequested, sem, giving, connected, flaky, calm, reboots>>
    BY <1>6 DEF vars, sensing, hardware, ages, handlers, history
  <2> QED BY <2>1 DEF IInv, TypeOK, SensorsOK, LoopOK, ToldOK, Told, GuardOK
<1> QED BY <1>1, <1>2, <1>3, <1>4, <1>5, <1>6 DEF Next

(* Every reachable state satisfies the invariant.                          *)
THEOREM Invariance == Spec => []IInv
<1>1. Init => IInv
  BY InitIInv
<1>2. IInv /\ [Next]_vars => IInv'
  BY NextKeepsIInv
<1> QED BY <1>1, <1>2, PTL DEF Spec

(* Streaks, attempts and ages stay within the limits they are compared     *)
(* with, and every variable within its type.                               *)
THEOREM TypeCorrect == Spec => []TypeOK
<1>1. IInv => TypeOK
  BY DEF IInv
<1> QED BY <1>1, Invariance, PTL

(* The Tag cannot sleep through a putt, whichever bus operation fails on   *)
(* its way into or out of the idle state and whoever interrupts it there.  *)
THEOREM IdleWakes == Spec => []IdleCanWake
<1>1. IInv => IdleCanWake
  BY DEF IInv, SensorsOK, IdleCanWake, Faulted
<1> QED BY <1>1, Invariance, PTL

(* The stream the Tag reports is one it takes from two configured sensors. *)
THEOREM StreamReal == Spec => []StreamIsReal
<1>1. IInv => StreamIsReal
  BY DEF IInv, SensorsOK, StreamIsReal, Faulted
<1> QED BY <1>1, Invariance, PTL

(* The loop blocks on no event: a request or a policy that comes while it  *)
(* decides reaches it through the semaphore.                               *)
THEOREM EventsReachLoop == Spec => []NothingSleptOn
<1>1. IInv => NothingSleptOn
  BY DEF IInv, ToldOK, Told, NothingSleptOn
<1> QED BY <1>1, Invariance, PTL

(* Two automatic reboots are a calm time or a loss of memory apart,        *)
(* provided a calm time is any time at all.                                *)
THEOREM NoRebootLoop == ASSUME GuardClear # 0 PROVE Spec => []OneRebootPerCalm
<1>1. IInv => OneRebootPerCalm
  BY DEF IInv, GuardOK, OneRebootPerCalm
<1> QED BY <1>1, Invariance, PTL

=============================================================================
