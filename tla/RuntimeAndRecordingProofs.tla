---------------------- MODULE RuntimeAndRecordingProofs ----------------------
(***************************************************************************)
(* Theorems about the two systems that feed the engine of Gameplay, and    *)
(* that rest on the theorems of GameplayProofs: the round runtime, for any *)
(* course, players, sensor nodes and window, with any number of            *)
(* observations, reboots, simulated events and audit failures; and the     *)
(* recorders with their replays, for every number of serial lines, boots,  *)
(* lost lines, record limits, events and failures.  The two share no state *)
(* but the engine's, and no theorem speaks of both.                        *)
(***************************************************************************)
EXTENDS RoundRuntime, RunRecording, GameplayProofs, FiniteSetTheorems, SequenceTheorems

(***************************************************************************)
(* The round runtime.                                                      *)
(*                                                                         *)
(* First the world: observations are numbered as they are received, and a  *)
(* node counts up within a boot.  Then the policy: what it has granted,    *)
(* and what the cup candidate rests on, is a matter of observations it has *)
(* decided.  Then the game: every delivery is a step of the engine or none,*)
(* so what GameplayProofs says of the engine holds here too, and that it   *)
(* only moves forward is why old verdicts stay harmless.  Last the records *)
(* kept of all this.                                                       *)
(***************************************************************************)

Observation ==
    [id : ObservationIds \cap Nat, device : Devices, boot : Nat, seq : Nat,
     kind : {"tee_presence", "cup_entry", "cup_presence"},
     transition : {"occupied", "entered", "vacant"}, sensor : STRING,
     ball : Players \cup Strangers \cup {NoBall}, hole : Nat, sound : BOOLEAN,
     received : Times]

(* The newest observation has the highest number and the latest receive    *)
(* time, and of its node the highest boot and sequence number.             *)
WorldOK ==
    /\ edges \subseteq Observation /\ IsFiniteSet(edges)
    /\ node \in [Devices -> [boot : Nat, seq : Nat]] /\ clock \in Times
    /\ \A o \in edges :
          /\ o.id <= Cardinality(edges) /\ o.received <= clock
          /\ \/ o.boot < node[o.device].boot
             \/ o.boot = node[o.device].boot /\ o.seq <= node[o.device].seq
    /\ \A a, b \in edges :
          /\ a.id = b.id => a = b
          /\ a.device = b.device /\ a.boot = b.boot /\ a.received < b.received =>
                a.seq < b.seq

PolicyTypeOK ==
    /\ decisions \in [ObservationIds -> Decision \cup {Absent}]
    /\ answered \in [ObservationIds -> Decision \cup {Absent}]
    /\ DOMAIN ordering = Devices

(* The hole-out i is granted on is backed by edge e.                       *)
Backs(e, i) ==
    /\ decisions[i].evidence.id = <<"cup", e.id, i>>
    /\ decisions[e.id] # Absent
    /\ \E presence \in edges :
          /\ presence.id = i
          /\ e.hole = presence.hole /\ e.sensor # presence.sensor
          /\ presence.received - e.received \in 0 .. CupWindow
          /\ e.device = presence.device => e.boot = presence.boot

CupGranted(i) == Granted(i) /\ decisions[i].evidence.type = "cup.confirmed"

(* The edge of the candidate has been decided, and has granted nothing.    *)
CandidateOK ==
    cupEntry # Absent =>
        \E e \in edges, p \in Players, h \in Holes :
            /\ cupEntry = [edge |-> e, ball |-> p, hole |-> h]
            /\ e.hole = h /\ h <= current
            /\ play[h][p].status \in {"playing", "complete"}
            /\ decisions[e.id] # Absent
            /\ \A i \in ObservationIds :
                  CupGranted(i) => decisions[i].evidence.id # <<"cup", e.id, i>>

(* Hole-outs are backed, and by different edges.                           *)
GrantsOK ==
    /\ \A i \in ObservationIds : CupGranted(i) => \E e \in edges : Backs(e, i)
    /\ \A i, j \in ObservationIds :
          CupGranted(i) /\ CupGranted(j)
          /\ decisions[i].evidence.id[2] = decisions[j].evidence.id[2] => i = j

(* Evidence the engine has not seen is a tee it refused for good.          *)
RefusedForGood ==
    \A i \in ObservationIds :
        Granted(i) /\ decisions[i].evidence.id \notin seen =>
            /\ decisions[i].evidence.type = "tee.presented"
            /\ \/ sessionStatus = "complete"
               \/ play[decisions[i].evidence.hole][decisions[i].evidence.ball].status = "complete"

(* What the answers and the audit file say.                                *)
RecordsOK ==
    /\ auditedEvents \subseteq seen /\ IsFiniteSet(seen) /\ failures \in Nat
    /\ Cardinality(seen \ auditedEvents) <= failures
    /\ auditedDecisions \subseteq ObservationIds
    /\ \A i \in ObservationIds : answered[i] # Absent => answered[i] = decisions[i]
    /\ \A i \in ObservationIds :
          (answered[i] # Absent \/ i \in auditedDecisions) =>
              /\ decisions[i] # Absent
              /\ Granted(i) => decisions[i].evidence.id \in auditedEvents

RInv ==
    /\ IInv /\ WorldOK /\ PolicyTypeOK
    /\ CandidateOK /\ GrantsOK /\ RefusedForGood /\ RecordsOK

-----------------------------------------------------------------------------
(* The turn and the policy.                                                *)

(* The context tells the policy the engine's state, None where nobody      *)
(* plays.                                                                  *)
LEMMA TurnFacts ==
    ASSUME IInv
    PROVE  /\ current \in Holes /\ Turn.hole = current /\ Turn.assigned = Players
           /\ Turn.ball # NoBall =>
                 /\ Turn.ball \in Players /\ active[current] = Turn.ball
                 /\ Turn.state = play[current][Turn.ball].status
           /\ Turn.ball = NoBall => active[current] = NoPlayer
<1>1. current \in Holes /\ active[current] \in Players \cup {NoPlayer}
  BY DEF IInv, TypeOK
<1>2. NoBall \notin Players /\ NoPlayer \notin Players
  BY AbsentAssumption, PlayersAssumption
<1> QED BY <1>1, <1>2 DEF Turn

(* What evaluating observation o for the first time decides, d, and makes  *)
(* of the candidate.                                                       *)
NothingGranted(d) == d.evidence = Absent /\ cupEntry' \in {cupEntry, Absent}

EntryTaken(o, d) ==
    /\ d.evidence = Absent /\ CupEnters(o, Turn) /\ o.hole = current
    /\ cupEntry' = Candidate(o, Turn)

TeeGranted(o, d) ==
    /\ TeeAccepts(o, Turn) /\ o.hole = current
    /\ d.evidence = TeeEvidence(o) /\ d.evidence \in Evidence /\ UNCHANGED cupEntry

CupGrantedNow(o, d) ==
    /\ Confirms(o, Turn) /\ o.hole = current
    /\ d.evidence = CupEvidence(o, Turn) /\ d.evidence \in Evidence /\ cupEntry' = Absent

Decided(o, d) ==
    /\ decisions[o.id] = Absent /\ d \in Decision
    /\ decisions' = [decisions EXCEPT ![o.id] = d] /\ DOMAIN ordering' = Devices
    /\ NothingGranted(d) \/ EntryTaken(o, d) \/ TeeGranted(o, d) \/ CupGrantedNow(o, d)

(* The policy decides once, and is asked in vain ever after.               *)
LEMMA EvaluateEffect ==
    ASSUME IInv, WorldOK, PolicyTypeOK, CandidateOK, NEW o \in edges, Evaluate(o, Turn)
    PROVE  \/ decisions[o.id] # Absent /\ UNCHANGED policy
           \/ \E d : Decided(o, d)
<1>1. /\ o.id \in ObservationIds /\ o.hole \in Nat /\ o.received \in Times /\ o.device \in Devices
      /\ DOMAIN ordering = Devices
  BY DEF WorldOK, PolicyTypeOK, Observation
<1>2. CASE decisions[o.id] # Absent /\ UNCHANGED policy
  BY <1>2
<1>3. ASSUME decisions[o.id] = Absent, Reject(o), DOMAIN ordering' = Devices
      PROVE  \E d : Decided(o, d)
  <2> DEFINE d == [status |-> "rejected", evidence |-> Absent]
  <2>1. d \in Decision /\ d.evidence = Absent
    BY DEF Decision
  <2>2. decisions' = [decisions EXCEPT ![o.id] = d] /\ cupEntry' \in {cupEntry, Absent}
    BY <1>3 DEF Reject, Decide
  <2> HIDE DEF d
  <2> QED BY <1>3, <2>1, <2>2 DEF Decided, NothingGranted
<1>4. ASSUME decisions[o.id] = Absent, WellFormed(o, Turn), DOMAIN ordering' = Devices,
             DecideInOrder(o, Turn)
      PROVE  \E d : Decided(o, d)
  <2>1. o.hole = current /\ current \in Holes
    BY <1>4, TurnFacts DEF WellFormed
  <2>2. ASSUME NEW st \in {"observed", "pending"}, Decide(o, st, Absent),
               cupEntry' \in {cupEntry, Absent}
        PROVE  \E d : Decided(o, d)
    <3> DEFINE d == [status |-> st, evidence |-> Absent]
    <3>1. d \in Decision /\ d.evidence = Absent
      BY DEF Decision
    <3>2. decisions' = [decisions EXCEPT ![o.id] = d]
      BY <2>2 DEF Decide
    <3> HIDE DEF d
    <3> QED BY <1>4, <2>2, <3>1, <3>2 DEF Decided, NothingGranted
  <2>3. CASE TeeAccepts(o, Turn) /\ Decide(o, "accepted", TeeEvidence(o)) /\ UNCHANGED cupEntry
    <3> DEFINE d == [status |-> "accepted", evidence |-> TeeEvidence(o)]
    <3>1. o.ball \in Players
      BY <2>3, TurnFacts DEF TeeAccepts
    <3>2. <<"tee", o.id>> \in EventIds
      BY <1>1, EventIdsAssumption
    <3>3. TeeEvidence(o) \in Evidence
      BY <1>1, <2>1, <3>1, <3>2 DEF TeeEvidence, Evidence
    <3>4. d \in Decision /\ d.evidence = TeeEvidence(o)
      BY <3>3 DEF Decision
    <3>5. decisions' = [decisions EXCEPT ![o.id] = d]
      BY <2>3 DEF Decide
    <3> HIDE DEF d
    <3> QED BY <1>4, <2>1, <2>3, <3>3, <3>4, <3>5 DEF Decided, TeeGranted
  <2>4. CASE CupEnters(o, Turn) /\ Decide(o, "pending", Absent) /\ cupEntry' = Candidate(o, Turn)
    <3> DEFINE d == [status |-> "pending", evidence |-> Absent]
    <3>1. d \in Decision /\ d.evidence = Absent
      BY DEF Decision
    <3>2. decisions' = [decisions EXCEPT ![o.id] = d]
      BY <2>4 DEF Decide
    <3> HIDE DEF d
    <3> QED BY <1>4, <2>1, <2>4, <3>1, <3>2 DEF Decided, EntryTaken
  <2>5. CASE Confirms(o, Turn) /\ Decide(o, "accepted", CupEvidence(o, Turn)) /\ cupEntry' = Absent
    <3> DEFINE d == [status |-> "accepted", evidence |-> CupEvidence(o, Turn)]
    <3>1. Turn.ball \in Players
      BY <2>5, TurnFacts DEF Confirms, CupOccupied, CupForTurn
    <3>2. cupEntry.edge.id \in ObservationIds
      <4>1. cupEntry # Absent
        BY <2>5 DEF Confirms
      <4>2. PICK e \in edges, p \in Players, h \in Holes :
                  cupEntry = [edge |-> e, ball |-> p, hole |-> h]
        BY <4>1 DEF CandidateOK
      <4> QED BY <4>2 DEF WorldOK, Observation
    <3>3. <<"cup", cupEntry.edge.id, o.id>> \in EventIds
      BY <1>1, <3>2, EventIdsAssumption
    <3>4. CupEvidence(o, Turn) \in Evidence
      BY <1>1, <2>1, <3>1, <3>3 DEF CupEvidence, Evidence
    <3>5. d \in Decision /\ d.evidence = CupEvidence(o, Turn)
      BY <3>4 DEF Decision
    <3>6. decisions' = [decisions EXCEPT ![o.id] = d]
      BY <2>5 DEF Decide
    <3> HIDE DEF d
    <3> QED BY <1>4, <2>1, <2>5, <3>4, <3>5, <3>6 DEF Decided, CupGrantedNow
  <2>6. CASE Reject(o)
    BY <1>3, <1>4, <2>6
  <2> QED BY <1>4, <2>2, <2>3, <2>4, <2>5, <2>6 DEF DecideInOrder
<1>5. UNCHANGED ordering => DOMAIN ordering' = Devices
  BY <1>1
<1>6. Observe(o) => DOMAIN ordering' = Devices
  BY <1>1 DEF Observe
<1> QED BY <1>2, <1>3, <1>4, <1>5, <1>6 DEF Evaluate

-----------------------------------------------------------------------------
(* The game under the runtime.                                             *)

(* Whatever evidence is applied, the engine has taken a step of its own    *)
(* and has the id.                                                         *)
LEMMA AppliedEffect ==
    ASSUME IInv, NEW e \in Evidence, Applied(e)
    PROVE  [Next]_vars /\ e.id \in seen' /\ seen' \subseteq seen \cup {e.id}
<1>1. e.id \in EventIds /\ e.ball \in Players /\ e.hole \in Holes /\ e.time \in Times
  BY DEF Evidence
<1>2. CASE DuplicateIgnored(e.id)
  BY <1>2 DEF DuplicateIgnored, vars
<1>3. CASE TeePresented(e.id, e.hole, e.ball) \/ AlreadyArmed(e.id, e.hole, e.ball)
           \/ CupConfirmed(e.id, e.hole, e.ball, e.time)
  <2>1. ProcessFor(e.id, e.hole, e.ball)
    BY <1>1, <1>3 DEF ProcessFor
  <2>2. Next
    BY <1>1, <2>1 DEF Next
  <2>3. seen' = seen \cup {e.id}
    BY <1>3 DEF TeePresented, AlreadyArmed, CupConfirmed, Dispatched
  <2> QED BY <2>2, <2>3
<1> QED BY <1>2, <1>3 DEF Applied

(* What one delivery does: the policy has decided d now or before, the     *)
(* world stands still, and the evidence, if any, is applied and answered,  *)
(* applied but not recorded, or refused.                                   *)
Answered(o, d) ==
    /\ answered' = [answered EXCEPT ![o.id] = d]
    /\ \/ auditedDecisions' = auditedDecisions \cup {o.id} /\ failures' = failures
       \/ auditedDecisions' = auditedDecisions /\ failures' = failures + 1

Delivered(o, d) ==
    /\ d \in Decision /\ decisions' = [decisions EXCEPT ![o.id] = d] /\ DOMAIN ordering' = Devices
    /\ decisions[o.id] # Absent => d = decisions[o.id] /\ UNCHANGED cupEntry
    /\ decisions[o.id] = Absent => Decided(o, d)
    /\ UNCHANGED world
    /\ \/ d.evidence = Absent /\ UNCHANGED <<game, auditedEvents>> /\ Answered(o, d)
       \/ /\ d.evidence \in Evidence /\ Applied(d.evidence) /\ Answered(o, d)
          /\ auditedEvents' = auditedEvents \cup {d.evidence.id}
       \/ /\ d.evidence \in Evidence /\ Applied(d.evidence) /\ failures' = failures + 1
          /\ UNCHANGED <<answered, auditedEvents, auditedDecisions>>
       \/ /\ d.evidence \in Evidence /\ Refused(d.evidence)
          /\ UNCHANGED <<game, answered, audit>>

(* Every delivery is of that form.                                         *)
LEMMA DeliverEffect ==
    ASSUME RInv, NEW o \in edges, Deliver(o)
    PROVE  \E d : Delivered(o, d)
<1>1. /\ o.id \in ObservationIds /\ decisions \in [ObservationIds -> Decision \cup {Absent}]
      /\ DOMAIN ordering = Devices
  BY DEF RInv, WorldOK, PolicyTypeOK, Observation
<1>2. Evaluate(o, Turn)
  BY DEF Deliver, NoEvidenceIn, EvidenceApplied, EvidenceUnaudited, EvidenceRefused
<1>3. PICK d : /\ d \in Decision /\ decisions' = [decisions EXCEPT ![o.id] = d]
               /\ DOMAIN ordering' = Devices
               /\ decisions[o.id] # Absent => d = decisions[o.id] /\ UNCHANGED cupEntry
               /\ decisions[o.id] = Absent => Decided(o, d)
  <2>1. CASE decisions[o.id] # Absent /\ UNCHANGED policy
    <3>1. decisions' = [decisions EXCEPT ![o.id] = decisions[o.id]]
      BY <1>1, <2>1 DEF policy
    <3> QED BY <1>1, <2>1, <3>1 DEF policy
  <2>2. ASSUME NEW d, Decided(o, d)
        PROVE  \E x : /\ x \in Decision /\ decisions' = [decisions EXCEPT ![o.id] = x]
                      /\ DOMAIN ordering' = Devices
                      /\ decisions[o.id] # Absent => x = decisions[o.id] /\ UNCHANGED cupEntry
                      /\ decisions[o.id] = Absent => Decided(o, x)
    BY <2>2 DEF Decided
  <2> QED BY <1>2, <2>1, <2>2, EvaluateEffect DEF RInv
<1>4. decisions'[o.id] = d /\ d.evidence \in Evidence \cup {Absent}
  BY <1>1, <1>3 DEF Decision
<1>5. UNCHANGED world
  BY DEF Deliver, NoEvidenceIn, EvidenceApplied, EvidenceUnaudited, EvidenceRefused
<1>6. CASE NoEvidenceIn(o)
  BY <1>3, <1>4, <1>5, <1>6 DEF NoEvidenceIn, Answer, AppendDecision, Delivered, Answered
<1>7. CASE EvidenceApplied(o)
  BY <1>3, <1>4, <1>5, <1>7 DEF EvidenceApplied, Answer, AppendDecision, Delivered, Answered
<1>8. CASE EvidenceUnaudited(o)
  BY <1>3, <1>4, <1>5, <1>8 DEF EvidenceUnaudited, AppendFails, Delivered
<1>9. CASE EvidenceRefused(o)
  BY <1>3, <1>4, <1>5, <1>9 DEF EvidenceRefused, Delivered
<1> QED BY <1>6, <1>7, <1>8, <1>9 DEF Deliver

(* The game is the engine's, whoever asks.                                 *)
LEMMA DeliverIsGameStep ==
    ASSUME IInv, NEW o, NEW d, Delivered(o, d)
    PROVE  [Next]_vars
<1>1. game = vars
  BY DEF game, vars
<1>2. CASE UNCHANGED game
  BY <1>2 DEF game, vars
<1>3. CASE d.evidence \in Evidence /\ Applied(d.evidence)
  BY <1>3, AppliedEffect
<1> QED BY <1>2, <1>3 DEF Delivered

(* Simulated and operator events are events like any other.                *)
LEMMA SimulateEffect ==
    ASSUME NEW n \in 1 .. MaxSimulated, NEW h \in Holes, NEW p \in Players, Simulate(n, h, p)
    PROVE  /\ [Next]_vars /\ <<"sim", n>> \in seen' /\ seen' \subseteq seen \cup {<<"sim", n>>}
           /\ UNCHANGED <<policy, world, answered, auditedDecisions>>
           /\ \/ auditedEvents' = auditedEvents \cup {<<"sim", n>>} /\ failures' = failures
              \/ auditedEvents' = auditedEvents /\ failures' = failures + 1
<1>1. <<"sim", n>> \in EventIds
  BY EventIdsAssumption
<1>2. [Next]_vars
  BY <1>1 DEF Simulate, Next
<1>3. CASE DuplicateIgnored(<<"sim", n>>)
  BY <1>2, <1>3 DEF Simulate, AppendEvent, AppendFails, DuplicateIgnored, vars
<1>4. CASE ProcessFor(<<"sim", n>>, h, p)
  <2>1. seen' = seen \cup {<<"sim", n>>}
    BY <1>4 DEF ProcessFor, TeePresented, AlreadyArmed, TeeCancelled, StrokeConfirmed,
           FeatureConfirmed, FeatureLimitIgnored, PickupDetected, CupConfirmed, ManualAdjustment,
           Dispatched
  <2> QED BY <1>2, <2>1 DEF Simulate, AppendEvent, AppendFails
<1> QED BY <1>3, <1>4 DEF Simulate

-----------------------------------------------------------------------------
(* What lasts.                                                             *)

(* A candidate stays one of its turn while nothing is decided of it.       *)
LEMMA CandidateStays ==
    ASSUME IInv, [Next]_vars, WorldOK, CandidateOK, edges \subseteq edges',
           \A i \in ObservationIds : decisions[i] # Absent => decisions'[i] = decisions[i],
           cupEntry' = cupEntry, \A i \in ObservationIds : CupGranted(i)' => CupGranted(i)
    PROVE  CandidateOK'
<1> SUFFICES ASSUME cupEntry' # Absent PROVE CandidateOK'
  BY DEF CandidateOK
<1>1. PICK e \in edges, p \in Players, h \in Holes :
            /\ cupEntry = [edge |-> e, ball |-> p, hole |-> h]
            /\ e.hole = h /\ h <= current
            /\ play[h][p].status \in {"playing", "complete"}
            /\ decisions[e.id] # Absent
            /\ \A i \in ObservationIds :
                  CupGranted(i) => decisions[i].evidence.id # <<"cup", e.id, i>>
  BY DEF CandidateOK
<1>2. h <= current'
  <2>1. h \in Int /\ current \in Int
    BY NumHolesAssumption DEF Holes, IInv, TypeOK
  <2>2. current' \in {current, current + 1}
    BY OnlyForward
  <2> QED BY <1>1, <2>1, <2>2
<1>3. play'[h][p].status \in {"playing", "complete"}
  BY <1>1, OnlyForward DEF Later
<1>4. e.id \in ObservationIds
  BY DEF WorldOK, Observation
<1>5. decisions'[e.id] # Absent
  BY <1>1, <1>4
<1>6. ASSUME NEW i \in ObservationIds, CupGranted(i)'
      PROVE  decisions'[i].evidence.id # <<"cup", e.id, i>>
  <2>1. CupGranted(i)
    BY <1>6
  <2>2. decisions'[i] = decisions[i]
    BY <2>1 DEF CupGranted, Granted
  <2> QED BY <1>1, <2>1, <2>2
<1>7. e \in edges' /\ cupEntry' = [edge |-> e, ball |-> p, hole |-> h]
  BY <1>1
<1> QED BY <1>1, <1>2, <1>3, <1>5, <1>6, <1>7 DEF CandidateOK

(* What backs a grant goes on backing it.                                  *)
LEMMA BackingStays ==
    ASSUME WorldOK, edges \subseteq edges', NEW i \in ObservationIds, NEW e \in edges, Backs(e, i),
           decisions'[i] = decisions[i], decisions'[e.id] = decisions[e.id]
    PROVE  Backs(e, i)'
BY DEF Backs

(* What the engine refused it will not apply, and what it applied stays    *)
(* applied.                                                                *)
LEMMA RefusalStays ==
    ASSUME IInv, [Next]_vars, PolicyTypeOK, RefusedForGood, NEW i \in ObservationIds,
           decisions'[i] = decisions[i], Granted(i), decisions[i].evidence.id \notin seen'
    PROVE  /\ decisions[i].evidence.type = "tee.presented"
           /\ \/ sessionStatus' = "complete"
              \/ play'[decisions[i].evidence.hole][decisions[i].evidence.ball].status = "complete"
<1>1. decisions[i].evidence \in Evidence
  BY DEF PolicyTypeOK, Granted, Decision
<1>2. decisions[i].evidence.hole \in Holes /\ decisions[i].evidence.ball \in Players
  BY <1>1 DEF Evidence
<1>3. decisions[i].evidence.id \notin seen
  BY OnlyForward
<1>4. sessionStatus = "complete" => sessionStatus' = "complete"
  BY OnlyForward DEF vars
<1>5. \A h \in Holes, p \in Players :
         play[h][p].status = "complete" => play'[h][p].status = "complete"
  <2>1. ASSUME NEW h \in Holes, NEW p \in Players, play[h][p].status = "complete"
        PROVE  play'[h][p].status = "complete"
    <3>1. play'[h][p] = [play[h][p] EXCEPT !.points = play'[h][p].points]
          /\ play[h][p] \in PlayerHoleState
      BY <2>1, OnlyForward DEF Later, IInv, TypeOK
    <3> QED BY <2>1, <3>1 DEF PlayerHoleState
  <2> QED BY <2>1
<1> QED BY <1>2, <1>3, <1>4, <1>5 DEF RefusedForGood

-----------------------------------------------------------------------------
(* A delivery.                                                             *)

(* The types of what a delivery writes, and that it decides only once.     *)
LEMMA DeliveryTypes ==
    ASSUME RInv, NEW o \in edges, NEW d, Delivered(o, d)
    PROVE  /\ PolicyTypeOK' /\ WorldOK' /\ o.id \in ObservationIds /\ decisions'[o.id] = d
           /\ d # Absent
           /\ \A i \in ObservationIds : i # o.id => decisions'[i] = decisions[i]
           /\ \A i \in ObservationIds : decisions[i] # Absent => decisions'[i] = decisions[i]
<1>1. o.id \in ObservationIds /\ PolicyTypeOK /\ WorldOK
  BY DEF RInv, WorldOK, Observation
<1>2. /\ d \in Decision /\ decisions' = [decisions EXCEPT ![o.id] = d] /\ DOMAIN ordering' = Devices
      /\ decisions[o.id] # Absent => d = decisions[o.id]
      /\ UNCHANGED world
      /\ answered' = [answered EXCEPT ![o.id] = d] \/ answered' = answered
  BY DEF Delivered, Answered
<1>3. PolicyTypeOK'
  BY <1>1, <1>2 DEF PolicyTypeOK
<1>4. WorldOK'
  BY <1>1, <1>2 DEF world, WorldOK
<1>5. decisions'[o.id] = d /\ \A i \in ObservationIds : i # o.id => decisions'[i] = decisions[i]
  BY <1>1, <1>2 DEF PolicyTypeOK
<1> QED BY <1>1, <1>2, <1>3, <1>4, <1>5, AbsentAssumption

(* Only a confirmation grants a hole-out.                                  *)
LEMMA OnlyConfirmationsGrant ==
    ASSUME RInv, NEW o \in edges, NEW d, Delivered(o, d), NEW i \in ObservationIds,
           CupGranted(i)', ~CupGranted(i)
    PROVE  i = o.id /\ decisions[o.id] = Absent /\ CupGrantedNow(o, d)
<1>1. i = o.id
  BY DeliveryTypes DEF CupGranted, Granted
<1>2. decisions[o.id] = Absent
  BY <1>1, DeliveryTypes DEF CupGranted, Granted
<1>3. Decided(o, d) /\ decisions'[o.id] = d
  BY <1>2, DeliveryTypes DEF Delivered
<1>4. d.evidence # Absent /\ d.evidence.type = "cup.confirmed"
  BY <1>1, <1>3 DEF CupGranted, Granted
<1>5. ~NothingGranted(d) /\ ~EntryTaken(o, d)
  BY <1>4 DEF NothingGranted, EntryTaken
<1>6. ~TeeGranted(o, d)
  BY <1>4 DEF TeeGranted, TeeEvidence
<1> QED BY <1>1, <1>2, <1>3, <1>5, <1>6 DEF Decided

(* The candidate after a delivery is the old one, none, or the entry edge  *)
(* just delivered, whose turn is being played.                             *)
LEMMA DeliveryKeepsCandidate ==
    ASSUME RInv, NEW o \in edges, NEW d, Delivered(o, d)
    PROVE  CandidateOK'
<1>1. /\ IInv /\ WorldOK /\ CandidateOK /\ edges' = edges /\ [Next]_vars
      /\ \A i \in ObservationIds : decisions[i] # Absent => decisions'[i] = decisions[i]
  BY DeliverIsGameStep, DeliveryTypes DEF RInv, Delivered, world
<1>2. CASE cupEntry' = Absent
  BY <1>2 DEF CandidateOK
<1>3. CASE decisions[o.id] = Absent /\ EntryTaken(o, d)
  <2> DEFINE b == Turn.ball
  <2>1. /\ d.evidence = Absent /\ o.hole = current /\ b # NoBall /\ Turn.state = "playing"
        /\ cupEntry' = [edge |-> o, ball |-> b, hole |-> Turn.hole]
    BY <1>3 DEF EntryTaken, CupEnters, CupForTurn, Candidate
  <2>2. /\ current \in Holes /\ Turn.hole = current /\ b \in Players
        /\ play[current][b].status = "playing"
    BY <1>1, <2>1, TurnFacts
  <2> HIDE DEF b
  <2>3. UNCHANGED game \/ d.evidence \in Evidence
    BY DEF Delivered
  <2>4. current' \in {current, current + 1} /\ current <= current'
    <3>1. current \in Int
      BY <1>1, NumHolesAssumption DEF Holes, IInv, TypeOK
    <3> QED BY <1>1, <3>1, OnlyForward
  <2>5. play'[current][b].status \in {"playing", "complete"}
    BY <1>1, <2>2, OnlyForward DEF Later
  <2>6. decisions'[o.id] # Absent
    BY DeliveryTypes
  <2>7. ASSUME NEW i \in ObservationIds, CupGranted(i)'
        PROVE  decisions'[i].evidence.id # <<"cup", o.id, i>>
    <3>1. CupGranted(i)
      <4>1. ~CupGrantedNow(o, d)
        BY <2>1, TurnFacts, <1>1, <1>3
           DEF CupGrantedNow, Confirms, CupOccupied, EntryTaken, CupEnters
      <4> QED BY <2>7, <4>1, OnlyConfirmationsGrant
    <3>2. PICK e \in edges : Backs(e, i)
      BY <3>1 DEF RInv, GrantsOK
    <3>3. decisions'[i] = decisions[i] /\ decisions[e.id] # Absent
      BY <1>1, <3>1, <3>2 DEF CupGranted, Granted, Backs
    <3>4. e.id # o.id
      BY <1>3, <3>3
    <3> QED BY <3>2, <3>3, <3>4 DEF Backs
  <2>8. o \in edges' /\ cupEntry' = [edge |-> o, ball |-> b, hole |-> current]
    BY <1>1, <2>1, <2>2
  <2> QED BY <2>1, <2>2, <2>4, <2>5, <2>6, <2>7, <2>8 DEF CandidateOK
<1>4. CASE UNCHANGED cupEntry /\ \A i \in ObservationIds : CupGranted(i)' => CupGranted(i)
  BY <1>1, <1>4, CandidateStays
<1>5. CASE decisions[o.id] # Absent
  <2>1. \A i \in ObservationIds : CupGranted(i)' => CupGranted(i)
    BY <1>5, OnlyConfirmationsGrant
  <2> QED BY <1>4, <1>5, <2>1 DEF Delivered
<1>6. CASE decisions[o.id] = Absent /\ (NothingGranted(d) \/ TeeGranted(o, d))
  <2>1. CASE cupEntry' = cupEntry
    <3>1. ~CupGrantedNow(o, d) \/ cupEntry' = Absent
      BY DEF CupGrantedNow
    <3> QED BY <1>2, <1>4, <2>1, <3>1, OnlyConfirmationsGrant
  <2> QED BY <1>2, <1>6, <2>1 DEF NothingGranted, TeeGranted
<1>7. CASE decisions[o.id] = Absent /\ CupGrantedNow(o, d)
  BY <1>2, <1>7 DEF CupGrantedNow
<1> QED BY <1>3, <1>5, <1>6, <1>7 DEF Delivered, Decided

(* A confirmation is backed by the candidate's edge, which backs no other. *)
LEMMA DeliveryKeepsGrants ==
    ASSUME RInv, NEW o \in edges, NEW d, Delivered(o, d)
    PROVE  GrantsOK'
<1>1. /\ IInv /\ WorldOK /\ CandidateOK /\ GrantsOK /\ edges' = edges /\ o.id \in ObservationIds
      /\ \A i \in ObservationIds : decisions[i] # Absent => decisions'[i] = decisions[i]
      /\ decisions'[o.id] = d
      /\ \A e \in edges : e.id \in ObservationIds
  BY DeliveryTypes DEF RInv, Delivered, world, WorldOK, Observation
<1>2. ASSUME NEW i \in ObservationIds, CupGranted(i)
      PROVE  decisions'[i] = decisions[i] /\ \E e \in edges : Backs(e, i) /\ Backs(e, i)'
  <2>1. decisions'[i] = decisions[i]
    BY <1>1, <1>2 DEF CupGranted, Granted
  <2>2. PICK e \in edges : Backs(e, i)
    BY <1>1, <1>2 DEF GrantsOK
  <2>3. decisions'[e.id] = decisions[e.id]
    BY <1>1, <2>2 DEF Backs
  <2> QED BY <1>1, <2>1, <2>2, <2>3, BackingStays
<1>3. CASE \A i \in ObservationIds : CupGranted(i)' => CupGranted(i)
  <2>1. \A i \in ObservationIds : CupGranted(i)' => \E e \in edges' : Backs(e, i)'
    BY <1>1, <1>2, <1>3
  <2>2. \A i, j \in ObservationIds :
          CupGranted(i)' /\ CupGranted(j)'
          /\ decisions'[i].evidence.id[2] = decisions'[j].evidence.id[2] => i = j
    BY <1>1, <1>2, <1>3 DEF GrantsOK
  <2> QED BY <2>1, <2>2 DEF GrantsOK
<1>4. CASE decisions[o.id] = Absent /\ CupGrantedNow(o, d)
  <2>1. PICK e \in edges, p \in Players, h \in Holes :
            /\ cupEntry = [edge |-> e, ball |-> p, hole |-> h]
            /\ e.hole = h
            /\ decisions[e.id] # Absent
            /\ \A i \in ObservationIds :
                  CupGranted(i) => decisions[i].evidence.id # <<"cup", e.id, i>>
    BY <1>1, <1>4 DEF CandidateOK, CupGrantedNow, Confirms
  <2>2. /\ d.evidence.id = <<"cup", e.id, o.id>>
        /\ o.hole = h /\ e.sensor # o.sensor /\ o.received - e.received \in 0 .. CupWindow
        /\ e.device = o.device => e.boot = o.boot
    <3>1. Turn.hole = current
      BY <1>1, TurnFacts
    <3> QED BY <1>4, <2>1, <3>1 DEF CupGrantedNow, Confirms, CupEvidence
  <2>3. Backs(e, o.id)'
    BY <1>1, <2>1, <2>2 DEF Backs
  <2>4. ASSUME NEW i \in ObservationIds, CupGranted(i)', i # o.id
        PROVE  CupGranted(i) /\ decisions'[i].evidence.id[2] # e.id
    <3>1. CupGranted(i)
      BY <2>4, OnlyConfirmationsGrant
    <3>2. PICK f \in edges : Backs(f, i)
      BY <1>1, <3>1 DEF GrantsOK
    <3>3. decisions'[i] = decisions[i] /\ decisions[i].evidence.id = <<"cup", f.id, i>>
      BY <1>2, <3>1, <3>2 DEF Backs
    <3>4. f.id # e.id
      BY <2>1, <3>1, <3>3
    <3> QED BY <3>1, <3>3, <3>4
  <2>5. \A i \in ObservationIds : CupGranted(i)' => \E f \in edges' : Backs(f, i)'
    BY <1>1, <1>2, <2>3, <2>4
  <2>6. \A i, j \in ObservationIds :
          CupGranted(i)' /\ CupGranted(j)'
          /\ decisions'[i].evidence.id[2] = decisions'[j].evidence.id[2] => i = j
    <3>1. decisions'[o.id].evidence.id[2] = e.id
      BY <1>1, <2>2
    <3> QED BY <1>1, <1>2, <2>4, <3>1 DEF GrantsOK
  <2> QED BY <2>5, <2>6 DEF GrantsOK
<1> QED BY <1>3, <1>4, OnlyConfirmationsGrant

(* The engine refuses only a tee for a player who is done: a hole-out is   *)
(* granted in the middle of its player's turn.                             *)
LEMMA DeliveryKeepsRefusals ==
    ASSUME RInv, NEW o \in edges, NEW d, Delivered(o, d)
    PROVE  RefusedForGood'
<1>1. /\ IInv /\ PolicyTypeOK /\ RefusedForGood /\ o.id \in ObservationIds /\ [Next]_vars
      /\ decisions'[o.id] = d
      /\ \A i \in ObservationIds : decisions[i] # Absent => decisions'[i] = decisions[i]
      /\ \A i \in ObservationIds : i # o.id => decisions'[i] = decisions[i]
  BY DeliveryTypes, DeliverIsGameStep DEF RInv
<1> SUFFICES ASSUME NEW i \in ObservationIds, Granted(i)', decisions'[i].evidence.id \notin seen'
             PROVE  /\ decisions'[i].evidence.type = "tee.presented"
                    /\ \/ sessionStatus' = "complete"
                       \/ play'[decisions'[i].evidence.hole][decisions'[i].evidence.ball].status
                            = "complete"
  BY DEF RefusedForGood
<1>2. CASE i # o.id \/ decisions[o.id] # Absent
  <2>1. decisions'[i] = decisions[i] /\ Granted(i)
    BY <1>1, <1>2 DEF Granted
  <2> QED BY <1>1, <2>1, RefusalStays
<1>3. CASE i = o.id /\ decisions[o.id] = Absent
  <2>1. decisions'[i] = d /\ d.evidence # Absent
    BY <1>1, <1>3 DEF Granted
  <2>2. ~(d.evidence \in Evidence /\ Applied(d.evidence))
    BY <1>1, <2>1, AppliedEffect
  <2>3. d.evidence \in Evidence /\ Refused(d.evidence) /\ UNCHANGED game
    BY <2>1, <2>2 DEF Delivered
  <2>4. Decided(o, d) /\ ~NothingGranted(d) /\ ~EntryTaken(o, d)
    BY <1>3, <2>1 DEF Delivered, NothingGranted, EntryTaken
  <2>5. CASE TeeGranted(o, d)
    <3>1. /\ d.evidence.type = "tee.presented" /\ d.evidence.hole = current
          /\ d.evidence.ball = o.ball
      BY <2>5 DEF TeeGranted, TeeEvidence
    <3>2. active[current] = NoPlayer
      BY <1>1, <2>5, TurnFacts DEF TeeGranted, TeeAccepts
    <3>3. sessionStatus = "complete" \/ play[current][o.ball].status = "complete"
      BY <2>3, <3>1, <3>2 DEF Refused
    <3> QED BY <2>1, <2>3, <3>1, <3>3 DEF game
  <2>6. CASE CupGrantedNow(o, d)
    <3>1. /\ d.evidence.type = "cup.confirmed" /\ d.evidence.hole = current
          /\ d.evidence.ball = Turn.ball /\ Turn.ball # NoBall /\ Turn.state = "playing"
      BY <2>6 DEF CupGrantedNow, CupEvidence, Confirms, CupOccupied, CupForTurn
    <3>2. /\ Turn.ball \in Players /\ active[current] = Turn.ball /\ current \in Holes
          /\ play[current][Turn.ball].status = "playing"
      BY <1>1, <3>1, TurnFacts
    <3>3. sessionStatus # "complete"
      BY <1>1, <3>2 DEF IInv, HolesInOrder
    <3> QED BY <2>3, <3>1, <3>2, <3>3 DEF Refused
  <2> QED BY <2>4, <2>5, <2>6 DEF Decided
<1> QED BY <1>2, <1>3

(* A processed event that is not audited costs a failed append.            *)
LEMMA UnauditedCounted ==
    ASSUME RecordsOK, NEW id, seen \subseteq seen', seen' \subseteq seen \cup {id}, id \in seen',
           \/ auditedEvents' = auditedEvents \cup {id} /\ failures' \in {failures, failures + 1}
           \/ auditedEvents' = auditedEvents /\ failures' = failures + 1
    PROVE  /\ auditedEvents' \subseteq seen' /\ IsFiniteSet(seen') /\ failures' \in Nat
           /\ Cardinality(seen' \ auditedEvents') <= failures'
<1> DEFINE S == seen \ auditedEvents
           T == seen' \ auditedEvents'
<1>1. IsFiniteSet(seen \cup {id})
  BY FS_AddElement DEF RecordsOK
<1>2. IsFiniteSet(seen') /\ IsFiniteSet(S)
  BY <1>1, FS_Subset DEF RecordsOK
<1>3. Cardinality(S) <= failures /\ Cardinality(S) \in Nat /\ failures \in Nat
  BY <1>2, FS_CardinalityType DEF RecordsOK
<1>4. CASE auditedEvents' = auditedEvents \cup {id} /\ failures' \in {failures, failures + 1}
  <2>1. T \subseteq S
    BY <1>4
  <2>2. Cardinality(T) <= Cardinality(S) /\ Cardinality(T) \in Nat
    BY <1>2, <2>1, FS_Subset, FS_CardinalityType
  <2>3. auditedEvents' \subseteq seen'
    BY <1>4 DEF RecordsOK
  <2> HIDE DEF S, T
  <2>4. failures' \in Nat /\ Cardinality(T) <= failures'
    BY <1>3, <1>4, <2>2
  <2> QED BY <1>2, <2>3, <2>4 DEF T
<1>5. CASE auditedEvents' = auditedEvents /\ failures' = failures + 1
  <2>1. T \subseteq S \cup {id}
    BY <1>5
  <2>2. /\ IsFiniteSet(S \cup {id})
        /\ Cardinality(S \cup {id}) \in {Cardinality(S), Cardinality(S) + 1}
    BY <1>2, FS_AddElement
  <2>3. Cardinality(T) <= Cardinality(S \cup {id}) /\ Cardinality(T) \in Nat
    BY <2>1, <2>2, FS_Subset, FS_CardinalityType
  <2>4. auditedEvents' \subseteq seen'
    BY <1>5 DEF RecordsOK
  <2> HIDE DEF S, T
  <2>5. failures' \in Nat /\ Cardinality(T) <= failures'
    BY <1>3, <1>5, <2>2, <2>3
  <2> QED BY <1>2, <2>4, <2>5 DEF T
<1> QED BY <1>4, <1>5

(* An observation is answered, and audited as decided, only after what it  *)
(* grants has been processed and audited.                                  *)
LEMMA DeliveryKeepsRecords ==
    ASSUME RInv, NEW o \in edges, NEW d, Delivered(o, d)
    PROVE  RecordsOK'
<1>1. /\ IInv /\ PolicyTypeOK /\ RecordsOK /\ o.id \in ObservationIds /\ d # Absent
      /\ decisions'[o.id] = d
      /\ \A i \in ObservationIds : decisions[i] # Absent => decisions'[i] = decisions[i]
  BY DeliveryTypes DEF RInv
<1>2. /\ failures \in Nat /\ auditedEvents \subseteq seen /\ IsFiniteSet(seen)
      /\ Cardinality(seen \ auditedEvents) <= failures /\ auditedDecisions \subseteq ObservationIds
      /\ Cardinality(seen \ auditedEvents) \in Nat
  <2>1. IsFiniteSet(seen \ auditedEvents)
    BY <1>1, FS_Subset DEF RecordsOK
  <2> QED BY <1>1, <2>1, FS_CardinalityType DEF RecordsOK
<1>3. /\ auditedEvents' \subseteq seen' /\ IsFiniteSet(seen') /\ failures' \in Nat
      /\ Cardinality(seen' \ auditedEvents') <= failures'
  <2>1. CASE d.evidence \in Evidence /\ Applied(d.evidence)
             /\ \/ auditedEvents' = auditedEvents \cup {d.evidence.id}
                   /\ failures' \in {failures, failures + 1}
                \/ auditedEvents' = auditedEvents /\ failures' = failures + 1
    <3>1. seen \subseteq seen'
      BY <1>1, DeliverIsGameStep, OnlyForward
    <3>2. d.evidence.id \in seen' /\ seen' \subseteq seen \cup {d.evidence.id}
      BY <1>1, <2>1, AppliedEffect
    <3> QED BY <1>1, <2>1, <3>1, <3>2, UnauditedCounted
  <2>2. CASE UNCHANGED <<game, auditedEvents>> /\ failures' \in {failures, failures + 1}
    BY <1>2, <2>2 DEF game
  <2> QED BY <2>1, <2>2 DEF Delivered, Answered, audit
<1>4. auditedEvents \subseteq auditedEvents'
  BY DEF Delivered, audit
<1>5. \/ /\ answered' = [answered EXCEPT ![o.id] = d]
         /\ auditedDecisions' \subseteq auditedDecisions \cup {o.id}
         /\ d.evidence # Absent => d.evidence.id \in auditedEvents'
      \/ answered' = answered /\ auditedDecisions' = auditedDecisions
  BY <1>1 DEF Delivered, Answered, audit
<1>6. auditedDecisions' \subseteq ObservationIds
  BY <1>1, <1>2, <1>5
<1>7. \A i \in ObservationIds : answered'[i] # Absent => answered'[i] = decisions'[i]
  <2>1. ASSUME NEW i \in ObservationIds, answered'[i] # Absent
        PROVE  answered'[i] = decisions'[i]
    <3>1. CASE answered'[i] = answered[i]
      BY <1>1, <2>1, <3>1 DEF RecordsOK
    <3>2. CASE i = o.id /\ answered'[i] = d
      BY <1>1, <3>2
    <3> QED BY <1>1, <1>5, <3>1, <3>2 DEF PolicyTypeOK
  <2> QED BY <2>1
<1>8. ASSUME NEW i \in ObservationIds, answered'[i] # Absent \/ i \in auditedDecisions'
      PROVE  decisions'[i] # Absent /\ (Granted(i)' => decisions'[i].evidence.id \in auditedEvents')
  <2>1. CASE answered[i] # Absent \/ i \in auditedDecisions
    <3>1. decisions[i] # Absent /\ (Granted(i) => decisions[i].evidence.id \in auditedEvents)
      BY <1>1, <2>1 DEF RecordsOK
    <3>2. decisions'[i] = decisions[i]
      BY <1>1, <3>1
    <3> QED BY <1>4, <3>1, <3>2 DEF Granted
  <2>2. CASE i = o.id /\ (d.evidence # Absent => d.evidence.id \in auditedEvents')
    BY <1>1, <2>2 DEF Granted
  <2>3. \/ answered[i] # Absent \/ i \in auditedDecisions
        \/ i = o.id /\ (d.evidence # Absent => d.evidence.id \in auditedEvents')
    BY <1>1, <1>5, <1>8 DEF PolicyTypeOK
  <2> QED BY <2>1, <2>2, <2>3
<1> QED BY <1>3, <1>6, <1>7, <1>8 DEF RecordsOK

-----------------------------------------------------------------------------
(* The other steps.                                                        *)

(* An observation comes with the next number, no earlier than the last and *)
(* with the next number of its node.                                       *)
LEMMA EmissionKeepsWorld ==
    ASSUME WorldOK, NEW e \in Edges, NEW t \in Times, Emit(e, t) \/ EmitAfterReboot(e, t)
    PROVE  WorldOK' /\ edges \subseteq edges'
<1> DEFINE dev == e.device
           n == Cardinality(edges) + 1
<1>1. e \in Sensed /\ dev \in Devices
  BY EdgesAssumption DEF Sensed
<1>2. /\ node[dev] \in [boot : Nat, seq : Nat] /\ IsFiniteSet(edges) /\ Cardinality(edges) \in Nat
      /\ clock \in Nat /\ t \in Nat
  BY <1>1, FS_CardinalityType, TimesAssumption DEF WorldOK
<1>3. PICK newBoot \in Nat, newSeq \in Nat :
            /\ Emitted(e, t, newBoot, newSeq)
            /\ \/ newBoot > node[dev].boot
               \/ newBoot = node[dev].boot /\ newSeq > node[dev].seq
  <2>1. CASE Emit(e, t)
    <3>1. node[dev].boot \in Nat /\ node[dev].seq + 1 \in Nat /\ node[dev].seq + 1 > node[dev].seq
      BY <1>2
    <3> QED BY <2>1, <3>1 DEF Emit
  <2>2. CASE EmitAfterReboot(e, t)
    <3>1. node[dev].boot + 1 \in Nat /\ node[dev].boot + 1 > node[dev].boot /\ 1 \in Nat
      BY <1>2
    <3> QED BY <2>2, <3>1 DEF EmitAfterReboot
  <2> QED BY <2>1, <2>2
<1> DEFINE o == [id |-> n, device |-> dev, boot |-> newBoot, seq |-> newSeq,
                 kind |-> e.kind, transition |-> e.transition, sensor |-> e.sensor,
                 ball |-> e.ball, hole |-> e.hole, sound |-> e.sound, received |-> t]
<1>4. /\ n \in ObservationIds /\ t >= clock /\ clock' = t
      /\ node' = [node EXCEPT ![dev] = [boot |-> newBoot, seq |-> newSeq]]
      /\ edges' = edges \cup {o}
  BY <1>3 DEF Emitted
<1>5. o \in Observation
  BY <1>1, <1>2, <1>3, <1>4 DEF Observation, Sensed
<1>6. o.id = n /\ o.device = dev /\ o.boot = newBoot /\ o.seq = newSeq /\ o.received = t
  OBVIOUS
<1> HIDE DEF o
<1>7. \A a \in edges : /\ a \in Observation /\ a.id \in Nat /\ a.received \in Nat
                       /\ a.boot \in Nat /\ a.seq \in Nat /\ a.device \in Devices
  BY TimesAssumption DEF WorldOK, Observation
<1>8. o \notin edges
  BY <1>2, <1>6 DEF WorldOK
<1>9. IsFiniteSet(edges') /\ Cardinality(edges') = n
  BY <1>2, <1>4, <1>8, FS_AddElement
<1>10. /\ node' \in [Devices -> [boot : Nat, seq : Nat]]
       /\ node'[dev] = [boot |-> newBoot, seq |-> newSeq]
       /\ \A d \in Devices : d # dev => node'[d] = node[d]
  BY <1>1, <1>3, <1>4 DEF WorldOK
<1>11. /\ node'[dev].boot = newBoot /\ node'[dev].seq = newSeq
       /\ node[dev].boot \in Nat /\ node[dev].seq \in Nat
  BY <1>2, <1>10
<1>12. ASSUME NEW a \in edges
       PROVE  /\ a.id <= Cardinality(edges') /\ a.received <= clock'
              /\ \/ a.boot < node'[a.device].boot
                 \/ a.boot = node'[a.device].boot /\ a.seq <= node'[a.device].seq
  <2>1. a.id <= Cardinality(edges) /\ a.received <= clock
    BY DEF WorldOK
  <2>2. a.id <= Cardinality(edges') /\ a.received <= clock'
    BY <1>2, <1>4, <1>7, <1>9, <2>1
  <2>3. \/ a.boot < node[a.device].boot
        \/ a.boot = node[a.device].boot /\ a.seq <= node[a.device].seq
    BY DEF WorldOK
  <2>4. CASE a.device # dev
    BY <1>7, <1>10, <2>2, <2>3, <2>4
  <2>5. CASE a.device = dev
    <3>1. \/ a.boot < newBoot
          \/ a.boot = newBoot /\ a.seq <= newSeq
      BY <1>3, <1>7, <1>11, <2>3, <2>5
    <3> QED BY <1>11, <2>2, <2>5, <3>1
  <2> QED BY <2>4, <2>5
<1>13. /\ o.id <= Cardinality(edges') /\ o.received <= clock'
       /\ o.boot = node'[o.device].boot /\ o.seq <= node'[o.device].seq
  BY <1>2, <1>3, <1>4, <1>6, <1>9, <1>11
<1>14. ASSUME NEW a \in edges
       PROVE  /\ a.id # o.id /\ ~(o.received < a.received)
              /\ a.device = o.device /\ a.boot = o.boot => a.seq < o.seq
  <2>1. /\ a.id <= Cardinality(edges) /\ a.received <= clock
        /\ \/ a.boot < node[a.device].boot
           \/ a.boot = node[a.device].boot /\ a.seq <= node[a.device].seq
    BY DEF WorldOK
  <2>2. a.id # o.id /\ ~(o.received < a.received)
    BY <1>2, <1>4, <1>6, <1>7, <2>1
  <2>3. ASSUME a.device = o.device, a.boot = o.boot
        PROVE  a.seq < o.seq
    BY <1>3, <1>6, <1>7, <1>11, <2>1, <2>3
  <2> QED BY <2>2, <2>3
<1>15. \A a, b \in edges' :
          /\ a.id = b.id => a = b
          /\ a.device = b.device /\ a.boot = b.boot /\ a.received < b.received =>
                a.seq < b.seq
  <2>1. ~(o.received < o.received)
    BY <1>2, <1>6
  <2> QED BY <1>4, <1>14, <2>1 DEF WorldOK
<1>16. edges' \subseteq Observation /\ clock' \in Times
  BY <1>4, <1>5 DEF WorldOK
<1>17. \A a \in edges' :
          /\ a.id <= Cardinality(edges') /\ a.received <= clock'
          /\ \/ a.boot < node'[a.device].boot
             \/ a.boot = node'[a.device].boot /\ a.seq <= node'[a.device].seq
  BY <1>4, <1>12, <1>13
<1> QED BY <1>4, <1>9, <1>10, <1>15, <1>16, <1>17 DEF WorldOK

(* When the policy does nothing, its part stays true as the game moves on. *)
LEMMA PolicyIdle ==
    ASSUME RInv, [Next]_vars, edges \subseteq edges', UNCHANGED <<policy, answered>>
    PROVE  PolicyTypeOK' /\ CandidateOK' /\ GrantsOK' /\ RefusedForGood'
<1>1. /\ IInv /\ WorldOK /\ PolicyTypeOK /\ CandidateOK /\ GrantsOK /\ RefusedForGood
      /\ decisions' = decisions /\ cupEntry' = cupEntry /\ ordering' = ordering
      /\ answered' = answered
  BY DEF RInv, policy
<1>2. PolicyTypeOK'
  BY <1>1 DEF PolicyTypeOK
<1>3. CandidateOK'
  <2>1. \A i \in ObservationIds : CupGranted(i)' => CupGranted(i)
    BY <1>1 DEF CupGranted, Granted
  <2> QED BY <1>1, <2>1, CandidateStays
<1>4. GrantsOK'
  <2>1. \A i \in ObservationIds : CupGranted(i)' => CupGranted(i)
    BY <1>1 DEF CupGranted, Granted
  <2>2. \A i \in ObservationIds, e \in edges : Backs(e, i) => Backs(e, i)'
    BY <1>1, BackingStays
  <2> QED BY <1>1, <2>1, <2>2 DEF GrantsOK
<1>5. RefusedForGood'
  <2>1. \A i \in ObservationIds : Granted(i)' => Granted(i)
    BY <1>1 DEF Granted
  <2> QED BY <1>1, <2>1, RefusalStays DEF RefusedForGood
<1> QED BY <1>2, <1>3, <1>4, <1>5

(* Nothing has happened yet.                                               *)
LEMMA RuntimeInitRInv == ASSUME RuntimeInit PROVE RInv
<1>1. IInv
  BY InitIInv DEF RuntimeInit
<1>2. /\ edges = {} /\ node = [d \in Devices |-> [boot |-> 1, seq |-> 0]] /\ clock \in Times
      /\ ordering = [d \in Devices |-> Absent] /\ decisions = [i \in ObservationIds |-> Absent]
      /\ cupEntry = Absent /\ answered = [i \in ObservationIds |-> Absent]
      /\ auditedEvents = {} /\ auditedDecisions = {} /\ failures = 0 /\ seen = {}
  BY DEF RuntimeInit, PolicyInit, Init
<1>3. WorldOK
  BY <1>2, FS_EmptySet DEF WorldOK
<1>4. PolicyTypeOK
  BY <1>2 DEF PolicyTypeOK
<1>5. CandidateOK /\ GrantsOK /\ RefusedForGood
  BY <1>2 DEF CandidateOK, GrantsOK, RefusedForGood, CupGranted, Granted
<1>6. RecordsOK
  <2>1. seen \ auditedEvents = {}
    BY <1>2
  <2> QED BY <1>2, <2>1, FS_EmptySet DEF RecordsOK
<1> QED BY <1>1, <1>3, <1>4, <1>5, <1>6 DEF RInv

(* Every step of the runtime is one of the engine, or none of its business.*)
LEMMA RuntimeStepIsGameStep ==
    ASSUME RInv, [RuntimeNext]_runtimeVars
    PROVE  [Next]_vars
<1>1. CASE \E e \in Edges, t \in Times : Emit(e, t) \/ EmitAfterReboot(e, t)
  BY <1>1 DEF Emit, EmitAfterReboot, Emitted, game, vars
<1>2. ASSUME NEW o \in edges, Deliver(o)
      PROVE  [Next]_vars
  BY <1>2, DeliverEffect, DeliverIsGameStep DEF RInv
<1>3. ASSUME NEW n \in 1 .. MaxSimulated, NEW h \in Holes, NEW p \in Players, Simulate(n, h, p)
      PROVE  [Next]_vars
  BY <1>3, SimulateEffect
<1>4. CASE UNCHANGED runtimeVars
  BY <1>4 DEF runtimeVars, game, vars
<1> QED BY <1>1, <1>2, <1>3, <1>4 DEF RuntimeNext

(* Every step keeps the invariant.                                         *)
LEMMA RuntimeNextKeepsRInv ==
    ASSUME RInv, [RuntimeNext]_runtimeVars
    PROVE  RInv'
<1>0. IInv' /\ [Next]_vars
  BY RuntimeStepIsGameStep, NextKeepsIInv DEF RInv
<1>1. ASSUME NEW e \in Edges, NEW t \in Times, Emit(e, t) \/ EmitAfterReboot(e, t)
      PROVE  RInv'
  <2>1. UNCHANGED <<game, policy, answered, audit>>
    BY <1>1 DEF Emit, EmitAfterReboot, Emitted
  <2>2. WorldOK' /\ edges \subseteq edges'
    BY <1>1, EmissionKeepsWorld DEF RInv
  <2>3. PolicyTypeOK' /\ CandidateOK' /\ GrantsOK' /\ RefusedForGood'
    BY <1>0, <2>1, <2>2, PolicyIdle
  <2>4. RecordsOK'
    BY <2>1 DEF RInv, RecordsOK, Granted, game, policy, audit
  <2> QED BY <1>0, <2>2, <2>3, <2>4 DEF RInv
<1>2. ASSUME NEW o \in edges, Deliver(o)
      PROVE  RInv'
  <2>1. PICK d : Delivered(o, d)
    BY <1>2, DeliverEffect
  <2> QED BY <1>0, <2>1, DeliveryTypes, DeliveryKeepsCandidate, DeliveryKeepsGrants,
             DeliveryKeepsRefusals, DeliveryKeepsRecords DEF RInv
<1>3. ASSUME NEW n \in 1 .. MaxSimulated, NEW h \in Holes, NEW p \in Players, Simulate(n, h, p)
      PROVE  RInv'
  <2> DEFINE id == <<"sim", n>>
  <2>1. /\ id \in seen' /\ seen' \subseteq seen \cup {id}
        /\ UNCHANGED <<policy, world, answered, auditedDecisions>>
        /\ \/ auditedEvents' = auditedEvents \cup {id} /\ failures' = failures
           \/ auditedEvents' = auditedEvents /\ failures' = failures + 1
    BY <1>3, SimulateEffect
  <2>2. seen \subseteq seen'
    BY <1>0, OnlyForward DEF RInv
  <2> HIDE DEF id
  <2>3. WorldOK'
    BY <2>1 DEF RInv, WorldOK, world
  <2>4. PolicyTypeOK' /\ CandidateOK' /\ GrantsOK' /\ RefusedForGood'
    BY <1>0, <2>1, PolicyIdle DEF world
  <2>5. /\ auditedEvents' \subseteq seen' /\ IsFiniteSet(seen') /\ failures' \in Nat
        /\ Cardinality(seen' \ auditedEvents') <= failures'
    BY <2>1, <2>2, UnauditedCounted DEF RInv
  <2>6. auditedEvents \subseteq auditedEvents'
    BY <2>1
  <2>7. RecordsOK'
    BY <2>1, <2>5, <2>6 DEF RInv, RecordsOK, Granted, policy
  <2> QED BY <1>0, <2>3, <2>4, <2>7 DEF RInv
<1>4. CASE UNCHANGED runtimeVars
  <2>1. UNCHANGED <<game, policy, world, answered, audit>>
    BY <1>4 DEF runtimeVars
  <2>2. WorldOK'
    BY <2>1 DEF RInv, WorldOK, world
  <2>3. PolicyTypeOK' /\ CandidateOK' /\ GrantsOK' /\ RefusedForGood'
    BY <1>0, <2>1, PolicyIdle DEF world
  <2>4. RecordsOK'
    BY <2>1 DEF RInv, RecordsOK, Granted, game, policy, audit
  <2> QED BY <1>0, <2>2, <2>3, <2>4 DEF RInv
<1> QED BY <1>1, <1>2, <1>3, <1>4 DEF RuntimeNext

(* Every reachable state of the runtime satisfies the invariant.           *)
THEOREM RuntimeInvariance == RuntimeSpec => []RInv
<1>1. RuntimeInit => RInv
  BY RuntimeInitRInv
<1>2. RInv /\ [RuntimeNext]_runtimeVars => RInv'
  BY RuntimeNextKeepsRInv
<1> QED BY <1>1, <1>2, PTL DEF RuntimeSpec

-----------------------------------------------------------------------------
(* The theorems.                                                           *)

(* The game inside the runtime is a game of the engine, whatever sensors,  *)
(* redeliveries, refusals and failing appends do around it: the runtime    *)
(* implements Gameplay's specification, and all that is proved of it holds *)
(* here.                                                                   *)
THEOREM RuntimePlaysByTheRules == RuntimeSpec => Spec
<1>1. RuntimeInit => Init
  BY DEF RuntimeInit
<1>2. RInv /\ [RuntimeNext]_runtimeVars => [Next]_vars
  BY RuntimeStepIsGameStep
<1> QED BY <1>1, <1>2, RuntimeInvariance, PTL DEF RuntimeSpec, Spec

(* The cup candidate waits for the ball of the turn it was seen in.        *)
THEOREM CandidateOfItsTurn == RuntimeSpec => []CandidateTurn
<1>1. RInv => CandidateTurn
  BY DEF RInv, CandidateOK, CandidateTurn
<1> QED BY <1>1, RuntimeInvariance, PTL

(* Who has an accepted answer, or reads the audit file, reads what the     *)
(* engine has done; and of that the file lacks only what an append lost.   *)
THEOREM RecordsTellTheGame == RuntimeSpec => []RecordsAgree
<1>1. RInv => RecordsAgree
  <2> SUFFICES ASSUME RInv PROVE RecordsAgree
    OBVIOUS
  <2>1. AcceptedIsOnRecord
    BY DEF RInv, RecordsOK, AcceptedIsOnRecord, Granted
  <2>2. AuditTracksGame
    BY DEF RInv, RecordsOK, AuditTracksGame
  <2> QED BY <2>1, <2>2 DEF RecordsAgree
<1> QED BY <1>1, RuntimeInvariance, PTL

(* Two independent edges for every hole-out, and no edge for two of them.  *)
THEOREM CupsAreBacked == RuntimeSpec => []CupBacking
<1>1. RInv => CupBacking
  <2> SUFFICES ASSUME RInv PROVE CupBacking
    OBVIOUS
  <2> DEFINE EntryOf(i) == decisions[i].evidence.id[2]
             cups == {i \in ObservationIds : CupGranted(i)}
             Backing(entry, presence, i) ==
                /\ entry.id = EntryOf(i) /\ presence.id = i
                /\ entry.hole = presence.hole
                /\ entry.sensor # presence.sensor
                /\ presence.received - entry.received \in 0 .. CupWindow
                /\ entry.device = presence.device =>
                      /\ entry.boot = presence.boot
                      /\ entry.seq < presence.seq \/ entry.received = presence.received
  <2>1. ASSUME NEW i \in cups
        PROVE  \E entry \in edges, presence \in edges : Backing(entry, presence, i)
    <3>1. PICK e \in edges : Backs(e, i)
      BY DEF RInv, GrantsOK
    <3>2. PICK q \in edges :
            /\ q.id = i
            /\ e.hole = q.hole /\ e.sensor # q.sensor
            /\ q.received - e.received \in 0 .. CupWindow
            /\ e.device = q.device => e.boot = q.boot
      BY <3>1 DEF Backs
    <3>3. e.id = EntryOf(i)
      BY <3>1 DEF Backs
    <3>4. e.received \in Nat /\ q.received \in Nat
      BY TimesAssumption DEF RInv, WorldOK, Observation
    <3>5. e.received <= q.received
      BY <3>2, <3>4, CupWindowAssumption
    <3>6. e.received = q.received \/ e.received < q.received
      BY <3>4, <3>5
    <3>7. e.device = q.device => e.seq < q.seq \/ e.received = q.received
      BY <3>2, <3>6 DEF RInv, WorldOK
    <3> QED BY <3>2, <3>3, <3>7
  <2>2. \A i, j \in cups : EntryOf(i) = EntryOf(j) => i = j
    BY DEF RInv, GrantsOK
  <2> QED BY <2>1, <2>2 DEF CupBacking, CupGranted
<1> QED BY <1>1, RuntimeInvariance, PTL

(* Whatever is delivered again, the game does not move: what was applied   *)
(* is seen, and what was refused is refused for good.                      *)
THEOREM RedeliveryIsHarmless == RuntimeSpec => RedeliveryNeverScores
<1> DEFINE Kept == \A o \in edges : decisions[o.id] # Absent /\ Deliver(o) => UNCHANGED game
<1>1. RInv /\ [RuntimeNext]_runtimeVars => Kept
  <2> SUFFICES ASSUME RInv, NEW o \in edges, decisions[o.id] # Absent, Deliver(o)
               PROVE  UNCHANGED game
    OBVIOUS
  <2>1. PICK d : Delivered(o, d)
    BY DeliverEffect
  <2>2. d = decisions[o.id] /\ o.id \in ObservationIds
    BY <2>1 DEF Delivered, RInv, WorldOK, Observation
  <2>3. CASE d.evidence \in Evidence /\ Applied(d.evidence)
    <3>1. CASE DuplicateIgnored(d.evidence.id)
      BY <3>1 DEF DuplicateIgnored, vars, game
    <3>2. CASE \/ /\ d.evidence.type = "tee.presented"
                  /\ \/ TeePresented(d.evidence.id, d.evidence.hole, d.evidence.ball)
                     \/ AlreadyArmed(d.evidence.id, d.evidence.hole, d.evidence.ball)
               \/ /\ d.evidence.type = "cup.confirmed"
                  /\ CupConfirmed(d.evidence.id, d.evidence.hole, d.evidence.ball, d.evidence.time)
      <4>1. /\ d.evidence.id \notin seen /\ sessionStatus # "complete"
        BY <3>2 DEF TeePresented, AlreadyArmed, CupConfirmed, Dispatched
      <4>2. CASE Granted(o.id)
        <5>1. /\ d.evidence.type = "tee.presented"
              /\ play[d.evidence.hole][d.evidence.ball].status = "complete"
          BY <2>2, <4>1, <4>2 DEF RInv, RefusedForGood
        <5>2. play[d.evidence.hole][d.evidence.ball].status # "complete"
          BY <3>2, <5>1 DEF TeePresented, AlreadyArmed
        <5> QED BY <5>1, <5>2
      <4>3. CASE ~Granted(o.id)
        <5>1. d.evidence = Absent
          BY <2>2, <4>3 DEF Granted
        <5> QED BY <2>3, <5>1, AbsentAssumption
      <4> QED BY <4>2, <4>3
    <3> QED BY <2>3, <3>1, <3>2 DEF Applied
  <2>4. CASE UNCHANGED game
    BY <2>4
  <2> QED BY <2>1, <2>3, <2>4 DEF Delivered
<1>2. RedeliveryNeverScores <=> [][Kept]_runtimeVars
  BY DEF RedeliveryNeverScores
<1> HIDE DEF Kept
<1> QED BY <1>1, <1>2, RuntimeInvariance, PTL DEF RuntimeSpec

-----------------------------------------------------------------------------
(***************************************************************************)
(* The recorders and their replays.                                        *)
(***************************************************************************)

(* What the file and its ghosts hold.                                      *)
RangeRecords ==
    [type : {"range_observation"}, boot : Nat, seq : Nat, line : Nat,
     fields : SUBSET Identity]

Records == Events \cup RangeRecords

Lines == [recs : Seq(Records), cut : BOOLEAN, ended : BOOLEAN]

Whole(e) == ~e.cut /\ e.ended

Counts == [local : Nat, captured : Nat, errors : Nat, mismatches : Nat,
           device : [Identity -> Nat]]

(* Where the tool is, and what it must have done before.                   *)
Before == {"start", "manifest", "sidecar"}
Settled == {"read", "flushed", "parse", "summary"}
Writable == Settled \cup {"open", "written"}

TypeInv ==
    /\ tool \in {"capture_cs", "events"} /\ fsync \in BOOLEAN /\ power \in BOOLEAN
    /\ raw \in Nat /\ rawSynced \in Nat /\ rawSynced <= raw
    /\ boot \in Nat /\ next \in Nat /\ lost \in Nat
    /\ line \in [form : Forms, fields : SUBSET Identity, boot : Nat, seq : Nat]
    /\ count \in Counts
    /\ file \in Seq(Lines) /\ fileSynced \in Nat /\ fileSynced <= Len(file)
    /\ appended \in Seq(Records)

(* Nothing is appended before the manifest verifies.                       *)
SealInv ==
    /\ pc \in Before => file = <<>> /\ appended = <<>> /\ count = Counters
    /\ pc = "sidecar" => manifest = "whole"
    /\ pc \in Writable => ManifestLoads
    /\ file # <<>> => ManifestLoads

(* A capture of ranges: one line for each record handed to append, whole   *)
(* but for the last, and no record without its serial line in the log.     *)
FileInv ==
    /\ Len(file) <= Len(appended)
    /\ \A i \in 1 .. Len(file) :
          /\ file[i].recs = <<appended[i]>>
          /\ file[i].cut => ~file[i].ended
          /\ i < Len(file) \/ i <= fileSynced => Whole(file[i])

CountInv ==
    /\ count.captured <= Len(appended)
    /\ power => /\ count.captured <= Len(file)
                /\ \A i \in 1 .. Len(file) : i <= count.captured => Whole(file[i])
    /\ fsync => count.captured <= fileSynced
    /\ pc \in Before \cup Settled \cup {"written"} =>
          /\ power
          /\ \A i \in 1 .. Len(file) : Whole(file[i])
          /\ Len(appended) = Len(file)
    /\ pc \in Settled => Len(file) = count.captured
    /\ pc = "written" => Len(file) = count.captured + 1

LineInv ==
    /\ pc = "parse" /\ fsync => rawSynced = raw
    /\ \A k \in 1 .. Len(appended) :
          /\ appended[k].line \in Nat
          /\ power => appended[k].line <= raw
          /\ fsync => appended[k].line <= rawSynced

CaptureInv ==
    /\ pc = "open" => tool = "events"
    /\ tool = "capture_cs" => reader = "idle" /\ FileInv /\ CountInv /\ LineInv

RecInv == TypeInv /\ SealInv /\ CaptureInv

(* The range records of a line are records.                                *)
LEMMA RangeRecordTyped ==
    ASSUME TypeInv
    PROVE  RangeRecord(line) \in Records /\ RangeRecord(line).line = raw
<1>1. /\ (IF "boot" \in line.fields THEN line.boot ELSE Fallback) \in Nat
      /\ (IF "sequence" \in line.fields THEN line.seq ELSE count.local + 1) \in Nat
      /\ line.fields \in SUBSET Identity /\ raw \in Nat
  BY DEF TypeInv, Counts, Fallback
<1> QED BY <1>1 DEF RangeRecord, Records, RangeRecords

(* A new run is an empty directory.                                        *)
LEMMA InitRecInv == RecordingInit => RecInv
<1> SUFFICES ASSUME RecordingInit PROVE RecInv
  OBVIOUS
<1>1. /\ file = <<>> /\ appended = <<>> /\ count = Counters /\ pc = "start" /\ reader = "idle"
      /\ raw = 0 /\ rawSynced = 0 /\ fileSynced = 0 /\ boot = 1 /\ next = 1 /\ lost = 0
      /\ line = NoLine /\ power = TRUE /\ fsync \in BOOLEAN /\ tool \in {"capture_cs", "events"}
  BY DEF RecordingInit, ReplayInit
<1>2. TypeInv
  <2>1. NoLine \in [form : Forms, fields : SUBSET Identity, boot : Nat, seq : Nat]
    BY DEF NoLine, Forms
  <2>2. Counters \in Counts
    BY DEF Counters, Counts
  <2>3. <<>> \in Seq(Lines) /\ Len(<<>>) = 0 /\ <<>> \in Seq(Records)
    OBVIOUS
  <2> QED BY <1>1, <2>1, <2>2, <2>3 DEF TypeInv
<1>3. SealInv
  BY <1>1 DEF SealInv, Writable, Settled
<1>4. CaptureInv
  BY <1>1 DEF CaptureInv, FileInv, CountInv, LineInv, Counters, Settled, Before
<1> QED BY <1>2, <1>3, <1>4 DEF RecInv

(* Steps that touch neither the files nor their ghosts nor the counters.   *)
LEMMA DeviceKeeps ==
    ASSUME RecInv, Reboot \/ DropLine
    PROVE  RecInv'
<1>1. UNCHANGED <<setting, pc, line, sealed, log, disk, count, summary, power, ghosts, replay>>
  BY DEF Reboot, DropLine, DeviceMoves
<1>2. boot' \in Nat /\ next' \in Nat /\ lost' \in Nat
  <2>1. boot \in Nat /\ next \in Nat /\ lost \in Nat
    BY DEF RecInv, TypeInv
  <2> QED BY <2>1 DEF Reboot, DropLine
<1>3. TypeInv'
  BY <1>1, <1>2 DEF RecInv, TypeInv, setting, log, disk, ghosts
<1>4. SealInv'
  BY <1>1 DEF RecInv, SealInv, ManifestLoads, sealed, disk, ghosts
<1>5. CaptureInv'
  BY <1>1 DEF RecInv, CaptureInv, FileInv, CountInv, LineInv, setting, log, disk, ghosts, replay
<1> QED BY <1>3, <1>4, <1>5 DEF RecInv

(* The manifest is sealed before anything is appended.                     *)
LEMMA SealingKeeps ==
    ASSUME RecInv, CreateManifest \/ WriteManifest \/ WriteSidecar
    PROVE  RecInv'
<1>1. UNCHANGED <<setting, device, line, log, disk, count, summary, power, ghosts, replay>>
  BY DEF CreateManifest, WriteManifest, WriteSidecar, Sealing
<1>2. pc \in Before
  BY DEF CreateManifest, WriteManifest, WriteSidecar, Before
<1>3. file = <<>> /\ appended = <<>> /\ count = Counters
  BY <1>2 DEF RecInv, SealInv
<1>4. TypeInv'
  BY <1>1 DEF RecInv, TypeInv, setting, log, disk, ghosts, device
<1>5. SealInv'
  <2>1. file' = <<>> /\ appended' = <<>> /\ count' = Counters
    BY <1>1, <1>3 DEF disk, ghosts
  <2>2. (pc' = "sidecar" => manifest' = "whole") /\ (pc' \in Writable => ManifestLoads')
    BY DEF CreateManifest, WriteManifest, WriteSidecar, Writable, Settled, ManifestLoads,
           RecInv, SealInv
  <2> QED BY <2>1, <2>2 DEF SealInv
<1>6. CaptureInv'
  <2>1. pc' \in {"manifest", "sidecar", "read"} \/ (pc' = "open" /\ tool = "events")
    BY DEF CreateManifest, WriteManifest, WriteSidecar
  <2>2. file' = <<>> /\ appended' = <<>> /\ count' = Counters /\ Len(<<>>) = 0
    BY <1>1, <1>3 DEF disk, ghosts
  <2>3. /\ UNCHANGED <<tool, fsync, power, reader, fileSynced>>
        /\ fileSynced = 0 /\ (tool = "capture_cs" => power /\ reader = "idle")
    <3>1. UNCHANGED <<tool, fsync, power, reader, fileSynced>>
      BY <1>1 DEF setting, disk, replay
    <3>2. fileSynced = 0
      BY <1>3 DEF RecInv, TypeInv
    <3>3. tool = "capture_cs" => power /\ reader = "idle"
      BY <1>2 DEF RecInv, CaptureInv, CountInv
    <3> QED BY <3>1, <3>2, <3>3
  <2>4. FileInv' /\ LineInv'
    BY <2>1, <2>2 DEF FileInv, LineInv
  <2>5. tool = "capture_cs" => CountInv'
    <3>1. count'.captured = 0
      BY <2>2 DEF Counters
    <3> QED BY <2>1, <2>2, <2>3, <3>1 DEF CountInv, Settled
  <2> QED BY <2>1, <2>3, <2>4, <2>5 DEF CaptureInv
<1> QED BY <1>4, <1>5, <1>6 DEF RecInv

(* Reading a line, and lines that give no record.                          *)
LEMMA ReadKeeps ==
    ASSUME RecInv, ReadLine
    PROVE  RecInv'
<1>1. /\ UNCHANGED <<tool, fsync, power, reader, file, fileSynced, appended, manifest, sidecar>>
      /\ UNCHANGED <<boot, lost, rawSynced, count>>
      /\ raw' = raw + 1 /\ pc = "read" /\ pc' = "flushed"
  BY DEF ReadLine, Unwritten, setting, sealed, disk, ghosts, replay
<1>2. line' \in [form : Forms, fields : SUBSET Identity, boot : Nat, seq : Nat] /\ next' \in Nat
  <2>1. boot \in Nat /\ next \in Nat
    BY DEF RecInv, TypeInv
  <2>2. PICK form \in Forms, fields \in FieldSets :
            /\ line' = [form |-> form, fields |-> IF form = "range" THEN fields ELSE {},
                        boot |-> boot, seq |-> next]
            /\ next' = IF form = "other" THEN next ELSE next + 1
    BY DEF ReadLine
  <2>3. fields \in SUBSET Identity
    BY RecordingAssumption
  <2> QED BY <2>1, <2>2, <2>3
<1>3. raw \in Nat /\ rawSynced \in Nat /\ rawSynced <= raw
  BY DEF RecInv, TypeInv
<1>4. TypeInv'
  BY <1>1, <1>2, <1>3 DEF RecInv, TypeInv
<1>5. SealInv'
  BY <1>1 DEF RecInv, SealInv, ManifestLoads, Writable, Settled, Before
<1>6. ASSUME tool = "capture_cs"
      PROVE  FileInv' /\ CountInv' /\ LineInv' /\ reader' = "idle"
  <2>1. FileInv /\ CountInv /\ LineInv /\ reader = "idle"
    BY <1>6 DEF RecInv, CaptureInv
  <2>2. FileInv'
    BY <1>1, <2>1 DEF FileInv
  <2>3. CountInv'
    BY <1>1, <2>1 DEF CountInv, Settled, Before
  <2>4. LineInv'
    <3>1. \A k \in 1 .. Len(appended) :
             /\ appended[k].line \in Nat
             /\ power => appended[k].line <= raw + 1
             /\ fsync => appended[k].line <= rawSynced
      BY <1>3, <2>1 DEF LineInv
    <3> QED BY <1>1, <3>1 DEF LineInv
  <2> QED BY <1>1, <2>1, <2>2, <2>3, <2>4
<1> QED BY <1>1, <1>4, <1>5, <1>6 DEF RecInv, CaptureInv

(* The raw log is synced before the line is parsed.                        *)
LEMMA SyncRawKeeps ==
    ASSUME RecInv, SyncRaw
    PROVE  RecInv'
<1>1. /\ UNCHANGED <<tool, fsync, power, reader, file, fileSynced, appended, manifest, sidecar>>
      /\ UNCHANGED <<boot, next, lost, line, raw, count>>
      /\ rawSynced' = (IF fsync THEN raw ELSE rawSynced) /\ pc = "flushed" /\ pc' = "parse"
  BY DEF SyncRaw, RawOnDisk, Unwritten, setting, sealed, disk, ghosts, replay, device
<1>2. raw \in Nat /\ rawSynced \in Nat /\ rawSynced <= raw
  BY DEF RecInv, TypeInv
<1>3. TypeInv'
  BY <1>1, <1>2 DEF RecInv, TypeInv
<1>4. SealInv'
  BY <1>1 DEF RecInv, SealInv, ManifestLoads, Writable, Settled, Before
<1>5. ASSUME tool = "capture_cs"
      PROVE  FileInv' /\ CountInv' /\ LineInv' /\ reader' = "idle"
  <2>1. FileInv /\ CountInv /\ LineInv /\ reader = "idle"
    BY <1>5 DEF RecInv, CaptureInv
  <2>2. FileInv'
    BY <1>1, <2>1 DEF FileInv
  <2>3. CountInv'
    BY <1>1, <2>1 DEF CountInv, Settled, Before
  <2>4. LineInv'
    <3>1. \A k \in 1 .. Len(appended) :
             /\ appended[k].line \in Nat
             /\ power => appended[k].line <= raw
             /\ fsync => appended[k].line <= rawSynced'
      BY <1>1, <1>2, <2>1 DEF LineInv
    <3> QED BY <1>1, <3>1 DEF LineInv
  <2> QED BY <1>1, <2>1, <2>2, <2>3, <2>4
<1> QED BY <1>1, <1>3, <1>4, <1>5 DEF RecInv, CaptureInv

(* A line without a record counts as an error or as another device's.      *)
LEMMA MoveCounts ==
    ASSUME RecInv, SkipLine \/ RejectRange \/ EndOfStream \/ Summarize \/ Kill
    PROVE  /\ count' \in Counts
           /\ count'.captured = count.captured /\ count'.device = count.device
           /\ pc \notin Settled => count' = count
<1>1. count \in Counts
  BY DEF RecInv, TypeInv
<1>2. CASE SkipLine
  <2> DEFINE e == IF line.form = "broken" THEN 1 ELSE 0
             m == IF line.form = "foreign" THEN 1 ELSE 0
             a == [count EXCEPT !.errors = @ + e]
  <2>1. e \in Nat /\ m \in Nat
    OBVIOUS
  <2>2. count' = [count EXCEPT !.errors = @ + e, !.mismatches = @ + m] /\ pc = "parse"
    BY <1>2 DEF SkipLine
  <2> HIDE DEF e, m
  <2>3. a \in Counts /\ a.captured = count.captured /\ a.device = count.device
        /\ a.mismatches = count.mismatches
    BY <1>1, <2>1 DEF Counts
  <2>4. count' = [a EXCEPT !.mismatches = @ + m]
    BY <1>1, <2>2, <2>3 DEF Counts
  <2> HIDE DEF a
  <2>5. [a EXCEPT !.mismatches = @ + m] \in Counts
        /\ [a EXCEPT !.mismatches = @ + m].captured = a.captured
        /\ [a EXCEPT !.mismatches = @ + m].device = a.device
    BY <2>1, <2>3 DEF Counts
  <2> QED BY <2>2, <2>3, <2>4, <2>5 DEF Settled
<1>3. CASE RejectRange \/ EndOfStream \/ Summarize \/ Kill
  BY <1>1, <1>3 DEF RejectRange, EndOfStream, Summarize, Kill
<1> QED BY <1>2, <1>3

(* Steps that only move the tool on, among them the end of it.             *)
LEMMA MoveKeeps ==
    ASSUME RecInv, SkipLine \/ RejectRange \/ EndOfStream \/ Summarize \/ Kill
    PROVE  RecInv'
<1>1. UNCHANGED <<tool, fsync, power, reader, file, fileSynced, appended, manifest, sidecar,
                  boot, next, lost, line, raw, rawSynced>>
  BY DEF SkipLine, RejectRange, EndOfStream, Summarize, Kill, Unwritten, setting, sealed, disk,
         ghosts, replay, device, log
<1>2. /\ count' \in Counts /\ count'.captured = count.captured
      /\ pc \notin Settled => count' = count
  BY MoveCounts
<1>3. \/ pc \in Settled /\ pc' \in {"read", "summary", "done", "aborted", "dead"}
      \/ pc' = "dead"
  BY DEF SkipLine, RejectRange, EndOfStream, Summarize, Kill, Settled
<1>4. TypeInv'
  BY <1>1, <1>2 DEF RecInv, TypeInv
<1>5. SealInv'
  <2>1. pc' \in Writable => pc \in Writable
    BY <1>3 DEF Writable, Settled
  <2>2. pc' \notin Before
    BY <1>3 DEF Before
  <2> QED BY <1>1, <2>1, <2>2 DEF RecInv, SealInv, ManifestLoads, Before
<1>6. ASSUME tool = "capture_cs"
      PROVE  FileInv' /\ CountInv' /\ LineInv' /\ reader' = "idle"
  <2>1. FileInv /\ CountInv /\ LineInv /\ reader = "idle"
    BY <1>6 DEF RecInv, CaptureInv
  <2>2. FileInv'
    BY <1>1, <2>1 DEF FileInv
  <2>3. pc' \in Settled => pc \in Settled
    BY <1>3 DEF Settled
  <2>4. pc' \notin Before /\ pc' # "written" /\ pc' # "parse"
    BY <1>3 DEF Before
  <2>5. CountInv'
    BY <1>1, <1>2, <2>1, <2>3, <2>4 DEF CountInv
  <2>6. LineInv'
    BY <1>1, <2>1, <2>4 DEF LineInv
  <2> QED BY <1>1, <2>1, <2>2, <2>5, <2>6
<1>7. pc' # "open"
  BY <1>3
<1> QED BY <1>1, <1>4, <1>5, <1>6, <1>7 DEF RecInv, CaptureInv

(* An append adds at most a line, and keeps the file a file.               *)
LEMMA AppendToTyped ==
    ASSUME NEW f \in Seq(Lines), NEW r \in Records, NEW cut \in BOOLEAN, NEW ended \in BOOLEAN
    PROVE  AppendTo(f, r, cut, ended) \in Seq(Lines) /\ Len(f) <= Len(AppendTo(f, r, cut, ended))
<1>1. CASE f # <<>> /\ ~Last(f).ended
  <2>1. Len(f) \in 1 .. Len(f)
    BY <1>1, EmptySeq, LenProperties
  <2>2. f[Len(f)] \in Lines
    BY <2>1, ElementOfSeq
  <2>3. f[Len(f)].recs \in Seq(Records) /\ f[Len(f)].cut \in BOOLEAN
    BY <2>2 DEF Lines
  <2>4. Append(f[Len(f)].recs, r) \in Seq(Records)
    BY <2>3, AppendProperties
  <2> DEFINE e == Entry(Append(f[Len(f)].recs, r), f[Len(f)].cut \/ cut, ended)
  <2>5. e \in Lines
    BY <2>3, <2>4 DEF Entry, Lines
  <2>6. AppendTo(f, r, cut, ended) = [f EXCEPT ![Len(f)] = e]
    BY <1>1, <2>1 DEF AppendTo
  <2> HIDE DEF e
  <2> QED BY <2>1, <2>5, <2>6, ExceptSeq
<1>2. CASE ~(f # <<>> /\ ~Last(f).ended)
  <2>1. Entry(<<r>>, cut, ended) \in Lines
    BY DEF Entry, Lines
  <2>2. AppendTo(f, r, cut, ended) = Append(f, Entry(<<r>>, cut, ended))
    BY <1>2 DEF AppendTo
  <2> QED BY <2>1, <2>2, AppendProperties
<1> QED BY <1>1, <1>2

(* An append to a file of whole lines starts a line.                       *)
LEMMA AppendToWhole ==
    ASSUME NEW f \in Seq(Lines), \A i \in 1 .. Len(f) : Whole(f[i]), NEW r, NEW cut, NEW ended
    PROVE  AppendTo(f, r, cut, ended) = Append(f, Entry(<<r>>, cut, ended))
<1>1. CASE f = <<>>
  BY <1>1 DEF AppendTo
<1>2. CASE f # <<>>
  <2>1. Len(f) \in 1 .. Len(f)
    BY <1>2, EmptySeq, LenProperties
  <2>2. Last(f).ended
    BY <2>1 DEF Last, Whole
  <2> QED BY <2>2 DEF AppendTo
<1> QED BY <1>1, <1>2

(* What an append of record r leaves of the file, whatever interrupts it.  *)
LEMMA WriteTyped ==
    ASSUME RecInv, NEW r \in Records, WriteRecord(r)
    PROVE  /\ TypeInv'
           /\ UNCHANGED <<tool, fsync, power, reader, manifest, sidecar, raw, rawSynced,
                          fileSynced, count>>
           /\ appended' = Append(appended, r)
<1>1. /\ UNCHANGED <<tool, fsync, power, reader, manifest, sidecar, raw, rawSynced,
                     fileSynced, boot, next, lost, line, count>>
      /\ appended' = Append(appended, r)
  BY DEF WriteRecord, setting, sealed, log, device, replay
<1>2. /\ file \in Seq(Lines) /\ fileSynced \in Nat /\ fileSynced <= Len(file)
      /\ appended \in Seq(Records)
  BY DEF RecInv, TypeInv
<1>3. file' = file \/ \E cut \in BOOLEAN, ended \in BOOLEAN : file' = AppendTo(file, r, cut, ended)
  BY DEF WriteRecord
<1>4. file' \in Seq(Lines) /\ Len(file) <= Len(file')
  BY <1>2, <1>3, AppendToTyped, LenProperties
<1>5. Len(file) \in Nat /\ Len(file') \in Nat
  BY <1>2, <1>4, LenProperties
<1>6. fileSynced' \in Nat /\ fileSynced' <= Len(file')
  BY <1>1, <1>2, <1>4, <1>5
<1>7. appended' \in Seq(Records)
  BY <1>1, <1>2, AppendProperties
<1>8. TypeInv'
  BY <1>1, <1>4, <1>6, <1>7 DEF RecInv, TypeInv
<1> QED BY <1>1, <1>8

(* A recorder of events appends once its manifest verifies.                *)
LEMMA AppendEventKeeps ==
    ASSUME RecInv, RecordEvent
    PROVE  RecInv'
<1>1. pc = "open" /\ tool = "events" /\ ManifestLoads
  BY DEF RecordEvent, RecInv, CaptureInv, SealInv, Writable
<1>2. PICK r \in Events : WriteRecord(r)
  BY DEF RecordEvent
<1>3. r \in Records
  BY DEF Records
<1>4. TypeInv' /\ UNCHANGED <<tool, manifest, sidecar>>
  BY <1>2, <1>3, WriteTyped
<1>5. pc' \in {"written", "open"}
  BY <1>1, <1>2 DEF WriteRecord, AfterShortWrite, AfterException
<1>6. SealInv'
  BY <1>1, <1>4, <1>5 DEF SealInv, ManifestLoads, Before
<1>7. CaptureInv'
  BY <1>1, <1>4 DEF CaptureInv
<1> QED BY <1>4, <1>6, <1>7 DEF RecInv

(* A range record is appended to a file of whole lines, and its serial     *)
(* line is in the raw log.                                                 *)
LEMMA AppendRecordKeeps ==
    ASSUME RecInv, AppendRecord
    PROVE  RecInv'
<1> DEFINE r == RangeRecord(line)
<1>1. pc = "parse" /\ WriteRecord(r)
  BY DEF AppendRecord
<1>2. r \in Records /\ r.line = raw
  BY RangeRecordTyped DEF RecInv
<1> HIDE DEF r
<1>3. /\ TypeInv'
      /\ UNCHANGED <<tool, fsync, power, reader, manifest, sidecar, raw, rawSynced,
                     fileSynced, count>>
      /\ appended' = Append(appended, r)
  BY <1>1, <1>2, WriteTyped
<1>4. pc' = "written" \/ (pc' \in {"open", "aborted"} /\ (pc' = "open" => tool = "events"))
  BY <1>1 DEF WriteRecord, AfterShortWrite, AfterException
<1>5. ManifestLoads
  BY <1>1 DEF RecInv, SealInv, Writable, Settled
<1>6. SealInv'
  BY <1>3, <1>4, <1>5 DEF SealInv, ManifestLoads, Before
<1>7. ASSUME tool = "capture_cs"
      PROVE  FileInv' /\ CountInv' /\ LineInv' /\ reader' = "idle"
  <2>1. FileInv /\ CountInv /\ LineInv /\ reader = "idle"
    BY <1>7 DEF RecInv, CaptureInv
  <2>2. /\ file \in Seq(Lines) /\ fileSynced \in Nat /\ fileSynced <= Len(file)
        /\ appended \in Seq(Records) /\ raw \in Nat
        /\ Len(file) \in Nat /\ Len(appended) \in Nat /\ count.captured \in Nat
    <3>1. count.captured \in Nat
      BY DEF RecInv, TypeInv, Counts
    <3> QED BY <3>1, LenProperties DEF RecInv, TypeInv
  <2>3. /\ power /\ Len(appended) = Len(file) /\ Len(file) = count.captured
        /\ \A i \in 1 .. Len(file) : Whole(file[i])
    BY <1>1, <2>1 DEF CountInv, Settled
  <2>4. /\ Len(appended') = Len(file) + 1 /\ appended'[Len(file) + 1] = r
        /\ \A i \in 1 .. Len(file) : appended'[i] = appended[i]
    BY <1>2, <1>3, <2>2, <2>3, AppendProperties
  <2>5. \A i \in 1 .. Len(file) : file[i].recs = <<appended'[i]>>
    BY <2>1, <2>4 DEF FileInv
  <2>6. \/ file' = Append(file, Entry(<<r>>, FALSE, TRUE)) /\ pc' = "written"
        \/ /\ pc' = "aborted"
           /\ file' = file \/ \E cut \in BOOLEAN : file' = Append(file, Entry(<<r>>, cut, FALSE))
    <3>1. \A cut \in BOOLEAN, ended \in BOOLEAN :
             AppendTo(file, r, cut, ended) = Append(file, Entry(<<r>>, cut, ended))
      BY <2>2, <2>3, AppendToWhole
    <3>2. \/ file' = AppendTo(file, r, FALSE, TRUE) /\ pc' = "written"
          \/ /\ pc' = "aborted"
             /\ file' = file \/ \E cut \in BOOLEAN : file' = AppendTo(file, r, cut, FALSE)
      BY <1>1, <1>7 DEF WriteRecord, AfterShortWrite, AfterException
    <3> QED BY <3>1, <3>2
  <2>7. ASSUME NEW cut \in BOOLEAN, NEW ended \in BOOLEAN,
               file' = Append(file, Entry(<<r>>, cut, ended))
        PROVE  /\ Len(file') = Len(file) + 1
               /\ \A i \in 1 .. Len(file) : file'[i] = file[i]
               /\ file'[Len(file) + 1].recs = <<r>>
               /\ file'[Len(file) + 1].cut = cut /\ file'[Len(file) + 1].ended = ended
    <3>1. Entry(<<r>>, cut, ended) \in Lines
      BY <1>2 DEF Entry, Lines
    <3>2. file'[Len(file) + 1] = Entry(<<r>>, cut, ended)
      BY <2>2, <2>7, <3>1, AppendProperties
    <3>3. Len(file') = Len(file) + 1 /\ \A i \in 1 .. Len(file) : file'[i] = file[i]
      BY <2>2, <2>7, <3>1, AppendProperties
    <3> QED BY <3>2, <3>3 DEF Entry
  <2>8. FileInv' /\ (pc' = "written" => /\ Len(file') = Len(file) + 1
                                        /\ \A i \in 1 .. Len(file') : Whole(file'[i]))
        /\ Len(file) <= Len(file') /\ \A i \in 1 .. Len(file) : file'[i] = file[i]
    <3>1. CASE file' = file /\ pc' = "aborted"
      BY <1>3, <2>1, <2>2, <2>3, <2>4, <2>5, <3>1 DEF FileInv
    <3>2. ASSUME NEW cut \in BOOLEAN, NEW ended \in BOOLEAN, cut => ~ended,
                 file' = Append(file, Entry(<<r>>, cut, ended)),
                 pc' = "written" => ~cut /\ ended
          PROVE  FileInv' /\ (pc' = "written" => /\ Len(file') = Len(file) + 1
                                                 /\ \A i \in 1 .. Len(file') : Whole(file'[i]))
                 /\ Len(file) <= Len(file') /\ \A i \in 1 .. Len(file) : file'[i] = file[i]
      <4>1. /\ Len(file') = Len(file) + 1
            /\ \A i \in 1 .. Len(file) : file'[i] = file[i]
            /\ file'[Len(file) + 1].recs = <<r>>
            /\ file'[Len(file) + 1].cut = cut /\ file'[Len(file) + 1].ended = ended
        BY <2>7, <3>2
      <4>2. ASSUME NEW i \in 1 .. Len(file')
            PROVE  /\ file'[i].recs = <<appended'[i]>>
                   /\ file'[i].cut => ~file'[i].ended
                   /\ i < Len(file') \/ i <= fileSynced' => Whole(file'[i])
                   /\ pc' = "written" => Whole(file'[i])
        <5>1. CASE i \in 1 .. Len(file)
          <6>1. file'[i] = file[i] /\ Whole(file[i]) /\ file[i].recs = <<appended'[i]>>
            BY <2>3, <2>5, <4>1, <5>1
          <6> QED BY <6>1 DEF Whole
        <5>2. CASE i = Len(file) + 1
          <6>1. ~(i < Len(file') \/ i <= fileSynced')
            BY <1>3, <2>2, <4>1, <5>2
          <6>2. file'[i].recs = <<appended'[i]>>
            BY <2>4, <4>1, <5>2
          <6>3. file'[i].cut = cut /\ file'[i].ended = ended
            BY <4>1, <5>2
          <6> QED BY <3>2, <6>1, <6>2, <6>3 DEF Whole
        <5> QED BY <2>2, <4>1, <5>1, <5>2
      <4>3. Len(file') <= Len(appended')
        BY <2>2, <2>4, <4>1
      <4> QED BY <2>2, <4>1, <4>2, <4>3 DEF FileInv
    <3> QED BY <2>6, <3>1, <3>2
  <2>9. CountInv'
    <3>1. count'.captured = Len(file) /\ power' /\ fsync' = fsync /\ fileSynced' = fileSynced
      BY <1>3, <2>3
    <3>2. fsync => Len(file) <= fileSynced
      BY <2>1, <2>3 DEF CountInv
    <3>3. Len(file') \in Nat
      BY <1>3, LenProperties DEF TypeInv
    <3>4. /\ Len(file) <= Len(appended') /\ Len(file) <= Len(file')
          /\ \A i \in 1 .. Len(file') : i <= Len(file) => Whole(file'[i])
      <4>1. \A i \in 1 .. Len(file) : Whole(file'[i])
        BY <2>3, <2>8
      <4> QED BY <2>2, <2>4, <2>8, <3>3, <4>1
    <3>5. pc' \in {"written", "open", "aborted"} /\ pc' # "open"
      BY <1>4, <1>7
    <3> QED BY <2>4, <2>8, <3>1, <3>2, <3>4, <3>5 DEF CountInv, Before, Settled
  <2>10. LineInv'
    <3>1. fsync => rawSynced = raw
      BY <1>1, <2>1 DEF LineInv
    <3>2. ASSUME NEW k \in 1 .. Len(appended')
          PROVE  /\ appended'[k].line \in Nat
                 /\ power => appended'[k].line <= raw
                 /\ fsync => appended'[k].line <= rawSynced
      <4>1. CASE k \in 1 .. Len(file)
        BY <2>1, <2>3, <2>4, <4>1 DEF LineInv
      <4>2. CASE k = Len(file) + 1
        BY <1>2, <2>2, <2>4, <3>1, <4>2
      <4> QED BY <2>2, <2>4, <4>1, <4>2
    <3> QED BY <1>3, <1>4, <3>2 DEF LineInv
  <2> QED BY <1>3, <2>1, <2>8, <2>9, <2>10
<1>8. pc' = "open" => tool' = "events"
  BY <1>3, <1>4
<1> QED BY <1>3, <1>6, <1>7, <1>8 DEF RecInv, CaptureInv

(* append returns to a recorder of events.                                 *)
LEMMA SyncEventKeeps ==
    ASSUME RecInv, SyncEvent
    PROVE  RecInv'
<1>1. /\ UNCHANGED <<tool, fsync, power, reader, file, appended, manifest, sidecar, raw,
                     rawSynced, boot, next, lost, line, count>>
      /\ fileSynced' \in {Len(file), fileSynced}
      /\ tool = "events" /\ pc = "written" /\ pc' = "open"
  BY DEF SyncEvent, AppendSynced, setting, sealed, log, device, replay
<1>2. file \in Seq(Lines) /\ fileSynced \in Nat /\ fileSynced <= Len(file) /\ Len(file) \in Nat
  BY LenProperties DEF RecInv, TypeInv
<1>3. fileSynced' \in Nat /\ fileSynced' <= Len(file')
  BY <1>1, <1>2
<1>4. TypeInv'
  BY <1>1, <1>3 DEF RecInv, TypeInv
<1>5. SealInv'
  BY <1>1 DEF RecInv, SealInv, ManifestLoads, Writable, Settled, Before
<1> QED BY <1>1, <1>4, <1>5 DEF RecInv, CaptureInv

(* A record is counted once, and under each field of identity its line has.*)
LEMMA SyncCounts ==
    ASSUME RecInv, SyncRecord
    PROVE  /\ count' \in Counts /\ count'.captured = count.captured + 1
           /\ \A f \in Identity :
                 count'.device[f] = count.device[f] + (IF f \in line.fields THEN 1 ELSE 0)
<1> DEFINE d == [f \in Identity |-> count.device[f] + (IF f \in line.fields THEN 1 ELSE 0)]
           c1 == [count EXCEPT !.local = @ + 1]
           c2 == [c1 EXCEPT !.captured = @ + 1]
           c3 == [c2 EXCEPT !.device = d]
<1>1. count \in Counts /\ count.captured \in Nat /\ count.device \in [Identity -> Nat]
  BY DEF RecInv, TypeInv, Counts
<1>2. count' = [count EXCEPT !.local = @ + 1, !.captured = @ + 1, !.device = d]
  BY DEF SyncRecord
<1>3. /\ d \in [Identity -> Nat]
      /\ \A f \in Identity : d[f] = count.device[f] + (IF f \in line.fields THEN 1 ELSE 0)
  BY <1>1
<1> HIDE DEF d
<1>4. c1 \in Counts /\ c1.captured = count.captured
  BY <1>1 DEF Counts
<1>5. c2 \in Counts /\ c2.captured = count.captured + 1
  <2> HIDE DEF c1
  <2> QED BY <1>1, <1>4 DEF Counts
<1>6. c3 \in Counts /\ c3.captured = count.captured + 1 /\ c3.device = d
  <2> HIDE DEF c2
  <2> QED BY <1>3, <1>5 DEF Counts
<1>7. count' = c3
  BY <1>1, <1>2 DEF Counts
<1> QED BY <1>3, <1>6, <1>7

(* A sync that raises leaves the file as it is, and the record uncounted.  *)
LEMMA SyncFailsKeeps ==
    ASSUME RecInv, SyncFails
    PROVE  RecInv'
<1>1. /\ UNCHANGED <<tool, fsync, power, reader, file, appended, manifest, sidecar, raw,
                     rawSynced, boot, next, lost, line, count>>
      /\ fileSynced' \in fileSynced .. Len(file) /\ pc = "written"
      /\ pc' \in {"open", "aborted"} /\ (pc' = "open" => tool = "events")
  BY DEF SyncFails, AfterException, setting, sealed, log, device, ghosts, replay
<1>2. file \in Seq(Lines) /\ fileSynced \in Nat /\ fileSynced <= Len(file) /\ Len(file) \in Nat
  BY LenProperties DEF RecInv, TypeInv
<1>3. fileSynced' \in Nat /\ fileSynced' <= Len(file) /\ fileSynced <= fileSynced'
  BY <1>1, <1>2
<1>4. TypeInv'
  BY <1>1, <1>3 DEF RecInv, TypeInv
<1>5. SealInv'
  BY <1>1 DEF RecInv, SealInv, ManifestLoads, Writable, Settled, Before
<1>6. ASSUME tool = "capture_cs"
      PROVE  FileInv' /\ CountInv' /\ LineInv' /\ reader' = "idle"
  <2>1. FileInv /\ CountInv /\ LineInv /\ reader = "idle"
    BY <1>6 DEF RecInv, CaptureInv
  <2>2. /\ power /\ Len(appended) = Len(file) /\ Len(file) = count.captured + 1
        /\ \A i \in 1 .. Len(file) : Whole(file[i])
    BY <1>1, <2>1 DEF CountInv
  <2>3. FileInv'
    BY <1>1, <2>1, <2>2 DEF FileInv
  <2>4. count.captured \in Nat
    BY DEF RecInv, TypeInv, Counts
  <2>5. fsync => count.captured <= fileSynced'
    BY <1>2, <1>3, <2>1, <2>4 DEF CountInv
  <2>6. CountInv'
    BY <1>1, <2>1, <2>2, <2>5 DEF CountInv, Before, Settled
  <2>7. LineInv'
    BY <1>1, <2>1 DEF LineInv
  <2> QED BY <1>1, <2>1, <2>3, <2>6, <2>7
<1> QED BY <1>1, <1>4, <1>5, <1>6 DEF RecInv, CaptureInv

(* append returns to the capture, which counts the record.                 *)
LEMMA SyncRecordKeeps ==
    ASSUME RecInv, SyncRecord
    PROVE  RecInv'
<1>1. /\ UNCHANGED <<tool, fsync, power, reader, file, appended, manifest, sidecar, raw,
                     rawSynced, boot, next, lost, line>>
      /\ fileSynced' = (IF fsync THEN Len(file) ELSE fileSynced)
      /\ tool = "capture_cs" /\ pc = "written" /\ pc' \in {"summary", "read"}
  BY DEF SyncRecord, AppendSynced, setting, sealed, log, device, replay
<1>2. /\ file \in Seq(Lines) /\ fileSynced \in Nat /\ fileSynced <= Len(file)
      /\ Len(file) \in Nat /\ count \in Counts
  BY LenProperties DEF RecInv, TypeInv
<1>3. fileSynced' \in Nat /\ fileSynced' <= Len(file') /\ (fsync => fileSynced' = Len(file))
      /\ fileSynced <= fileSynced'
  BY <1>1, <1>2
<1>4. count' \in Counts /\ count'.captured = count.captured + 1
  BY SyncCounts
<1>5. TypeInv'
  BY <1>1, <1>3, <1>4 DEF RecInv, TypeInv
<1>6. SealInv'
  BY <1>1 DEF RecInv, SealInv, ManifestLoads, Writable, Settled, Before
<1>7. FileInv /\ CountInv /\ LineInv /\ reader = "idle"
  BY <1>1 DEF RecInv, CaptureInv
<1>8. /\ power /\ Len(appended) = Len(file) /\ Len(file) = count.captured + 1
      /\ \A i \in 1 .. Len(file) : Whole(file[i])
  BY <1>1, <1>7 DEF CountInv
<1>9. FileInv'
  BY <1>1, <1>7, <1>8 DEF FileInv
<1>10. CountInv'
  BY <1>1, <1>2, <1>3, <1>4, <1>8 DEF CountInv, Before, Settled
<1>11. LineInv'
  BY <1>1, <1>7 DEF LineInv
<1> QED BY <1>1, <1>5, <1>6, <1>7, <1>9, <1>10, <1>11 DEF RecInv, CaptureInv

(* A power loss leaves a prefix that holds what was synced, and maybe a    *)
(* part of the next line.                                                  *)
LEMMA PrefixLeft ==
    ASSUME RecInv, LosePower
    PROVE  /\ file' \in Seq(Lines)
           /\ fileSynced <= Len(file') /\ Len(file') <= Len(file)
           /\ \A i \in 1 .. Len(file') :
                 /\ file'[i].recs = file[i].recs
                 /\ file'[i] = file[i] \/ (i = Len(file') /\ i > fileSynced /\ ~file'[i].ended)
<1>1. /\ file \in Seq(Lines) /\ fileSynced \in Nat /\ fileSynced <= Len(file)
      /\ Len(file) \in Nat
  BY LenProperties DEF RecInv, TypeInv
<1>2. PICK k \in fileSynced .. Len(file) :
         \/ file' = SubSeq(file, 1, k)
         \/ k < Len(file) /\ \E cut \in {TRUE, file[k + 1].cut} :
               file' = Append(SubSeq(file, 1, k), Entry(file[k + 1].recs, cut, FALSE))
  BY DEF LosePower
<1>3. k \in Nat /\ k <= Len(file) /\ fileSynced <= k
  BY <1>1, <1>2
<1> DEFINE f == SubSeq(file, 1, k)
<1>4. f \in Seq(Lines) /\ Len(f) = k /\ \A i \in 1 .. k : f[i] = file[i]
  <2>1. \A i \in 1 .. k : i \in 1 .. Len(file)
    BY <1>1, <1>3
  <2>2. f \in Seq(Lines) /\ Len(f) = k
    BY <1>1, <1>3, <2>1, SubSeqProperties
  <2>3. \A i \in 1 .. k : f[i] = file[i]
    BY <1>1, <1>3, <2>1, SubSeqProperties
  <2> QED BY <2>2, <2>3
<1> HIDE DEF f
<1>5. CASE file' = f
  BY <1>1, <1>3, <1>4, <1>5
<1>6. CASE k < Len(file) /\ \E cut \in {TRUE, file[k + 1].cut} :
               file' = Append(f, Entry(file[k + 1].recs, cut, FALSE))
  <2>1. PICK cut \in {TRUE, file[k + 1].cut} :
               file' = Append(f, Entry(file[k + 1].recs, cut, FALSE))
    BY <1>6
  <2>2. k + 1 \in 1 .. Len(file)
    BY <1>1, <1>3, <1>6
  <2>3. file[k + 1] \in Lines
    BY <1>1, <2>2, ElementOfSeq
  <2> DEFINE e == Entry(file[k + 1].recs, cut, FALSE)
  <2>4. e \in Lines /\ e.recs = file[k + 1].recs /\ ~e.ended
    BY <2>3 DEF Entry, Lines
  <2>5. file' = Append(f, e)
    BY <2>1
  <2> HIDE DEF e
  <2>6. file' \in Seq(Lines) /\ Len(file') = k + 1 /\ file'[k + 1] = e
        /\ \A i \in 1 .. k : file'[i] = file[i]
    BY <1>4, <2>4, <2>5, AppendProperties
  <2>7. ASSUME NEW i \in 1 .. Len(file')
        PROVE  /\ file'[i].recs = file[i].recs
               /\ file'[i] = file[i] \/ (i = Len(file') /\ i > fileSynced /\ ~file'[i].ended)
    <3>1. CASE i \in 1 .. k
      BY <2>6, <3>1
    <3>2. CASE i = k + 1
      BY <1>1, <1>3, <2>4, <2>6, <3>2
    <3>3. i \in 1 .. k \/ i = k + 1
      BY <1>3, <2>6
    <3> QED BY <3>1, <3>2, <3>3
  <2>8. fileSynced <= Len(file') /\ Len(file') <= Len(file)
    <3>1. k < Len(file)
      BY <1>6
    <3>2. Len(file') = k + 1
      BY <2>6
    <3> QED BY <1>1, <1>3, <3>1, <3>2
  <2> QED BY <2>6, <2>7, <2>8
<1> QED BY <1>2, <1>5, <1>6 DEF f

(* A power loss takes nothing that was synced.                             *)
LEMMA LosePowerKeeps ==
    ASSUME RecInv, LosePower
    PROVE  RecInv'
<1>1. /\ UNCHANGED <<tool, fsync, reader, appended, manifest, sidecar, rawSynced, fileSynced,
                     boot, next, lost, line, count>>
      /\ raw' \in rawSynced .. raw /\ power' = FALSE
      /\ pc' \in {"dead", "done", "aborted"}
  BY DEF LosePower, Running, setting, sealed, device, replay, ghosts
<1>2. /\ file' \in Seq(Lines)
      /\ fileSynced <= Len(file') /\ Len(file') <= Len(file)
      /\ \A i \in 1 .. Len(file') :
            /\ file'[i].recs = file[i].recs
            /\ file'[i] = file[i] \/ (i = Len(file') /\ i > fileSynced /\ ~file'[i].ended)
  BY PrefixLeft
<1>3. raw \in Nat /\ rawSynced \in Nat /\ rawSynced <= raw /\ fileSynced \in Nat
      /\ file \in Seq(Lines) /\ appended \in Seq(Records) /\ count.captured \in Nat
  BY DEF RecInv, TypeInv, Counts
<1>4. Len(file) \in Nat /\ Len(file') \in Nat /\ Len(appended) \in Nat
  BY <1>2, <1>3, LenProperties
<1>5. TypeInv'
  <2>1. raw' \in Nat /\ rawSynced' \in Nat /\ rawSynced' <= raw'
    BY <1>1, <1>3
  <2>2. power' \in BOOLEAN /\ fileSynced' \in Nat /\ fileSynced' <= Len(file')
    BY <1>1, <1>2, <1>3
  <2> QED BY <1>1, <1>2, <2>1, <2>2 DEF RecInv, TypeInv
<1>6. SealInv'
  <2>1. file' # <<>> => file # <<>>
    BY <1>2, <1>3, <1>4, EmptySeq
  <2> QED BY <1>1, <2>1 DEF RecInv, SealInv, ManifestLoads, Before, Writable, Settled
<1>7. ASSUME tool = "capture_cs"
      PROVE  FileInv' /\ CountInv' /\ LineInv' /\ reader' = "idle"
  <2>1. FileInv /\ CountInv /\ LineInv /\ reader = "idle"
    BY <1>7 DEF RecInv, CaptureInv
  <2>2. \A i \in 1 .. Len(file) :
           /\ file[i].recs = <<appended[i]>>
           /\ file[i].cut => ~file[i].ended
           /\ i < Len(file) \/ i <= fileSynced => Whole(file[i])
    BY <2>1 DEF FileInv
  <2>3. ASSUME NEW i \in 1 .. Len(file')
        PROVE  /\ file'[i].recs = <<appended[i]>>
               /\ file'[i].cut => ~file'[i].ended
               /\ i < Len(file') \/ i <= fileSynced => Whole(file'[i])
    <3>1. i \in 1 .. Len(file) /\ (i < Len(file') => i < Len(file))
      BY <1>2, <1>4
    <3>2. CASE file'[i] = file[i]
      BY <2>2, <3>1, <3>2 DEF Whole
    <3>3. CASE i = Len(file') /\ i > fileSynced /\ ~file'[i].ended
      <4>1. ~(i < Len(file') \/ i <= fileSynced)
        BY <1>3, <1>4, <3>3
      <4>2. file'[i].recs = <<appended[i]>>
        BY <1>2, <2>2, <3>1
      <4> QED BY <3>3, <4>1, <4>2
    <3> QED BY <1>2, <3>2, <3>3
  <2>4. Len(file') <= Len(appended)
    BY <1>2, <1>4, <2>1 DEF FileInv
  <2>5. FileInv'
    BY <1>1, <2>3, <2>4 DEF FileInv
  <2>6. CountInv'
    BY <1>1, <2>1 DEF CountInv, Before, Settled
  <2>7. LineInv'
    BY <1>1, <2>1 DEF LineInv
  <2> QED BY <1>1, <2>1, <2>5, <2>6, <2>7
<1> QED BY <1>1, <1>5, <1>6, <1>7 DEF RecInv, CaptureInv

(* A replay reads, and only runs of events are replayed.                   *)
LEMMA ReplayKeeps ==
    ASSUME RecInv, StartReplay \/ Replay
    PROVE  RecInv'
<1>1. UNCHANGED <<Writing, file>>
  BY DEF StartReplay, OpenLog, Replay, ReplayNext, Fail, QuarantineLine, PassOver, ReplayInput,
         RefuseFraction, ReadAgain, Compare, NextLine
<1>2. UNCHANGED <<tool, fsync, power, file, fileSynced, appended, manifest, sidecar, raw,
                  rawSynced, boot, next, lost, line, count, pc>>
  BY <1>1 DEF Writing, setting, sealed, log, device
<1>3. tool = "events"
  <2>1. Replay => reader = "reading"
    BY DEF Replay, ReplayNext, Fail, QuarantineLine, PassOver, ReplayInput, RefuseFraction,
           ReadAgain, Compare, Reading
  <2> QED BY <2>1 DEF StartReplay, RecInv, CaptureInv, TypeInv
<1>4. TypeInv'
  BY <1>2 DEF RecInv, TypeInv
<1>5. SealInv'
  BY <1>2 DEF RecInv, SealInv, ManifestLoads
<1> QED BY <1>2, <1>3, <1>4, <1>5 DEF RecInv, CaptureInv

(* A step that changes nothing.                                            *)
LEMMA StutterKeeps ==
    ASSUME RecInv, UNCHANGED recordingVars
    PROVE  RecInv'
<1>1. UNCHANGED <<setting, device, sealed, log, disk, ghosts, replay, line, count, power, pc>>
  BY DEF recordingVars
<1>2. UNCHANGED <<tool, fsync, power, reader, file, fileSynced, appended, manifest, sidecar, raw,
                  rawSynced, boot, next, lost, line, count, pc>>
  BY <1>1 DEF setting, sealed, log, device, disk, ghosts, replay
<1>3. TypeInv' /\ SealInv'
  BY <1>2 DEF RecInv, TypeInv, SealInv, ManifestLoads
<1>4. CaptureInv'
  BY <1>2 DEF RecInv, CaptureInv, FileInv, CountInv, LineInv
<1> QED BY <1>3, <1>4 DEF RecInv

(* Every step of the tool, the device, the machine and the replay keeps    *)
(* the invariant.                                                          *)
LEMMA NextRecInv == RecInv /\ [RecordingNext]_recordingVars => RecInv'
<1> SUFFICES ASSUME RecInv, [RecordingNext]_recordingVars PROVE RecInv'
  OBVIOUS
<1>1. CASE Reboot \/ DropLine
  BY <1>1, DeviceKeeps
<1>2. CASE CreateManifest \/ WriteManifest \/ WriteSidecar
  BY <1>2, SealingKeeps
<1>3. CASE RecordEvent
  BY <1>3, AppendEventKeeps
<1>4. CASE SyncEvent
  BY <1>4, SyncEventKeeps
<1>5. CASE ReadLine
  BY <1>5, ReadKeeps
<1>6. CASE SyncRaw
  BY <1>6, SyncRawKeeps
<1>7. CASE SkipLine \/ RejectRange \/ EndOfStream \/ Summarize \/ Kill
  BY <1>7, MoveKeeps
<1>8. CASE AppendRecord
  BY <1>8, AppendRecordKeeps
<1>9. CASE SyncRecord
  BY <1>9, SyncRecordKeeps
<1>10. CASE LosePower
  BY <1>10, LosePowerKeeps
<1>11. CASE StartReplay \/ Replay
  BY <1>11, ReplayKeeps
<1>12. CASE SyncFails
  BY <1>12, SyncFailsKeeps
<1>13. CASE UNCHANGED recordingVars
  BY <1>13, StutterKeeps
<1> QED BY <1>1, <1>2, <1>3, <1>4, <1>5, <1>6, <1>7, <1>8, <1>9, <1>10, <1>11, <1>12, <1>13
        DEF RecordingNext

(* RecInv holds of every capture and every run of events.                  *)
THEOREM RecordingInvariance == RecordingSpec => []RecInv
<1>1. RecordingInit => RecInv
  BY InitRecInv
<1>2. RecInv /\ [RecordingNext]_recordingVars => RecInv'
  BY NextRecInv
<1> QED BY <1>1, <1>2, PTL DEF RecordingSpec

(* Every record a reader gets out of a run directory has its serial line   *)
(* in the raw log and a manifest that verifies, however many writers were  *)
(* killed and whatever a power loss took.                                  *)
THEOREM EvidenceExplained == RecordingSpec => []EvidenceHasProvenance
<1>1. RecInv => EvidenceHasProvenance
  <2> SUFFICES ASSUME RecInv, Durable, NEW i \in Readable
               PROVE  ManifestLoads /\ (tool = "capture_cs" => RecordAt(i).line <= raw)
    BY DEF EvidenceHasProvenance
  <2>1. i \in 1 .. Len(file) /\ file \in Seq(Lines) /\ Len(file) \in Nat
    BY LenProperties DEF RecInv, TypeInv, Readable
  <2>2. ManifestLoads
    BY <2>1, EmptySeq DEF RecInv, SealInv
  <2>3. ASSUME tool = "capture_cs"
        PROVE  RecordAt(i).line <= raw
    <3>1. FileInv /\ LineInv
      BY <2>3 DEF RecInv, CaptureInv
    <3>2. RecordAt(i) = appended[i] /\ i \in 1 .. Len(appended)
      <4>1. appended \in Seq(Records) /\ Len(appended) \in Nat
        BY LenProperties DEF RecInv, TypeInv
      <4> QED BY <2>1, <3>1, <4>1 DEF FileInv, RecordAt
    <3>3. appended[i].line \in Nat /\ (power \/ fsync => appended[i].line <= raw)
      <4>1. raw \in Nat /\ rawSynced \in Nat /\ rawSynced <= raw
        BY DEF RecInv, TypeInv
      <4> QED BY <3>1, <3>2, <4>1 DEF LineInv
    <3> QED BY <3>2, <3>3 DEF Durable
  <2> QED BY <2>2, <2>3
<1> QED BY <1>1, RecordingInvariance, PTL

(* A capture that was interrupted at any moment can be read: no line but   *)
(* an unterminated last one is unreadable, the records are those of the    *)
(* capture in their order, and each one the tool counted is there.         *)
THEOREM CapturesReadable == RecordingSpec => []CaptureIsReadable
<1>1. RecInv => CaptureIsReadable
  <2> SUFFICES ASSUME RecInv, tool = "capture_cs"
               PROVE  /\ ~Corrupt(file)
                      /\ \A i \in Readable : RecordAt(i) = appended[i]
                      /\ Durable => 1 .. count.captured \subseteq Readable
    BY DEF CaptureIsReadable
  <2>1. FileInv /\ CountInv
    BY DEF RecInv, CaptureInv
  <2>2. /\ file \in Seq(Lines) /\ Len(file) \in Nat /\ DOMAIN file = 1 .. Len(file)
        /\ fileSynced \in Nat /\ fileSynced <= Len(file) /\ count.captured \in Nat
    BY LenProperties DEF RecInv, TypeInv, Counts
  <2>3. \A i \in 1 .. Len(file) : Len(file[i].recs) = 1 /\ file[i].recs[1] = appended[i]
    <3>1. \A i \in 1 .. Len(file) : file[i].recs = <<appended[i]>>
      BY <2>1 DEF FileInv
    <3>2. \A x : Len(<<x>>) = 1 /\ <<x>>[1] = x
      OBVIOUS
    <3> QED BY <3>1, <3>2
  <2>4. ~Corrupt(file)
    <3>1. ASSUME NEW i \in 1 .. Len(file), ~Parses(file[i])
          PROVE  Tolerated(file, i)
      <4>1. file[i].cut
        BY <2>3, <3>1 DEF Parses
      <4>2. /\ file[i].cut => ~file[i].ended
            /\ i < Len(file) => Whole(file[i])
        BY <2>1 DEF FileInv
      <4>3. ~file[i].ended
        BY <4>1, <4>2
      <4>4. ~(i < Len(file))
        BY <4>1, <4>2 DEF Whole
      <4>5. i = Len(file)
        <5>1. Len(file) \in Nat
          BY <2>2
        <5>2. i \in Nat /\ i <= Len(file)
          BY <5>1
        <5>3. \A m, n \in Nat : m <= n /\ ~(m < n) => m = n
          OBVIOUS
        <5> QED BY <4>4, <5>1, <5>2, <5>3
      <4> QED BY <4>3, <4>5 DEF Tolerated
    <3> QED BY <2>2, <3>1 DEF Corrupt
  <2>5. \A i \in Readable : RecordAt(i) = appended[i]
    BY <2>2, <2>3 DEF Readable, RecordAt
  <2>6. ASSUME Durable, NEW i \in 1 .. count.captured
        PROVE  i \in Readable
    <3>1. i \in 1 .. Len(file) /\ Whole(file[i])
      <4>1. CASE power
        <5>1. i \in 1 .. Len(file)
          BY <2>1, <2>2, <4>1 DEF CountInv
        <5> QED BY <2>1, <2>2, <4>1, <5>1 DEF CountInv
      <4>2. CASE fsync
        <5>1. i \in 1 .. Len(file) /\ i <= fileSynced
          BY <2>1, <2>2, <4>2 DEF CountInv
        <5> QED BY <2>1, <5>1 DEF FileInv
      <4> QED BY <2>6, <4>1, <4>2 DEF Durable
    <3> QED BY <2>2, <2>3, <3>1 DEF Readable, Parses, Whole
  <2> QED BY <2>4, <2>5, <2>6
<1> QED BY <1>1, RecordingInvariance, PTL

-----------------------------------------------------------------------------
(* What the device sent, and what the capture calls its own.               *)

(* Measurements of one device in the order in which it made them.          *)
Earlier(a, b) == a.boot < b.boot \/ (a.boot = b.boot /\ a.seq < b.seq)

Sent(r) == r.boot <= boot /\ (r.boot = boot => r.seq < next)

OrderInv ==
    \A k \in 1 .. Len(appended) :
        /\ appended[k] \in RangeRecords
        /\ appended[k].fields = Identity => Sent(appended[k])
        /\ \A l \in 1 .. Len(appended) :
              k < l /\ appended[k].fields = Identity /\ appended[l].fields = Identity =>
                 Earlier(appended[k], appended[l])

HandInv ==
    /\ pc \in {"flushed", "parse"} /\ line.fields = Identity =>
          /\ Sent(line)
          /\ \A k \in 1 .. Len(appended) :
                appended[k].fields = Identity => Earlier(appended[k], line)
    /\ pc = "written" => appended[Len(appended)].fields = line.fields

(* A record without a field of the device's own costs the run its claim.   *)
DeviceInv ==
    \A f \in Identity :
        /\ count.device[f] <= count.captured
        /\ count.device[f] = count.captured =>
              \A k \in 1 .. count.captured : f \in appended[k].fields

SummaryInv ==
    /\ tool = "events" => pc \notin Settled /\ summary = "absent"
    /\ summary = "complete" =>
          /\ pc = "done" /\ Len(file) <= count.captured
          /\ \A f \in Identity : count.device[f] = count.captured

IdentityInv ==
    /\ SummaryInv
    /\ tool = "capture_cs" => OrderInv /\ HandInv /\ DeviceInv

(* What a step keeps of IdentityInv when it leaves the capture's own state *)
(* alone, wherever the tool goes without a new line in hand.               *)
LEMMA IdentityStays ==
    ASSUME IdentityInv,
           UNCHANGED <<tool, boot, next, line, appended, summary>>,
           count'.captured = count.captured, count'.device = count.device,
           pc' \in {"flushed", "parse"} => pc \in {"flushed", "parse"},
           pc' # "written", tool = "events" => pc' \notin Settled,
           pc = "done" => pc' = "done", Len(file') <= count.captured \/ file' = file
    PROVE  IdentityInv'
<1>1. SummaryInv'
  BY DEF IdentityInv, SummaryInv
<1>2. ASSUME tool = "capture_cs"
      PROVE  OrderInv' /\ HandInv' /\ DeviceInv'
  <2>1. OrderInv /\ HandInv /\ DeviceInv
    BY <1>2 DEF IdentityInv
  <2>2. OrderInv'
    BY <2>1 DEF OrderInv, Sent
  <2>3. HandInv'
    BY <2>1 DEF HandInv, Sent
  <2>4. DeviceInv'
    BY <2>1 DEF DeviceInv
  <2> QED BY <2>2, <2>3, <2>4
<1> QED BY <1>1, <1>2 DEF IdentityInv

(* A new run has sent and claimed nothing.                                 *)
LEMMA InitIdentity == RecordingInit => IdentityInv
<1> SUFFICES ASSUME RecordingInit PROVE IdentityInv
  OBVIOUS
<1>1. /\ appended = <<>> /\ count = Counters /\ pc = "start" /\ summary = "absent"
  BY DEF RecordingInit
<1>2. /\ Len(appended) = 0 /\ count.captured = 0
      /\ \A f \in Identity : count.device[f] = 0
  BY <1>1 DEF Counters
<1> QED BY <1>1, <1>2 DEF IdentityInv, SummaryInv, OrderInv, HandInv, DeviceInv, Settled

(* The device sends in order, also across a reboot and when lines get lost.*)
LEMMA DeviceIdentity ==
    ASSUME RecInv, IdentityInv, Reboot \/ DropLine
    PROVE  IdentityInv'
<1>1. UNCHANGED <<tool, pc, line, appended, count, summary, file>>
  BY DEF Reboot, DropLine, DeviceMoves, setting, disk, ghosts
<1>2. /\ boot \in Nat /\ next \in Nat
      /\ \/ boot' = boot + 1
         \/ boot' = boot /\ next' = next + 1
  BY DEF RecInv, TypeInv, Reboot, DropLine
<1>3. line.boot \in Nat /\ line.seq \in Nat
  BY DEF RecInv, TypeInv
<1>4. \A r : r.boot \in Nat /\ r.seq \in Nat /\ Sent(r) => Sent(r)'
  BY <1>2 DEF Sent
<1>5. SummaryInv'
  BY <1>1 DEF IdentityInv, SummaryInv
<1>6. ASSUME tool = "capture_cs"
      PROVE  OrderInv' /\ HandInv' /\ DeviceInv'
  <2>1. OrderInv /\ HandInv /\ DeviceInv
    BY <1>6 DEF IdentityInv
  <2>2. OrderInv'
    <3>1. \A k \in 1 .. Len(appended) : appended[k].boot \in Nat /\ appended[k].seq \in Nat
      BY <2>1 DEF OrderInv, RangeRecords
    <3> QED BY <1>1, <1>4, <2>1, <3>1 DEF OrderInv
  <2>3. HandInv'
    BY <1>1, <1>3, <1>4, <2>1 DEF HandInv
  <2>4. DeviceInv'
    BY <1>1, <2>1 DEF DeviceInv
  <2> QED BY <2>2, <2>3, <2>4
<1> QED BY <1>1, <1>5, <1>6 DEF IdentityInv

(* A line that is read comes after all the device has sent.                *)
LEMMA ReadIdentity ==
    ASSUME RecInv, IdentityInv, ReadLine
    PROVE  IdentityInv'
<1>1. /\ UNCHANGED <<tool, boot, appended, count, summary, file>>
      /\ pc = "read" /\ pc' = "flushed"
  BY DEF ReadLine, Unwritten, setting, disk, ghosts
<1>2. /\ boot \in Nat /\ next \in Nat
      /\ next' \in {next, next + 1}
      /\ line'.fields = Identity => line'.boot = boot /\ line'.seq = next /\ next' = next + 1
  <2>1. PICK form \in Forms, fields \in FieldSets :
          /\ line' = [form |-> form, fields |-> IF form = "range" THEN fields ELSE {},
                      boot |-> boot, seq |-> next]
          /\ next' = IF form = "other" THEN next ELSE next + 1
    BY DEF ReadLine
  <2>2. Identity # {}
    BY DEF Identity
  <2>3. line'.fields = Identity => form = "range"
    BY <2>1, <2>2
  <2> QED BY <2>1, <2>3 DEF RecInv, TypeInv
<1>3. SummaryInv'
  BY <1>1 DEF IdentityInv, SummaryInv, Settled
<1>4. ASSUME tool = "capture_cs"
      PROVE  OrderInv' /\ HandInv' /\ DeviceInv'
  <2>1. OrderInv /\ DeviceInv
    BY <1>4 DEF IdentityInv
  <2>2. \A k \in 1 .. Len(appended) : appended[k].boot \in Nat /\ appended[k].seq \in Nat
    BY <2>1 DEF OrderInv, RangeRecords
  <2>3. OrderInv'
    <3>1. \A r : r.boot \in Nat /\ r.seq \in Nat /\ Sent(r) => Sent(r)'
      BY <1>1, <1>2 DEF Sent
    <3> QED BY <1>1, <2>1, <2>2, <3>1 DEF OrderInv
  <2>4. HandInv'
    <3>1. line'.fields = Identity =>
            line'.boot <= boot' /\ (line'.boot = boot' => line'.seq < next')
      BY <1>1, <1>2
    <3>2. ASSUME line'.fields = Identity,
                 NEW k \in 1 .. Len(appended), appended[k].fields = Identity
          PROVE  Earlier(appended[k], line')
      BY <1>2, <2>1, <2>2, <3>2 DEF OrderInv, Sent, Earlier
    <3> QED BY <1>1, <3>1, <3>2 DEF HandInv, Sent
  <2>5. DeviceInv'
    BY <1>1, <2>1 DEF DeviceInv
  <2> QED BY <2>3, <2>4, <2>5
<1> QED BY <1>1, <1>3, <1>4 DEF IdentityInv

(* A record takes the place of its line in the order.                      *)
LEMMA AppendIdentity ==
    ASSUME RecInv, IdentityInv, AppendRecord
    PROVE  IdentityInv'
<1> DEFINE r == RangeRecord(line)
<1>1. pc = "parse" /\ WriteRecord(r) 
  BY DEF AppendRecord
<1>2. r \in Records /\ r \in RangeRecords /\ r.fields = line.fields
      /\ (line.fields = Identity => r.boot = line.boot /\ r.seq = line.seq)
  <2>1. r \in Records
    BY RangeRecordTyped DEF RecInv
  <2>2. /\ (IF "boot" \in line.fields THEN line.boot ELSE Fallback) \in Nat
        /\ (IF "sequence" \in line.fields THEN line.seq ELSE count.local + 1) \in Nat
        /\ line.fields \in SUBSET Identity /\ raw \in Nat
    BY DEF RecInv, TypeInv, Counts, Fallback
  <2>3. r \in RangeRecords
    BY <2>2 DEF RangeRecord, RangeRecords
  <2> QED BY <2>1, <2>3 DEF RangeRecord, Identity
<1> HIDE DEF r
<1>3. /\ UNCHANGED <<tool, boot, next, line, count, summary>>
      /\ appended' = Append(appended, r)
      /\ pc' \in {"written", "open", "aborted"}
  BY <1>1 DEF WriteRecord, AfterShortWrite, AfterException, setting, device
<1>4. appended \in Seq(Records) /\ Len(appended) \in Nat
  BY LenProperties DEF RecInv, TypeInv
<1>5. /\ Len(appended') = Len(appended) + 1 /\ appended'[Len(appended) + 1] = r
      /\ \A k \in 1 .. Len(appended) : appended'[k] = appended[k]
  BY <1>2, <1>3, <1>4, AppendProperties
<1>6. SummaryInv'
  BY <1>1, <1>3 DEF IdentityInv, SummaryInv, Settled
<1>7. ASSUME tool = "capture_cs"
      PROVE  OrderInv' /\ HandInv' /\ DeviceInv'
  <2>1. OrderInv /\ HandInv /\ DeviceInv
    BY <1>7 DEF IdentityInv
  <2>2. Len(appended) = count.captured
    BY <1>1, <1>7 DEF RecInv, CaptureInv, CountInv, Settled
  <2>3. r.fields = Identity => Sent(r) /\ \A k \in 1 .. Len(appended) :
                                         appended[k].fields = Identity => Earlier(appended[k], r)
    BY <1>1, <1>2, <2>1 DEF HandInv, Sent, Earlier
  <2>4. \A k \in 1 .. Len(appended') : k \in 1 .. Len(appended) \/ k = Len(appended) + 1
    BY <1>4, <1>5
  <2>5. OrderInv'
    <3>1. ASSUME NEW k \in 1 .. Len(appended')
          PROVE  /\ appended'[k] \in RangeRecords
                 /\ appended'[k].fields = Identity => Sent(appended'[k])
      BY <1>2, <1>5, <2>1, <2>3, <2>4 DEF OrderInv
    <3>2. ASSUME NEW k \in 1 .. Len(appended'), NEW l \in 1 .. Len(appended'), k < l,
                 appended'[k].fields = Identity, appended'[l].fields = Identity
          PROVE  Earlier(appended'[k], appended'[l])
      <4>1. k \in 1 .. Len(appended)
        BY <1>4, <1>5, <3>2
      <4>2. CASE l \in 1 .. Len(appended)
        BY <1>5, <2>1, <3>2, <4>1, <4>2 DEF OrderInv
      <4>3. CASE l = Len(appended) + 1
        BY <1>5, <2>3, <3>2, <4>1, <4>3
      <4> QED BY <2>4, <4>2, <4>3
    <3>3. \A k \in 1 .. Len(appended') :
             appended'[k].fields = Identity =>
                /\ appended'[k].boot <= boot'
                /\ appended'[k].boot = boot' => appended'[k].seq < next'
      BY <1>3, <3>1 DEF Sent
    <3> QED BY <3>1, <3>2, <3>3 DEF OrderInv, Sent
  <2>6. HandInv'
    BY <1>1, <1>2, <1>3, <1>5 DEF HandInv
  <2>7. DeviceInv'
    BY <1>3, <1>5, <2>1, <2>2 DEF DeviceInv
  <2> QED BY <2>5, <2>6, <2>7
<1> QED BY <1>3, <1>6, <1>7 DEF IdentityInv

(* The claim counts, field by field, the records that have it.             *)
LEMMA SyncIdentity ==
    ASSUME RecInv, IdentityInv, SyncRecord
    PROVE  IdentityInv'
<1>1. /\ UNCHANGED <<tool, boot, next, line, appended, summary>>
      /\ tool = "capture_cs" /\ pc = "written" /\ pc' \in {"summary", "read"}
  BY DEF SyncRecord, AppendSynced, setting, device
<1>2. OrderInv /\ HandInv /\ DeviceInv
  BY <1>1 DEF IdentityInv
<1>3. SummaryInv'
  BY <1>1 DEF IdentityInv, SummaryInv
<1>4. OrderInv'
  BY <1>1, <1>2 DEF OrderInv, Sent
<1>5. HandInv'
  BY <1>1 DEF HandInv
<1>6. DeviceInv'
  <2>1. /\ count'.captured = count.captured + 1
        /\ \A f \in Identity :
              count'.device[f] = count.device[f] + (IF f \in line.fields THEN 1 ELSE 0)
    BY SyncCounts
  <2>2. count.captured \in Nat /\ \A f \in Identity : count.device[f] \in Nat
    BY DEF RecInv, TypeInv, Counts
  <2>3. Len(appended) = count.captured + 1
    BY <1>1 DEF RecInv, CaptureInv, CountInv
  <2>4. appended[count.captured + 1].fields = line.fields
    BY <1>1, <1>2, <2>3 DEF HandInv
  <2>5. ASSUME NEW f \in Identity
        PROVE  /\ count'.device[f] <= count'.captured
               /\ count'.device[f] = count'.captured =>
                     \A k \in 1 .. count'.captured : f \in appended'[k].fields
    <3>1. /\ count'.device[f] = count.device[f] + (IF f \in line.fields THEN 1 ELSE 0)
          /\ count.device[f] \in Nat /\ count.device[f] <= count.captured
          /\ count.device[f] = count.captured =>
                \A k \in 1 .. count.captured : f \in appended[k].fields
      BY <1>2, <2>1, <2>2 DEF DeviceInv
    <3>2. count'.device[f] <= count'.captured
      BY <2>1, <2>2, <3>1
    <3>3. count'.device[f] = count'.captured =>
             count.device[f] = count.captured /\ f \in line.fields
      BY <2>1, <2>2, <3>1
    <3>4. \A k \in 1 .. count.captured + 1 : k \in 1 .. count.captured \/ k = count.captured + 1
      BY <2>2
    <3> QED BY <1>1, <2>1, <2>4, <3>1, <3>2, <3>3, <3>4
  <2> QED BY <2>5 DEF DeviceInv
<1> QED BY <1>1, <1>3, <1>4, <1>5, <1>6 DEF IdentityInv

(* The summary claims what has been counted.                               *)
LEMMA SummaryIdentity ==
    ASSUME RecInv, IdentityInv, Summarize
    PROVE  IdentityInv'
<1>1. /\ UNCHANGED <<tool, boot, next, line, appended, count, file>>
      /\ pc = "summary" /\ pc' = "done"
      /\ summary' = "complete" => \A f \in Identity : count.device[f] = count.captured
  BY DEF Summarize, SourceIdentityComplete, setting, device, ghosts, disk
<1>2. tool = "capture_cs"
  BY <1>1 DEF RecInv, TypeInv, IdentityInv, SummaryInv, Settled
<1>3. Len(file) <= count.captured
  <2>1. Len(file) = count.captured
    BY <1>1, <1>2 DEF RecInv, CaptureInv, CountInv, Settled
  <2>2. count.captured \in Nat
    BY DEF RecInv, TypeInv, Counts
  <2> QED BY <2>1, <2>2
<1>4. SummaryInv'
  BY <1>1, <1>2, <1>3 DEF SummaryInv
<1>5. OrderInv /\ HandInv /\ DeviceInv
  BY <1>2 DEF IdentityInv
<1>6. OrderInv' /\ HandInv' /\ DeviceInv'
  <2>1. OrderInv'
    BY <1>1, <1>5 DEF OrderInv, Sent
  <2>2. HandInv'
    BY <1>1 DEF HandInv
  <2>3. DeviceInv'
    BY <1>1, <1>5 DEF DeviceInv
  <2> QED BY <2>1, <2>2, <2>3
<1> QED BY <1>4, <1>6 DEF IdentityInv

(* Other steps of the capture, and the machine's, claim nothing new.       *)
LEMMA QuietIdentity ==
    ASSUME RecInv, IdentityInv,
           \/ CreateManifest \/ WriteManifest \/ WriteSidecar
           \/ SyncRaw \/ SkipLine \/ RejectRange \/ EndOfStream \/ Kill \/ LosePower
           \/ SyncFails \/ UNCHANGED recordingVars
    PROVE  IdentityInv'
<1>1. CASE CreateManifest \/ WriteManifest \/ WriteSidecar
  <2>1. UNCHANGED <<tool, boot, next, line, appended, summary, count, file>>
    BY <1>1 DEF CreateManifest, WriteManifest, WriteSidecar, Sealing, setting, device, ghosts, disk
  <2>2. /\ pc \notin {"done", "flushed", "parse"}
        /\ pc' \in {"manifest", "sidecar", "open", "read"} /\ (pc' = "read" => tool # "events")
    BY <1>1 DEF CreateManifest, WriteManifest, WriteSidecar
  <2> QED BY <2>1, <2>2, IdentityStays DEF Settled
<1>2. CASE SyncRaw
  <2>1. UNCHANGED <<tool, boot, next, line, appended, summary, count, file>>
        /\ pc = "flushed" /\ pc' = "parse"
    BY <1>2 DEF SyncRaw, Unwritten, setting, device, ghosts, disk
  <2>2. tool # "events"
    BY <2>1 DEF IdentityInv, SummaryInv, Settled
  <2> QED BY <2>1, <2>2, IdentityStays
<1>3. CASE SkipLine \/ RejectRange \/ EndOfStream \/ Kill
  <2>1. UNCHANGED <<tool, boot, next, line, appended, summary, file>>
    BY <1>3 DEF SkipLine, RejectRange, EndOfStream, Kill, Unwritten, setting, device, ghosts, disk
  <2>2. count'.captured = count.captured /\ count'.device = count.device
    BY <1>3, MoveCounts
  <2>3. /\ pc # "done"
        /\ pc' \in {"read", "summary", "aborted", "dead"}
        /\ pc' \in {"read", "summary"} => pc \in Settled
    BY <1>3 DEF SkipLine, RejectRange, EndOfStream, Kill, Running, Settled
  <2>4. tool = "events" => pc' \notin Settled
    BY <2>3 DEF IdentityInv, SummaryInv, Settled
  <2> QED BY <2>1, <2>2, <2>3, <2>4, IdentityStays
<1>4. CASE LosePower
  <2>1. UNCHANGED <<tool, boot, next, line, appended, summary, count>>
    BY <1>4 DEF LosePower, setting, device, ghosts
  <2>2. pc' \in {"dead", "done", "aborted"} /\ (pc = "done" => pc' = "done")
    BY <1>4 DEF LosePower, Running
  <2>3. Len(file') <= Len(file) /\ Len(file') \in Nat /\ Len(file) \in Nat
    BY <1>4, PrefixLeft, LenProperties DEF RecInv, TypeInv
  <2>4. SummaryInv'
    <3>1. count.captured \in Nat
      BY DEF RecInv, TypeInv, Counts
    <3> QED BY <2>1, <2>2, <2>3, <3>1 DEF IdentityInv, SummaryInv, Settled
  <2>5. ASSUME tool = "capture_cs"
        PROVE  OrderInv' /\ HandInv' /\ DeviceInv'
    <3>1. OrderInv /\ DeviceInv
      BY <2>5 DEF IdentityInv
    <3>2. OrderInv'
      BY <2>1, <3>1 DEF OrderInv, Sent
    <3>3. HandInv'
      BY <2>2 DEF HandInv
    <3>4. DeviceInv'
      BY <2>1, <3>1 DEF DeviceInv
    <3> QED BY <3>2, <3>3, <3>4
  <2> QED BY <2>1, <2>4, <2>5 DEF IdentityInv
<1>5. CASE SyncFails
  <2>1. UNCHANGED <<tool, boot, next, line, appended, summary, count, file>>
        /\ pc = "written" /\ pc' \in {"open", "aborted"}
    BY <1>5 DEF SyncFails, AfterException, setting, device, ghosts
  <2> QED BY <2>1, IdentityStays DEF Settled
<1>6. CASE UNCHANGED recordingVars
  <2>1. UNCHANGED <<tool, boot, next, line, appended, summary, count, file, pc>>
    BY <1>6 DEF recordingVars, setting, device, ghosts, disk
  <2> QED BY <2>1 DEF IdentityInv, SummaryInv, OrderInv, HandInv, DeviceInv, Sent
<1> QED BY <1>1, <1>2, <1>3, <1>4, <1>5, <1>6

(* A run of events never claims the identity of a device.                  *)
LEMMA EventsIdentity ==
    ASSUME RecInv, IdentityInv, RecordEvent \/ SyncEvent \/ StartReplay \/ Replay
    PROVE  IdentityInv'
<1>1. tool = "events" /\ UNCHANGED <<tool, summary>>
  <2>1. CASE RecordEvent
    BY <2>1 DEF RecordEvent, WriteRecord, RecInv, CaptureInv, setting
  <2>2. CASE SyncEvent
    BY <2>2 DEF SyncEvent, AppendSynced, setting
  <2>3. CASE StartReplay \/ Replay
    <3>1. Replay => reader = "reading"
      BY DEF Replay, ReplayNext, Fail, QuarantineLine, PassOver, ReplayInput, RefuseFraction,
             ReadAgain, Compare, Reading
    <3>2. tool = "events"
      BY <2>3, <3>1 DEF StartReplay, RecInv, CaptureInv, TypeInv
    <3> QED BY <2>3, <3>2 DEF StartReplay, Replay, Writing, setting
  <2> QED BY <2>1, <2>2, <2>3
<1>2. pc' \notin Settled
  <2>1. CASE RecordEvent
    BY <2>1 DEF RecordEvent, WriteRecord, AfterShortWrite, AfterException, Settled
  <2>2. CASE SyncEvent
    BY <2>2 DEF SyncEvent, Settled
  <2>3. CASE StartReplay \/ Replay
    BY <1>1, <2>3 DEF StartReplay, Replay, Writing, IdentityInv, SummaryInv
  <2> QED BY <2>1, <2>2, <2>3
<1> QED BY <1>1, <1>2 DEF IdentityInv, SummaryInv

(* Every step keeps the order of what is recorded and the claim about it.  *)
LEMMA NextIdentity == RecInv /\ IdentityInv /\ [RecordingNext]_recordingVars => IdentityInv'
<1> SUFFICES ASSUME RecInv, IdentityInv, [RecordingNext]_recordingVars PROVE IdentityInv'
  OBVIOUS
<1>1. CASE Reboot \/ DropLine
  BY <1>1, DeviceIdentity
<1>2. CASE ReadLine
  BY <1>2, ReadIdentity
<1>3. CASE AppendRecord
  BY <1>3, AppendIdentity
<1>4. CASE SyncRecord
  BY <1>4, SyncIdentity
<1>5. CASE Summarize
  BY <1>5, SummaryIdentity
<1>6. CASE \/ CreateManifest \/ WriteManifest \/ WriteSidecar
           \/ SyncRaw \/ SkipLine \/ RejectRange \/ EndOfStream \/ Kill \/ LosePower
           \/ SyncFails \/ UNCHANGED recordingVars
  BY <1>6, QuietIdentity
<1>7. CASE RecordEvent \/ SyncEvent \/ StartReplay \/ Replay
  BY <1>7, EventsIdentity
<1> QED BY <1>1, <1>2, <1>3, <1>4, <1>5, <1>6, <1>7 DEF RecordingNext

-----------------------------------------------------------------------------
(* Reading back a run that calls its identity complete.                    *)

Sorted ==
    \A i \in 1 .. Len(file) :
        /\ RecordAt(i) \in RangeRecords /\ RecordAt(i).fields = Identity
        /\ \A j \in 1 .. Len(file) : i < j => Earlier(RecordAt(i), RecordAt(j))

(* Its records are the device's own, in the order of measurement.          *)
LEMMA CompleteSorted ==
    ASSUME RecInv, IdentityInv, summary = "complete"
    PROVE  Sorted /\ \A i \in Readable : \A l \in 1 .. i : l \in Readable
<1>1. /\ tool = "capture_cs" /\ Len(file) <= count.captured
      /\ \A f \in Identity : count.device[f] = count.captured
  BY DEF RecInv, TypeInv, IdentityInv, SummaryInv
<1>2. FileInv /\ OrderInv /\ DeviceInv
  BY <1>1 DEF RecInv, CaptureInv, IdentityInv
<1>3. /\ file \in Seq(Lines) /\ Len(file) \in Nat /\ DOMAIN file = 1 .. Len(file)
      /\ Len(appended) \in Nat /\ count.captured \in Nat
  BY LenProperties DEF RecInv, TypeInv, Counts
<1>4. \A i \in 1 .. Len(file) : Len(file[i].recs) = 1 /\ RecordAt(i) = appended[i]
  <2>1. \A x : Len(<<x>>) = 1 /\ <<x>>[1] = x
    OBVIOUS
  <2>2. \A i \in 1 .. Len(file) : file[i].recs = <<appended[i]>>
    BY <1>2 DEF FileInv
  <2> QED BY <2>1, <2>2 DEF RecordAt
<1>5. \A i \in 1 .. Len(file) : i \in 1 .. Len(appended) /\ i \in 1 .. count.captured
  BY <1>1, <1>2, <1>3 DEF FileInv
<1>6. ASSUME NEW i \in 1 .. Len(file)
      PROVE  RecordAt(i).fields = Identity
  <2>1. \A f \in Identity : f \in appended[i].fields
    BY <1>1, <1>2, <1>5 DEF DeviceInv
  <2>2. appended[i].fields \in SUBSET Identity
    BY <1>2, <1>5 DEF OrderInv, RangeRecords
  <2> QED BY <1>4, <2>1, <2>2
<1>7. Sorted
  BY <1>2, <1>4, <1>5, <1>6 DEF Sorted, OrderInv
<1>8. ASSUME NEW i \in Readable, NEW l \in 1 .. i
      PROVE  l \in Readable
  <2>1. i \in 1 .. Len(file) /\ l \in 1 .. Len(file)
    BY <1>3 DEF Readable
  <2>2. CASE l = i
    BY <2>2
  <2>3. CASE l # i
    <3>1. l < Len(file)
      BY <1>3, <2>1, <2>3
    <3>2. Whole(file[l])
      BY <1>2, <2>1, <3>1 DEF FileInv
    <3> QED BY <1>3, <1>4, <2>1, <3>2 DEF Readable, Parses, Whole
  <2> QED BY <2>2, <2>3
<1> QED BY <1>7, <1>8

(* The tracker as an equation, and what it comes to in a sorted file.      *)
Tracks(f) ==
    f = [k \in 0 .. Len(file) |->
           IF k = 0 THEN [boot |-> Fallback, last |-> 0]
           ELSE LET r == RecordAt(k)
                IN  IF k > 1 /\ f[k - 1].boot = r.boot /\ f[k - 1].last > r.seq
                    THEN f[k - 1] ELSE [boot |-> r.boot, last |-> r.seq]]

Follow(k) == IF k = 0 THEN [boot |-> Fallback, last |-> 0]
             ELSE [boot |-> RecordAt(k).boot, last |-> RecordAt(k).seq]

(* In a sorted file the tracker always remembers the record before.        *)
LEMMA TrackerFollows ==
    ASSUME RecInv, Sorted
    PROVE  \A k \in 1 .. Len(file) :
              Tracker[k] = [boot |-> RecordAt(k).boot, last |-> RecordAt(k).seq]
<1>1. Len(file) \in Nat
  BY LenProperties DEF RecInv, TypeInv
<1>2. \A k \in 1 .. Len(file) : k > 1 =>
         ~(Follow(k - 1).boot = RecordAt(k).boot /\ Follow(k - 1).last > RecordAt(k).seq)
  <2> SUFFICES ASSUME NEW k \in 1 .. Len(file), k > 1
               PROVE  ~(Follow(k - 1).boot = RecordAt(k).boot
                        /\ Follow(k - 1).last > RecordAt(k).seq)
    OBVIOUS
  <2>1. k - 1 \in 1 .. Len(file) /\ k - 1 < k /\ k - 1 # 0
    BY <1>1
  <2>2. Earlier(RecordAt(k - 1), RecordAt(k))
    BY <2>1 DEF Sorted
  <2>3. /\ RecordAt(k - 1).boot \in Nat /\ RecordAt(k - 1).seq \in Nat
        /\ RecordAt(k).boot \in Nat /\ RecordAt(k).seq \in Nat
    BY <2>1 DEF Sorted, RangeRecords
  <2>4. Follow(k - 1).boot = RecordAt(k - 1).boot /\ Follow(k - 1).last = RecordAt(k - 1).seq
    BY <2>1 DEF Follow
  <2> QED BY <2>2, <2>3, <2>4 DEF Earlier
<1> DEFINE g == [k \in 0 .. Len(file) |-> Follow(k)]
<1>3. Tracks(g)
  <2>1. ASSUME NEW k \in 0 .. Len(file)
        PROVE  Follow(k) = IF k = 0 THEN [boot |-> Fallback, last |-> 0]
                           ELSE LET r == RecordAt(k)
                                IN  IF k > 1 /\ g[k - 1].boot = r.boot /\ g[k - 1].last > r.seq
                                    THEN g[k - 1] ELSE [boot |-> r.boot, last |-> r.seq]
    <3>1. CASE k = 0
      BY <3>1 DEF Follow
    <3>2. CASE k # 0
      <4>1. k \in 1 .. Len(file) /\ k - 1 \in 0 .. Len(file)
        BY <1>1, <3>2
      <4>2. g[k - 1] = Follow(k - 1)
        BY <4>1
      <4>3. ~(k > 1 /\ g[k - 1].boot = RecordAt(k).boot /\ g[k - 1].last > RecordAt(k).seq)
        BY <1>2, <4>1, <4>2
      <4>4. Follow(k) = [boot |-> RecordAt(k).boot, last |-> RecordAt(k).seq]
        BY <3>2 DEF Follow
      <4> HIDE DEF g
      <4> QED BY <3>2, <4>3, <4>4
    <3> QED BY <3>1, <3>2
  <2> QED BY <2>1 DEF Tracks
<1>4. Tracker = CHOOSE f : Tracks(f)
  BY DEF Tracker, Tracks
<1>5. Tracks(Tracker)
  <2> HIDE DEF g
  <2> QED BY <1>3, <1>4
<1> DEFINE S == {n \in Nat : n <= Len(file) => Tracker[n] = Follow(n)}
<1>6. ASSUME NEW n \in 0 .. Len(file)
      PROVE  Tracker[n] = IF n = 0 THEN [boot |-> Fallback, last |-> 0]
                          ELSE LET r == RecordAt(n)
                               IN  IF n > 1 /\ Tracker[n - 1].boot = r.boot
                                            /\ Tracker[n - 1].last > r.seq
                                   THEN Tracker[n - 1] ELSE [boot |-> r.boot, last |-> r.seq]
  BY <1>5 DEF Tracks
<1>7. 0 \in S
  <2>1. Tracker[0] = Follow(0)
    <3>1. 0 \in 0 .. Len(file)
      BY <1>1
    <3>2. Tracker[0] = [boot |-> Fallback, last |-> 0]
      BY <1>6, <3>1
    <3> QED BY <3>2 DEF Follow
  <2> QED BY <2>1
<1>8. \A n \in S : n + 1 \in S
  <2> SUFFICES ASSUME NEW n \in Nat, n <= Len(file) => Tracker[n] = Follow(n), n + 1 <= Len(file)
               PROVE  Tracker[n + 1] = Follow(n + 1)
    OBVIOUS
  <2>1. n + 1 \in 1 .. Len(file) /\ (n + 1) - 1 = n /\ n + 1 \in 0 .. Len(file) /\ n + 1 # 0
    BY <1>1
  <2>2. Tracker[n] = Follow(n)
    BY <1>1
  <2>3. ~(n + 1 > 1 /\ Tracker[n].boot = RecordAt(n + 1).boot
                    /\ Tracker[n].last > RecordAt(n + 1).seq)
    BY <1>2, <2>1, <2>2
  <2>4. Tracker[n + 1] = [boot |-> RecordAt(n + 1).boot, last |-> RecordAt(n + 1).seq]
    BY <1>6, <2>1, <2>3
  <2> QED BY <2>1, <2>4 DEF Follow
<1>9. S = Nat
  <2> HIDE DEF S
  <2>1. S \subseteq Nat
    BY DEF S
  <2> QED BY <1>7, <1>8, <2>1, AllNaturals
<1> QED
  <2> SUFFICES ASSUME NEW k \in 1 .. Len(file)
               PROVE  Tracker[k] = [boot |-> RecordAt(k).boot, last |-> RecordAt(k).seq]
    OBVIOUS
  <2>1. k \in S /\ k <= Len(file) /\ k # 0
    BY <1>1, <1>9
  <2> QED BY <2>1 DEF Follow

(* Where the tracker finds nothing, a boot is recorded without a gap.      *)
LEMMA NoGap ==
    ASSUME RecInv, Sorted,
           \A i \in Readable : \A l \in 1 .. i : l \in Readable,
           \A i \in Readable : OrderingClean(i),
           NEW i \in Readable, NEW j \in Readable, i <= j, RecordAt(i).boot = RecordAt(j).boot
    PROVE  \A d \in 0 .. j - i : /\ RecordAt(i + d).boot = RecordAt(i).boot
                                 /\ RecordAt(i + d).seq = RecordAt(i).seq + d
<1>1. Len(file) \in Nat /\ Readable \subseteq 1 .. Len(file)
  BY LenProperties DEF RecInv, TypeInv, Readable
<1>2. \A k \in i .. j : k \in Readable /\ k \in 1 .. Len(file)
  BY <1>1
<1>3. \A k \in i .. j : RecordAt(k).boot \in Nat /\ RecordAt(k).seq \in Nat
  BY <1>2 DEF Sorted, RangeRecords
<1>4. ASSUME NEW k \in i .. j
      PROVE  RecordAt(k).boot = RecordAt(i).boot
  <2>1. i \in i .. j /\ j \in i .. j /\ i \in Nat /\ j \in Nat /\ k \in Nat
    BY <1>1
  <2>2. k = i \/ Earlier(RecordAt(i), RecordAt(k))
    BY <1>2, <2>1 DEF Sorted
  <2>3. k = j \/ Earlier(RecordAt(k), RecordAt(j))
    BY <1>2, <2>1 DEF Sorted
  <2> QED BY <1>3, <2>1, <2>2, <2>3 DEF Earlier
<1> DEFINE S == {d \in Nat : d <= j - i => RecordAt(i + d).seq = RecordAt(i).seq + d}
<1>5. 0 \in S
  <2>1. i \in i .. j /\ i + 0 = i
    BY <1>1
  <2> QED BY <1>3, <2>1
<1>6. \A d \in S : d + 1 \in S
  <2> SUFFICES ASSUME NEW d \in Nat, d <= j - i => RecordAt(i + d).seq = RecordAt(i).seq + d,
                      d + 1 <= j - i
               PROVE  RecordAt(i + (d + 1)).seq = RecordAt(i).seq + (d + 1)
    OBVIOUS
  <2> DEFINE k == i + (d + 1)
  <2>1. k \in i .. j /\ k - 1 \in i .. j /\ k - 1 = i + d /\ k # 1 /\ d <= j - i
    BY <1>1
  <2> HIDE DEF k
  <2>2. Tracker[k - 1] = [boot |-> RecordAt(k - 1).boot, last |-> RecordAt(k - 1).seq]
    BY <1>2, <2>1, TrackerFollows
  <2>3. OrderingClean(k)
    BY <1>2, <2>1
  <2>4. RecordAt(k - 1).boot = RecordAt(k).boot
    BY <1>4, <2>1
  <2>5. RecordAt(k).seq = RecordAt(k - 1).seq + 1
    BY <2>1, <2>2, <2>3, <2>4 DEF OrderingClean
  <2>6. RecordAt(k - 1).seq = RecordAt(i).seq + d /\ RecordAt(i).seq \in Nat
    <3>1. i \in i .. j
      BY <1>1
    <3> QED BY <1>3, <2>1, <3>1
  <2>7. RecordAt(k).seq = RecordAt(i).seq + (d + 1)
    BY <2>5, <2>6
  <2> QED BY <2>7 DEF k
<1>7. S = Nat
  <2> HIDE DEF S
  <2>1. S \subseteq Nat
    BY DEF S
  <2> QED BY <1>5, <1>6, <2>1, AllNaturals
<1> QED
  <2> SUFFICES ASSUME NEW d \in 0 .. j - i
               PROVE  /\ RecordAt(i + d).boot = RecordAt(i).boot
                      /\ RecordAt(i + d).seq = RecordAt(i).seq + d
    OBVIOUS
  <2>1. d \in Nat /\ d <= j - i /\ i + d \in i .. j
    BY <1>1
  <2>2. d \in S
    BY <1>7, <2>1
  <2> QED BY <1>4, <2>1, <2>2

(* A run whose summary calls its identity complete has its device's own    *)
(* records only, each under an id of its own, and none missing between two *)
(* of a boot when the tracker is content: for any number of boots, lost    *)
(* and foreign lines, failures and power losses.                           *)
THEOREM CompleteRunsTrusted == RecordingSpec => []CompleteIsTrustworthy
<1>1. RecInv /\ IdentityInv => CompleteIsTrustworthy
  <2> SUFFICES ASSUME RecInv, IdentityInv, summary = "complete"
               PROVE  CompleteIsTrustworthy
    BY DEF CompleteIsTrustworthy
  <2> DEFINE Key(i) == <<RecordAt(i).boot, RecordAt(i).seq>>
  <2>1. Sorted /\ \A i \in Readable : \A l \in 1 .. i : l \in Readable
    BY CompleteSorted
  <2>2. Len(file) \in Nat /\ Readable \subseteq 1 .. Len(file)
    BY LenProperties DEF RecInv, TypeInv, Readable
  <2>3. \A i \in Readable : /\ RecordAt(i).fields = Identity
                            /\ RecordAt(i).boot \in Nat /\ RecordAt(i).seq \in Nat
    BY <2>1, <2>2 DEF Sorted, RangeRecords
  <2>4. \A i, j \in Readable : i < j => Earlier(RecordAt(i), RecordAt(j))
    BY <2>1, <2>2 DEF Sorted
  <2>5. ASSUME NEW i \in Readable, NEW j \in Readable, i # j
        PROVE  Key(i) # Key(j)
    <3>1. i < j \/ j < i
      BY <2>2, <2>5
    <3>2. Earlier(RecordAt(i), RecordAt(j)) \/ Earlier(RecordAt(j), RecordAt(i))
      BY <2>4, <3>1
    <3> QED BY <2>3, <3>2 DEF Earlier
  <2>6. ASSUME \A i \in Readable : OrderingClean(i),
               NEW i \in Readable, NEW j \in Readable,
               NEW n \in Key(i)[2] .. Key(j)[2], Key(i)[1] = Key(j)[1]
        PROVE  \E k \in Readable : Key(k) = <<Key(i)[1], n>>
    <3>1. /\ RecordAt(i).boot = RecordAt(j).boot
          /\ n \in Nat /\ RecordAt(i).seq <= n /\ n <= RecordAt(j).seq
      BY <2>3, <2>6
    <3>2. i <= j
      <4>1. ~Earlier(RecordAt(j), RecordAt(i))
        BY <2>3, <3>1 DEF Earlier
      <4> QED BY <2>2, <2>4, <4>1
    <3>3. \A d \in 0 .. j - i : /\ RecordAt(i + d).boot = RecordAt(i).boot
                                /\ RecordAt(i + d).seq = RecordAt(i).seq + d
      BY <2>1, <2>6, <3>1, <3>2, NoGap
    <3>4. RecordAt(j).seq = RecordAt(i).seq + (j - i)
      <4>1. j - i \in 0 .. j - i /\ i + (j - i) = j
        BY <2>2, <3>2
      <4> QED BY <3>3, <4>1
    <3> DEFINE d == n - RecordAt(i).seq
    <3>5. d \in 0 .. j - i /\ i + d \in 1 .. j /\ RecordAt(i).seq + d = n
      BY <2>2, <2>3, <3>1, <3>2, <3>4
    <3> HIDE DEF d
    <3>6. i + d \in Readable /\ RecordAt(i + d).boot = RecordAt(i).boot /\ RecordAt(i + d).seq = n
      BY <2>1, <3>3, <3>5
    <3>7. Key(i + d) = <<Key(i)[1], n>>
      BY <3>6
    <3> QED BY <3>6, <3>7
  <2> HIDE DEF Key
  <2>7. /\ \A i \in Readable : RecordAt(i).fields = Identity
        /\ \A i, j \in Readable : i # j => Key(i) # Key(j)
        /\ (\A i \in Readable : OrderingClean(i)) =>
             \A i, j \in Readable : \A n \in Key(i)[2] .. Key(j)[2] :
                Key(i)[1] = Key(j)[1] => \E k \in Readable : Key(k) = <<Key(i)[1], n>>
    BY <2>3, <2>5, <2>6
  <2> QED BY <2>7 DEF CompleteIsTrustworthy, Key
<1>2. RecordingSpec => []IdentityInv
  <2>1. RecordingInit => IdentityInv
    BY InitIdentity
  <2>2. RecInv /\ IdentityInv /\ [RecordingNext]_recordingVars => IdentityInv'
    BY NextIdentity
  <2> QED BY <2>1, <2>2, RecordingInvariance, PTL DEF RecordingSpec
<1> QED BY <1>1, <1>2, RecordingInvariance, PTL

-----------------------------------------------------------------------------
(* What a recorder and a replay hold.                                      *)

(* A line for each of these appends among the first n lines: its own, or   *)
(* one that no reader accepts.                                             *)
Ends(f, n, ks, taken) ==
    \A k \in ks : \E i \in 1 .. n :
        f[i].ended /\ (Parses(f[i]) => f[i].recs = <<taken[k]>>)

AckInv ==
    tool = "events" =>
        /\ pc \in Before \cup {"open", "written", "dead"} /\ (Running => power)
        /\ acked \subseteq 1 .. Len(appended)
        /\ \A i \in 1 .. Len(file) : file[i].recs # <<>>
        /\ power => Ends(file, Len(file), acked, appended)
        /\ fsync => Ends(file, fileSynced, acked, appended)
        /\ pc = "written" =>
              /\ Len(appended) > 0 /\ Len(file) > 0
              /\ file[Len(file)].ended
              /\ Parses(file[Len(file)]) => file[Len(file)].recs = <<appended[Len(appended)]>>

HasLines(f, ks, taken) ==
    \A k \in ks : \E i \in DOMAIN f : Parses(f[i]) /\ f[i].recs = <<taken[k]>>

(* Nothing fatal among the lines before the n-th.                          *)
ReadUpTo(f, n) == \A i \in 1 .. Len(f) : i < n => Parses(f[i]) \/ Tolerated(f, i)

DueInv ==
    /\ snapshot \in Seq(Lines) /\ at \in Nat /\ due \subseteq 1 .. Len(appended)
    /\ reader = "idle" => first = NoReport
    /\ reader = "reading" =>
          /\ ReadUpTo(snapshot, at)
          /\ first = NoReport /\ Durable => Ends(snapshot, Len(snapshot), due, appended)
          /\ first # NoReport =>
                /\ first[2] \in Seq(Lines)
                /\ Durable => HasLines(first[2], due, appended)
    /\ Reported /\ Durable => HasLines(snapshot, due, appended)


(* What an append of a record makes of a file: ended lines stay, and the   *)
(* last line is the record's own or no reader accepts it.                  *)
LEMMA AppendToLines ==
    ASSUME NEW f \in Seq(Lines), NEW r \in Records, NEW cut \in BOOLEAN, NEW ended \in BOOLEAN,
           \A i \in 1 .. Len(f) : f[i].recs # <<>>
    PROVE  LET g == AppendTo(f, r, cut, ended) IN
           /\ g \in Seq(Lines) /\ Len(f) <= Len(g) /\ Len(g) > 0
           /\ \A i \in 1 .. Len(f) : f[i].ended => g[i] = f[i]
           /\ \A i \in 1 .. Len(g) : g[i].recs # <<>>
           /\ g[Len(g)].ended = ended
           /\ Parses(g[Len(g)]) => g[Len(g)].recs = <<r>>
<1> DEFINE g == AppendTo(f, r, cut, ended)
<1>0. Len(f) \in Nat
  BY LenProperties
<1>1. CASE f # <<>> /\ ~Last(f).ended
  <2>1. Len(f) \in 1 .. Len(f)
    BY <1>1, EmptySeq, LenProperties
  <2>2. f[Len(f)] \in Lines
    BY <2>1, ElementOfSeq
  <2>3. f[Len(f)].recs \in Seq(Records) /\ f[Len(f)].cut \in BOOLEAN /\ ~f[Len(f)].ended
    BY <1>1, <2>2 DEF Lines, Last
  <2> DEFINE recs == Append(f[Len(f)].recs, r)
             e == Entry(recs, f[Len(f)].cut \/ cut, ended)
  <2>4. recs \in Seq(Records) /\ Len(recs) = Len(f[Len(f)].recs) + 1
    BY <2>3, AppendProperties
  <2>5. Len(f[Len(f)].recs) \in Nat /\ Len(f[Len(f)].recs) # 0
    BY <2>1, <2>3, EmptySeq, LenProperties
  <2>6. Len(recs) # 1 /\ Len(recs) # 0
    BY <2>4, <2>5
  <2>7. recs # <<>>
    BY <2>4, <2>6, EmptySeq
  <2> HIDE DEF recs
  <2>8. e \in Lines /\ e.recs = recs /\ e.ended = ended /\ ~Parses(e)
    BY <2>3, <2>4, <2>6 DEF Entry, Lines, Parses
  <2>9. g = [f EXCEPT ![Len(f)] = e]
    BY <1>1, <2>1 DEF AppendTo, recs
  <2> HIDE DEF e, g
  <2>10. g \in Seq(Lines) /\ Len(g) = Len(f)
    BY <2>1, <2>8, <2>9, ExceptSeq
  <2>11. g[Len(f)] = e /\ \A i \in 1 .. Len(f) : i # Len(f) => g[i] = f[i]
    BY <2>1, <2>9, ExceptSeq
  <2>12. \A i \in 1 .. Len(f) : f[i].ended => g[i] = f[i]
    BY <2>3, <2>11
  <2>13. \A i \in 1 .. Len(g) : g[i].recs # <<>>
    BY <2>7, <2>8, <2>10, <2>11
  <2>14. Len(f) <= Len(g) /\ Len(g) > 0
    BY <1>0, <2>1, <2>10
  <2>15. g[Len(g)].ended = ended /\ ~Parses(g[Len(g)])
    BY <2>8, <2>10, <2>11
  <2> QED BY <2>10, <2>12, <2>13, <2>14, <2>15 DEF g
<1>2. CASE ~(f # <<>> /\ ~Last(f).ended)
  <2> DEFINE e == Entry(<<r>>, cut, ended)
  <2>1. e \in Lines /\ e.recs = <<r>> /\ e.ended = ended
    BY DEF Entry, Lines
  <2>2. g = Append(f, e)
    BY <1>2 DEF AppendTo
  <2>3. <<r>> # <<>>
    <3>1. Len(<<r>>) = 1 /\ Len(<<>>) = 0
      OBVIOUS
    <3> QED BY <3>1
  <2> HIDE DEF e, g
  <2>4. g \in Seq(Lines) /\ Len(g) = Len(f) + 1 /\ g[Len(f) + 1] = e
        /\ \A i \in 1 .. Len(f) : g[i] = f[i]
    BY <2>1, <2>2, AppendProperties
  <2>5. \A i \in 1 .. Len(g) : i \in 1 .. Len(f) \/ i = Len(f) + 1
    BY <1>0, <2>4
  <2>6. \A i \in 1 .. Len(g) : g[i].recs # <<>>
    BY <2>1, <2>3, <2>4, <2>5
  <2>7. Len(f) <= Len(g) /\ Len(g) > 0
    BY <1>0, <2>4
  <2>8. g[Len(g)].ended = ended /\ g[Len(g)].recs = <<r>>
    BY <2>1, <2>4
  <2> QED BY <2>4, <2>6, <2>7, <2>8 DEF g
<1> QED BY <1>1, <1>2

(* Lines that are ended and kept stay lines of their appends.              *)
LEMMA EndsKept ==
    ASSUME NEW f, NEW g, NEW n \in Nat, NEW m \in Nat, n <= m, NEW ks, NEW taken, NEW then,
           Ends(f, n, ks, taken),
           \A i \in 1 .. n : f[i].ended => g[i] = f[i],
           \A k \in ks : then[k] = taken[k]
    PROVE  Ends(g, m, ks, then)
<1> SUFFICES ASSUME NEW k \in ks
             PROVE  \E i \in 1 .. m : g[i].ended /\ (Parses(g[i]) => g[i].recs = <<then[k]>>)
  BY DEF Ends
<1>1. PICK i \in 1 .. n : f[i].ended /\ (Parses(f[i]) => f[i].recs = <<taken[k]>>)
  BY DEF Ends
<1>2. i \in 1 .. m /\ g[i] = f[i] /\ then[k] = taken[k]
  BY <1>1
<1> QED BY <1>1, <1>2

(* A new run has acknowledged nothing.                                     *)
LEMMA InitAck == RecordingInit => AckInv
<1> SUFFICES ASSUME RecordingInit PROVE AckInv
  OBVIOUS
<1>1. pc = "start" /\ power = TRUE /\ acked = {} /\ file = <<>>
  BY DEF RecordingInit, ReplayInit
<1>2. \A i \in 1 .. Len(file) : file[i].recs # <<>>
  BY <1>1
<1> QED BY <1>1, <1>2 DEF AckInv, Before, Ends

(* An append that has not returned is not owed a line, and the lines of    *)
(* those that have are ended.                                              *)
LEMMA AppendAck ==
    ASSUME RecInv, AckInv, RecordEvent
    PROVE  AckInv'
<1>1. pc = "open" /\ tool = "events"
  BY DEF RecordEvent, RecInv, CaptureInv
<1>2. PICK r \in Events : WriteRecord(r)
  BY DEF RecordEvent
<1>3. r \in Records
  BY DEF Records
<1>4. UNCHANGED <<tool, fsync, power, fileSynced, acked>> /\ appended' = Append(appended, r)
  BY <1>2 DEF WriteRecord, setting
<1>5. /\ file \in Seq(Lines) /\ fileSynced \in Nat /\ fileSynced <= Len(file)
      /\ appended \in Seq(Records) /\ Len(appended) \in Nat /\ Len(file) \in Nat
  BY LenProperties DEF RecInv, TypeInv
<1>6. /\ power /\ acked \subseteq 1 .. Len(appended)
      /\ \A i \in 1 .. Len(file) : file[i].recs # <<>>
      /\ Ends(file, Len(file), acked, appended)
      /\ fsync => Ends(file, fileSynced, acked, appended)
  BY <1>1 DEF AckInv, Running
<1>7. /\ Len(appended') = Len(appended) + 1 /\ appended'[Len(appended) + 1] = r
      /\ \A k \in 1 .. Len(appended) : appended'[k] = appended[k]
  BY <1>3, <1>4, <1>5, AppendProperties
<1>8. \/ pc' = "written" /\ file' = AppendTo(file, r, FALSE, TRUE)
      \/ pc' = "open" /\ file' = file
      \/ pc' = "open" /\ \E cut \in BOOLEAN : file' = AppendTo(file, r, cut, FALSE)
  BY <1>1, <1>2 DEF WriteRecord, AfterShortWrite, AfterException
<1>9. /\ file' \in Seq(Lines) /\ Len(file) <= Len(file')
      /\ \A i \in 1 .. Len(file) : file[i].ended => file'[i] = file[i]
      /\ \A i \in 1 .. Len(file') : file'[i].recs # <<>>
  <2>1. CASE file' = file
    BY <1>5, <1>6, <2>1
  <2>2. ASSUME NEW cut \in BOOLEAN, NEW ended \in BOOLEAN, file' = AppendTo(file, r, cut, ended)
        PROVE  /\ file' \in Seq(Lines) /\ Len(file) <= Len(file')
               /\ \A i \in 1 .. Len(file) : file[i].ended => file'[i] = file[i]
               /\ \A i \in 1 .. Len(file') : file'[i].recs # <<>>
    <3>1. file \in Seq(Lines) /\ \A i \in 1 .. Len(file) : file[i].recs # <<>>
      BY <1>5, <1>6
    <3> DEFINE g == AppendTo(file, r, cut, ended)
    <3>2. /\ g \in Seq(Lines) /\ Len(file) <= Len(g)
          /\ \A i \in 1 .. Len(file) : file[i].ended => g[i] = file[i]
          /\ \A i \in 1 .. Len(g) : g[i].recs # <<>>
      BY <1>3, <3>1, AppendToLines
    <3> HIDE DEF g
    <3>3. file' = g
      BY <2>2 DEF g
    <3> QED BY <3>2, <3>3
  <2> QED BY <1>8, <2>1, <2>2
<1>10. Len(file') \in Nat
  BY <1>9, LenProperties
<1>11. \A k \in acked : appended'[k] = appended[k]
  BY <1>6, <1>7
<1>12. Ends(file', Len(file'), acked, appended')
  <2> DEFINE n == Len(file)
             m == Len(file')
  <2>1. n \in Nat /\ m \in Nat /\ n <= m
    BY <1>5, <1>9, <1>10
  <2>2. Ends(file, n, acked, appended)
    BY <1>6
  <2>3. \A i \in 1 .. n : file[i].ended => file'[i] = file[i]
    BY <1>9
  <2> HIDE DEF n, m
  <2>4. Ends(file', m, acked, appended')
    BY <1>11, <2>1, <2>2, <2>3, EndsKept
  <2> QED BY <2>4 DEF m
<1>13. fsync => Ends(file', fileSynced, acked, appended')
  <2> SUFFICES ASSUME fsync PROVE Ends(file', fileSynced, acked, appended')
    OBVIOUS
  <2>1. \A i \in 1 .. fileSynced : i \in 1 .. Len(file)
    BY <1>5
  <2>2. fileSynced \in Nat /\ fileSynced <= fileSynced
    BY <1>5
  <2>3. Ends(file, fileSynced, acked, appended)
    BY <1>6
  <2>4. \A i \in 1 .. fileSynced : file[i].ended => file'[i] = file[i]
    BY <1>9, <2>1
  <2> QED BY <1>11, <2>2, <2>3, <2>4, EndsKept
<1>14. acked' \subseteq 1 .. Len(appended')
  BY <1>4, <1>5, <1>6, <1>7
<1>15. pc' = "written" =>
          /\ Len(appended') > 0 /\ Len(file') > 0
          /\ file'[Len(file')].ended
          /\ Parses(file'[Len(file')]) => file'[Len(file')].recs = <<appended'[Len(appended')]>>
  <2> SUFFICES ASSUME pc' = "written"
               PROVE  /\ Len(appended') > 0 /\ Len(file') > 0
                      /\ file'[Len(file')].ended
                      /\ Parses(file'[Len(file')]) =>
                           file'[Len(file')].recs = <<appended'[Len(appended')]>>
    OBVIOUS
  <2>1. file' = AppendTo(file, r, FALSE, TRUE)
    BY <1>8
  <2>2. /\ Len(file') > 0 /\ file'[Len(file')].ended
        /\ Parses(file'[Len(file')]) => file'[Len(file')].recs = <<r>>
    BY <1>3, <1>5, <1>6, <2>1, AppendToLines
  <2>3. Len(appended') > 0 /\ appended'[Len(appended')] = r
    BY <1>5, <1>7
  <2> QED BY <2>2, <2>3
<1>16. pc' \in {"open", "written"} /\ power'
  BY <1>4, <1>6, <1>8
<1> QED BY <1>4, <1>9, <1>12, <1>13, <1>14, <1>15, <1>16 DEF AckInv

(* The append that returns has its line.                                   *)
LEMMA SyncAck ==
    ASSUME RecInv, AckInv, SyncEvent
    PROVE  AckInv'
<1>1. /\ tool = "events" /\ pc = "written" /\ pc' = "open"
      /\ UNCHANGED <<tool, fsync, power, file, appended>>
      /\ fileSynced' = (IF fsync THEN Len(file) ELSE fileSynced)
      /\ acked' = acked \cup {Len(appended)}
  BY DEF SyncEvent, AppendSynced, setting
<1>2. Len(file) \in Nat /\ Len(appended) \in Nat
  BY LenProperties DEF RecInv, TypeInv
<1>3. /\ power /\ acked \subseteq 1 .. Len(appended)
      /\ \A i \in 1 .. Len(file) : file[i].recs # <<>>
      /\ Ends(file, Len(file), acked, appended)
      /\ Len(appended) > 0 /\ Len(file) > 0 /\ file[Len(file)].ended
      /\ Parses(file[Len(file)]) => file[Len(file)].recs = <<appended[Len(appended)]>>
  BY <1>1 DEF AckInv, Running
<1>4. Ends(file, Len(file), acked', appended)
  <2> SUFFICES ASSUME NEW k \in acked'
               PROVE  \E i \in 1 .. Len(file) :
                          file[i].ended /\ (Parses(file[i]) => file[i].recs = <<appended[k]>>)
    BY DEF Ends
  <2>1. CASE k \in acked
    BY <1>3, <2>1 DEF Ends
  <2>2. CASE k = Len(appended)
    <3>1. Len(file) \in 1 .. Len(file)
      BY <1>2, <1>3
    <3> QED BY <1>3, <2>2, <3>1
  <2> QED BY <1>1, <2>1, <2>2
<1>5. acked' \subseteq 1 .. Len(appended)
  <2>1. Len(appended) \in 1 .. Len(appended)
    BY <1>2, <1>3
  <2> QED BY <1>1, <1>3, <2>1
<1> QED BY <1>1, <1>3, <1>4, <1>5 DEF AckInv

(* A sync that raises owes nobody a line, and loses none.                  *)
LEMMA SyncFailsAck ==
    ASSUME RecInv, AckInv, SyncFails
    PROVE  AckInv'
<1> SUFFICES ASSUME tool' = "events" PROVE AckInv'
  BY DEF AckInv
<1>1. /\ tool = "events" /\ pc = "written" /\ pc' = "open" /\ fsync
      /\ UNCHANGED <<tool, fsync, power, file, appended, acked>>
      /\ fileSynced' \in fileSynced .. Len(file)
  BY DEF SyncFails, AfterException, setting, ghosts
<1>2. /\ power /\ acked \subseteq 1 .. Len(appended)
      /\ \A i \in 1 .. Len(file) : file[i].recs # <<>>
      /\ Ends(file, Len(file), acked, appended) /\ Ends(file, fileSynced, acked, appended)
  BY <1>1 DEF AckInv, Running
<1>3. fileSynced \in Nat /\ fileSynced' \in Nat /\ fileSynced <= fileSynced'
  <2>1. fileSynced \in Nat /\ Len(file) \in Nat
    BY LenProperties DEF RecInv, TypeInv
  <2> QED BY <1>1, <2>1
<1>4. Ends(file, fileSynced', acked, appended)
  <2> DEFINE m == fileSynced'
  <2>1. m \in Nat /\ fileSynced <= m
    BY <1>3
  <2> HIDE DEF m
  <2>2. Ends(file, m, acked, appended)
    BY <1>2, <1>3, <2>1, EndsKept
  <2> QED BY <2>2 DEF m
<1> QED BY <1>1, <1>2, <1>4 DEF AckInv

(* A power loss spares the lines that were synced.                         *)
LEMMA LoseAck ==
    ASSUME RecInv, AckInv, LosePower
    PROVE  AckInv'
<1> SUFFICES ASSUME tool' = "events" PROVE AckInv'
  BY DEF AckInv
<1>1. /\ UNCHANGED <<tool, fsync, fileSynced, acked, appended>> /\ power' = FALSE
      /\ pc' = (IF Running THEN "dead" ELSE pc)
  BY DEF LosePower, setting, ghosts
<1>2. /\ file' \in Seq(Lines) /\ fileSynced <= Len(file') /\ Len(file') <= Len(file)
      /\ \A i \in 1 .. Len(file') :
            /\ file'[i].recs = file[i].recs
            /\ file'[i] = file[i] \/ i > fileSynced
  BY PrefixLeft
<1>3. Len(file) \in Nat /\ Len(file') \in Nat /\ fileSynced \in Nat
  BY <1>2, LenProperties DEF RecInv, TypeInv
<1>4. /\ pc \in Before \cup {"open", "written", "dead"}
      /\ acked \subseteq 1 .. Len(appended)
      /\ \A i \in 1 .. Len(file) : file[i].recs # <<>>
      /\ fsync => Ends(file, fileSynced, acked, appended)
  BY <1>1 DEF AckInv
<1>5. pc' = "dead"
  BY <1>1, <1>4 DEF Running, Before
<1>6. \A i \in 1 .. Len(file') : file'[i].recs # <<>>
  <2>1. \A i \in 1 .. Len(file') : i \in 1 .. Len(file)
    BY <1>2, <1>3
  <2> QED BY <1>2, <1>4, <2>1
<1>7. fsync => Ends(file', fileSynced, acked, appended)
  <2> SUFFICES ASSUME fsync PROVE Ends(file', fileSynced, acked, appended)
    OBVIOUS
  <2>1. \A i \in 1 .. fileSynced : i \in 1 .. Len(file') /\ ~(i > fileSynced)
    BY <1>2, <1>3
  <2>2. \A i \in 1 .. fileSynced : file[i].ended => file'[i] = file[i]
    BY <1>2, <2>1
  <2>3. fileSynced <= fileSynced /\ Ends(file, fileSynced, acked, appended)
    BY <1>3, <1>4
  <2> QED BY <1>3, <2>2, <2>3, EndsKept
<1> QED BY <1>1, <1>4, <1>5, <1>6, <1>7 DEF AckInv, Running

(* Steps that append and acknowledge nothing.                              *)
LEMMA QuietAck ==
    ASSUME AckInv, UNCHANGED <<tool, fsync, power, file, fileSynced, acked, appended>>,
           \/ pc' = pc
           \/ (pc' \in Before \cup {"open", "dead"}) /\ (Running' => Running)
           \/ tool # "events"
    PROVE  AckInv'
<1>1. CASE tool # "events"
  BY <1>1 DEF AckInv
<1>2. CASE tool = "events" /\ pc' = pc
  <2>1. Running' => Running
    BY <1>2 DEF Running
  <2> QED BY <1>2, <2>1 DEF AckInv
<1>3. CASE tool = "events" /\ pc' \in Before \cup {"open", "dead"} /\ (Running' => Running)
  BY <1>3 DEF AckInv, Before
<1> QED BY <1>1, <1>2, <1>3

(* Every step keeps what is owed to acknowledged appends.                  *)
LEMMA NextAck == RecInv /\ AckInv /\ [RecordingNext]_recordingVars => AckInv'
<1> SUFFICES ASSUME RecInv, AckInv, [RecordingNext]_recordingVars PROVE AckInv'
  OBVIOUS
<1>0. tool = "events" => pc \in Before \cup {"open", "written", "dead"}
  BY DEF AckInv
<1>1. CASE Reboot \/ DropLine
  <2>1. tool = "capture_cs" /\ UNCHANGED setting
    BY <1>1 DEF Reboot, DropLine, DeviceMoves
  <2> QED BY <2>1 DEF AckInv, setting
<1>2. CASE CreateManifest \/ WriteManifest \/ WriteSidecar
  <2>1. UNCHANGED <<setting, disk, power, ghosts>>
    BY <1>2 DEF CreateManifest, WriteManifest, WriteSidecar, Sealing
  <2>2. Running /\ (tool # "events" \/ pc' \in Before \cup {"open"})
    BY <1>2 DEF CreateManifest, WriteManifest, WriteSidecar, Before, Running
  <2> QED BY <2>1, <2>2, QuietAck DEF setting, disk, ghosts
<1>3. CASE RecordEvent
  BY <1>3, AppendAck
<1>4. CASE SyncEvent
  BY <1>4, SyncAck
<1>5. CASE ReadLine \/ SyncRaw \/ SkipLine \/ RejectRange \/ AppendRecord \/ SyncRecord
           \/ EndOfStream \/ Summarize
  <2>1. tool # "events"
    BY <1>0, <1>5 DEF ReadLine, SyncRaw, SkipLine, RejectRange, AppendRecord, SyncRecord,
                      EndOfStream, Summarize, Before
  <2>2. UNCHANGED setting
    BY <1>5 DEF ReadLine, SyncRaw, SkipLine, RejectRange, AppendRecord, SyncRecord,
                EndOfStream, Summarize, Unwritten, WriteRecord, AppendSynced
  <2> QED BY <2>1, <2>2 DEF AckInv, setting
<1>6. CASE Kill
  <2>1. UNCHANGED <<setting, disk, power, ghosts>> /\ pc' = "dead" /\ Running
    BY <1>6 DEF Kill
  <2> QED BY <2>1, QuietAck DEF setting, disk, ghosts
<1>7. CASE LosePower
  BY <1>7, LoseAck
<1>8. CASE StartReplay \/ Replay
  <2>1. UNCHANGED <<Writing, file>>
    BY <1>8 DEF StartReplay, OpenLog, Replay, ReplayNext, Fail, QuarantineLine, PassOver,
                ReplayInput, RefuseFraction, ReadAgain, Compare, NextLine
  <2>2. UNCHANGED <<tool, fsync, power, file, fileSynced, acked, appended>> /\ pc' = pc
    BY <2>1 DEF Writing, setting
  <2> QED BY <2>2, QuietAck
<1>9. CASE SyncFails
  BY <1>9, SyncFailsAck
<1>10. CASE UNCHANGED recordingVars
  <2>1. UNCHANGED <<setting, disk, power, ghosts, pc>>
    BY <1>10 DEF recordingVars
  <2>2. UNCHANGED <<tool, fsync, power, file, fileSynced, acked, appended>> /\ pc' = pc
    BY <2>1 DEF setting, disk, ghosts
  <2> QED BY <2>2, QuietAck
<1> QED BY <1>1, <1>2, <1>3, <1>4, <1>5, <1>6, <1>7, <1>8, <1>9, <1>10 DEF RecordingNext

(* What a step that is not of the replay leaves to the replay.             *)
Elsewhere ==
    /\ UNCHANGED <<engine, reader, snapshot, at, refused, first, due>>
    /\ Len(appended) <= Len(appended')
    /\ \A k \in 1 .. Len(appended) : appended'[k] = appended[k]
    /\ Durable' => Durable

(* What is no step of a replay keeps the records a replay relies on.       *)
LEMMA NotOfReplay ==
    ASSUME RecInv, [RecordingNext]_recordingVars, ~(StartReplay \/ Replay)
    PROVE  Elsewhere
<1>1. appended \in Seq(Records) /\ Len(appended) \in Nat
  BY LenProperties DEF RecInv, TypeInv
<1>2. CASE RecordEvent \/ AppendRecord
  <2>1. PICK r \in Records : WriteRecord(r)
    <3>1. RangeRecord(line) \in Records /\ \A r \in Events : r \in Records
      BY RangeRecordTyped DEF RecInv, Records
    <3> QED BY <1>2, <3>1 DEF RecordEvent, AppendRecord
  <2>2. UNCHANGED <<replay, power, fsync>> /\ appended' = Append(appended, r)
    BY <2>1 DEF WriteRecord, setting
  <2>3. /\ Len(appended') = Len(appended) + 1
        /\ \A k \in 1 .. Len(appended) : appended'[k] = appended[k]
    BY <1>1, <2>2, AppendProperties
  <2>4. Len(appended) <= Len(appended')
    BY <1>1, <2>3
  <2>5. UNCHANGED due
    BY <2>1 DEF WriteRecord
  <2> QED BY <2>2, <2>3, <2>4, <2>5 DEF Elsewhere, replay, Durable
<1>3. CASE ~(RecordEvent \/ AppendRecord)
  <2>1. UNCHANGED <<replay, appended, fsync>> /\ (power' => power)
    <3>1. CASE Reboot \/ DropLine
      BY <3>1 DEF Reboot, DropLine, DeviceMoves, setting, ghosts
    <3>2. CASE CreateManifest \/ WriteManifest \/ WriteSidecar
      BY <3>2 DEF CreateManifest, WriteManifest, WriteSidecar, Sealing, setting, ghosts
    <3>3. CASE SyncEvent \/ SyncRecord
      BY <3>3 DEF SyncEvent, SyncRecord, AppendSynced, setting
    <3>4. CASE ReadLine \/ SyncRaw \/ SkipLine \/ RejectRange \/ EndOfStream
      BY <3>4 DEF ReadLine, SyncRaw, SkipLine, RejectRange, EndOfStream, Unwritten, setting, ghosts
    <3>5. CASE Summarize \/ Kill \/ SyncFails
      BY <3>5 DEF Summarize, Kill, SyncFails, setting, ghosts
    <3>7. CASE LosePower
      <4>1. UNCHANGED <<setting, ghosts, replay>> /\ power' = FALSE
        BY <3>7 DEF LosePower
      <4> QED BY <4>1 DEF setting, ghosts
    <3>6. CASE UNCHANGED recordingVars
      BY <3>6 DEF recordingVars, setting, ghosts
    <3> QED BY <1>3, <3>1, <3>2, <3>3, <3>4, <3>5, <3>6, <3>7 DEF RecordingNext
  <2>2. UNCHANGED due
    BY <2>1 DEF replay
  <2>3. Len(appended) <= Len(appended')
    BY <1>1, <2>1
  <2> QED BY <2>1, <2>2, <2>3 DEF Elsewhere, replay, Durable
<1> QED BY <1>2, <1>3

(* Lines that were found stay found.                                       *)
LEMMA HasLinesKept ==
    ASSUME NEW f, NEW ks, NEW taken, NEW then, HasLines(f, ks, taken),
           \A k \in ks : then[k] = taken[k]
    PROVE  HasLines(f, ks, then)
BY DEF HasLines

(* A file read to its end without an exception has the lines themselves.   *)
LEMMA ReadHasLines ==
    ASSUME NEW f \in Seq(Lines), NEW n \in Nat, n > Len(f), ReadUpTo(f, n), NEW ks, NEW taken,
           Ends(f, Len(f), ks, taken)
    PROVE  HasLines(f, ks, taken)
<1>1. Len(f) \in Nat /\ DOMAIN f = 1 .. Len(f)
  BY LenProperties
<1> SUFFICES ASSUME NEW k \in ks
             PROVE  \E i \in DOMAIN f : Parses(f[i]) /\ f[i].recs = <<taken[k]>>
  BY DEF HasLines
<1>2. PICK i \in 1 .. Len(f) : f[i].ended /\ (Parses(f[i]) => f[i].recs = <<taken[k]>>)
  BY DEF Ends
<1>3. Parses(f[i]) \/ Tolerated(f, i)
  <2>1. i < n
    BY <1>1
  <2> QED BY <2>1 DEF ReadUpTo
<1> QED BY <1>1, <1>2, <1>3 DEF Tolerated

(* Steps of others do not touch what a replay has read.                    *)
LEMMA ElsewhereDue ==
    ASSUME RecInv, DueInv, Elsewhere
    PROVE  DueInv'
<1>1. /\ UNCHANGED <<reader, snapshot, at, first, due>> /\ Len(appended) <= Len(appended')
      /\ \A k \in 1 .. Len(appended) : appended'[k] = appended[k]
      /\ Durable' => Durable
  BY DEF Elsewhere
<1>2. appended \in Seq(Records) /\ Len(appended) \in Nat
  BY LenProperties DEF RecInv, TypeInv
<1>3. due \subseteq 1 .. Len(appended) /\ snapshot \in Seq(Lines) /\ Len(snapshot) \in Nat
  BY LenProperties DEF DueInv
<1>4. \A k \in due : appended'[k] = appended[k]
  BY <1>1, <1>3
<1>5. due' \subseteq 1 .. Len(appended')
  <2>1. Len(appended') \in Nat
    BY <1>1, <1>2 DEF Elsewhere
  <2>2. \A k \in 1 .. Len(appended) : k \in 1 .. Len(appended')
    BY <1>1, <1>2, <2>1
  <2> QED BY <1>1, <1>3, <2>2
<1>6. \A f : HasLines(f, due, appended) => HasLines(f, due, appended')
  BY <1>4, HasLinesKept
<1>7. Ends(snapshot, Len(snapshot), due, appended) =>
         Ends(snapshot, Len(snapshot), due, appended')
  <2>1. Len(snapshot) <= Len(snapshot)
    BY <1>3
  <2> QED BY <1>3, <1>4, <2>1, EndsKept
<1>8. reader' = "reading" =>
          /\ ReadUpTo(snapshot', at')
          /\ first' = NoReport /\ Durable' => Ends(snapshot', Len(snapshot'), due', appended')
          /\ first' # NoReport =>
                first'[2] \in Seq(Lines) /\ (Durable' => HasLines(first'[2], due', appended'))
  BY <1>1, <1>6, <1>7 DEF DueInv
<1>9. Reported' /\ Durable' => HasLines(snapshot', due', appended')
  BY <1>1, <1>6 DEF DueInv, Reported
<1>10. snapshot' \in Seq(Lines) /\ at' \in Nat /\ (reader' = "idle" => first' = NoReport)
  BY <1>1 DEF DueInv
<1> QED BY <1>5, <1>8, <1>9, <1>10 DEF DueInv

(* A replay starts on what the file holds.                                 *)
LEMMA StartDue ==
    ASSUME RecInv, AckInv, DueInv, StartReplay
    PROVE  DueInv'
<1>1. /\ tool = "events" /\ reader = "idle" /\ reader' = "reading" /\ snapshot' = file /\ at' = 1
      /\ due' = acked /\ UNCHANGED <<first, appended, power, fsync>>
  BY DEF StartReplay, OpenLog, Writing, setting
<1>2. /\ file \in Seq(Lines) /\ Len(file) \in Nat /\ fileSynced \in Nat /\ fileSynced <= Len(file)
  BY LenProperties DEF RecInv, TypeInv
<1>3. /\ acked \subseteq 1 .. Len(appended)
      /\ power => Ends(file, Len(file), acked, appended)
      /\ fsync => Ends(file, fileSynced, acked, appended)
  BY <1>1 DEF AckInv
<1>4. Durable => Ends(file, Len(file), acked, appended)
  <2>1. CASE power
    BY <1>3, <2>1
  <2>2. CASE fsync
    <3>1. Ends(file, fileSynced, acked, appended)
      BY <1>3, <2>2
    <3> QED BY <1>2, <3>1, EndsKept
  <2> QED BY <2>1, <2>2 DEF Durable
<1>5. ReadUpTo(file, 1)
  BY <1>2 DEF ReadUpTo
<1>6. first' = NoReport /\ (Durable' <=> Durable) /\ ~Reported'
  BY <1>1 DEF DueInv, Durable, Reported
<1> QED BY <1>1, <1>2, <1>3, <1>4, <1>5, <1>6 DEF DueInv

(* Each line read is parsed or tolerated, and a report is of lines read to *)
(* the end.                                                                *)
LEMMA ReplayDue ==
    ASSUME RecInv, DueInv, Replay
    PROVE  DueInv'
<1>1. ReplayNext /\ UNCHANGED <<due, appended, power, fsync>>
  BY DEF Replay, Writing, setting
<1>2. reader = "reading"
  BY <1>1 DEF ReplayNext, Fail, QuarantineLine, PassOver, ReplayInput, RefuseFraction,
                 ReadAgain, Compare, Reading
<1>3. /\ snapshot \in Seq(Lines) /\ at \in Nat /\ due \subseteq 1 .. Len(appended)
      /\ ReadUpTo(snapshot, at)
      /\ first = NoReport /\ Durable => Ends(snapshot, Len(snapshot), due, appended)
      /\ first # NoReport =>
            first[2] \in Seq(Lines) /\ (Durable => HasLines(first[2], due, appended))
  BY <1>2 DEF DueInv
<1>4. Durable' <=> Durable
  BY <1>1 DEF Durable
<1>5. Len(snapshot) \in Nat
  BY <1>3, LenProperties
<1>6. ASSUME NEW how, Raised(how), how \in {"raised", "differs"}
      PROVE  DueInv'
  <2>1. snapshot' = <<>> /\ at' = 0 /\ first' = NoReport /\ reader' \in {"raised", "differs"}
    BY <1>6 DEF Raised
  <2>2. ~Reported' /\ reader' # "reading" /\ snapshot' \in Seq(Lines) /\ at' \in Nat
    BY <2>1 DEF Reported
  <2> QED BY <1>1, <1>3, <2>1, <2>2 DEF DueInv
<1>7. CASE Fail
  BY <1>6, <1>7 DEF Fail
<1>8. CASE QuarantineLine \/ PassOver \/ ReplayInput \/ RefuseFraction
  <2>1. NextLine /\ (Parses(snapshot[at]) \/ Tolerated(snapshot, at))
    BY <1>8 DEF QuarantineLine, PassOver, ReplayInput, RefuseFraction, Accepted
  <2>2. at' = at + 1 /\ UNCHANGED <<reader, snapshot, first>>
    BY <2>1 DEF NextLine
  <2>3. ReadUpTo(snapshot, at + 1)
    <3>1. \A i \in 1 .. Len(snapshot) : i < at + 1 => i < at \/ i = at
      BY <1>3, <1>5
    <3> QED BY <1>3, <2>1, <3>1 DEF ReadUpTo
  <2>4. at + 1 \in Nat /\ ~Reported'
    BY <1>2, <1>3, <2>2 DEF Reported
  <2> QED BY <1>1, <1>2, <1>3, <1>4, <2>2, <2>3, <2>4 DEF DueInv
<1>9. CASE ReadAgain
  <2>1. /\ at > Len(snapshot) /\ first = NoReport /\ first' = <<vars, snapshot, refused>>
        /\ snapshot' = file /\ at' = 1 /\ UNCHANGED reader
    BY <1>9 DEF ReadAgain
  <2>2. Durable => HasLines(snapshot, due, appended)
    BY <1>3, <1>5, <2>1, ReadHasLines
  <2>3. first' # NoReport /\ first'[2] = snapshot
    <3>1. Len(first') = 3 /\ first'[2] = snapshot
      BY <2>1
    <3>2. Len(NoReport) = 0
      BY DEF NoReport
    <3> QED BY <3>1, <3>2
  <2>4. file \in Seq(Lines) /\ Len(file) \in Nat
    BY LenProperties DEF RecInv, TypeInv
  <2>5. ReadUpTo(file, 1) /\ ~Reported'
    BY <1>2, <2>1, <2>4 DEF ReadUpTo, Reported
  <2> QED BY <1>1, <1>2, <1>3, <1>4, <2>1, <2>2, <2>3, <2>4, <2>5 DEF DueInv
<1>10. CASE Compare
  <2>1. CASE vars # first[1]
    BY <1>6, <1>10, <2>1 DEF Compare
  <2>2. CASE vars = first[1]
    <3>1. /\ first # NoReport /\ reader' \in {"clean", "quarantines"} /\ snapshot' = first[2]
          /\ at' = 0 /\ first' = NoReport
      BY <1>10, <2>2 DEF Compare
    <3>2. at' \in Nat /\ reader' # "reading" /\ snapshot' \in Seq(Lines)
      BY <1>3, <3>1
    <3> QED BY <1>1, <1>3, <1>4, <3>1, <3>2 DEF DueInv
  <2> QED BY <2>1, <2>2
<1> QED BY <1>1, <1>7, <1>8, <1>9, <1>10 DEF ReplayNext

(* Every step keeps what a replay has found of acknowledged appends.       *)
LEMMA NextDue == RecInv /\ AckInv /\ DueInv /\ [RecordingNext]_recordingVars => DueInv'
<1> SUFFICES ASSUME RecInv, AckInv, DueInv, [RecordingNext]_recordingVars PROVE DueInv'
  OBVIOUS
<1>1. CASE StartReplay
  BY <1>1, StartDue
<1>2. CASE Replay
  BY <1>2, ReplayDue
<1>3. CASE ~(StartReplay \/ Replay)
  BY <1>3, NotOfReplay, ElsewhereDue
<1> QED BY <1>1, <1>2, <1>3

-----------------------------------------------------------------------------
(* The engine has scored the inputs among the first n lines, and each of   *)
(* them could be adapted.                                                  *)
InputsOf(f, n) == {r \in {f[i].recs[1] : i \in 1 .. n} : IsInput(r)}

StrokeOf(r, h, p) == r.semantic = "stroke.confirmed" /\ r.hole = h /\ r.player = p

StrokeIds(f, n, h, p) == {r.id : r \in {s \in InputsOf(f, n) : StrokeOf(s, h, p)}}

Tallied(f, n, ids, board) ==
    /\ \A i \in 1 .. n : Parses(f[i])
    /\ \A r \in InputsOf(f, n) : Adaptable(r)
    /\ ids = {r.id : r \in InputsOf(f, n)} /\ IsFiniteSet(ids)
    /\ \A h \in Holes, p \in Players :
          board[h][p].strokes = Cardinality(StrokeIds(f, n, h, p))

TallyInv ==
    /\ reader = "idle" =>
          /\ refused = {} /\ seen = {}
          /\ \A h \in Holes, p \in Players : play[h][p].strokes = 0
    /\ reader = "reading" =>
          /\ at \in 1 .. Len(snapshot) + 1
          /\ refused = {} => Tallied(snapshot, at - 1, seen, play)
          /\ first # NoReport /\ first[3] = {} =>
                Tallied(first[2], Len(first[2]), first[1][6], first[1][4])
    /\ reader = "clean" => Tallied(snapshot, Len(snapshot), seen, play)

(* An id that is new is recorded, and its stroke counted if it is one.     *)
Credited(r, ids, board, new, after) ==
    \/ r.id \in ids /\ new = ids /\ after = board
    \/ /\ r.id \notin ids /\ new = ids \cup {r.id}
       /\ \A h \in Holes, p \in Players :
             after[h][p].strokes = board[h][p].strokes + (IF StrokeOf(r, h, p) THEN 1 ELSE 0)

(* One slot of the board is written, with so many strokes more.            *)
StrokesMove(h, p, d) ==
    \A g \in Holes, q \in Players :
        play'[g][q].strokes = play[g][q].strokes + (IF g = h /\ q = p THEN d ELSE 0)

(* A dispatched stroke adds one to the strokes of its player on its hole   *)
(* and to no other's.                                                      *)
LEMMA StrokesWritten ==
    ASSUME play \in [Holes -> [Players -> PlayerHoleState]], NEW h \in Holes, NEW p \in Players,
           NEW s, NEW d \in {0, 1}, s.strokes = play[h][p].strokes + d,
           play' = [play EXCEPT ![h][p] = s]
    PROVE  StrokesMove(h, p, d)
<1> SUFFICES ASSUME NEW g \in Holes, NEW q \in Players
             PROVE  play'[g][q].strokes =
                       play[g][q].strokes + (IF g = h /\ q = p THEN d ELSE 0)
  BY DEF StrokesMove
<1>1. play[g][q].strokes \in Nat
  BY DEF PlayerHoleState
<1>2. CASE g = h /\ q = p
  BY <1>2
<1>3. CASE ~(g = h /\ q = p)
  <2>1. play'[g][q] = play[g][q]
    BY <1>3
  <2> QED BY <1>1, <1>3, <2>1
<1> QED BY <1>2, <1>3

(* What an event of the file does to ids and strokes: a stroke counts      *)
(* once, and nothing else counts as one.                                   *)
LEMMA ReplayedEvent ==
    ASSUME IInv, NEW r \in Events, IsInput(r), Adaptable(r), Processed(r)
    PROVE  /\ [Next]_vars
           /\ Credited(r, seen, play, seen', play')
<1>1. r.id \in EventIds /\ r.time \in Times /\ r.delta \in Adjustments /\ r.hole \in Holes
  BY EventsAssumption DEF Adaptable
<1>2. CASE DuplicateIgnored(r.id)
  <2>1. r.id \in seen /\ UNCHANGED vars
    BY <1>2 DEF DuplicateIgnored
  <2> QED BY <2>1 DEF vars, Credited
<1>3. CASE ~DuplicateIgnored(r.id)
  <2> DEFINE h == r.hole
             p == r.player
             slot == play[h][p]
  <2>1. p \in Players
    BY <1>3 DEF Processed
  <2>2. play \in [Holes -> [Players -> PlayerHoleState]] /\ slot \in PlayerHoleState
        /\ slot.strokes \in Nat /\ slot.strokes + 0 = slot.strokes
    <3>1. play \in [Holes -> [Players -> PlayerHoleState]] /\ slot \in PlayerHoleState
      BY <1>1, <2>1 DEF IInv, TypeOK
    <3>2. slot.strokes \in Nat
      BY <3>1 DEF PlayerHoleState
    <3> QED BY <3>1, <3>2
  <2>3. ASSUME NEW s, s.strokes = slot.strokes, play' = [play EXCEPT ![h][p] = s]
        PROVE  StrokesMove(h, p, 0)
    <3>1. s.strokes = play[h][p].strokes + 0
      BY <2>2, <2>3
    <3> QED BY <1>1, <2>1, <2>2, <2>3, <3>1, StrokesWritten
  <2>4. ASSUME UNCHANGED play
        PROVE  StrokesMove(h, p, 0)
    <3>1. play' = [play EXCEPT ![h][p] = slot]
      BY <1>1, <2>1, <2>2, <2>4
    <3> QED BY <2>3, <3>1
  <2>5. CASE r.semantic = "stroke.confirmed"
    <3>1. StrokeConfirmed(r.id, h, p, r.time)
      BY <1>3, <2>5 DEF Processed
    <3>2. play' = [play EXCEPT ![h][p] = Struck(slot, r.time)]
      BY <1>1, <2>1, <2>2, <3>1 DEF StrokeConfirmed
    <3>3. Struck(slot, r.time).strokes = slot.strokes + 1
      BY <1>1, <2>2, StrokeSlot
    <3>4. StrokesMove(h, p, 1)
      <4> DEFINE s == Struck(slot, r.time)
      <4>1. s.strokes = play[h][p].strokes + 1 /\ play' = [play EXCEPT ![h][p] = s]
        BY <3>2, <3>3
      <4> HIDE DEF s
      <4> QED BY <1>1, <2>1, <2>2, <4>1, StrokesWritten
    <3>5. ProcessFor(r.id, h, p) /\ Dispatched(r.id, h)
      BY <1>1, <3>1 DEF ProcessFor, StrokeConfirmed
    <3>6. r.id \notin seen /\ seen' = seen \cup {r.id} /\ Next
      BY <1>1, <2>1, <3>5 DEF Next, Dispatched
    <3>7. \A g \in Holes, q \in Players : StrokeOf(r, g, q) <=> (g = h /\ q = p)
      BY <2>5 DEF StrokeOf
    <3> QED BY <3>4, <3>6, <3>7 DEF StrokesMove, Credited
  <2>6. CASE r.semantic # "stroke.confirmed"
    <3>1. StrokesMove(h, p, 0) /\ ProcessFor(r.id, h, p) /\ Dispatched(r.id, h)
      <4>1. CASE AlreadyArmed(r.id, h, p) \/ PickupDetected(r.id, h, p)
                 \/ FeatureLimitIgnored(r.id, h, p, r.feature)
        <5>1. UNCHANGED play /\ Dispatched(r.id, h)
          BY <4>1 DEF AlreadyArmed, PickupDetected, FeatureLimitIgnored
        <5>2. FeatureLimitIgnored(r.id, h, p, r.feature) => r.feature \in Features
          BY <1>1, FeaturesAssumption DEF FeatureLimitIgnored
        <5>3. ProcessFor(r.id, h, p)
          BY <4>1, <5>2 DEF ProcessFor
        <5> QED BY <2>4, <5>1, <5>3
      <4>2. CASE TeePresented(r.id, h, p) \/ TeeCancelled(r.id, h, p)
        <5>1. PICK st \in {"armed", "not_started"} :
                      play' = [play EXCEPT ![h][p] = WithStatus(slot, st)]
          BY <1>1, <2>1, <2>2, <4>2 DEF TeePresented, TeeCancelled
        <5>2. WithStatus(slot, st).strokes = slot.strokes
          <6>1. st \in PlayerHoleStatus
            BY DEF PlayerHoleStatus
          <6> QED BY <2>2, <6>1, StatusSlot
        <5>3. ProcessFor(r.id, h, p) /\ Dispatched(r.id, h)
          BY <4>2 DEF ProcessFor, TeePresented, TeeCancelled
        <5> QED BY <2>3, <5>1, <5>2, <5>3
      <4>3. CASE FeatureConfirmed(r.id, h, p, r.feature)
        <5> DEFINE f == r.feature
                   delta == PointsDelta[f]
                   c == Counted(slot, f)
                   d == Scored(c, delta)
                   s == Itemised(d, delta)
        <5>1. f \in Features
          BY <1>1, <4>3, FeaturesAssumption DEF FeatureConfirmed
        <5>2. delta \in Int
          BY <5>1, FeaturesAssumption
        <5>3. play' = [play EXCEPT ![h][p] = s]
          BY <1>1, <2>1, <2>2, <4>3 DEF FeatureConfirmed
        <5> HIDE DEF delta
        <5>4. c \in PlayerHoleState /\ c.strokes = slot.strokes
          BY <2>2, <5>1, CountedSlot
        <5>5. d \in PlayerHoleState /\ d.strokes = slot.strokes
          <6> HIDE DEF c
          <6> QED BY <5>2, <5>4, ScoredSlot
        <5>6. s.strokes = slot.strokes
          <6> HIDE DEF d
          <6> QED BY <2>2, <5>2, <5>5, ItemisedSlot
        <5> HIDE DEF s
        <5>7. ProcessFor(r.id, h, p) /\ Dispatched(r.id, h)
          BY <4>3, <5>1 DEF ProcessFor, FeatureConfirmed
        <5> QED BY <2>3, <5>3, <5>6, <5>7
      <4>4. CASE CupConfirmed(r.id, h, p, r.time)
        <5> DEFINE base == CompletionPoints(ScoreCurve[h], slot.strokes)
        <5>1. play' = [play EXCEPT ![h][p] = HoledOut(slot, base, r.time)]
          BY <1>1, <2>1, <2>2, <4>4 DEF CupConfirmed
        <5>2. base \in Int
          BY <1>1, <2>2, CompletionPointsInt
        <5> HIDE DEF base
        <5>3. HoledOut(slot, base, r.time).strokes = slot.strokes
          BY <1>1, <2>2, <5>2, CupSlot
        <5>4. ProcessFor(r.id, h, p) /\ Dispatched(r.id, h)
          BY <1>1, <4>4 DEF ProcessFor, CupConfirmed
        <5> QED BY <2>3, <5>1, <5>3, <5>4
      <4>5. CASE ManualAdjustment(r.id, h, p, r.delta)
        <5>1. play' = [play EXCEPT ![h][p] = Scored(slot, r.delta)] /\ r.delta \in Int
          BY <1>1, <2>1, <2>2, <4>5, AdjustmentsAssumption DEF ManualAdjustment
        <5>2. Scored(slot, r.delta).strokes = slot.strokes
          BY <2>2, <5>1, ScoredSlot
        <5>3. ProcessFor(r.id, h, p) /\ Dispatched(r.id, h)
          BY <1>1, <4>5 DEF ProcessFor, ManualAdjustment
        <5> QED BY <2>3, <5>1, <5>2, <5>3
      <4> QED BY <1>3, <2>6, <4>1, <4>2, <4>3, <4>4, <4>5 DEF Processed
    <3>2. r.id \notin seen /\ seen' = seen \cup {r.id} /\ Next
      BY <1>1, <2>1, <3>1 DEF Next, Dispatched
    <3>3. \A g \in Holes, q \in Players : ~StrokeOf(r, g, q)
      BY <2>6 DEF StrokeOf
    <3> QED BY <3>1, <3>2, <3>3 DEF StrokesMove, Credited
  <2> QED BY <2>5, <2>6
<1> QED BY <1>2, <1>3

(* A replay begins with a new round.                                       *)
LEMMA FreshRound == FreshEngine => IInv'
<1>1. Init => IInv
  BY InitIInv
<1>2. FreshEngine => Init'
  BY DEF FreshEngine, Init
<1> QED BY <1>1, <1>2, PTL

(* The n-th line adds its record.                                          *)
LEMMA InputsNext ==
    ASSUME NEW f, NEW n \in Nat \ {0}
    PROVE  InputsOf(f, n) =
             InputsOf(f, n - 1) \cup (IF IsInput(f[n].recs[1]) THEN {f[n].recs[1]} ELSE {})
<1>1. \A i \in 1 .. n : i \in 1 .. (n - 1) \/ i = n
  OBVIOUS
<1>2. n \in 1 .. n /\ \A i \in 1 .. (n - 1) : i \in 1 .. n
  OBVIOUS
<1>3. {f[i].recs[1] : i \in 1 .. n} = {f[i].recs[1] : i \in 1 .. (n - 1)} \cup {f[n].recs[1]}
  BY <1>1, <1>2
<1> QED BY <1>3 DEF InputsOf

(* The inputs among the lines of a file are events.                        *)
LEMMA InputIsEvent ==
    ASSUME NEW f \in Seq(Lines), NEW i \in 1 .. Len(f), Parses(f[i]), IsInput(f[i].recs[1])
    PROVE  f[i].recs[1] \in Events
<1>1. f[i] \in Lines
  BY ElementOfSeq
<1>2. f[i].recs \in Seq(Records) /\ Len(f[i].recs) = 1
  BY <1>1 DEF Lines, Parses
<1>3. 1 \in 1 .. Len(f[i].recs)
  BY <1>2
<1>4. f[i].recs[1] \in Records
  BY <1>2, <1>3, ElementOfSeq
<1>5. f[i].recs[1] \notin RangeRecords
  BY DEF RangeRecords, IsInput
<1> QED BY <1>4, <1>5 DEF Records

(* In lines that parse, every input of a replay is a recorded event.        *)
LEMMA InputsAreEvents ==
    ASSUME NEW f \in Seq(Lines), NEW n \in Nat, n <= Len(f), \A i \in 1 .. n : Parses(f[i])
    PROVE  InputsOf(f, n) \subseteq Events
<1> SUFFICES ASSUME NEW i \in 1 .. n, IsInput(f[i].recs[1]) PROVE f[i].recs[1] \in Events
  BY DEF InputsOf
<1>1. i \in 1 .. Len(f)
  BY LenProperties
<1> QED BY <1>1, InputIsEvent

(* A line that is parsed and no input changes no tally.                    *)
LEMMA TallyPass ==
    ASSUME NEW f, NEW n \in Nat \ {0}, NEW ids, NEW board, Tallied(f, n - 1, ids, board),
           Parses(f[n]), ~IsInput(f[n].recs[1])
    PROVE  Tallied(f, n, ids, board)
<1>1. InputsOf(f, n) = InputsOf(f, n - 1)
  <2>1. InputsOf(f, n) =
          InputsOf(f, n - 1) \cup (IF IsInput(f[n].recs[1]) THEN {f[n].recs[1]} ELSE {})
    BY InputsNext
  <2> QED BY <2>1
<1>2. \A h \in Holes, p \in Players : StrokeIds(f, n, h, p) = StrokeIds(f, n - 1, h, p)
  BY <1>1 DEF StrokeIds
<1>3. \A i \in 1 .. n : Parses(f[i])
  <2>1. \A i \in 1 .. n : i \in 1 .. (n - 1) \/ i = n
    OBVIOUS
  <2> QED BY <2>1 DEF Tallied
<1> QED BY <1>1, <1>2, <1>3 DEF Tallied

(* An input that the engine processes is tallied once, however often its   *)
(* id is delivered.                                                        *)
LEMMA TallyInput ==
    ASSUME NEW f \in Seq(Lines), NEW n \in Nat \ {0}, n <= Len(f), NEW ids, NEW board,
           Tallied(f, n - 1, ids, board), board \in [Holes -> [Players -> PlayerHoleState]],
           Parses(f[n]), NEW r, r = f[n].recs[1], IsInput(r), Adaptable(r), NEW new, NEW after,
           Credited(r, ids, board, new, after)
    PROVE  Tallied(f, n, new, after)
<1>1. InputsOf(f, n) = InputsOf(f, n - 1) \cup {r}
  BY InputsNext
<1>2. \A i \in 1 .. n : Parses(f[i])
  <2>1. \A i \in 1 .. n : i \in 1 .. (n - 1) \/ i = n
    OBVIOUS
  <2> QED BY <2>1 DEF Tallied
<1>3. InputsOf(f, n) \subseteq Events
  BY <1>2, InputsAreEvents
<1>4. /\ \A q \in InputsOf(f, n - 1) : Adaptable(q)
      /\ ids = {q.id : q \in InputsOf(f, n - 1)} /\ IsFiniteSet(ids)
      /\ \A h \in Holes, p \in Players :
            board[h][p].strokes = Cardinality(StrokeIds(f, n - 1, h, p))
  BY DEF Tallied
<1>5. \A q \in InputsOf(f, n) : Adaptable(q)
  BY <1>1, <1>4
<1>6. new = {q.id : q \in InputsOf(f, n)} /\ IsFiniteSet(new)
  <2>1. {q.id : q \in InputsOf(f, n)} = ids \cup {r.id}
    BY <1>1, <1>4
  <2>2. IsFiniteSet(ids \cup {r.id})
    BY <1>4, FS_AddElement
  <2> QED BY <1>4, <2>1, <2>2 DEF Credited
<1>7. ASSUME NEW h \in Holes, NEW p \in Players
      PROVE  after[h][p].strokes = Cardinality(StrokeIds(f, n, h, p))
  <2> DEFINE S == StrokeIds(f, n - 1, h, p)
  <2>1. S \subseteq ids
    BY <1>4 DEF StrokeIds
  <2>2. IsFiniteSet(S)
    BY <1>4, <2>1, FS_Subset
  <2>3. StrokeIds(f, n, h, p) = S \cup (IF StrokeOf(r, h, p) THEN {r.id} ELSE {})
    BY <1>1 DEF StrokeIds
  <2>4. board[h][p].strokes = Cardinality(S)
    BY <1>4
  <2>5. CASE r.id \in ids /\ after = board
    <3>1. StrokeOf(r, h, p) => r.id \in S
      <4> SUFFICES ASSUME StrokeOf(r, h, p) PROVE r.id \in S
        OBVIOUS
      <4>1. PICK q \in InputsOf(f, n - 1) : q.id = r.id
        BY <1>4, <2>5
      <4>2. q \in Events /\ r \in Events /\ IsInput(q) /\ Adaptable(q)
        BY <1>1, <1>3, <1>4, <4>1 DEF InputsOf
      <4>3. <<q.semantic, q.hole, q.player>> = <<r.semantic, r.hole, r.player>>
        BY <4>1, <4>2, EventsAssumption
      <4>4. StrokeOf(q, h, p)
        BY <4>3 DEF StrokeOf
      <4> QED BY <4>1, <4>4 DEF StrokeIds
    <3> HIDE DEF S
    <3>2. StrokeIds(f, n, h, p) = S
      BY <2>3, <3>1
    <3> QED BY <2>4, <2>5, <3>2
  <2>6. CASE r.id \notin ids /\ after[h][p].strokes =
                board[h][p].strokes + (IF StrokeOf(r, h, p) THEN 1 ELSE 0)
    <3>1. r.id \notin S
      BY <2>1, <2>6
    <3> HIDE DEF S
    <3>2. CASE StrokeOf(r, h, p)
      <4>1. Cardinality(S \cup {r.id}) = Cardinality(S) + 1
        BY <2>2, <3>1, FS_AddElement
      <4> QED BY <2>3, <2>4, <2>6, <3>2, <4>1
    <3>3. CASE ~StrokeOf(r, h, p)
      <4>1. StrokeIds(f, n, h, p) = S
        BY <2>3, <3>3
      <4>2. board[h][p].strokes \in Nat
        BY DEF PlayerHoleState
      <4> QED BY <2>4, <2>6, <3>3, <4>1, <4>2
    <3> QED BY <3>2, <3>3
  <2> QED BY <2>5, <2>6 DEF Credited
<1> QED BY <1>2, <1>5, <1>6, <1>7 DEF Tallied

(* Of no line there is nothing to tally.                                   *)
LEMMA TallyNothing ==
    ASSUME NEW f, NEW board, \A h \in Holes, p \in Players : board[h][p].strokes = 0
    PROVE  Tallied(f, 0, {}, board)
<1>1. InputsOf(f, 0) = {}
  BY DEF InputsOf
<1>2. \A h \in Holes, p \in Players : StrokeIds(f, 0, h, p) = {}
  BY <1>1 DEF StrokeIds
<1>3. IsFiniteSet({}) /\ Cardinality({}) = 0
  BY FS_EmptySet
<1> QED BY <1>1, <1>2, <1>3 DEF Tallied

-----------------------------------------------------------------------------
(* A new run has nothing to replay.                                        *)
LEMMA InitReplay == RecordingInit => DueInv /\ IInv /\ TallyInv
<1> SUFFICES ASSUME RecordingInit PROVE DueInv /\ IInv /\ TallyInv
  OBVIOUS
<1>1. /\ Init /\ reader = "idle" /\ first = NoReport /\ snapshot = <<>> /\ at = 0 /\ due = {}
      /\ refused = {}
  BY DEF RecordingInit, ReplayInit
<1>2. DueInv
  <2>1. ~Reported /\ snapshot \in Seq(Lines)
    BY <1>1 DEF Reported
  <2> QED BY <1>1, <2>1 DEF DueInv
<1>3. TallyInv
  <2>1. \A h \in Holes, p \in Players : play[h][p].strokes = 0
    BY <1>1 DEF Init, NewPlayerHoleState
  <2> QED BY <1>1, <2>1 DEF TallyInv, Init
<1> QED BY <1>1, <1>2, <1>3, InitIInv

(* Every step of the engine is one of Gameplay, or begins a new round.     *)
LEMMA ReplayedInput ==
    ASSUME IInv, ReplayInput
    PROVE  LET r == snapshot[at].recs[1]
           IN  \/ UNCHANGED vars /\ refused' = refused \cup {at}
               \/ Adaptable(r) /\ IsInput(r) /\ Processed(r) /\ refused' = refused
<1> DEFINE r == snapshot[at].recs[1]
           E == ENABLED Processed(r)
<1>1. IF Adaptable(r) /\ E THEN Processed(r) /\ UNCHANGED refused
                           ELSE UNCHANGED vars /\ Quarantined
  BY DEF ReplayInput
<1>2. IsInput(r)
  BY DEF ReplayInput
<1> HIDE DEF E, r
<1>3. \/ UNCHANGED vars /\ refused' = refused \cup {at}
      \/ Adaptable(r) /\ IsInput(r) /\ Processed(r) /\ refused' = refused
  BY <1>1, <1>2 DEF Quarantined
<1> QED BY <1>3 DEF r

(* A fraction that is added and then refused leaves a round as sound as an *)
(* adjustment that is played.                                              *)
LEMMA FractionKeepsRound ==
    ASSUME IInv, RefuseFraction, snapshot[at].recs[1] \in Events
    PROVE  IInv'
<1> DEFINE r == snapshot[at].recs[1]
           h == r.hole
           p == r.player
           slot == play[h][p]
           s == Scored(slot, r.delta)
           t == Scored(stats[p], r.delta)
<1>0. /\ AddsFraction(r) /\ IsInput(r) /\ r \in Events
      /\ play' = [play EXCEPT ![h][p] = s] /\ stats' = [stats EXCEPT ![p] = t]
      /\ UNCHANGED <<sessionStatus, current, active, seen>>
  BY DEF RefuseFraction, AddsFraction, IsInput
<1> HIDE DEF r
<1>1. /\ h \in Holes /\ p \in Players /\ h = current /\ sessionStatus # "complete"
      /\ r.delta \in Int
  <2>1. h \in Holes /\ p \in Players /\ h = current /\ sessionStatus # "complete" /\ Adaptable(r)
    BY <1>0 DEF AddsFraction, Arrives, Adaptable
  <2>2. r.delta \in Adjustments
    BY <1>0, <2>1, EventsAssumption
  <2> QED BY <2>1, <2>2, AdjustmentsAssumption
<1>2. /\ play \in [Holes -> [Players -> PlayerHoleState]] /\ slot \in PlayerHoleState
      /\ stats \in [Players -> PlayerStats] /\ stats[p] \in PlayerStats
      /\ active \in [Holes -> Players \cup {NoPlayer}] /\ active[h] \in Players \cup {NoPlayer}
      /\ SlotAgrees(slot) /\ (slot.status \in {"armed", "playing"} <=> active[h] = p)
      /\ sessionStatus \in SessionStatus /\ seen \subseteq EventIds
  BY <1>1 DEF IInv, TypeOK, PhaseAgrees, TurnDiscipline
<1>3. play' = [play EXCEPT ![h][p] = s] /\ stats' = [stats EXCEPT ![p] = t]
      /\ active' = [active EXCEPT ![h] = active[h]]
  BY <1>0, <1>1, <1>2
<1> HIDE DEF h, p, slot
<1>4. s \in PlayerHoleState /\ s.status = slot.status /\ s.strokes = slot.strokes
      /\ s.started = slot.started /\ s.completed = slot.completed /\ s.counts = slot.counts
  BY <1>1, <1>2, ScoredSlot
<1>5. t \in PlayerStats
  BY <1>1, <1>2, ScoredStats
<1> HIDE DEF s, t
<1>6. SlotAgrees(s)
  BY <1>2, <1>4 DEF SlotAgrees
<1>7. stats' \in [Players -> PlayerStats]
  BY <1>2, <1>3, <1>5
<1>8. /\ sessionStatus' \in SessionStatus \ {"complete"} /\ current' = current
      /\ seen' \subseteq EventIds
  BY <1>0, <1>1, <1>2
<1>9. /\ s.status = play[h][p].status
      /\ s.status \in {"armed", "playing"} <=> active[h] = p
      /\ s.status = "complete" <=> play[h][p].status = "complete"
  BY <1>2, <1>4 DEF slot
<1>10. /\ h \in Holes /\ p \in Players /\ s \in PlayerHoleState /\ h = current
       /\ sessionStatus # "complete" /\ active[h] \in Players \cup {NoPlayer}
  BY <1>1, <1>2, <1>4
<1> QED BY <1>3, <1>6, <1>7, <1>8, <1>9, <1>10, KeepsCourse

(* A replayed round obeys the rules of the game.                           *)
LEMMA NextRound == DueInv /\ IInv /\ TallyInv /\ RecInv /\ [RecordingNext]_recordingVars => IInv'
<1> SUFFICES ASSUME DueInv, IInv, TallyInv, RecInv, [RecordingNext]_recordingVars PROVE IInv'
  OBVIOUS
<1>1. [Next]_vars => IInv'
  BY NextKeepsIInv
<1>2. UNCHANGED vars => IInv'
  BY <1>1
<1>3. CASE ~(StartReplay \/ Replay)
  <2>1. UNCHANGED vars
    BY <1>3, NotOfReplay DEF Elsewhere, engine, vars
  <2> QED BY <1>2, <2>1
<1>4. CASE StartReplay
  BY <1>2, <1>4 DEF StartReplay, OpenLog
<1>5. CASE Replay
  <2>1. CASE FreshEngine
    BY <2>1, FreshRound
  <2>2. CASE QuarantineLine \/ PassOver
    BY <1>2, <2>2 DEF QuarantineLine, PassOver
  <2>3. CASE ReplayInput
    <3> DEFINE e == snapshot[at].recs[1]
    <3>1. /\ snapshot \in Seq(Lines) /\ at \in Nat /\ at >= 1 /\ at <= Len(snapshot)
          /\ Parses(snapshot[at])
      <4>1. reader = "reading" /\ at <= Len(snapshot) /\ Parses(snapshot[at])
        BY <2>3 DEF ReplayInput, Reading, Accepted
      <4>2. snapshot \in Seq(Lines) /\ at \in Nat /\ at \in 1 .. Len(snapshot) + 1
        BY <4>1 DEF DueInv, TallyInv
      <4> QED BY <4>1, <4>2, LenProperties
    <3>2. at \in 1 .. Len(snapshot)
      BY <3>1, LenProperties
    <3>3. IsInput(e) => e \in Events
      BY <3>1, <3>2, InputIsEvent
    <3>4. UNCHANGED vars \/ (Adaptable(e) /\ IsInput(e) /\ Processed(e))
      BY <2>3, ReplayedInput
    <3> HIDE DEF e
    <3>5. Adaptable(e) /\ IsInput(e) /\ Processed(e) => [Next]_vars
      BY <3>3, ReplayedEvent
    <3> QED BY <1>1, <1>2, <3>4, <3>5
  <2>6. CASE RefuseFraction
    <3> DEFINE e == snapshot[at].recs[1]
    <3>1. /\ snapshot \in Seq(Lines) /\ at \in Nat /\ at >= 1 /\ at <= Len(snapshot)
          /\ Parses(snapshot[at])
      <4>1. reader = "reading" /\ at <= Len(snapshot) /\ Parses(snapshot[at])
        BY <2>6 DEF RefuseFraction, Reading, Accepted
      <4>2. snapshot \in Seq(Lines) /\ at \in Nat /\ at \in 1 .. Len(snapshot) + 1
        BY <4>1 DEF DueInv, TallyInv
      <4> QED BY <4>1, <4>2, LenProperties
    <3>2. at \in 1 .. Len(snapshot)
      BY <3>1, LenProperties
    <3>3. IsInput(e)
      BY <2>6 DEF RefuseFraction, AddsFraction, IsInput
    <3>4. e \in Events
      BY <3>1, <3>2, <3>3, InputIsEvent
    <3> QED BY <1>1, <2>6, <3>4, FractionKeepsRound
  <2>4. CASE Fail \/ ReadAgain \/ (Compare /\ vars # first[1])
    BY <2>1, <2>4 DEF Fail, ReadAgain, Compare, Raised
  <2>5. CASE Compare /\ vars = first[1]
    BY <1>2, <2>5 DEF Compare
  <2> QED BY <1>5, <2>2, <2>3, <2>4, <2>5, <2>6 DEF Replay, ReplayNext
<1> QED BY <1>3, <1>4, <1>5

(* Steps of others do not touch what a replay has scored.                  *)
LEMMA ElsewhereTally ==
    ASSUME TallyInv, UNCHANGED <<reader, snapshot, at, refused, first, seen, play>>
    PROVE  TallyInv'
BY DEF TallyInv, Tallied

(* The first line is the first.                                            *)
LEMMA AtFirst ==
    ASSUME NEW f \in Seq(Lines)
    PROVE  1 \in 1 .. Len(f) + 1 /\ 1 - 1 = 0
BY LenProperties

(* A line of a replay: what was scored is scored, whichever line it is.    *)
LEMMA LineTally ==
    ASSUME DueInv, IInv, TallyInv, QuarantineLine \/ PassOver \/ ReplayInput \/ RefuseFraction
    PROVE  TallyInv'
<1> DEFINE r == snapshot[at].recs[1]
<1>1. reader = "reading" /\ at <= Len(snapshot)
  BY DEF QuarantineLine, PassOver, ReplayInput, RefuseFraction, Reading
<1>2. /\ at' = at + 1 /\ UNCHANGED <<reader, snapshot, first>>
  BY DEF QuarantineLine, PassOver, ReplayInput, RefuseFraction, NextLine
<1>3. /\ snapshot \in Seq(Lines) /\ at \in Nat /\ at \in 1 .. Len(snapshot) + 1
      /\ refused = {} => Tallied(snapshot, at - 1, seen, play)
      /\ first # NoReport /\ first[3] = {} =>
            Tallied(first[2], Len(first[2]), first[1][6], first[1][4])
  BY <1>1 DEF DueInv, TallyInv
<1>4. Len(snapshot) \in Nat
  BY <1>3, LenProperties
<1>5. /\ at \in Nat \ {0} /\ at \in 1 .. Len(snapshot) /\ at' \in 1 .. Len(snapshot) + 1
      /\ at' - 1 = at
  BY <1>1, <1>2, <1>3, <1>4
<1>6. refused' = {} => Tallied(snapshot, at, seen', play')
  <2>1. CASE QuarantineLine \/ RefuseFraction \/ (UNCHANGED vars /\ refused' = refused \cup {at})
    BY <2>1 DEF QuarantineLine, RefuseFraction, Quarantined
  <2>2. CASE PassOver
    <3>1. UNCHANGED <<seen, play, refused>> /\ Parses(snapshot[at]) /\ ~IsInput(r)
      BY <2>2 DEF PassOver, Accepted, vars
    <3> QED BY <1>3, <1>5, <3>1, TallyPass
  <2>3. CASE ReplayInput /\ Adaptable(r) /\ IsInput(r) /\ Processed(r) /\ refused' = refused
    <3> SUFFICES ASSUME refused' = {} PROVE Tallied(snapshot, at, seen', play')
      OBVIOUS
    <3>1. Parses(snapshot[at])
      BY <2>3 DEF ReplayInput, Accepted
    <3>2. r \in Events
      BY <1>3, <1>5, <2>3, <3>1, InputIsEvent
    <3>3. Credited(r, seen, play, seen', play')
      BY <2>3, <3>2, ReplayedEvent
    <3>4. Tallied(snapshot, at - 1, seen, play)
      BY <1>3, <2>3
    <3>5. play \in [Holes -> [Players -> PlayerHoleState]]
      BY DEF IInv, TypeOK
    <3>6. IsInput(r) /\ Adaptable(r) /\ r = snapshot[at].recs[1]
      BY <2>3
    <3> HIDE DEF r
    <3> QED BY <1>1, <1>3, <1>5, <3>1, <3>3, <3>4, <3>5, <3>6, TallyInput
  <2>4. ReplayInput => \/ UNCHANGED vars /\ refused' = refused \cup {at}
                       \/ Adaptable(r) /\ IsInput(r) /\ Processed(r) /\ refused' = refused
    BY ReplayedInput
  <2> QED BY <2>1, <2>2, <2>3, <2>4
<1> QED BY <1>1, <1>2, <1>3, <1>5, <1>6 DEF TallyInv

(* A replay tallies every line it has read, in both passes.                *)
LEMMA NextTally ==
    RecInv /\ DueInv /\ IInv /\ TallyInv /\ [RecordingNext]_recordingVars => TallyInv'
<1> SUFFICES ASSUME RecInv, DueInv, IInv, TallyInv, [RecordingNext]_recordingVars PROVE TallyInv'
  OBVIOUS
<1>0. file \in Seq(Lines)
  BY DEF RecInv, TypeInv
<1>1. CASE ~(StartReplay \/ Replay)
  BY <1>1, NotOfReplay, ElsewhereTally DEF Elsewhere, engine
<1>2. CASE StartReplay
  <2>1. /\ reader = "idle" /\ reader' = "reading" /\ snapshot' = file /\ at' = 1
        /\ UNCHANGED <<seen, play, refused, first>>
    BY <1>2 DEF StartReplay, OpenLog, vars
  <2>2. /\ refused = {} /\ seen = {} /\ \A h \in Holes, p \in Players : play[h][p].strokes = 0
        /\ first = NoReport
    BY <2>1 DEF TallyInv, DueInv
  <2>3. Tallied(file, 0, {}, play)
    BY <2>2, TallyNothing
  <2> QED BY <1>0, <2>1, <2>2, <2>3, AtFirst DEF TallyInv
<1>3. CASE Replay
  <2>1. ReplayNext
    BY <1>3 DEF Replay
  <2>2. ASSUME NEW how, Raised(how), how \in {"raised", "differs"}
        PROVE  TallyInv'
    BY <2>2 DEF Raised, TallyInv
  <2>3. CASE Fail
    BY <2>2, <2>3 DEF Fail
  <2>4. CASE QuarantineLine \/ PassOver \/ ReplayInput \/ RefuseFraction
    BY <2>4, LineTally
  <2>5. CASE ReadAgain
    <3>1. /\ reader = "reading" /\ at > Len(snapshot) /\ UNCHANGED reader
          /\ first' = <<vars, snapshot, refused>>
          /\ snapshot' = file /\ at' = 1 /\ refused' = {} /\ seen' = {}
          /\ play' = [h \in Holes |-> [p \in Players |-> NewPlayerHoleState]]
      BY <2>5 DEF ReadAgain, FreshEngine
    <3>2. \A h \in Holes, p \in Players : play'[h][p].strokes = 0
      BY <3>1 DEF NewPlayerHoleState
    <3>3. Tallied(file, 0, {}, play')
      BY <3>2, TallyNothing
    <3>4. /\ first'[3] = refused /\ first'[2] = snapshot
          /\ first'[1][6] = seen /\ first'[1][4] = play
      BY <3>1 DEF vars
    <3>5. refused = {} => Tallied(snapshot, Len(snapshot), seen, play)
      <4>1. /\ snapshot \in Seq(Lines) /\ at \in Nat /\ at \in 1 .. Len(snapshot) + 1
            /\ refused = {} => Tallied(snapshot, at - 1, seen, play)
        BY <3>1 DEF DueInv, TallyInv
      <4>2. Len(snapshot) \in Nat
        BY <4>1, LenProperties
      <4>3. at - 1 = Len(snapshot)
        BY <3>1, <4>1, <4>2
      <4> QED BY <4>1, <4>3
    <3> QED BY <1>0, <3>1, <3>3, <3>4, <3>5, AtFirst DEF TallyInv
  <2>6. CASE Compare
    <3>1. CASE vars # first[1]
      BY <2>2, <2>6, <3>1 DEF Compare
    <3>2. CASE vars = first[1]
      <4>1. /\ reader = "reading" /\ first # NoReport
            /\ reader' = (IF first[3] = {} THEN "clean" ELSE "quarantines")
            /\ snapshot' = first[2] /\ UNCHANGED <<seen, play>>
        BY <2>6, <3>2 DEF Compare, vars
      <4>2. first[1][6] = seen /\ first[1][4] = play
        BY <3>2 DEF vars
      <4>3. first[3] = {} => Tallied(first[2], Len(first[2]), seen, play)
        BY <4>1, <4>2 DEF TallyInv
      <4> QED BY <4>1, <4>3 DEF TallyInv
    <3> QED BY <3>1, <3>2
  <2> QED BY <2>1, <2>3, <2>4, <2>5, <2>6 DEF ReplayNext
<1> QED BY <1>1, <1>2, <1>3

(* A replay that reports has a line for every acknowledged append and, if  *)
(* nothing was quarantined, has scored every event of the file, each id    *)
(* once, whatever the writer, the machine and the disk did before and      *)
(* while it read.                                                          *)
THEOREM ReplaysFaithful == RecordingSpec => []ReplayIsFaithful
<1> DEFINE Inv == RecInv /\ AckInv /\ DueInv /\ IInv /\ TallyInv
<1>1. RecordingInit => Inv
  BY InitRecInv, InitAck, InitReplay
<1>2. Inv /\ [RecordingNext]_recordingVars => Inv'
  BY NextRecInv, NextAck, NextDue, NextRound, NextTally
<1>3. Inv => EveryRecordHasItsLine
  BY DEF DueInv, EveryRecordHasItsLine, HasLines
<1>4. Inv => CleanReplayScoresEveryEvent
  <2> SUFFICES ASSUME Inv, reader = "clean" PROVE CleanReplayScoresEveryEvent
    BY DEF CleanReplayScoresEveryEvent
  <2>1. Tallied(snapshot, Len(snapshot), seen, play) /\ snapshot \in Seq(Lines)
    BY DEF TallyInv, DueInv
  <2>2. DOMAIN snapshot = 1 .. Len(snapshot)
    BY <2>1, LenProperties
  <2> DEFINE records == {snapshot[i].recs[1] : i \in DOMAIN snapshot}
             inputs == {r \in records : IsInput(r)}
  <2>3. inputs = InputsOf(snapshot, Len(snapshot))
    BY <2>2 DEF InputsOf
  <2>4. \A i \in DOMAIN snapshot : Parses(snapshot[i])
    BY <2>1, <2>2 DEF Tallied
  <2>5. seen = {r.id : r \in inputs}
    BY <2>1, <2>3 DEF Tallied
  <2>6. ASSUME NEW h \in Holes, NEW p \in Players
        PROVE  play[h][p].strokes =
                 Cardinality({r.id : r \in {s \in inputs : s.semantic = "stroke.confirmed"
                                                           /\ s.hole = h /\ s.player = p}})
    <3> HIDE DEF inputs
    <3>1. StrokeIds(snapshot, Len(snapshot), h, p)
            = {r.id : r \in {s \in inputs : s.semantic = "stroke.confirmed"
                                            /\ s.hole = h /\ s.player = p}}
      BY <2>3 DEF StrokeIds, StrokeOf
    <3> QED BY <2>1, <3>1 DEF Tallied
  <2> QED BY <2>4, <2>5, <2>6 DEF CleanReplayScoresEveryEvent
<1>5. Inv => ReplayIsFaithful
  BY <1>3, <1>4 DEF ReplayIsFaithful
<1> HIDE DEF Inv
<1> QED BY <1>1, <1>2, <1>5, PTL DEF RecordingSpec
==============================================================================
