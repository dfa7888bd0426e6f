----------------------------- MODULE RoundRuntime -----------------------------
(***************************************************************************)
(* LocalRoundRuntime (src/src/putttrack/venue/runtime.py): one round, fed  *)
(* by physical sensor nodes through the evidence policy and by simulated   *)
(* or operator events, with an append-only audit file on the side.         *)
(*                                                                         *)
(* process_physical_sensor_observation and process_gameplay hold one lock  *)
(* from end to end, so each is one action; what splits them is an          *)
(* exception in the middle.  The engine may refuse an event, and each of   *)
(* the two audit appends may fail with an OSError; what was assigned       *)
(* before stays assigned.                                                  *)
(*                                                                         *)
(* Sensor nodes number their observations from 1 in each boot.  What they  *)
(* emit stays in `edges' and may be delivered any number of times, in any  *)
(* order, or never.  The ball of player p is called p.                     *)
(***************************************************************************)
EXTENDS Gameplay, PhysicalEvidence

CONSTANTS
    Devices,            \* sensor nodes
    Edges,              \* what they can sense: see Sensed
    Strangers,          \* balls of nobody in this session
    MaxObservations,    \* bound: observations emitted
    MaxBoots,           \* bound: boots of one node
    MaxSimulated,       \* bound: simulated and operator events
    MaxFailures         \* bound: audit appends that fail

ObservationIds == 1 .. MaxObservations

Sensed ==
    [device : Devices,
     kind : {"tee_presence", "cup_entry", "cup_presence"},
     transition : {"occupied", "entered", "vacant"},
     sensor : STRING,
     ball : Players \cup Strangers \cup {NoBall},
     hole : Nat,
     sound : BOOLEAN]

ASSUME EdgesAssumption == \A e \in Edges : e \in Sensed
ASSUME EventIdsAssumption ==
    EventIds = {<<"tee", i>> : i \in ObservationIds}
                 \cup {<<"cup", i, j>> : i \in ObservationIds, j \in ObservationIds}
                 \cup {<<"sim", n>> : n \in 1 .. MaxSimulated}

(* SemanticEvidence, and the policy's decision on one observation.         *)
Evidence ==
    [type : {"tee.presented", "cup.confirmed"}, id : EventIds,
     ball : Players, hole : Holes, time : Times]
Decision ==
    [status : {"observed", "pending", "accepted", "rejected"},
     evidence : Evidence \cup {Absent}]

ASSUME AbsentAssumption ==
    Absent \notin Decision /\ Absent \notin Evidence /\ NoBall \notin Players

VARIABLES
    edges,          \* the observations emitted so far
    node,           \* node[d]: boot and last sequence number of the node
    clock,          \* receive time of the newest observation
    answered,       \* _physical_decisions
    auditedEvents,  \* event ids with a gameplay_transition in the audit file
    auditedDecisions, \* observation ids with a physical_sensor_decision in it
    failures        \* audit appends that have failed

game == <<sessionStatus, current, active, play, stats, seen>>
audit == <<auditedEvents, auditedDecisions, failures>>
world == <<edges, node, clock>>
runtimeVars == <<game, policy, world, answered, audit>>

RuntimeInit ==
    /\ Init
    /\ PolicyInit(Devices, ObservationIds)
    /\ edges = {}
    /\ node = [d \in Devices |-> [boot |-> 1, seq |-> 0]]
    /\ clock \in Times
    /\ answered = [i \in ObservationIds |-> Absent]
    /\ auditedEvents = {}
    /\ auditedDecisions = {}
    /\ failures = 0

-----------------------------------------------------------------------------
(* The sensor nodes (external).                                            *)

(* Received at time t, as number seq of a boot.                            *)
Emitted(e, t, boot, seq) ==
    LET i == Cardinality(edges) + 1
    IN  /\ i \in ObservationIds
        /\ t >= clock
        /\ clock' = t
        /\ node' = [node EXCEPT ![e.device] = [boot |-> boot, seq |-> seq]]
        /\ edges' = edges \cup
             {[id |-> i, device |-> e.device, boot |-> boot, seq |-> seq,
               kind |-> e.kind, transition |-> e.transition, sensor |-> e.sensor,
               ball |-> e.ball, hole |-> e.hole, sound |-> e.sound, received |-> t]}
        /\ UNCHANGED <<game, policy, answered, audit>>

Emit(e, t) == Emitted(e, t, node[e.device].boot, node[e.device].seq + 1)

(* The node restarted since its last observation.                          *)
EmitAfterReboot(e, t) ==
    /\ node[e.device].boot < MaxBoots
    /\ Emitted(e, t, node[e.device].boot + 1, 1)

-----------------------------------------------------------------------------
(* The engine behind process_gameplay.                                     *)

Turn ==
    LET p == active[current]
    IN  [hole |-> current, assigned |-> Players,
         ball |-> IF p = NoPlayer THEN NoBall ELSE p,
         state |-> IF p = NoPlayer THEN "none" ELSE play[current][p].status]

(* The engine's answer to evidence: applied, or recognised as seen.        *)
Applied(e) ==
    \/ DuplicateIgnored(e.id)
    \/ /\ e.type = "tee.presented"
       /\ TeePresented(e.id, e.hole, e.ball) \/ AlreadyArmed(e.id, e.hole, e.ball)
    \/ e.type = "cup.confirmed" /\ CupConfirmed(e.id, e.hole, e.ball, e.time)

(* The engine raises: the round is over, the hole was left, the player is  *)
(* done or another turn is on.                                             *)
Refused(e) ==
    /\ e.id \notin seen
    /\ \/ sessionStatus = "complete"
       \/ e.hole # current
       \/ /\ e.type = "tee.presented"
          /\ \/ play[e.hole][e.ball].status = "complete"
             \/ active[e.hole] \notin {NoPlayer, e.ball}
       \/ /\ e.type = "cup.confirmed"
          /\ \/ active[e.hole] # e.ball
             \/ play[e.hole][e.ball].status # "playing"

AppendEvent(id) ==
    /\ auditedEvents' = auditedEvents \cup {id}
    /\ UNCHANGED failures

AppendDecision(o) ==
    \/ /\ auditedDecisions' = auditedDecisions \cup {o.id}
       /\ UNCHANGED failures
    \/ /\ failures < MaxFailures
       /\ failures' = failures + 1
       /\ UNCHANGED auditedDecisions

AppendFails ==
    /\ failures < MaxFailures
    /\ failures' = failures + 1
    /\ UNCHANGED <<auditedEvents, auditedDecisions>>

Answer(o) == answered' = [answered EXCEPT ![o.id] = decisions'[o.id]]

-----------------------------------------------------------------------------
(* process_physical_sensor_observation, for an observation not answered    *)
(* yet; one that was is answered again from the cache and changes nothing. *)

NoEvidenceIn(o) ==
    /\ Evaluate(o, Turn)
    /\ decisions'[o.id].evidence = Absent
    /\ Answer(o)
    /\ AppendDecision(o)
    /\ UNCHANGED <<game, world, auditedEvents>>

(* Fault: the observation is answered before the transition is audited.    *)
AnsweredBeforeAudit(o) ==
    /\ Evaluate(o, Turn)
    /\ decisions'[o.id].evidence # Absent
    /\ Applied(decisions'[o.id].evidence)
    /\ AppendFails
    /\ Answer(o)
    /\ UNCHANGED world

EvidenceApplied(o) ==
    /\ Evaluate(o, Turn)
    /\ decisions'[o.id].evidence # Absent
    /\ Applied(decisions'[o.id].evidence)
    /\ Answer(o)
    /\ auditedEvents' = auditedEvents \cup {decisions'[o.id].evidence.id}
    /\ AppendDecision(o)
    /\ UNCHANGED world

(* The append of the transition fails: the game has moved, the observation *)
(* has no answer.                                                          *)
EvidenceUnaudited(o) ==
    /\ Evaluate(o, Turn)
    /\ decisions'[o.id].evidence # Absent
    /\ Applied(decisions'[o.id].evidence)
    /\ AppendFails
    /\ UNCHANGED <<world, answered>>

EvidenceRefused(o) ==
    /\ Evaluate(o, Turn)
    /\ decisions'[o.id].evidence # Absent
    /\ Refused(decisions'[o.id].evidence)
    /\ UNCHANGED <<game, world, answered, audit>>

Deliver(o) ==
    /\ answered[o.id] = Absent
    /\ \/ NoEvidenceIn(o)
       \/ EvidenceApplied(o)
       \/ EvidenceUnaudited(o)
       \/ EvidenceRefused(o)

(* process_gameplay for a simulated or operator event.                     *)
Simulate(n, h, p) ==
    /\ DuplicateIgnored(<<"sim", n>>) \/ ProcessFor(<<"sim", n>>, h, p)
    /\ \/ AppendEvent(<<"sim", n>>) /\ UNCHANGED auditedDecisions
       \/ AppendFails
    /\ UNCHANGED <<policy, world, answered>>

RuntimeNext ==
    \/ \E e \in Edges, t \in Times : Emit(e, t) \/ EmitAfterReboot(e, t)
    \/ \E o \in edges : Deliver(o)
    \/ \E n \in 1 .. MaxSimulated, h \in Holes, p \in Players : Simulate(n, h, p)

RuntimeSpec == RuntimeInit /\ [][RuntimeNext]_runtimeVars

-----------------------------------------------------------------------------
(* Properties.                                                             *)

(* A cup candidate never outlives its turn into another one: the ball it   *)
(* waits for had a stroke on the candidate's hole when the edge came, so   *)
(* it is still playing that hole or has holed out there.  A later turn of  *)
(* the same ball, or a turn that was armed and cancelled, can never be     *)
(* completed by an entry edge from before it.                              *)
CandidateTurn ==
    cupEntry # Absent =>
        /\ cupEntry.hole <= current
        /\ play[cupEntry.hole][cupEntry.ball].status \in {"playing", "complete"}

Granted(i) == decisions[i] # Absent /\ decisions[i].evidence # Absent

(* An answer that says "accepted" is never ahead of the game or of the     *)
(* audit file: whoever has it can rely on the event having been processed  *)
(* and on its gameplay_transition being on disk, whatever append failed    *)
(* and however often the observation was delivered before.                 *)
AcceptedIsOnRecord ==
    \A i \in ObservationIds :
        answered[i] # Absent /\ answered[i].evidence # Absent =>
            /\ answered[i] = decisions[i]
            /\ answered[i].evidence.id \in seen
            /\ answered[i].evidence.id \in auditedEvents

(* The audit file tells what happened: it has a transition only of an      *)
(* event the engine has processed, lacks one only where an append failed,  *)
(* and has the decision of an accepted observation only after the          *)
(* transition that decision caused.                                        *)
AuditTracksGame ==
    /\ auditedEvents \subseteq seen
    /\ Cardinality(seen \ auditedEvents) <= failures
    /\ \A i \in auditedDecisions :
          Granted(i) => decisions[i].evidence.id \in auditedEvents

(* Answers, game and audit file never part ways in the direction that      *)
(* hurts: an answer or a line in the file without the game behind it.  The *)
(* order of process, append and answer decides it when an append fails,    *)
(* the engine refuses, or the node sends the observation again.            *)
RecordsAgree ==
    /\ AcceptedIsOnRecord
    /\ AuditTracksGame

(* Every hole-out the policy grants is backed by two edges of the same     *)
(* hole from independent sensors, received in order within the window and, *)
(* when they come from one node, sent in order in one of its boots (or     *)
(* received at the same instant: a late edge of another boot makes the     *)
(* tracker take any number for the next, so it cannot tell them apart);    *)
(* and no entry edge is worth two hole-outs, whatever edges, reboots and   *)
(* turns come between.                                                     *)
CupBacking ==
    LET Entry(i) == decisions[i].evidence.id[2]
        cups == {i \in ObservationIds :
                    Granted(i) /\ decisions[i].evidence.type = "cup.confirmed"}
    IN  /\ \A i \in cups : \E entry \in edges, presence \in edges :
              /\ entry.id = Entry(i) /\ presence.id = i
              /\ entry.hole = presence.hole
              /\ entry.sensor # presence.sensor
              /\ presence.received - entry.received \in 0 .. CupWindow
              /\ entry.device = presence.device =>
                    /\ entry.boot = presence.boot
                    /\ entry.seq < presence.seq \/ entry.received = presence.received
        /\ \A i \in cups, j \in cups : Entry(i) = Entry(j) => i = j

(* Delivering again an observation the policy has already decided never    *)
(* changes the game: a verdict kept from an earlier turn is never applied  *)
(* to a later one.  In particular, evidence the engine refused once stays  *)
(* refused, and evidence that was applied before its audit append failed   *)
(* is not applied again by the retry.                                      *)
RedeliveryNeverScores ==
    [][\A o \in edges :
          decisions[o.id] # Absent /\ Deliver(o) => UNCHANGED game]_runtimeVars

=============================================================================
