--------------------------- MODULE PhysicalEvidence ---------------------------
(***************************************************************************)
(* The fail-closed policy that turns debounced Tee and cup edges into      *)
(* semantic evidence, src/src/putttrack/evidence/physical_policy.py, and   *)
(* the ordering tracker it asks first, evidence/ordering.py.               *)
(*                                                                         *)
(* An observation is a record: its id, the sensor node (device) with its   *)
(* boot and sequence number, what was sensed (kind, transition, sensor,    *)
(* ball, hole), the Edge receive time, and `sound', which stands for the   *)
(* checks that look at the observation alone before its ordering is        *)
(* considered: event type, supported kind, health, debounce version, value *)
(* matching the transition.  A node's own clock advances with its sequence *)
(* numbers, so a clock regression within a boot is an out-of-order or      *)
(* duplicate sequence number.                                              *)
(*                                                                         *)
(* A context `turn' is what the runtime tells the policy about the game:   *)
(* the current hole, the balls of the session, the ball whose turn it is   *)
(* (or NoBall) and its player's status.                                    *)
(***************************************************************************)
EXTENDS Integers

CONSTANTS
    NoBall,         \* ball_id is None; nobody's turn
    Absent,         \* an absent dictionary entry; no cup candidate; no evidence
    CupWindow       \* CUP_CONFIRM_WINDOW_NS in receive-time units

ASSUME CupWindowAssumption == CupWindow \in Nat

VARIABLES
    ordering,       \* OrderingTracker._sources: per device, boot and last number
    decisions,      \* _decisions: what was decided of each observation id
    cupEntry        \* _cup_entry: the cup entry that waits for confirmation

policy == <<ordering, decisions, cupEntry>>

PolicyInit(devices, ids) ==
    /\ ordering = [d \in devices |-> Absent]
    /\ decisions = [i \in ids |-> Absent]
    /\ cupEntry = Absent

-----------------------------------------------------------------------------
(* OrderingTracker.observe.                                                *)

NewDomain(o) ==
    \/ ordering[o.device] = Absent
    \/ ordering[o.device].boot # o.boot

(* No duplicate, no gap, not out of order.                                 *)
InOrder(o) == NewDomain(o) \/ o.seq = ordering[o.device].last + 1

Observe(o) ==
    LET last == IF NewDomain(o) \/ o.seq > ordering[o.device].last
                THEN o.seq ELSE ordering[o.device].last
    IN  ordering' = [ordering EXCEPT ![o.device] = [boot |-> o.boot, last |-> last]]

-----------------------------------------------------------------------------
(* Decisions.                                                              *)

Decide(o, status, evidence) ==
    decisions' = [decisions EXCEPT ![o.id] = [status |-> status, evidence |-> evidence]]

(* A rejected cup edge, for whatever reason, withdraws the cup candidate.  *)
Reject(o) ==
    /\ Decide(o, "rejected", Absent)
    /\ cupEntry' = IF o.kind = "tee_presence" THEN cupEntry ELSE Absent

WellFormed(o, turn) == o.sound /\ o.hole = turn.hole

(* Vacant, or occupied by the ball whose turn it is.                       *)
TeeObserves(o, turn) ==
    /\ o.kind = "tee_presence"
    /\ \/ o.transition = "vacant"
       \/ o.transition = "occupied" /\ o.ball \in turn.assigned /\ o.ball = turn.ball

(* Fault: a hole that is busy with another ball does not reject.           *)
TeeAcceptsBusy(o, turn) ==
    /\ o.kind = "tee_presence"
    /\ o.transition = "occupied"
    /\ o.ball \in turn.assigned
    /\ o.ball # turn.ball

TeeAccepts(o, turn) ==
    /\ o.kind = "tee_presence"
    /\ o.transition = "occupied"
    /\ o.ball \in turn.assigned
    /\ turn.ball = NoBall

CupVacates(o) == o.kind # "tee_presence" /\ o.transition = "vacant"

(* Fault: an armed turn is enough.                                         *)
CupForAnyTurn(o, turn) ==
    /\ turn.ball # NoBall
    /\ o.ball = turn.ball \/ (o.ball = NoBall /\ o.kind = "cup_entry")

(* The cup edge may be about the ball being played.                        *)
CupForTurn(o, turn) ==
    /\ turn.ball # NoBall
    /\ turn.state = "playing"
    /\ o.ball = turn.ball \/ (o.ball = NoBall /\ o.kind = "cup_entry")

CupEnters(o, turn) ==
    /\ o.kind = "cup_entry"
    /\ o.transition = "entered"
    /\ CupForTurn(o, turn)

CupOccupied(o, turn) ==
    /\ o.kind = "cup_presence"
    /\ o.transition = "occupied"
    /\ CupForTurn(o, turn)

(* Fault: a reboot of the node goes unnoticed.                             *)
ConfirmsAcrossBoots(o, turn) ==
    /\ CupOccupied(o, turn)
    /\ cupEntry # Absent
    /\ cupEntry.ball = turn.ball
    /\ cupEntry.hole = turn.hole
    /\ cupEntry.edge.sensor # o.sensor
    /\ o.received - cupEntry.edge.received \in 0 .. CupWindow

(* The candidate is of this turn, an independent sensor confirms it, its   *)
(* node did not reboot and the confirmation came within the window.        *)
Confirms(o, turn) ==
    /\ CupOccupied(o, turn)
    /\ cupEntry # Absent
    /\ cupEntry.ball = turn.ball
    /\ cupEntry.hole = turn.hole
    /\ cupEntry.edge.device = o.device => cupEntry.edge.boot = o.boot
    /\ cupEntry.edge.sensor # o.sensor
    /\ o.received - cupEntry.edge.received \in 0 .. CupWindow

TeeEvidence(o) ==
    [type |-> "tee.presented", id |-> <<"tee", o.id>>,
     ball |-> o.ball, hole |-> o.hole, time |-> o.received]

CupEvidence(o, turn) ==
    [type |-> "cup.confirmed", id |-> <<"cup", cupEntry.edge.id, o.id>>,
     ball |-> turn.ball, hole |-> o.hole, time |-> o.received]

(* _CupEntryCandidate.                                                     *)
Candidate(o, turn) == [edge |-> o, ball |-> turn.ball, hole |-> turn.hole]

(* _evaluate_tee and _evaluate_cup, for an observation in order.           *)
DecideInOrder(o, turn) ==
    \/ /\ TeeObserves(o, turn)
       /\ Decide(o, "observed", Absent)
       /\ UNCHANGED cupEntry
    \/ /\ TeeAccepts(o, turn)
       /\ Decide(o, "accepted", TeeEvidence(o))
       /\ UNCHANGED cupEntry
    \/ /\ CupVacates(o)
       /\ Decide(o, "observed", Absent)
       /\ cupEntry' = Absent
    \/ /\ CupEnters(o, turn)
       /\ Decide(o, "pending", Absent)
       /\ cupEntry' = Candidate(o, turn)
    \/ /\ CupOccupied(o, turn)
       /\ cupEntry = Absent
       /\ Decide(o, "pending", Absent)
       /\ UNCHANGED cupEntry
    \/ /\ Confirms(o, turn)
       /\ Decide(o, "accepted", CupEvidence(o, turn))
       /\ cupEntry' = Absent
    \/ /\ ~TeeObserves(o, turn) /\ ~TeeAccepts(o, turn)
       /\ ~CupVacates(o) /\ ~CupEnters(o, turn)
       /\ ~(CupOccupied(o, turn) /\ cupEntry = Absent)
       /\ ~Confirms(o, turn)
       /\ Reject(o)

(* evaluate: an observation decided before keeps its decision, whatever    *)
(* the game looks like by now.                                             *)
Evaluate(o, turn) ==
    \/ decisions[o.id] # Absent /\ UNCHANGED policy
    \/ /\ decisions[o.id] = Absent
       /\ ~WellFormed(o, turn)
       /\ Reject(o)
       /\ UNCHANGED ordering
    \/ /\ decisions[o.id] = Absent
       /\ WellFormed(o, turn)
       /\ Observe(o)
       /\ IF InOrder(o) THEN DecideInOrder(o, turn) ELSE Reject(o)

=============================================================================
