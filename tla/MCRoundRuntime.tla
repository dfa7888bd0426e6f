---------------------------- MODULE MCRoundRuntime ----------------------------
(***************************************************************************)
(* Instances of RoundRuntime for TLC.                                      *)
(***************************************************************************)
EXTENDS RoundRuntime, TLC

CONSTANTS p1, p2, hub, cup

MCEventIds ==
    {<<"tee", i>> : i \in ObservationIds}
      \cup {<<"cup", i, j>> : i \in ObservationIds, j \in ObservationIds}
      \cup {<<"sim", n>> : n \in 1 .. MaxSimulated}

Edge(d, k, t, s, b, h) ==
    [device |-> d, kind |-> k, transition |-> t, sensor |-> s, ball |-> b,
     hole |-> h, sound |-> TRUE]

(* Two players on one hole.                                                *)
TurnEdges ==
    {Edge(hub, "tee_presence", "occupied", "tee", p1, 1),
     Edge(hub, "cup_entry", "entered", "entry", NoBall, 1),
     Edge(cup, "cup_presence", "occupied", "presence", p1, 1)}

(* One player on two holes; the cup sensors of the first share a node.     *)
HoleEdges ==
    {Edge(hub, "cup_entry", "entered", "entry", NoBall, 1),
     Edge(hub, "cup_presence", "occupied", "presence", p1, 1),
     Edge(cup, "cup_presence", "vacant", "presence", NoBall, 1),
     Edge(cup, "cup_presence", "occupied", "presence", p1, 2)}

(* No features: their events are the business of MCGameplay.               *)
MCHoleFeatures == [h \in Holes |-> {}]
MCNoFunction == <<>>
MCScoreCurve == [h \in Holes |-> 1 :> 100]

(* Simulated events are used in order; they differ by their id alone.      *)
SimulatedInOrder ==
    \A n \in 2 .. MaxSimulated : <<"sim", n>> \in seen => <<"sim", n - 1>> \in seen

(* Simulated events that leave no trace on a scorecard, repeated tees,     *)
(* pickups and cancelled turns, are left to the two-player instance.       *)
SimulatedEventsCount ==
    LET Trace(slot) == (IF slot.status = "not_started" THEN 0 ELSE 1) + slot.strokes
                       + (IF slot.status = "complete" THEN 1 ELSE 0)
    IN  Cardinality({n \in 1 .. MaxSimulated : <<"sim", n>> \in seen})
            <= MapThenSumSet(LAMBDA h : MapThenSumSet(LAMBDA p : Trace(play[h][p]), Players), Holes)

(* Only the node with the entry sensor reboots.                            *)
HubReboots == node[cup].boot = 1

(* When a stroke was played matters to playMs alone.                       *)
StrokesAtZero == \A h \in Holes, p \in Players : play[h][p].started \in {NoTime, 0}

=============================================================================
