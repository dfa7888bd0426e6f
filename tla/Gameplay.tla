------------------------------ MODULE Gameplay ------------------------------
(***************************************************************************)
(* The deterministic scoring engine of a PuttTrack round:                  *)
(* src/src/putttrack/gameplay/engine.py over the state of models.py.       *)
(*                                                                         *)
(* An evidence event carries an event id, the hole it is for, a ball and a *)
(* timestamp.  A ball belongs to exactly one player of the session, so     *)
(* events are parameterised by the player the ball resolves to; a ball of  *)
(* nobody raises and changes nothing.  Every handler validates before it   *)
(* mutates: an event that raises leaves the state (and the set of seen     *)
(* ids) alone, which is a stuttering step and needs no action.             *)
(*                                                                         *)
(* Feature ids are qualified by their hole, so the rule of a feature       *)
(* (points_delta, max_triggers_per_player) is a function of the id alone.  *)
(***************************************************************************)
EXTENDS Integers, FiniteSetsExt

CONSTANTS
    Players,        \* players of the session, one ball each
    NumHoles,       \* len(course)
    EventIds,       \* identifiers evidence events may carry
    Times,          \* timestamp_ms values events may carry
    Features,       \* feature ids, qualified by their hole
    HoleFeatures,   \* HoleFeatures[h]: the features configured on hole h
    PointsDelta,    \* PointsDelta[f]: FeatureRule.points_delta
    MaxTriggers,    \* MaxTriggers[f]: FeatureRule.max_triggers_per_player
    ScoreCurve,     \* ScoreCurve[h]: threshold -> points
    Adjustments,    \* deltas an operator may apply
    NoPlayer,       \* active_player_id is None
    NoTime          \* a timestamp field that is still None

Holes == 1 .. NumHoles

ASSUME PlayersAssumption ==
    Players # {} /\ IsFiniteSet(Players) /\ NoPlayer \notin Players
ASSUME NumHolesAssumption == NumHoles \in Nat \ {0}
ASSUME TimesAssumption == Times \subseteq Nat /\ NoTime \notin Times
ASSUME FeaturesAssumption ==
    /\ IsFiniteSet(Features)
    /\ HoleFeatures \in [Holes -> SUBSET Features]
    /\ PointsDelta \in [Features -> Int]
    /\ MaxTriggers \in [Features -> Nat \ {0}]
ASSUME ScoreCurveAssumption ==
    /\ DOMAIN ScoreCurve = Holes
    /\ \A h \in Holes :
          /\ DOMAIN ScoreCurve[h] \subseteq Nat \ {0}
          /\ ScoreCurve[h] \in [DOMAIN ScoreCurve[h] -> Int]
          /\ DOMAIN ScoreCurve[h] # {} =>
                \E last \in DOMAIN ScoreCurve[h] :
                    \A t \in DOMAIN ScoreCurve[h] : t <= last
ASSUME AdjustmentsAssumption == Adjustments \subseteq Int

VARIABLES
    sessionStatus,  \* SessionState.status ("paused" is never assigned)
    current,        \* SessionState.current_hole_index, counted from 1
    active,         \* HoleRuntime.active_player_id of each hole
    play,           \* HoleRuntime.players: the PlayerHoleState of each hole
    stats,          \* SessionState.stats
    seen            \* SessionState.seen_event_ids

vars == <<sessionStatus, current, active, play, stats, seen>>

-----------------------------------------------------------------------------
(* Types and initial values.                                               *)

SessionStatus == {"ready", "active", "complete"}
PlayerHoleStatus == {"not_started", "armed", "playing", "complete"}

PlayerHoleState ==
    [status : PlayerHoleStatus, strokes : Nat, points : Int,
     bonus : Nat, penalties : Nat, counts : [Features -> Nat],
     started : Times \cup {NoTime}, completed : Times \cup {NoTime}]

PlayerStats ==
    [points : Int, strokes : Nat, bonus : Nat, penalties : Nat,
     playMs : Nat, holesCompleted : Nat]

NewPlayerHoleState ==
    [status |-> "not_started", strokes |-> 0, points |-> 0,
     bonus |-> 0, penalties |-> 0, counts |-> [f \in Features |-> 0],
     started |-> NoTime, completed |-> NoTime]

NewPlayerStats ==
    [points |-> 0, strokes |-> 0, bonus |-> 0, penalties |-> 0,
     playMs |-> 0, holesCompleted |-> 0]

Init ==
    /\ sessionStatus = "ready"
    /\ current = 1
    /\ active = [h \in Holes |-> NoPlayer]
    /\ play = [h \in Holes |-> [p \in Players |-> NewPlayerHoleState]]
    /\ stats = [p \in Players |-> NewPlayerStats]
    /\ seen = {}

-----------------------------------------------------------------------------
(* Pure helpers.                                                           *)

(* Fault: max(0, n) without the max.                                       *)
UnclampedPositive(n) == n

Positive(n) == IF n > 0 THEN n ELSE 0

(* HoleDefinition.completion_points: the exact threshold, else the first   *)
(* one above the stroke count, else the last one.                          *)
CompletionPoints(curve, strokes) ==
    LET thresholds == DOMAIN curve
        reached == {t \in thresholds : strokes <= t}
        Least(S) == CHOOSE t \in S : \A u \in S : t <= u
        Greatest(S) == CHOOSE t \in S : \A u \in S : u <= t
    IN  IF thresholds = {} THEN 0
        ELSE IF strokes \in thresholds THEN curve[strokes]
        ELSE IF reached = {} THEN curve[Greatest(thresholds)]
        ELSE curve[Least(reached)]

(* Stroke-to-cup time as _cup_confirmed adds it to active_play_ms.         *)
Elapsed(from, to) == IF from = NoTime THEN 0 ELSE Positive(to - from)

(* What an event makes of a player's scorecard (a slot of play) and of the *)
(* player's running totals (an element of stats).  Points land on both; a  *)
(* feature also itemises them as bonus or, in absolute value, as penalty.  *)
WithStatus(slot, status) == [slot EXCEPT !.status = status]

Struck(slot, ts) ==
    [slot EXCEPT !.strokes = @ + 1,
                 !.status = "playing",
                 !.started = IF @ = NoTime THEN ts ELSE @]

Counted(slot, f) == [slot EXCEPT !.counts[f] = @ + 1]

Scored(card, delta) == [card EXCEPT !.points = @ + delta]

Itemised(card, delta) ==
    [card EXCEPT !.bonus = @ + Positive(delta), !.penalties = @ + Positive(-delta)]

HoledOut(slot, base, ts) ==
    [Scored(slot, base) EXCEPT !.status = "complete", !.completed = ts]

HoleCompleted(totals, base, ms) ==
    [Scored(totals, base) EXCEPT !.holesCompleted = @ + 1, !.playMs = @ + ms]

-----------------------------------------------------------------------------
(* process(): an event is dispatched when its id is new, the round is not  *)
(* over and the event is for the hole being played.                        *)

(* Fault: a redelivered id is processed again.                             *)
DispatchedAgain(id, h) ==
    /\ sessionStatus # "complete"
    /\ h = current
    /\ seen' = seen \cup {id}

(* Fault: events still count after the round.                              *)
DispatchedAfterRound(id, h) ==
    /\ id \notin seen
    /\ h = current
    /\ seen' = seen \cup {id}

Dispatched(id, h) ==
    /\ id \notin seen
    /\ sessionStatus # "complete"
    /\ h = current
    /\ seen' = seen \cup {id}

(* A redelivered id is ignored whatever the rest of the event says.        *)
DuplicateIgnored(id) ==
    /\ id \in seen
    /\ UNCHANGED vars

(* Fault: nobody checks whether the hole is busy.                          *)
TeeWhileBusy(id, h, p) ==
    /\ Dispatched(id, h)
    /\ play[h][p].status # "complete"
    /\ active' = [active EXCEPT ![h] = p]
    /\ play' = [play EXCEPT ![h][p] = WithStatus(@, "armed")]
    /\ UNCHANGED <<sessionStatus, current, stats>>

TeePresented(id, h, p) ==
    /\ Dispatched(id, h)
    /\ play[h][p].status # "complete"
    /\ active[h] = NoPlayer
    /\ active' = [active EXCEPT ![h] = p]
    /\ play' = [play EXCEPT ![h][p] = WithStatus(@, "armed")]
    /\ UNCHANGED <<sessionStatus, current, stats>>

AlreadyArmed(id, h, p) ==
    /\ Dispatched(id, h)
    /\ play[h][p].status # "complete"
    /\ active[h] = p
    /\ UNCHANGED <<sessionStatus, current, active, play, stats>>

(* Fault: a turn can be cancelled after its first stroke.                  *)
TeeCancelledLate(id, h, p) ==
    /\ Dispatched(id, h)
    /\ active[h] = p
    /\ active' = [active EXCEPT ![h] = NoPlayer]
    /\ play' = [play EXCEPT ![h][p] = WithStatus(@, "not_started")]
    /\ UNCHANGED <<sessionStatus, current, stats>>

TeeCancelled(id, h, p) ==
    /\ Dispatched(id, h)
    /\ active[h] = p
    /\ play[h][p].status = "armed"
    /\ play[h][p].strokes = 0
    /\ active' = [active EXCEPT ![h] = NoPlayer]
    /\ play' = [play EXCEPT ![h][p] = WithStatus(@, "not_started")]
    /\ UNCHANGED <<sessionStatus, current, stats>>

StrokeConfirmed(id, h, p, ts) ==
    /\ Dispatched(id, h)
    /\ active[h] = p
    /\ play[h][p].status \in {"armed", "playing"}
    /\ play' = [play EXCEPT ![h][p] = Struck(@, ts)]
    /\ stats' = [stats EXCEPT ![p].strokes = @ + 1]
    /\ sessionStatus' = "active"
    /\ UNCHANGED <<current, active>>

UnderLimit(slot, f) == slot.counts[f] < MaxTriggers[f]

FeatureConfirmed(id, h, p, f) ==
    /\ Dispatched(id, h)
    /\ active[h] = p
    /\ play[h][p].status = "playing"
    /\ f \in HoleFeatures[h]
    /\ UnderLimit(play[h][p], f)
    /\ LET delta == PointsDelta[f]
       IN  /\ play' = [play EXCEPT ![h][p] =
                         Itemised(Scored(Counted(@, f), delta), delta)]
           /\ stats' = [stats EXCEPT ![p] = Itemised(Scored(@, delta), delta)]
    /\ UNCHANGED <<sessionStatus, current, active>>

FeatureLimitIgnored(id, h, p, f) ==
    /\ Dispatched(id, h)
    /\ active[h] = p
    /\ play[h][p].status = "playing"
    /\ f \in HoleFeatures[h]
    /\ ~UnderLimit(play[h][p], f)
    /\ UNCHANGED <<sessionStatus, current, active, play, stats>>

PickupDetected(id, h, p) ==
    /\ Dispatched(id, h)
    /\ active[h] = p
    /\ UNCHANGED <<sessionStatus, current, active, play, stats>>

(* Fault: the first player in the cup takes everybody to the next hole.    *)
FirstCupCompletesHole(h, p) == TRUE

(* HoleRuntime.complete once the cup of p has been recorded.               *)
CompletesHole(h, p) ==
    \A q \in Players \ {p} : play[h][q].status = "complete"

(* _advance_hole: the last hole ends the round.                            *)
AdvanceHole ==
    IF current = NumHoles
    THEN sessionStatus' = "complete" /\ UNCHANGED current
    ELSE current' = current + 1 /\ UNCHANGED sessionStatus

CupConfirmed(id, h, p, ts) ==
    /\ Dispatched(id, h)
    /\ active[h] = p
    /\ play[h][p].status = "playing"
    /\ play[h][p].strokes >= 1
    /\ LET base == CompletionPoints(ScoreCurve[h], play[h][p].strokes)
       IN  /\ play' = [play EXCEPT ![h][p] = HoledOut(@, base, ts)]
           /\ stats' = [stats EXCEPT ![p] =
                          HoleCompleted(@, base, Elapsed(play[h][p].started, ts))]
    /\ active' = [active EXCEPT ![h] = NoPlayer]
    /\ IF CompletesHole(h, p) THEN AdvanceHole ELSE UNCHANGED <<sessionStatus, current>>

ManualAdjustment(id, h, p, delta) ==
    /\ Dispatched(id, h)
    /\ play' = [play EXCEPT ![h][p] = Scored(@, delta)]
    /\ stats' = [stats EXCEPT ![p] = Scored(@, delta)]
    /\ UNCHANGED <<sessionStatus, current, active>>

-----------------------------------------------------------------------------

ProcessFor(id, h, p) ==
    \/ TeePresented(id, h, p)
    \/ AlreadyArmed(id, h, p)
    \/ TeeCancelled(id, h, p)
    \/ \E ts \in Times : StrokeConfirmed(id, h, p, ts)
    \/ \E f \in Features : FeatureConfirmed(id, h, p, f)
    \/ \E f \in Features : FeatureLimitIgnored(id, h, p, f)
    \/ PickupDetected(id, h, p)
    \/ \E ts \in Times : CupConfirmed(id, h, p, ts)
    \/ \E delta \in Adjustments : ManualAdjustment(id, h, p, delta)

Next ==
    \E id \in EventIds :
        \/ DuplicateIgnored(id)
        \/ \E h \in Holes, p \in Players : ProcessFor(id, h, p)

Spec == Init /\ [][Next]_vars

-----------------------------------------------------------------------------
(* Properties.                                                             *)

(* Every variable stays within the types of models.py; in particular no    *)
(* penalty, stroke count or play time ever goes negative.                  *)
TypeOK ==
    /\ sessionStatus \in SessionStatus
    /\ current \in Holes
    /\ active \in [Holes -> Players \cup {NoPlayer}]
    /\ play \in [Holes -> [Players -> PlayerHoleState]]
    /\ stats \in [Players -> PlayerStats]
    /\ seen \subseteq EventIds

(* The turn is held by exactly one player: a player is mid-play (armed or  *)
(* playing) on a hole if and only if they are that hole's active player,   *)
(* and only the current hole has one.  _tee_presented, _tee_cancelled,     *)
(* _cup_confirmed and _advance_hole keep the status of each player and     *)
(* active_player_id, which nothing else relates, in step.                  *)
TurnDiscipline ==
    \A h \in Holes :
        /\ h # current => active[h] = NoPlayer
        /\ \A p \in Players :
              play[h][p].status \in {"armed", "playing"} <=> active[h] = p

(* What a slot's status says of its other fields: nobody is credited with  *)
(* a stroke, a start or a finish the status does not account for, however  *)
(* arming, cancelling and re-arming interleave.                            *)
SlotAgrees(slot) ==
    LET begun == slot.status \in {"playing", "complete"}
    IN  /\ begun <=> slot.strokes > 0
        /\ begun <=> slot.started # NoTime
        /\ slot.status = "complete" <=> slot.completed # NoTime
        /\ ~begun => \A f \in Features : slot.counts[f] = 0

PhaseAgrees == \A h \in Holes, p \in Players : SlotAgrees(play[h][p])

(* Holes are played in course order and never revisited: every hole before *)
(* the current one is complete for every player, every later one is        *)
(* untouched, and the round is over exactly when nobody is left to finish  *)
(* the last hole.                                                          *)
HolesInOrder ==
    /\ \A h \in Holes, p \in Players :
          /\ h < current => play[h][p].status = "complete"
          /\ h > current => play[h][p] = NewPlayerHoleState
    /\ sessionStatus = "complete" <=>
          \A h \in Holes, p \in Players : play[h][p].status = "complete"
    /\ sessionStatus = "complete" => current = NumHoles

(* The sum of a per-hole value over the course.                            *)
HoleTotal(value) ==
    LET upTo[n \in 0 .. NumHoles] == IF n = 0 THEN 0 ELSE upTo[n - 1] + value[n]
    IN  upTo[NumHoles]

(* The leaderboard is the scorecards added up: the running totals that     *)
(* ranking() sorts by are maintained by separate assignments from the      *)
(* per-hole ones, and they agree after every event, in every field.        *)
RoundTotals ==
    \A p \in Players :
        LET Total(Field(_)) == HoleTotal([h \in Holes |-> Field(play[h][p])])
        IN  /\ stats[p].points = Total(LAMBDA s : s.points)
            /\ stats[p].strokes = Total(LAMBDA s : s.strokes)
            /\ stats[p].bonus = Total(LAMBDA s : s.bonus)
            /\ stats[p].penalties = Total(LAMBDA s : s.penalties)
            /\ stats[p].holesCompleted =
                 Total(LAMBDA s : IF s.status = "complete" THEN 1 ELSE 0)
            /\ stats[p].playMs =
                 Total(LAMBDA s : IF s.status = "complete"
                                  THEN Elapsed(s.started, s.completed) ELSE 0)

(* What the features counted on a scorecard come to: triggers, and points. *)
Triggers(slot) == MapThenSumSet(LAMBDA f : slot.counts[f], Features)

FeaturePoints(slot) ==
    MapThenSumSet(LAMBDA f : slot.counts[f] * PointsDelta[f], Features)

(* The evidence events it takes to fill in a scorecard, and all of them.   *)
Worth(slot) ==
    (IF slot.status = "not_started" THEN 0 ELSE 1)
    + slot.strokes
    + Triggers(slot)
    + (IF slot.status = "complete" THEN 1 ELSE 0)

BoardWorth(board) ==
    MapThenSumSet(LAMBDA hp : Worth(board[hp[1]][hp[2]]), Holes \X Players)

(* Exactly-once scoring: every arming, stroke, counted feature and         *)
(* completion standing on the scorecards was paid for by an evidence event *)
(* of its own, so a redelivered event can never be worth anything.         *)
OneEventOneScore == BoardWorth(play) <= Cardinality(seen)

(* Feature points come only from the configured features of the hole and   *)
(* stay within each rule's trigger limit: bonus minus penalties is what    *)
(* the counted triggers are worth.                                         *)
Ledger(h, slot) ==
    /\ slot.bonus - slot.penalties = FeaturePoints(slot)
    /\ \A f \in Features :
          /\ slot.counts[f] <= MaxTriggers[f]
          /\ f \notin HoleFeatures[h] => slot.counts[f] = 0

FeatureLedger == \A h \in Holes, p \in Players : Ledger(h, play[h][p])

(* The books balance: what the screens show of a player (the leaderboard), *)
(* of a hole (the scorecard) and of a feature (its triggers) are separate  *)
(* assignments of separate handlers, and after any history of deliveries,  *)
(* cancellations and adjustments they still are one account, each entry of *)
(* which an evidence event of its own paid for.                            *)
ScoresAddUp ==
    /\ RoundTotals
    /\ OneEventOneScore
    /\ FeatureLedger

(* Once a player holes out, nothing but the points of that scorecard can   *)
(* change, and those only while the hole is still being played by someone  *)
(* (an operator's adjustment); a finished round never changes at all, and  *)
(* the course only moves forward, one hole at a time.                      *)
FinishedStaysFinished ==
    [][/\ \A h \in Holes, p \in Players :
            play[h][p].status = "complete" =>
                /\ play'[h][p] = [play[h][p] EXCEPT !.points = play'[h][p].points]
                /\ h # current => play'[h][p] = play[h][p]
       /\ sessionStatus = "complete" => UNCHANGED vars
       /\ current' \in {current, current + 1}]_vars

=============================================================================
