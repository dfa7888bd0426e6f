--------------------------- MODULE GameplayProofs ---------------------------
(***************************************************************************)
(* Theorems about Gameplay for every course, group of players, score curve *)
(* and set of features.  The inductive invariant IInv is the conjunction   *)
(* of four of the properties proved: none of them is inductive alone,      *)
(* because what a cup does to the course depends on whose turn it is, and  *)
(* whose turn it is on what the scorecards say.  The books (ScoresAddUp)   *)
(* are kept beside it.                                                     *)
(*                                                                         *)
(* The order: arithmetic and scorecard lemmas, one per operator that writes*)
(* a scorecard; Init; the handlers that leave the course alone; the cup;   *)
(* the whole of Next; what no event undoes; sums over holes and over       *)
(* finite sets; what an event does to them; the theorems.                  *)
(***************************************************************************)
EXTENDS Gameplay, FiniteSetTheorems, WellFoundedInduction, TLAPS

(* A non-empty set of naturals has a least element.                        *)
LEMMA LeastNatural ==
    ASSUME NEW S \in SUBSET Nat, S # {}
    PROVE  \E t \in S : \A u \in S : t <= u
<1> DEFINE R == {ss \in Nat \X Nat : ss[1] < ss[2]}
<1>1. IsWellFoundedOn(R, Nat)
  BY NatLessThanWellFounded DEF OpToRel
<1>2. PICK t \in S : \A u \in S : ~(<<u, t>> \in R)
  <2> HIDE DEF R
  <2> QED BY <1>1, WFMin
<1>3. ASSUME NEW u \in S PROVE t <= u
  <2> SUFFICES ASSUME ~(t <= u) PROVE FALSE
    OBVIOUS
  <2>1. u \in Nat /\ t \in Nat /\ u < t
    OBVIOUS
  <2>2. <<u, t>> \in R
    BY <2>1
  <2> HIDE DEF R
  <2> QED BY <2>2, <1>2
<1> QED BY <1>3

(* completion_points returns an integer for every curve and stroke count.  *)
LEMMA CompletionPointsInt ==
    ASSUME NEW h \in Holes, NEW n \in Nat
    PROVE  CompletionPoints(ScoreCurve[h], n) \in Int
<1> DEFINE curve == ScoreCurve[h]
           D == DOMAIN curve
           Above == {t \in D : n <= t}
<1>1. D \subseteq Nat /\ curve \in [D -> Int]
  BY ScoreCurveAssumption
<1>2. CASE D = {}
  BY <1>2 DEF CompletionPoints
<1>3. CASE D # {} /\ n \in D
  BY <1>1, <1>3 DEF CompletionPoints
<1>4. CASE D # {} /\ n \notin D /\ Above = {}
  <2>1. \E t \in D : \A u \in D : u <= t
    BY <1>4, ScoreCurveAssumption
  <2>2. (CHOOSE t \in D : \A u \in D : u <= t) \in D
    BY <2>1
  <2> QED BY <2>2, <1>1, <1>4 DEF CompletionPoints
<1>5. CASE D # {} /\ n \notin D /\ Above # {}
  <2>1. \E t \in Above : \A u \in Above : t <= u
    BY <1>1, <1>5, LeastNatural
  <2>2. (CHOOSE t \in Above : \A u \in Above : t <= u) \in D
    BY <2>1
  <2> QED BY <2>2, <1>1, <1>5 DEF CompletionPoints
<1> QED BY <1>2, <1>3, <1>4, <1>5

-----------------------------------------------------------------------------
(* What each handler makes of the scorecard slot it touches.               *)

(* Arming, cancelling: only the status changes.                            *)
LEMMA StatusSlot ==
    ASSUME NEW slot \in PlayerHoleState, NEW st \in PlayerHoleStatus
    PROVE  LET s == WithStatus(slot, st)
           IN  /\ s \in PlayerHoleState
               /\ s.status = st
               /\ s.strokes = slot.strokes /\ s.started = slot.started
               /\ s.completed = slot.completed /\ s.counts = slot.counts
               /\ s.points = slot.points
               /\ s.bonus = slot.bonus /\ s.penalties = slot.penalties
  BY DEF PlayerHoleState, WithStatus

(* Scored moves the points and nothing else.                               *)
LEMMA ScoredSlot ==
    ASSUME NEW slot \in PlayerHoleState, NEW delta \in Int
    PROVE  LET s == Scored(slot, delta)
           IN  /\ s \in PlayerHoleState
               /\ s.status = slot.status /\ s.points = slot.points + delta
               /\ s.strokes = slot.strokes /\ s.started = slot.started
               /\ s.completed = slot.completed /\ s.counts = slot.counts
               /\ s.bonus = slot.bonus /\ s.penalties = slot.penalties
  BY DEF PlayerHoleState, Scored

(* Itemised books the delta as bonus or penalty, never a negative amount.  *)
LEMMA ItemisedSlot ==
    ASSUME NEW slot \in PlayerHoleState, NEW delta \in Int
    PROVE  LET s == Itemised(slot, delta)
           IN  /\ s \in PlayerHoleState
               /\ s.status = slot.status /\ s.points = slot.points
               /\ s.strokes = slot.strokes /\ s.started = slot.started
               /\ s.completed = slot.completed /\ s.counts = slot.counts
               /\ s.bonus = slot.bonus + Positive(delta)
               /\ s.penalties = slot.penalties + Positive(-delta)
<1> DEFINE plus == Positive(delta)
           minus == Positive(-delta)
           a == [slot EXCEPT !.bonus = @ + plus]
           b == [a EXCEPT !.penalties = @ + minus]
<1>1. plus \in Nat /\ minus \in Nat
   BY DEF Positive
<1> HIDE DEF plus, minus
<1>2. /\ a \in PlayerHoleState
      /\ a.status = slot.status /\ a.points = slot.points
      /\ a.strokes = slot.strokes /\ a.started = slot.started
      /\ a.completed = slot.completed /\ a.counts = slot.counts
      /\ a.bonus = slot.bonus + plus /\ a.penalties = slot.penalties
  BY <1>1 DEF PlayerHoleState
<1> HIDE DEF a
<1>3. /\ b \in PlayerHoleState
      /\ b.status = a.status /\ b.points = a.points
      /\ b.strokes = a.strokes /\ b.started = a.started
      /\ b.completed = a.completed /\ b.counts = a.counts
      /\ b.bonus = a.bonus /\ b.penalties = a.penalties + minus
  BY <1>1, <1>2 DEF PlayerHoleState
<1>4. b = Itemised(slot, delta)
  BY DEF a, b, Itemised, plus, minus
<1> QED
  BY <1>2, <1>3, <1>4 DEF plus, minus

(* A counted feature raises its own count by one.                          *)
LEMMA CountedSlot ==
    ASSUME NEW slot \in PlayerHoleState, NEW f \in Features
    PROVE  LET s == Counted(slot, f)
           IN  /\ s \in PlayerHoleState
               /\ s.status = slot.status /\ s.points = slot.points
               /\ s.strokes = slot.strokes /\ s.started = slot.started
               /\ s.completed = slot.completed
               /\ s.counts = [slot.counts EXCEPT ![f] = @ + 1]
               /\ s.bonus = slot.bonus /\ s.penalties = slot.penalties
  BY DEF PlayerHoleState, Counted

(* A stroke starts the clock once.                                         *)
LEMMA StrokeSlot ==
    ASSUME NEW slot \in PlayerHoleState, NEW ts \in Times
    PROVE  LET s == Struck(slot, ts)
           IN  /\ s \in PlayerHoleState
               /\ s.status = "playing" /\ s.strokes = slot.strokes + 1
               /\ s.started = IF slot.started = NoTime THEN ts ELSE slot.started
               /\ s.points = slot.points
               /\ s.completed = slot.completed /\ s.counts = slot.counts
               /\ s.bonus = slot.bonus /\ s.penalties = slot.penalties
<1> DEFINE from == IF slot.started = NoTime THEN ts ELSE slot.started
             a == [slot EXCEPT !.strokes = @ + 1]
             b == [a EXCEPT !.status = "playing"]
             c == [b EXCEPT !.started = from]
<1>0. from \in Times \cup {NoTime}
  BY DEF PlayerHoleState
<1> HIDE DEF from
<1>1. a \in PlayerHoleState /\ a.strokes = slot.strokes + 1 /\ a.started = slot.started
      /\ a.points = slot.points /\ a.completed = slot.completed /\ a.counts = slot.counts
      /\ a.bonus = slot.bonus /\ a.penalties = slot.penalties
  BY DEF PlayerHoleState
<1> HIDE DEF a
<1>2. b \in PlayerHoleState /\ b.status = "playing"
      /\ b.strokes = a.strokes /\ b.started = a.started
      /\ b.points = a.points /\ b.completed = a.completed /\ b.counts = a.counts
      /\ b.bonus = a.bonus /\ b.penalties = a.penalties
  BY <1>1 DEF PlayerHoleState, PlayerHoleStatus
<1> HIDE DEF b
<1>3. c \in PlayerHoleState /\ c.status = b.status /\ c.strokes = b.strokes /\ c.started = from
      /\ c.points = b.points /\ c.completed = b.completed /\ c.counts = b.counts
      /\ c.bonus = b.bonus /\ c.penalties = b.penalties
  BY <1>0, <1>2 DEF PlayerHoleState
<1>4. c = Struck(slot, ts)
  BY <1>1, <1>2 DEF a, b, from, Struck
<1> QED BY <1>1, <1>2, <1>3, <1>4 DEF from

(* Holing out scores, completes and stamps the slot.                       *)
LEMMA CupSlot ==
    ASSUME NEW slot \in PlayerHoleState, NEW base \in Int, NEW ts \in Times
    PROVE  LET s == HoledOut(slot, base, ts)
           IN  /\ s \in PlayerHoleState
               /\ s.status = "complete" /\ s.completed = ts
               /\ s.points = slot.points + base
               /\ s.strokes = slot.strokes /\ s.started = slot.started
               /\ s.counts = slot.counts
               /\ s.bonus = slot.bonus /\ s.penalties = slot.penalties
<1> DEFINE a == Scored(slot, base)
           b == [a EXCEPT !.status = "complete"]
           c == [b EXCEPT !.completed = ts]
<1>1. /\ a \in PlayerHoleState
      /\ a.points = slot.points + base
      /\ a.strokes = slot.strokes /\ a.started = slot.started
      /\ a.counts = slot.counts
      /\ a.bonus = slot.bonus /\ a.penalties = slot.penalties
  BY ScoredSlot
<1> HIDE DEF a
<1>2. /\ b \in PlayerHoleState
      /\ b.status = "complete" /\ b.points = a.points
      /\ b.strokes = a.strokes /\ b.started = a.started
      /\ b.counts = a.counts
      /\ b.bonus = a.bonus /\ b.penalties = a.penalties
  BY <1>1 DEF PlayerHoleState, PlayerHoleStatus
<1> HIDE DEF b
<1>3. /\ c \in PlayerHoleState
      /\ c.status = b.status /\ c.completed = ts /\ c.points = b.points
      /\ c.strokes = b.strokes /\ c.started = b.started
      /\ c.counts = b.counts
      /\ c.bonus = b.bonus /\ c.penalties = b.penalties
  BY <1>2 DEF PlayerHoleState
<1>4. c = HoledOut(slot, base, ts)
  BY DEF a, b, HoledOut
<1> QED BY <1>1, <1>2, <1>3, <1>4

(* Scored moves the points of a player's running totals, nothing else.     *)
LEMMA ScoredStats ==
    ASSUME NEW s \in PlayerStats, NEW delta \in Int
    PROVE  LET t == Scored(s, delta)
           IN  /\ t \in PlayerStats
               /\ t.points = s.points + delta /\ t.strokes = s.strokes
               /\ t.bonus = s.bonus /\ t.penalties = s.penalties
               /\ t.playMs = s.playMs /\ t.holesCompleted = s.holesCompleted
  BY DEF PlayerStats, Scored

(* A feature itemises the round's totals as it does the scorecard.         *)
LEMMA ItemisedStats ==
    ASSUME NEW s \in PlayerStats, NEW delta \in Int
    PROVE  LET t == Itemised(s, delta)
           IN  /\ t \in PlayerStats
               /\ t.points = s.points /\ t.strokes = s.strokes
               /\ t.bonus = s.bonus + Positive(delta)
               /\ t.penalties = s.penalties + Positive(-delta)
               /\ t.playMs = s.playMs /\ t.holesCompleted = s.holesCompleted
<1> DEFINE plus == Positive(delta)
           minus == Positive(-delta)
           a == [s EXCEPT !.bonus = @ + plus]
           b == [a EXCEPT !.penalties = @ + minus]
<1>1. plus \in Nat /\ minus \in Nat
  BY DEF Positive
<1> HIDE DEF plus, minus
<1>2. /\ a \in PlayerStats
      /\ a.points = s.points /\ a.strokes = s.strokes
      /\ a.bonus = s.bonus + plus /\ a.penalties = s.penalties
      /\ a.playMs = s.playMs /\ a.holesCompleted = s.holesCompleted
  BY <1>1 DEF PlayerStats
<1> HIDE DEF a
<1>3. /\ b \in PlayerStats
      /\ b.points = a.points /\ b.strokes = a.strokes
      /\ b.bonus = a.bonus /\ b.penalties = a.penalties + minus
      /\ b.playMs = a.playMs /\ b.holesCompleted = a.holesCompleted
  BY <1>1, <1>2 DEF PlayerStats
<1>4. b = Itemised(s, delta)
  BY DEF a, b, Itemised, plus, minus
<1> QED BY <1>2, <1>3, <1>4 DEF plus, minus

(* Completing a hole adds points, a hole and a non-negative play time.     *)
LEMMA CupStats ==
    ASSUME NEW s \in PlayerStats, NEW base \in Int, NEW ms \in Nat
    PROVE  LET t == HoleCompleted(s, base, ms)
           IN  /\ t \in PlayerStats
               /\ t.points = s.points + base /\ t.strokes = s.strokes
               /\ t.bonus = s.bonus /\ t.penalties = s.penalties
               /\ t.playMs = s.playMs + ms /\ t.holesCompleted = s.holesCompleted + 1
<1> DEFINE a == Scored(s, base)
           b == [a EXCEPT !.holesCompleted = @ + 1]
           c == [b EXCEPT !.playMs = @ + ms]
<1>1. /\ a \in PlayerStats
      /\ a.points = s.points + base /\ a.strokes = s.strokes
      /\ a.bonus = s.bonus /\ a.penalties = s.penalties
      /\ a.playMs = s.playMs /\ a.holesCompleted = s.holesCompleted
  BY ScoredStats
<1> HIDE DEF a
<1>2. /\ b \in PlayerStats
      /\ b.points = a.points /\ b.strokes = a.strokes
      /\ b.bonus = a.bonus /\ b.penalties = a.penalties
      /\ b.playMs = a.playMs /\ b.holesCompleted = a.holesCompleted + 1
  BY <1>1 DEF PlayerStats
<1> HIDE DEF b
<1>3. /\ c \in PlayerStats
      /\ c.points = b.points /\ c.strokes = b.strokes
      /\ c.bonus = b.bonus /\ c.penalties = b.penalties
      /\ c.playMs = b.playMs + ms /\ c.holesCompleted = b.holesCompleted
  BY <1>2 DEF PlayerStats
<1>4. c = HoleCompleted(s, base, ms)
  BY DEF a, b, HoleCompleted
<1> QED BY <1>1, <1>2, <1>3, <1>4

-----------------------------------------------------------------------------

(* The inductive invariant behind the four named properties.               *)
IInv == TypeOK /\ TurnDiscipline /\ PhaseAgrees /\ HolesInOrder

(* A new round has no turn, no score and stands at the first hole.         *)
LEMMA InitIInv == Init => IInv
<1> SUFFICES ASSUME Init PROVE IInv
  OBVIOUS
<1> USE PlayersAssumption, NumHolesAssumption
<1>1. TypeOK
  BY DEF Init, TypeOK, Holes, SessionStatus, NewPlayerHoleState, PlayerHoleState,
         PlayerHoleStatus, NewPlayerStats, PlayerStats
<1>2. \A h \in Holes, p \in Players : play[h][p] = NewPlayerHoleState
  BY DEF Init
<1>3. TurnDiscipline
  BY <1>2 DEF Init, TurnDiscipline, NewPlayerHoleState
<1>4. PhaseAgrees
  BY <1>2 DEF PhaseAgrees, SlotAgrees, NewPlayerHoleState
<1>5. HolesInOrder
  <2>1. 1 \in Holes /\ \A h \in Holes : ~(h < 1)
    BY DEF Holes
  <2>2. \A h \in Holes, p \in Players : play[h][p].status # "complete"
    BY <1>2 DEF NewPlayerHoleState
  <2>3. PICK p \in Players : TRUE
    OBVIOUS
  <2> QED BY <1>2, <2>1, <2>2, <2>3 DEF Init, HolesInOrder
<1> QED BY <1>1, <1>3, <1>4, <1>5 DEF IInv

(* A handler that keeps the turn and the course where they are keeps the   *)
(* invariant when the slot it writes agrees with itself, is not holed out  *)
(* unless it was, and is mid-play exactly when its player has the turn.    *)
LEMMA KeepsCourse ==
    ASSUME IInv, NEW h \in Holes, NEW p \in Players, NEW s \in PlayerHoleState,
           h = current, sessionStatus # "complete",
           play' = [play EXCEPT ![h][p] = s],
           NEW a \in Players \cup {NoPlayer},
           active' = [active EXCEPT ![h] = a],
           a \in {NoPlayer, p, active[h]},
           active[h] \in {NoPlayer, p} \/ (a = active[h] /\ s.status = play[h][p].status),
           s.status \in {"armed", "playing"} <=> a = p,
           SlotAgrees(s),
           s.status = "complete" <=> play[h][p].status = "complete",
           sessionStatus' \in SessionStatus \ {"complete"},
           current' = current, stats' \in [Players -> PlayerStats],
           seen' \subseteq EventIds
    PROVE  IInv'
<1> USE PlayersAssumption
<1>0. TypeOK /\ TurnDiscipline /\ PhaseAgrees /\ HolesInOrder
  BY DEF IInv
<1>1. /\ play' \in [Holes -> [Players -> PlayerHoleState]]
      /\ play'[h][p] = s
      /\ \A g \in Holes, q \in Players : g # h \/ q # p => play'[g][q] = play[g][q]
  BY <1>0 DEF TypeOK
<1>2. active' \in [Holes -> Players \cup {NoPlayer}]
      /\ active'[h] = a
      /\ \A g \in Holes : g # h => active'[g] = active[g]
  BY <1>0 DEF TypeOK
<1>3. TypeOK'
  BY <1>0, <1>1, <1>2 DEF TypeOK
<1>4. TurnDiscipline'
  BY <1>0, <1>1, <1>2 DEF TurnDiscipline
<1>5. PhaseAgrees'
  BY <1>0, <1>1 DEF PhaseAgrees, SlotAgrees
<1>6. HolesInOrder'
  BY <1>0, <1>1 DEF HolesInOrder, Holes, TypeOK
<1> QED BY <1>3, <1>4, <1>5, <1>6 DEF IInv


(* Events that write nothing but their id.                                 *)
LEMMA OnlyIdRecorded ==
    ASSUME IInv, UNCHANGED <<sessionStatus, current, active, play, stats>>,
           seen' \subseteq EventIds
    PROVE  IInv'
  BY DEF IInv, TypeOK, TurnDiscipline, PhaseAgrees, SlotAgrees, HolesInOrder

(* The cup is the one event that can move the course.                      *)
LEMMA CupKeepsIInv ==
    ASSUME IInv, NEW id \in EventIds, NEW h \in Holes, NEW p \in Players,
           NEW ts \in Times, CupConfirmed(id, h, p, ts)
    PROVE  IInv'
<1> USE PlayersAssumption, NumHolesAssumption
<1>0. TypeOK /\ TurnDiscipline /\ PhaseAgrees /\ HolesInOrder
  BY DEF IInv
<1> DEFINE slot == play[h][p]
           base == CompletionPoints(ScoreCurve[h], slot.strokes)
           ms == Elapsed(slot.started, ts)
           s == HoledOut(slot, base, ts)
           t == HoleCompleted(stats[p], base, ms)
<1>1. slot \in PlayerHoleState /\ stats[p] \in PlayerStats /\ slot.strokes \in Nat
      /\ slot.started \in Times \cup {NoTime}
  BY <1>0 DEF TypeOK, PlayerHoleState
<1>2. base \in Int
  BY <1>1, CompletionPointsInt
<1>3. /\ s \in PlayerHoleState
      /\ s.status = "complete" /\ s.completed = ts
      /\ s.strokes = slot.strokes /\ s.started = slot.started
      /\ s.counts = slot.counts
  <2> HIDE DEF slot, base
  <2> QED BY <1>1, <1>2, CupSlot
<1>4. ms \in Nat
  <2> HIDE DEF slot
  <2>1. \A t0 \in Times : t0 \in Int
    BY TimesAssumption
  <2>2. ts \in Int /\ (slot.started = NoTime \/ slot.started \in Int)
    BY <1>1, <2>1
  <2> QED BY <2>2 DEF Elapsed, Positive
<1>5. t \in PlayerStats
  <2> HIDE DEF slot, base, ms
  <2> QED BY <1>1, <1>2, <1>4, CupStats
<1>6. /\ play' = [play EXCEPT ![h][p] = s]
      /\ stats' = [stats EXCEPT ![p] = t]
      /\ active' = [active EXCEPT ![h] = NoPlayer]
      /\ h = current /\ sessionStatus # "complete" /\ seen' = seen \cup {id}
      /\ active[h] = p /\ slot.status = "playing" /\ slot.strokes >= 1
      /\ IF CompletesHole(h, p) THEN AdvanceHole ELSE UNCHANGED <<sessionStatus, current>>
  BY DEF CupConfirmed, Dispatched
<1> HIDE DEF s, t, base, ms
<1>7. /\ play' \in [Holes -> [Players -> PlayerHoleState]]
      /\ play'[h][p] = s
      /\ \A g \in Holes, q \in Players : g # h \/ q # p => play'[g][q] = play[g][q]
  BY <1>0, <1>3, <1>6 DEF TypeOK
<1>8. active' \in [Holes -> Players \cup {NoPlayer}]
      /\ active'[h] = NoPlayer
      /\ \A g \in Holes : g # h => active'[g] = active[g]
  BY <1>0, <1>6 DEF TypeOK
<1>9. /\ sessionStatus' \in SessionStatus
      /\ current' \in Holes
      /\ ~CompletesHole(h, p) => sessionStatus' = sessionStatus /\ current' = current
      /\ CompletesHole(h, p) /\ current = NumHoles =>
            sessionStatus' = "complete" /\ current' = current
      /\ CompletesHole(h, p) /\ current # NumHoles =>
            /\ sessionStatus' = sessionStatus /\ current' = current + 1
            /\ current + 1 \in Holes
  BY <1>0, <1>6 DEF AdvanceHole, TypeOK, SessionStatus, Holes
<1>10. TypeOK'
  BY <1>0, <1>5, <1>6, <1>7, <1>8, <1>9 DEF TypeOK
<1>11. TurnDiscipline'
  BY <1>0, <1>3, <1>6, <1>7, <1>8 DEF TurnDiscipline, TypeOK
<1>12. PhaseAgrees'
  <2>1. SlotAgrees(slot)
    BY <1>0 DEF PhaseAgrees
  <2>2. SlotAgrees(s)
    BY <2>1, <1>1, <1>3, <1>6, TimesAssumption DEF SlotAgrees
  <2> QED BY <2>2, <1>0, <1>7 DEF PhaseAgrees, SlotAgrees
<1>13. HolesInOrder'
  <2>1. CASE ~CompletesHole(h, p)
    <3>1. PICK q \in Players \ {p} : play[h][q].status # "complete"
      BY <2>1 DEF CompletesHole
    <3>2. play'[h][q].status # "complete"
      BY <3>1, <1>7
    <3> QED BY <3>2, <2>1, <1>0, <1>6, <1>7, <1>9 DEF HolesInOrder, Holes, TypeOK
  <2>2. CASE CompletesHole(h, p)
    <3>1. \A q \in Players : play'[h][q].status = "complete"
      BY <2>2, <1>3, <1>7 DEF CompletesHole
    <3>2. \A g \in Holes, q \in Players : g < current => play'[g][q].status = "complete"
      BY <1>0, <1>6, <1>7 DEF HolesInOrder, Holes, TypeOK
    <3>3. CASE current = NumHoles
      BY <3>1, <3>2, <3>3, <2>2, <1>6, <1>9 DEF HolesInOrder, Holes
    <3>4. CASE current # NumHoles
      <4>1. \A g \in Holes, q \in Players : g > current => play'[g][q] = NewPlayerHoleState
        BY <1>0, <1>6, <1>7 DEF HolesInOrder, Holes, TypeOK
      <4>2. PICK r \in Players : play'[current + 1][r].status # "complete"
        BY <3>4, <2>2, <4>1, <1>0, <1>9 DEF NewPlayerHoleState, TypeOK, Holes
      <4>3. sessionStatus' # "complete" /\ current' = current + 1
        BY <3>4, <2>2, <1>6, <1>9
      <4>4. \A g \in Holes, q \in Players :
               /\ g < current + 1 => play'[g][q].status = "complete"
               /\ g > current + 1 => play'[g][q] = NewPlayerHoleState
        BY <3>1, <3>2, <4>1, <1>0, <1>6 DEF Holes, TypeOK
      <4> QED BY <3>4, <2>2, <4>2, <4>3, <4>4, <1>9 DEF HolesInOrder
    <3> QED BY <3>3, <3>4
  <2> QED BY <2>1, <2>2
<1> QED BY <1>10, <1>11, <1>12, <1>13 DEF IInv


(* Every event, and every ignored one, keeps the invariant.                *)
LEMMA NextKeepsIInv == IInv /\ [Next]_vars => IInv'
<1> SUFFICES ASSUME IInv, [Next]_vars PROVE IInv'
  OBVIOUS
<1> USE PlayersAssumption, TimesAssumption
<1>0. TypeOK /\ TurnDiscipline /\ PhaseAgrees /\ HolesInOrder
  BY DEF IInv
<1>1. CASE UNCHANGED vars
  BY <1>1, OnlyIdRecorded, <1>0 DEF vars, TypeOK
<1>2. ASSUME NEW id \in EventIds, DuplicateIgnored(id) PROVE IInv'
  BY <1>2, OnlyIdRecorded, <1>0 DEF DuplicateIgnored, vars, TypeOK
<1>3. ASSUME NEW id \in EventIds, NEW h \in Holes, NEW p \in Players,
             ProcessFor(id, h, p)
      PROVE  IInv'
  <2> DEFINE slot == play[h][p]
  <2>0. /\ slot \in PlayerHoleState /\ stats[p] \in PlayerStats
        /\ slot.status \in PlayerHoleStatus
        /\ SlotAgrees(slot)
        /\ slot.status \in {"armed", "playing"} <=> active[h] = p
        /\ active[h] \in Players \cup {NoPlayer}
        /\ \A id2 \in EventIds : seen \cup {id2} \subseteq EventIds
    BY <1>0 DEF TypeOK, PhaseAgrees, TurnDiscipline, PlayerHoleState
  <2>1. CASE TeePresented(id, h, p)
    <3>1. PlayerHoleStatus # {} /\ "armed" \in PlayerHoleStatus
      BY DEF PlayerHoleStatus
    <3> DEFINE s == WithStatus(slot, "armed")
    <3>2. /\ s \in PlayerHoleState /\ s.status = "armed"
          /\ s.strokes = slot.strokes /\ s.started = slot.started
          /\ s.completed = slot.completed /\ s.counts = slot.counts
      BY <2>0, <3>1, StatusSlot
    <3>3. SlotAgrees(s)
      BY <2>0, <2>1, <3>2 DEF SlotAgrees, TeePresented, PlayerHoleStatus
    <3>4. /\ play' = [play EXCEPT ![h][p] = s]
          /\ active' = [active EXCEPT ![h] = p] /\ active[h] = NoPlayer
          /\ h = current /\ sessionStatus # "complete" /\ slot.status # "complete"
          /\ sessionStatus' = sessionStatus /\ current' = current /\ stats' = stats
          /\ seen' = seen \cup {id}
      BY <2>1 DEF TeePresented, Dispatched
    <3> HIDE DEF s
    <3> QED BY <1>0, <2>0, <3>2, <3>3, <3>4, KeepsCourse DEF TypeOK
  <2>2. CASE AlreadyArmed(id, h, p)
    BY <2>0, <2>2, OnlyIdRecorded DEF AlreadyArmed, Dispatched
  <2>3. CASE TeeCancelled(id, h, p)
    <3>1. "not_started" \in PlayerHoleStatus
      BY DEF PlayerHoleStatus
    <3> DEFINE s == WithStatus(slot, "not_started")
    <3>2. /\ s \in PlayerHoleState /\ s.status = "not_started"
          /\ s.strokes = slot.strokes /\ s.started = slot.started
          /\ s.completed = slot.completed /\ s.counts = slot.counts
      BY <2>0, <3>1, StatusSlot
    <3>3. SlotAgrees(s)
      BY <2>0, <2>3, <3>2 DEF SlotAgrees, TeeCancelled
    <3>4. /\ play' = [play EXCEPT ![h][p] = s]
          /\ active' = [active EXCEPT ![h] = NoPlayer] /\ active[h] = p
          /\ h = current /\ sessionStatus # "complete" /\ slot.status = "armed"
          /\ sessionStatus' = sessionStatus /\ current' = current /\ stats' = stats
          /\ seen' = seen \cup {id}
      BY <2>3 DEF TeeCancelled, Dispatched
    <3> HIDE DEF s
    <3> QED BY <1>0, <2>0, <3>2, <3>3, <3>4, KeepsCourse DEF TypeOK
  <2>4. ASSUME NEW ts \in Times, StrokeConfirmed(id, h, p, ts) PROVE IInv'
    <3> DEFINE s == Struck(slot, ts)
    <3>1. /\ s \in PlayerHoleState /\ s.status = "playing"
          /\ s.strokes = slot.strokes + 1
          /\ s.started = IF slot.started = NoTime THEN ts ELSE slot.started
          /\ s.completed = slot.completed /\ s.counts = slot.counts
      BY <2>0, StrokeSlot
    <3>2. SlotAgrees(s)
      BY <2>0, <2>4, <3>1 DEF SlotAgrees, StrokeConfirmed, PlayerHoleState
    <3>3. /\ play' = [play EXCEPT ![h][p] = s]
          /\ active[h] = p /\ active' = [active EXCEPT ![h] = p]
          /\ h = current /\ sessionStatus # "complete"
          /\ slot.status \in {"armed", "playing"}
          /\ sessionStatus' = "active" /\ current' = current
          /\ stats' \in [Players -> PlayerStats]
          /\ seen' = seen \cup {id}
      BY <1>0, <2>4 DEF StrokeConfirmed, Dispatched, TypeOK, PlayerStats
    <3> HIDE DEF s
    <3> QED BY <1>0, <2>0, <3>1, <3>2, <3>3, KeepsCourse DEF SessionStatus
  <2>5. ASSUME NEW f \in Features, FeatureConfirmed(id, h, p, f) PROVE IInv'
    <3> DEFINE delta == PointsDelta[f]
               c == Counted(slot, f)
               d == Scored(c, delta)
               s == Itemised(d, delta)
               t == Itemised(Scored(stats[p], delta), delta)
    <3>0. delta \in Int
      BY FeaturesAssumption
    <3> HIDE DEF delta
    <3>1. c \in PlayerHoleState /\ c.status = slot.status /\ c.strokes = slot.strokes
          /\ c.started = slot.started /\ c.completed = slot.completed
      BY <2>0, CountedSlot
    <3>2. d \in PlayerHoleState /\ d.status = slot.status /\ d.strokes = slot.strokes
          /\ d.started = slot.started /\ d.completed = slot.completed
      <4> HIDE DEF c
      <4> QED BY <3>0, <3>1, ScoredSlot
    <3>3. s \in PlayerHoleState /\ s.status = slot.status /\ s.strokes = slot.strokes
          /\ s.started = slot.started /\ s.completed = slot.completed
      <4> HIDE DEF d
      <4> QED BY <3>0, <3>2, ItemisedSlot
    <3>4. t \in PlayerStats
      BY <2>0, <3>0, ScoredStats, ItemisedStats
    <3> HIDE DEF t, s
    <3>5. /\ play' = [play EXCEPT ![h][p] = s]
          /\ stats' = [stats EXCEPT ![p] = t]
          /\ active[h] = p /\ active' = [active EXCEPT ![h] = p]
          /\ h = current /\ sessionStatus # "complete"
          /\ slot.status = "playing"
          /\ sessionStatus' = sessionStatus /\ current' = current
          /\ seen' = seen \cup {id}
      BY <1>0, <2>5 DEF FeatureConfirmed, Dispatched, TypeOK, s, t, delta
    <3>6. SlotAgrees(s)
      BY <2>0, <3>3, <3>5 DEF SlotAgrees
    <3>7. stats' \in [Players -> PlayerStats]
      BY <1>0, <3>4, <3>5 DEF TypeOK
    <3> QED BY <1>0, <2>0, <3>3, <3>5, <3>6, <3>7, KeepsCourse DEF TypeOK
  <2>6. ASSUME NEW f \in Features, FeatureLimitIgnored(id, h, p, f) PROVE IInv'
    BY <2>0, <2>6, OnlyIdRecorded DEF FeatureLimitIgnored, Dispatched
  <2>7. CASE PickupDetected(id, h, p)
    BY <2>0, <2>7, OnlyIdRecorded DEF PickupDetected, Dispatched
  <2>8. ASSUME NEW ts \in Times, CupConfirmed(id, h, p, ts) PROVE IInv'
    BY <2>8, CupKeepsIInv
  <2>9. ASSUME NEW delta \in Adjustments, ManualAdjustment(id, h, p, delta) PROVE IInv'
    <3> DEFINE s == Scored(slot, delta)
               t == Scored(stats[p], delta)
    <3>0. delta \in Int
      BY AdjustmentsAssumption
    <3>1. s \in PlayerHoleState /\ s.status = slot.status /\ s.strokes = slot.strokes
          /\ s.started = slot.started /\ s.completed = slot.completed
          /\ s.counts = slot.counts
      BY <2>0, <3>0, ScoredSlot
    <3>2. t \in PlayerStats
      BY <2>0, <3>0, ScoredStats
    <3> HIDE DEF s, t
    <3>3. /\ play' = [play EXCEPT ![h][p] = s]
          /\ stats' = [stats EXCEPT ![p] = t]
          /\ active' = [active EXCEPT ![h] = active[h]]
          /\ h = current /\ sessionStatus # "complete"
          /\ sessionStatus' = sessionStatus /\ current' = current
          /\ seen' = seen \cup {id}
      BY <1>0, <2>9 DEF ManualAdjustment, Dispatched, TypeOK, s, t
    <3>4. SlotAgrees(s)
      BY <2>0, <3>1 DEF SlotAgrees
    <3>5. stats' \in [Players -> PlayerStats]
      BY <1>0, <3>2, <3>3 DEF TypeOK
    <3>6. /\ s.status \in {"armed", "playing"} <=> active[h] = p
          /\ s.status = "complete" <=> play[h][p].status = "complete"
          /\ active[h] \in Players \cup {NoPlayer}
      BY <2>0, <3>1
    <3>7. sessionStatus' \in SessionStatus \ {"complete"} /\ seen' \subseteq EventIds
      BY <1>0, <2>0, <3>3 DEF TypeOK
    <3>8. s.status = play[h][p].status /\ s \in PlayerHoleState
      BY <3>1
    <3> HIDE DEF slot
    <3> QED BY <3>3, <3>4, <3>5, <3>6, <3>7, <3>8, KeepsCourse
  <2> QED BY <1>3, <2>1, <2>2, <2>3, <2>4, <2>5, <2>6, <2>7, <2>8, <2>9 DEF ProcessFor
<1> QED BY <1>1, <1>2, <1>3 DEF Next

(* The invariant holds throughout every round.                             *)
LEMMA Invariance == Spec => []IInv
  BY InitIInv, NextKeepsIInv, PTL DEF Spec

-----------------------------------------------------------------------------
(* What an event can do to the past.                                       *)

(* What an event for player p on hole h can do to that player's slot: a    *)
(* completed one only has points added, and a begun one stays begun.       *)
Later(slot, s) ==
    /\ s \in PlayerHoleState
    /\ slot.status = "complete" => s = [slot EXCEPT !.points = s.points]
    /\ slot.status \in {"playing", "complete"} => s.status \in {"playing", "complete"}

(* Every event is for the hole being played, and moves one slot forward.   *)
LEMMA EventEffect ==
    ASSUME IInv, NEW id \in EventIds, NEW h \in Holes, NEW p \in Players,
           ProcessFor(id, h, p)
    PROVE  /\ h = current /\ sessionStatus # "complete" /\ seen' = seen \cup {id}
           /\ current' \in {current, current + 1}
           /\ \E s : Later(play[h][p], s) /\ play' = [play EXCEPT ![h][p] = s]
<1> DEFINE slot == play[h][p]
<1>0. /\ slot \in PlayerHoleState /\ slot.status \in PlayerHoleStatus
      /\ slot.status \in {"armed", "playing"} <=> active[h] = p
      /\ NoPlayer # p /\ play \in [Holes -> [Players -> PlayerHoleState]]
      /\ slot.strokes \in Nat
  BY PlayersAssumption DEF IInv, TypeOK, TurnDiscipline, PlayerHoleState
<1>1. h = current /\ sessionStatus # "complete" /\ seen' = seen \cup {id}
  BY DEF ProcessFor, TeePresented, AlreadyArmed, TeeCancelled, StrokeConfirmed, FeatureConfirmed,
         FeatureLimitIgnored, PickupDetected, CupConfirmed, ManualAdjustment, Dispatched
<1>2. current' \in {current, current + 1}
  BY DEF ProcessFor, TeePresented, AlreadyArmed, TeeCancelled, StrokeConfirmed, FeatureConfirmed,
         FeatureLimitIgnored, PickupDetected, CupConfirmed, ManualAdjustment, AdvanceHole
<1>3. \E s : Later(slot, s) /\ play' = [play EXCEPT ![h][p] = s]
  <2>1. CASE UNCHANGED play
    <3>1. Later(slot, slot)
      BY <1>0 DEF Later, PlayerHoleState
    <3>2. play' = [play EXCEPT ![h][p] = slot]
      BY <1>0, <2>1
    <3> QED BY <3>1, <3>2
  <2>2. ASSUME TeePresented(id, h, p) \/ TeeCancelled(id, h, p)
        PROVE  \E s : Later(slot, s) /\ play' = [play EXCEPT ![h][p] = s]
    <3>1. slot.status \notin {"playing", "complete"}
      BY <1>0, <2>2 DEF TeePresented, TeeCancelled
    <3>2. PICK st \in {"armed", "not_started"} :
                play' = [play EXCEPT ![h][p] = WithStatus(slot, st)]
      BY <1>0, <2>2 DEF TeePresented, TeeCancelled
    <3>3. WithStatus(slot, st) \in PlayerHoleState
      <4>1. st \in PlayerHoleStatus
        BY DEF PlayerHoleStatus
      <4> QED BY <1>0, <4>1, StatusSlot
    <3> QED BY <3>1, <3>2, <3>3 DEF Later
  <2>3. ASSUME NEW ts \in Times, StrokeConfirmed(id, h, p, ts)
        PROVE  \E s : Later(slot, s) /\ play' = [play EXCEPT ![h][p] = s]
    <3>1. slot.status # "complete" /\ play' = [play EXCEPT ![h][p] = Struck(slot, ts)]
      BY <1>0, <2>3 DEF StrokeConfirmed
    <3>2. Struck(slot, ts) \in PlayerHoleState /\ Struck(slot, ts).status = "playing"
      BY <1>0, StrokeSlot
    <3> QED BY <3>1, <3>2 DEF Later
  <2>4. ASSUME NEW f \in Features, FeatureConfirmed(id, h, p, f)
        PROVE  \E s : Later(slot, s) /\ play' = [play EXCEPT ![h][p] = s]
    <3> DEFINE delta == PointsDelta[f]
               c == Counted(slot, f)
               d == Scored(c, delta)
               s == Itemised(d, delta)
    <3>0. delta \in Int
      BY FeaturesAssumption
    <3>1. slot.status = "playing" /\ play' = [play EXCEPT ![h][p] = s]
      BY <1>0, <2>4 DEF FeatureConfirmed
    <3> HIDE DEF delta
    <3>2. c \in PlayerHoleState /\ c.status = slot.status
      BY <1>0, CountedSlot
    <3>3. d \in PlayerHoleState /\ d.status = slot.status
      <4> HIDE DEF c
      <4> QED BY <3>0, <3>2, ScoredSlot
    <3>4. s \in PlayerHoleState /\ s.status = slot.status
      <4> HIDE DEF d
      <4> QED BY <3>0, <3>3, ItemisedSlot
    <3> HIDE DEF s
    <3> QED BY <3>1, <3>4 DEF Later
  <2>5. ASSUME NEW ts \in Times, CupConfirmed(id, h, p, ts)
        PROVE  \E s : Later(slot, s) /\ play' = [play EXCEPT ![h][p] = s]
    <3> DEFINE base == CompletionPoints(ScoreCurve[h], slot.strokes)
    <3>1. slot.status # "complete" /\ play' = [play EXCEPT ![h][p] = HoledOut(slot, base, ts)]
      BY <1>0, <2>5 DEF CupConfirmed
    <3>2. base \in Int
      BY <1>0, CompletionPointsInt
    <3> HIDE DEF base
    <3>3. /\ HoledOut(slot, base, ts) \in PlayerHoleState
          /\ HoledOut(slot, base, ts).status = "complete"
      BY <1>0, <3>2, CupSlot
    <3> QED BY <3>1, <3>3 DEF Later
  <2>6. ASSUME NEW delta \in Adjustments, ManualAdjustment(id, h, p, delta)
        PROVE  \E s : Later(slot, s) /\ play' = [play EXCEPT ![h][p] = s]
    <3>1. play' = [play EXCEPT ![h][p] = Scored(slot, delta)] /\ delta \in Int
      BY <1>0, <2>6, AdjustmentsAssumption DEF ManualAdjustment
    <3>2. Scored(slot, delta) \in PlayerHoleState /\ Scored(slot, delta).status = slot.status
      BY <1>0, <3>1, ScoredSlot
    <3>3. Scored(slot, delta) = [slot EXCEPT !.points = Scored(slot, delta).points]
      BY <1>0 DEF Scored, PlayerHoleState
    <3> QED BY <3>1, <3>2, <3>3 DEF Later
  <2> QED BY <2>1, <2>2, <2>3, <2>4, <2>5, <2>6
          DEF ProcessFor, AlreadyArmed, FeatureLimitIgnored, PickupDetected
<1> QED BY <1>1, <1>2, <1>3

(* The game only moves forward: ids are added to the seen ones one at a    *)
(* time, holes are advanced one at a time, and what a player has begun or  *)
(* finished stays begun or finished.                                       *)
LEMMA OnlyForward ==
    ASSUME IInv, [Next]_vars
    PROVE  /\ seen \subseteq seen' /\ \E id : seen' \subseteq seen \cup {id}
           /\ current' \in {current, current + 1}
           /\ sessionStatus = "complete" => UNCHANGED vars
           /\ \A h \in Holes, p \in Players :
                 /\ Later(play[h][p], play'[h][p])
                 /\ play[h][p].status = "complete" /\ h # current => play'[h][p] = play[h][p]
<1>0. play \in [Holes -> [Players -> PlayerHoleState]]
  BY DEF IInv, TypeOK
<1>1. CASE UNCHANGED vars
  <2>1. \A h \in Holes, p \in Players : Later(play[h][p], play[h][p])
    BY <1>0 DEF Later, PlayerHoleState
  <2> QED BY <1>1, <2>1 DEF vars
<1>2. ASSUME NEW id \in EventIds, NEW g \in Holes, NEW q \in Players, ProcessFor(id, g, q)
      PROVE  /\ seen \subseteq seen' /\ \E i : seen' \subseteq seen \cup {i}
             /\ current' \in {current, current + 1}
             /\ sessionStatus = "complete" => UNCHANGED vars
             /\ \A h \in Holes, p \in Players :
                   /\ Later(play[h][p], play'[h][p])
                   /\ play[h][p].status = "complete" /\ h # current => play'[h][p] = play[h][p]
  <2>1. /\ g = current /\ sessionStatus # "complete" /\ seen' = seen \cup {id}
        /\ current' \in {current, current + 1}
    BY <1>2, EventEffect
  <2>2. PICK s : Later(play[g][q], s) /\ play' = [play EXCEPT ![g][q] = s]
    BY <1>2, EventEffect
  <2>3. ASSUME NEW h \in Holes, NEW p \in Players
        PROVE  /\ Later(play[h][p], play'[h][p])
               /\ h # current => play'[h][p] = play[h][p]
    <3>1. CASE h = g /\ p = q
      BY <1>0, <2>1, <2>2, <3>1
    <3>2. CASE h # g \/ p # q
      <4>1. play'[h][p] = play[h][p] /\ play[h][p] \in PlayerHoleState
        BY <1>0, <2>2, <3>2
      <4> QED BY <4>1 DEF Later, PlayerHoleState
    <3> QED BY <3>1, <3>2
  <2> QED BY <2>1, <2>3
<1> QED BY <1>1, <1>2 DEF Next, DuplicateIgnored

-----------------------------------------------------------------------------
(* Sums.  The prover has no induction principle to instantiate, so that    *)
(* naturals have least elements (LeastNatural) takes its place.            *)

(* A set of naturals with 0 and every successor has them all.              *)
LEMMA AllNaturals ==
    ASSUME NEW S \in SUBSET Nat, 0 \in S, \A n \in S : n + 1 \in S
    PROVE  S = Nat
<1> SUFFICES ASSUME Nat \ S # {} PROVE FALSE
  OBVIOUS
<1>1. PICK t \in Nat \ S : \A u \in Nat \ S : t <= u
  BY LeastNatural
<1>2. t # 0 /\ t - 1 \in Nat /\ ~(t <= t - 1)
  BY <1>1
<1>3. t - 1 \in S
  BY <1>1, <1>2
<1>4. (t - 1) + 1 \in S
  BY <1>3
<1>5. (t - 1) + 1 = t
  OBVIOUS
<1> QED BY <1>1, <1>4, <1>5

(* The partial sums of a value per hole, as HoleTotal adds it up.          *)
PartialSums(value, f) ==
    f = [n \in 0 .. NumHoles |-> IF n = 0 THEN 0 ELSE f[n - 1] + value[n]]

(* There are such sums.                                                    *)
LEMMA PartialSumsExist ==
    ASSUME NEW value \in [Holes -> Int]
    PROVE  \E f : PartialSums(value, f)
<1> DEFINE Upto(n, f) ==
             /\ f \in [0 .. n -> Int] /\ f[0] = 0
             /\ \A k \in 1 .. n : f[k] = f[k - 1] + value[k]
           S == {n \in Nat : n <= NumHoles => \E f : Upto(n, f)}
<1>0. NumHoles \in Nat
  BY NumHolesAssumption
<1>1. 0 \in S
  <2>1. Upto(0, [k \in 0 .. 0 |-> 0])
    OBVIOUS
  <2> QED BY <2>1
<1>2. ASSUME NEW n \in S
      PROVE  n + 1 \in S
  <2>1. n \in Nat /\ n + 1 \in Nat
    OBVIOUS
  <2> SUFFICES ASSUME n + 1 <= NumHoles PROVE \E f : Upto(n + 1, f)
    BY <2>1
  <2>2. PICK f : Upto(n, f)
    <3>1. n <= NumHoles
      BY <1>0, <2>1
    <3>2. n <= NumHoles => \E f : Upto(n, f)
      <4> HIDE DEF Upto
      <4> QED OBVIOUS
    <3> HIDE DEF Upto
    <3> QED BY <3>1, <3>2
  <2> DEFINE g == [k \in 0 .. (n + 1) |-> IF k = n + 1 THEN f[n] + value[n + 1] ELSE f[k]]
  <2>3. f[n] \in Int /\ value[n + 1] \in Int
    BY <1>0, <2>1, <2>2 DEF Holes
  <2>4. g \in [0 .. (n + 1) -> Int]
    BY <2>1, <2>2, <2>3
  <2>5. g[0] = 0
    BY <2>1, <2>2
  <2>6. ASSUME NEW k \in 1 .. (n + 1)
        PROVE  g[k] = g[k - 1] + value[k]
    <3>1. k - 1 \in 0 .. n /\ g[k - 1] = f[k - 1]
      BY <2>1
    <3>2. CASE k = n + 1
      BY <2>1, <3>1, <3>2
    <3>3. CASE k # n + 1
      <4>1. k \in 1 .. n /\ g[k] = f[k]
        BY <2>1, <3>3
      <4> QED BY <2>2, <3>1, <4>1
    <3> QED BY <3>2, <3>3
  <2> QED BY <2>4, <2>5, <2>6
<1>3. S = Nat
  <2> HIDE DEF S
  <2>1. S \in SUBSET Nat
    BY DEF S
  <2> QED BY <1>1, <1>2, <2>1, AllNaturals
<1>4. PICK f : Upto(NumHoles, f)
  BY <1>0, <1>3
<1>5. \A n \in 0 .. NumHoles : n # 0 => n \in 1 .. NumHoles
  BY <1>0
<1>6. f = [n \in 0 .. NumHoles |-> IF n = 0 THEN 0 ELSE f[n - 1] + value[n]]
  BY <1>0, <1>4, <1>5
<1> QED BY <1>6 DEF PartialSums

(* HoleTotal is the last of them.                                          *)
LEMMA HoleTotalSum ==
    ASSUME NEW value \in [Holes -> Int]
    PROVE  \E f : PartialSums(value, f) /\ HoleTotal(value) = f[NumHoles]
<1>1. PICK g : g = [n \in 0 .. NumHoles |-> IF n = 0 THEN 0 ELSE g[n - 1] + value[n]]
  BY PartialSumsExist DEF PartialSums
<1>2. \E f : /\ f = [n \in 0 .. NumHoles |-> IF n = 0 THEN 0 ELSE f[n - 1] + value[n]]
             /\ HoleTotal(value) = f[NumHoles]
  BY <1>1 DEF HoleTotal
<1> QED BY <1>2 DEF PartialSums

(* Changing the value of one hole changes the total by as much.            *)
LEMMA HoleTotalShift ==
    ASSUME NEW v \in [Holes -> Int], NEW w \in [Holes -> Int], NEW h \in Holes,
           \A g \in Holes : g # h => w[g] = v[g]
    PROVE  HoleTotal(w) = HoleTotal(v) + (w[h] - v[h]) /\ HoleTotal(v) \in Int
<1>0. NumHoles \in Nat /\ h \in 1 .. NumHoles
  BY NumHolesAssumption DEF Holes
<1> DEFINE d == w[h] - v[h]
<1>1. d \in Int
  OBVIOUS
<1>2. PICK f : PartialSums(v, f) /\ HoleTotal(v) = f[NumHoles]
  BY HoleTotalSum
<1>3. PICK g : PartialSums(w, g) /\ HoleTotal(w) = g[NumHoles]
  BY HoleTotalSum
<1>4. /\ f[0] = 0 /\ g[0] = 0
      /\ \A n \in 1 .. NumHoles : f[n] = f[n - 1] + v[n] /\ g[n] = g[n - 1] + w[n]
  BY <1>0, <1>2, <1>3 DEF PartialSums
<1> DEFINE S == {n \in Nat : n <= NumHoles =>
                   f[n] \in Int /\ g[n] = f[n] + (IF h <= n THEN d ELSE 0)}
<1>5. 0 \in S
  BY <1>0, <1>4
<1>6. ASSUME NEW n \in S
      PROVE  n + 1 \in S
  <2>1. n \in Nat /\ n + 1 \in Nat /\ (n + 1) - 1 = n
    OBVIOUS
  <2> SUFFICES ASSUME n + 1 <= NumHoles
               PROVE  f[n + 1] \in Int /\ g[n + 1] = f[n + 1] + (IF h <= n + 1 THEN d ELSE 0)
    BY <2>1
  <2>2. n <= NumHoles /\ n + 1 \in 1 .. NumHoles
    BY <1>0, <2>1
  <2>3. f[n] \in Int /\ g[n] = f[n] + (IF h <= n THEN d ELSE 0)
    BY <2>2
  <2>4. f[n + 1] = f[n] + v[n + 1] /\ g[n + 1] = g[n] + w[n + 1]
    BY <1>4, <2>1, <2>2
  <2>5. v[n + 1] \in Int /\ w[n + 1] \in Int
    BY <2>2 DEF Holes
  <2>6. CASE h = n + 1
    <3>1. w[n + 1] = v[n + 1] + d /\ ~(h <= n)
      BY <1>0, <2>1, <2>5, <2>6
    <3> HIDE DEF d
    <3> QED BY <1>0, <1>1, <2>1, <2>3, <2>4, <2>5, <2>6, <3>1
  <2>7. CASE h # n + 1
    <3>1. w[n + 1] = v[n + 1]
      BY <2>2, <2>7 DEF Holes
    <3>2. h <= n + 1 <=> h <= n
      BY <1>0, <2>1, <2>7
    <3> HIDE DEF d
    <3> QED BY <1>0, <1>1, <2>1, <2>3, <2>4, <2>5, <3>1, <3>2
  <2> QED BY <2>6, <2>7
<1>7. S = Nat
  <2> HIDE DEF S
  <2>1. S \in SUBSET Nat
    BY DEF S
  <2> QED BY <1>5, <1>6, <2>1, AllNaturals
<1>8. f[NumHoles] \in Int /\ g[NumHoles] = f[NumHoles] + d
  BY <1>0, <1>7
<1> QED BY <1>2, <1>3, <1>8

(* Where nothing is scored on any hole, the total is nothing.              *)
LEMMA HoleTotalZero ==
    ASSUME NEW v \in [Holes -> Int], \A h \in Holes : v[h] = 0
    PROVE  HoleTotal(v) = 0
<1>0. NumHoles \in Nat
  BY NumHolesAssumption
<1>1. PICK f : PartialSums(v, f) /\ HoleTotal(v) = f[NumHoles]
  BY HoleTotalSum
<1>2. f[0] = 0 /\ \A n \in 1 .. NumHoles : f[n] = f[n - 1] + v[n]
  BY <1>0, <1>1 DEF PartialSums
<1> DEFINE S == {n \in Nat : n <= NumHoles => f[n] = 0}
<1>3. 0 \in S
  BY <1>2
<1>4. ASSUME NEW n \in S
      PROVE  n + 1 \in S
  <2>1. n \in Nat /\ n + 1 \in Nat /\ (n + 1) - 1 = n
    OBVIOUS
  <2> SUFFICES ASSUME n + 1 <= NumHoles PROVE f[n + 1] = 0
    BY <2>1
  <2>2. n <= NumHoles /\ n + 1 \in 1 .. NumHoles
    BY <1>0, <2>1
  <2>3. f[n + 1] = f[n] + v[n + 1] /\ f[n] = 0 /\ v[n + 1] = 0
    BY <1>2, <2>1, <2>2 DEF Holes
  <2> QED BY <2>3
<1>5. S = Nat
  <2> HIDE DEF S
  <2>1. S \in SUBSET Nat
    BY DEF S
  <2> QED BY <1>3, <1>4, <2>1, AllNaturals
<1> QED BY <1>0, <1>1, <1>5
(* The sums over the subsets of a finite set, as MapThenSumSet adds up.    *)
Some(s) == CHOOSE x \in s : TRUE

SetSums(F, v, u) ==
    u = [s \in SUBSET F |-> IF s = {} THEN 0 ELSE v[Some(s)] + u[s \ {Some(s)}]]

(* n is the sum of v over F.                                               *)
SumIs(F, v, n) == \E u : SetSums(F, v, u) /\ n = u[F]

(* Taking an element away leaves a smaller set.                            *)
LEMMA WithoutSome ==
    ASSUME NEW F, IsFiniteSet(F), NEW s \in SUBSET F, s # {}
    PROVE  /\ Some(s) \in s /\ Some(s) \in F /\ s \ {Some(s)} \in SUBSET F
           /\ Cardinality(s) \in Nat /\ Cardinality(s \ {Some(s)}) = Cardinality(s) - 1
<1>1. IsFiniteSet(s)
  BY FS_Subset
<1>2. Some(s) \in s
  BY DEF Some
<1> QED BY <1>1, <1>2, FS_RemoveElement, FS_CardinalityType

(* There are such sums.                                                    *)
LEMMA SetSumsExist ==
    ASSUME NEW F, IsFiniteSet(F), NEW v \in [F -> Int]
    PROVE  \E u : SetSums(F, v, u)
<1> DEFINE Small(n) == {s \in SUBSET F : Cardinality(s) <= n}
           Upto(n, u) ==
             /\ u \in [Small(n) -> Int]
             /\ \A s \in Small(n) :
                   u[s] = IF s = {} THEN 0 ELSE v[Some(s)] + u[s \ {Some(s)}]
           S == {n \in Nat : \E u : Upto(n, u)}
<1>1. 0 \in S
  <2> DEFINE u == [s \in Small(0) |-> 0]
  <2>1. ASSUME NEW s \in Small(0)
        PROVE  s = {}
    <3>1. s \in SUBSET F /\ Cardinality(s) <= 0
      OBVIOUS
    <3>2. IsFiniteSet(s)
      BY <3>1, FS_Subset
    <3> QED BY <3>1, <3>2, FS_CardinalityType, FS_EmptySet
  <2>2. u \in [Small(0) -> Int] /\ \A s \in Small(0) : u[s] = 0
    OBVIOUS
  <2>3. Upto(0, u)
    BY <2>1, <2>2
  <2> QED BY <2>3
<1>2. ASSUME NEW n \in S
      PROVE  n + 1 \in S
  <2>1. n \in Nat /\ n + 1 \in Nat
    OBVIOUS
  <2>2. PICK u : Upto(n, u)
    OBVIOUS
  <2> DEFINE Next1(s) == IF s = {} THEN 0 ELSE v[Some(s)] + u[s \ {Some(s)}]
             w == [s \in Small(n + 1) |-> Next1(s)]
  <2>3. ASSUME NEW s \in Small(n + 1), s # {}
        PROVE  /\ Some(s) \in F /\ s \ {Some(s)} \in Small(n)
    <3>1. s \in SUBSET F /\ Cardinality(s) <= n + 1
      OBVIOUS
    <3>2. /\ Some(s) \in F /\ s \ {Some(s)} \in SUBSET F
          /\ Cardinality(s) \in Nat /\ Cardinality(s \ {Some(s)}) = Cardinality(s) - 1
      BY <2>3, <3>1, WithoutSome
    <3>3. Cardinality(s \ {Some(s)}) <= n
      BY <2>1, <3>1, <3>2
    <3> QED BY <3>2, <3>3
  <2>4. \A s \in Small(n + 1) : Next1(s) \in Int
    <3> HIDE DEF Small
    <3>1. \A t \in Small(n) : u[t] \in Int
      BY <2>2
    <3> QED BY <2>3, <3>1
  <2>5. w \in [Small(n + 1) -> Int]
    <3> HIDE DEF Small, Next1
    <3> QED BY <2>4
  <2>6. \A t \in Small(n) : t \in Small(n + 1) /\ w[t] = u[t]
    <3>1. ASSUME NEW t \in Small(n)
          PROVE  t \in Small(n + 1)
      <4>1. IsFiniteSet(t) /\ t \in SUBSET F /\ Cardinality(t) <= n
        BY FS_Subset
      <4>2. Cardinality(t) \in Nat
        BY <4>1, FS_CardinalityType
      <4>3. Cardinality(t) <= n + 1
        BY <2>1, <4>1, <4>2
      <4> QED BY <4>1, <4>3
    <3> HIDE DEF Small
    <3> QED BY <2>2, <3>1
  <2>7. ASSUME NEW s \in Small(n + 1)
        PROVE  w[s] = IF s = {} THEN 0 ELSE v[Some(s)] + w[s \ {Some(s)}]
    <3> HIDE DEF Small
    <3> QED BY <2>3, <2>6
  <2>8. Upto(n + 1, w)
    <3> HIDE DEF w, Small
    <3> QED BY <2>5, <2>7
  <2> HIDE DEF Upto
  <2> QED BY <2>1, <2>8
<1>3. S = Nat
  <2> HIDE DEF S
  <2>1. S \in SUBSET Nat
    BY DEF S
  <2> QED BY <1>1, <1>2, <2>1, AllNaturals
<1>4. Cardinality(F) \in Nat
  BY FS_CardinalityType
<1>5. PICK u : Upto(Cardinality(F), u)
  <2> HIDE DEF Upto
  <2> QED BY <1>3, <1>4
<1>6. Small(Cardinality(F)) = SUBSET F
  BY FS_Subset
<1>7. u = [s \in SUBSET F |-> IF s = {} THEN 0 ELSE v[Some(s)] + u[s \ {Some(s)}]]
  <2> HIDE DEF Small
  <2> QED BY <1>5, <1>6
<1> QED BY <1>7 DEF SetSums

(* Where two functions differ at one element, so do their sums.            *)
LEMMA SetSumsShift ==
    ASSUME NEW F, IsFiniteSet(F), NEW v \in [F -> Int], NEW w \in [F -> Int], NEW x,
           NEW d \in Int, \A y \in F : y # x => w[y] = v[y], x \in F => w[x] = v[x] + d,
           NEW u, NEW z, SetSums(F, v, u), SetSums(F, w, z)
    PROVE  \A s \in SUBSET F : u[s] \in Int /\ z[s] = u[s] + (IF x \in s THEN d ELSE 0)
<1> DEFINE Good(s) == u[s] \in Int /\ z[s] = u[s] + (IF x \in s THEN d ELSE 0)
           S == {n \in Nat : \A s \in SUBSET F : Cardinality(s) <= n => Good(s)}
<1>1. /\ u[{}] = 0 /\ z[{}] = 0
      /\ \A s \in SUBSET F : s # {} => /\ u[s] = v[Some(s)] + u[s \ {Some(s)}]
                                       /\ z[s] = w[Some(s)] + z[s \ {Some(s)}]
  BY DEF SetSums
<1>2. Good({})
  BY <1>1
<1>3. 0 \in S
  <2>1. ASSUME NEW s \in SUBSET F, Cardinality(s) <= 0
        PROVE  s = {}
    <3>1. IsFiniteSet(s)
      BY FS_Subset
    <3> QED BY <2>1, <3>1, FS_CardinalityType, FS_EmptySet
  <2> HIDE DEF Good
  <2> QED BY <1>2, <2>1
<1>4. ASSUME NEW n \in S
      PROVE  n + 1 \in S
  <2>1. n \in Nat /\ n + 1 \in Nat
    OBVIOUS
  <2> SUFFICES ASSUME NEW s \in SUBSET F, Cardinality(s) <= n + 1, s # {} PROVE Good(s)
    <3> HIDE DEF Good
    <3> QED BY <1>2, <2>1
  <2> DEFINE c == Some(s)
             r == s \ {c}
  <2>2. /\ c \in s /\ c \in F /\ r \in SUBSET F /\ Cardinality(s) \in Nat
        /\ Cardinality(r) = Cardinality(s) - 1
    BY WithoutSome
  <2>3. Good(r)
    <3>1. Cardinality(r) <= n
      BY <2>1, <2>2
    <3> HIDE DEF Good, r
    <3> QED BY <2>2, <3>1
  <2>4. u[s] = v[c] + u[r] /\ z[s] = w[c] + z[r]
    BY <1>1
  <2>5. x \notin r \/ c # x
    OBVIOUS
  <2>6. x \in s <=> x \in r \/ c = x
    BY <2>2
  <2>7. v[c] \in Int /\ w[c] = v[c] + (IF c = x THEN d ELSE 0)
    BY <2>2
  <2>8. u[r] \in Int /\ z[r] = u[r] + (IF x \in r THEN d ELSE 0)
    BY <2>3
  <2> HIDE DEF c, r
  <2>9. CASE c = x
    BY <2>4, <2>5, <2>6, <2>7, <2>8, <2>9
  <2>10. CASE c # x
    BY <2>4, <2>6, <2>7, <2>8, <2>10
  <2> QED BY <2>9, <2>10
<1>5. S = Nat
  <2> HIDE DEF S
  <2>1. S \in SUBSET Nat
    BY DEF S
  <2> QED BY <1>3, <1>4, <2>1, AllNaturals
<1>6. ASSUME NEW s \in SUBSET F
      PROVE  Good(s)
  <2>1. Cardinality(s) \in Nat
    BY FS_Subset, FS_CardinalityType
  <2>2. Cardinality(s) <= Cardinality(s)
    BY <2>1
  <2> HIDE DEF Good
  <2> QED BY <1>5, <2>1, <2>2
<1> QED BY <1>6

(* v and w are numbers for the members of a finite set, and w has d more   *)
(* for x.                                                                  *)
OneApart(F, v, w, x, d) ==
    /\ IsFiniteSet(F) /\ v \in [F -> Int] /\ w \in [F -> Int]
    /\ x \in F /\ d \in Int /\ w[x] = v[x] + d
    /\ \A y \in F : y # x => w[y] = v[y]

(* Changing one summand changes the sum by as much.                        *)
LEMMA SumShift ==
    ASSUME NEW F, NEW v, NEW w, NEW x, NEW d, OneApart(F, v, w, x, d),
           NEW n, NEW m, SumIs(F, v, n), SumIs(F, w, m)
    PROVE  n \in Int /\ m = n + d
<1>0. /\ IsFiniteSet(F) /\ v \in [F -> Int] /\ w \in [F -> Int] /\ x \in F /\ d \in Int
      /\ w[x] = v[x] + d /\ \A y \in F : y # x => w[y] = v[y]
  BY DEF OneApart
<1>1. PICK u : SetSums(F, v, u) /\ n = u[F]
  BY DEF SumIs
<1>2. PICK z : SetSums(F, w, z) /\ m = z[F]
  BY DEF SumIs
<1>3. \A s \in SUBSET F : u[s] \in Int /\ z[s] = u[s] + (IF x \in s THEN d ELSE 0)
  BY <1>0, <1>1, <1>2, SetSumsShift
<1> QED BY <1>0, <1>1, <1>2, <1>3

(* Sums of the same values are the same.                                   *)
LEMMA SumUnique ==
    ASSUME NEW F, IsFiniteSet(F), NEW v \in [F -> Int], NEW n, NEW m, SumIs(F, v, n), SumIs(F, v, m)
    PROVE  n \in Int /\ m = n
<1>1. PICK u : SetSums(F, v, u) /\ n = u[F]
  BY DEF SumIs
<1>2. PICK z : SetSums(F, v, z) /\ m = z[F]
  BY DEF SumIs
<1>3. CASE F = {}
  BY <1>1, <1>2, <1>3 DEF SetSums
<1>4. ASSUME NEW x \in F
      PROVE  n \in Int /\ m = n
  <2>1. OneApart(F, v, v, x, 0)
    BY DEF OneApart
  <2>2. n \in Int /\ m = n + 0
    BY <2>1, SumShift
  <2> QED BY <2>2
<1> QED BY <1>3, <1>4

(* Nothing adds up to nothing.                                             *)
LEMMA SumZero ==
    ASSUME NEW F, IsFiniteSet(F), NEW v \in [F -> Int], \A y \in F : v[y] = 0, NEW n, SumIs(F, v, n)
    PROVE  n = 0
<1> DEFINE u == [s \in SUBSET F |-> 0]
<1>1. ASSUME NEW s \in SUBSET F, s # {}
      PROVE  v[Some(s)] = 0 /\ s \ {Some(s)} \in SUBSET F
  BY <1>1, WithoutSome
<1>2. \A s \in SUBSET F :
         (IF s = {} THEN 0 ELSE v[Some(s)] + u[s \ {Some(s)}]) = 0
  BY <1>1
<1>3. u = [s \in SUBSET F |-> IF s = {} THEN 0 ELSE v[Some(s)] + u[s \ {Some(s)}]]
  BY <1>2
<1>4. SumIs(F, v, u[F])
  BY <1>3 DEF SumIs, SetSums
<1>5. u[F] = 0
  OBVIOUS
<1> HIDE DEF u
<1> QED BY <1>4, <1>5, SumUnique

-----------------------------------------------------------------------------
(* The model's sums in those terms.                                        *)

(* The triggers of a scorecard are the sum of its counts.                  *)
LEMMA TriggersSum ==
    ASSUME NEW slot \in PlayerHoleState
    PROVE  SumIs(Features, slot.counts, Triggers(slot))
<1> DEFINE c == slot.counts
<1>1. PICK g : g = [s \in SUBSET Features |->
                      IF s = {} THEN 0
                      ELSE c[CHOOSE x \in s : TRUE] + g[s \ {CHOOSE x \in s : TRUE}]]
  <2>1. c \in [Features -> Int]
    BY DEF PlayerHoleState
  <2>2. IsFiniteSet(Features)
    BY FeaturesAssumption
  <2> HIDE DEF c
  <2>3. \E g : SetSums(Features, c, g)
    BY <2>1, <2>2, SetSumsExist
  <2> QED BY <2>3 DEF SetSums, Some
<1>2. \E u : /\ u = [s \in SUBSET Features |->
                       IF s = {} THEN 0
                       ELSE c[CHOOSE x \in s : TRUE] + u[s \ {CHOOSE x \in s : TRUE}]]
             /\ Triggers(slot) = u[Features]
  BY <1>1 DEF Triggers, MapThenSumSet, MapThenFoldSet
<1> QED BY <1>2 DEF SumIs, SetSums, Some

(* The points the counted triggers of a scorecard are worth, by feature.   *)
PointsOf(slot) == [f \in Features |-> slot.counts[f] * PointsDelta[f]]

(* They are integers.                                                      *)
LEMMA PointsOfInt ==
    ASSUME NEW slot \in PlayerHoleState
    PROVE  PointsOf(slot) \in [Features -> Int]
<1>1. ASSUME NEW f \in Features
      PROVE  slot.counts[f] * PointsDelta[f] \in Int
  BY FeaturesAssumption DEF PlayerHoleState
<1> QED BY <1>1 DEF PointsOf

(* FeaturePoints adds them up.                                             *)
LEMMA FeaturePointsSum ==
    ASSUME NEW slot \in PlayerHoleState
    PROVE  SumIs(Features, PointsOf(slot), FeaturePoints(slot))
<1> DEFINE c == slot.counts
           Product(x) == c[x] * PointsDelta[x]
<1>1. \A s \in SUBSET Features : s # {} => PointsOf(slot)[Some(s)] = Product(Some(s))
  <2>1. \A s \in SUBSET Features : s # {} => Some(s) \in Features
    BY FeaturesAssumption, WithoutSome
  <2> QED BY <2>1 DEF PointsOf
<1>2. PICK h : h = [s \in SUBSET Features |->
                      IF s = {} THEN 0 ELSE PointsOf(slot)[Some(s)] + h[s \ {Some(s)}]]
  <2>1. PointsOf(slot) \in [Features -> Int] /\ IsFiniteSet(Features)
    BY PointsOfInt, FeaturesAssumption
  <2>2. \E h : SetSums(Features, PointsOf(slot), h)
    BY <2>1, SetSumsExist
  <2> QED BY <2>2 DEF SetSums
<1>3. h = [s \in SUBSET Features |->
             IF s = {} THEN 0 ELSE Product(Some(s)) + h[s \ {Some(s)}]]
  <2> HIDE DEF Product
  <2> QED BY <1>1, <1>2
<1>4. PICK g : g = [s \in SUBSET Features |->
                      IF s = {} THEN 0
                      ELSE c[CHOOSE x \in s : TRUE] * PointsDelta[CHOOSE x \in s : TRUE]
                           + g[s \ {CHOOSE x \in s : TRUE}]]
  BY <1>3 DEF Some
<1>5. \E u : /\ u = [s \in SUBSET Features |->
                       IF s = {} THEN 0
                       ELSE c[CHOOSE x \in s : TRUE] * PointsDelta[CHOOSE x \in s : TRUE]
                            + u[s \ {CHOOSE x \in s : TRUE}]]
             /\ FeaturePoints(slot) = u[Features]
  BY <1>4 DEF FeaturePoints, MapThenSumSet, MapThenFoldSet
<1>6. PICK u : /\ u = [s \in SUBSET Features |->
                         IF s = {} THEN 0 ELSE Product(Some(s)) + u[s \ {Some(s)}]]
               /\ FeaturePoints(slot) = u[Features]
  BY <1>5 DEF Some
<1>7. u = [s \in SUBSET Features |->
             IF s = {} THEN 0 ELSE PointsOf(slot)[Some(s)] + u[s \ {Some(s)}]]
  <2> HIDE DEF Product
  <2> QED BY <1>1, <1>6
<1> QED BY <1>6, <1>7 DEF SumIs, SetSums

(* The slots of a board, and what each is worth.                           *)
Slots == Holes \X Players

WorthOf(board) == [hp \in Slots |-> Worth(board[hp[1]][hp[2]])]

(* There are finitely many slots.                                          *)
LEMMA SlotsFinite == IsFiniteSet(Slots)
<1>1. IsFiniteSet(Holes)
  BY NumHolesAssumption, FS_Interval DEF Holes
<1> QED BY <1>1, PlayersAssumption, FS_Product DEF Slots

(* A scorecard is worth a natural number of events.                        *)
LEMMA WorthInt ==
    ASSUME NEW slot \in PlayerHoleState
    PROVE  Triggers(slot) \in Int /\ Worth(slot) \in Int
<1>1. slot.counts \in [Features -> Int] /\ slot.strokes \in Nat
  BY DEF PlayerHoleState
<1>2. Triggers(slot) \in Int
  BY <1>1, FeaturesAssumption, TriggersSum, SumUnique
<1> QED BY <1>1, <1>2 DEF Worth

(* So every slot of a board has a worth.                                   *)
LEMMA WorthOfInt ==
    ASSUME NEW board \in [Holes -> [Players -> PlayerHoleState]]
    PROVE  WorthOf(board) \in [Slots -> Int]
<1>1. \A hp \in Slots : board[hp[1]][hp[2]] \in PlayerHoleState
  BY DEF Slots
<1> QED BY <1>1, WorthInt DEF WorthOf

(* BoardWorth adds them up.                                                *)
LEMMA BoardWorthSum ==
    ASSUME NEW board \in [Holes -> [Players -> PlayerHoleState]]
    PROVE  SumIs(Slots, WorthOf(board), BoardWorth(board))
<1> DEFINE Here(x) == Worth(board[x[1]][x[2]])
<1>1. \A s \in SUBSET Slots : s # {} => WorthOf(board)[Some(s)] = Here(Some(s))
  <2>1. \A s \in SUBSET Slots : s # {} => Some(s) \in Slots
    BY SlotsFinite, WithoutSome
  <2> QED BY <2>1 DEF WorthOf
<1>2. PICK h : h = [s \in SUBSET Slots |->
                      IF s = {} THEN 0 ELSE WorthOf(board)[Some(s)] + h[s \ {Some(s)}]]
  <2>1. WorthOf(board) \in [Slots -> Int]
    BY WorthOfInt
  <2>2. \E h : SetSums(Slots, WorthOf(board), h)
    BY <2>1, SlotsFinite, SetSumsExist
  <2> QED BY <2>2 DEF SetSums
<1>3. h = [s \in SUBSET Slots |->
             IF s = {} THEN 0 ELSE Here(Some(s)) + h[s \ {Some(s)}]]
  <2> HIDE DEF Here
  <2> QED BY <1>1, <1>2
<1>4. \E g : g = [s \in SUBSET (Holes \X Players) |->
                    IF s = {} THEN 0
                    ELSE Worth(board[(CHOOSE x \in s : TRUE)[1]][(CHOOSE x \in s : TRUE)[2]])
                         + g[s \ {CHOOSE x \in s : TRUE}]]
  BY <1>3 DEF Some, Slots
<1>5. \E u : /\ u = [s \in SUBSET (Holes \X Players) |->
                       IF s = {} THEN 0
                       ELSE Worth(board[(CHOOSE x \in s : TRUE)[1]][(CHOOSE x \in s : TRUE)[2]])
                            + u[s \ {CHOOSE x \in s : TRUE}]]
             /\ BoardWorth(board) = u[Holes \X Players]
  BY <1>4 DEF BoardWorth, MapThenSumSet, MapThenFoldSet
<1>6. PICK u : /\ u = [s \in SUBSET Slots |->
                         IF s = {} THEN 0 ELSE Here(Some(s)) + u[s \ {Some(s)}]]
               /\ BoardWorth(board) = u[Slots]
  BY <1>5 DEF Some, Slots
<1>7. u = [s \in SUBSET Slots |->
             IF s = {} THEN 0 ELSE WorthOf(board)[Some(s)] + u[s \ {Some(s)}]]
  <2> HIDE DEF Here
  <2> QED BY <1>1, <1>6
<1> QED BY <1>6, <1>7 DEF SumIs, SetSums

(* A scorecard with the same counts is worth the same features.            *)
LEMMA SameCounts ==
    ASSUME NEW slot \in PlayerHoleState, NEW s \in PlayerHoleState, s.counts = slot.counts
    PROVE  Triggers(s) = Triggers(slot) /\ FeaturePoints(s) = FeaturePoints(slot)
<1>1. slot.counts \in [Features -> Int] /\ IsFiniteSet(Features)
  BY FeaturesAssumption DEF PlayerHoleState
<1>2. SumIs(Features, slot.counts, Triggers(slot)) /\ SumIs(Features, slot.counts, Triggers(s))
  BY TriggersSum
<1>3. PointsOf(s) = PointsOf(slot)
  BY DEF PointsOf
<1>4. /\ SumIs(Features, PointsOf(slot), FeaturePoints(slot))
      /\ SumIs(Features, PointsOf(slot), FeaturePoints(s))
  BY <1>3, FeaturePointsSum
<1>5. PointsOf(slot) \in [Features -> Int]
  BY PointsOfInt
<1>6. Triggers(s) = Triggers(slot)
  BY <1>1, <1>2, SumUnique
<1>7. FeaturePoints(s) = FeaturePoints(slot)
  BY <1>1, <1>4, <1>5, SumUnique
<1> QED BY <1>6, <1>7

(* One more trigger of a feature is worth one more delta of it.            *)
LEMMA OneMoreTrigger ==
    ASSUME NEW slot \in PlayerHoleState, NEW s \in PlayerHoleState, NEW f \in Features,
           s.counts = [slot.counts EXCEPT ![f] = @ + 1]
    PROVE  /\ Triggers(s) = Triggers(slot) + 1
           /\ FeaturePoints(s) = FeaturePoints(slot) + PointsDelta[f]
           /\ FeaturePoints(slot) \in Int
<1>1. /\ slot.counts \in [Features -> Int] /\ s.counts \in [Features -> Int]
      /\ IsFiniteSet(Features) /\ PointsDelta[f] \in Int
  BY FeaturesAssumption DEF PlayerHoleState
<1>2. /\ \A g \in Features : g # f => s.counts[g] = slot.counts[g]
      /\ s.counts[f] = slot.counts[f] + 1 /\ slot.counts[f] \in Int
  BY <1>1
<1>3. Triggers(s) = Triggers(slot) + 1
  <2>1. SumIs(Features, slot.counts, Triggers(slot)) /\ SumIs(Features, s.counts, Triggers(s))
    BY TriggersSum
  <2> DEFINE v == slot.counts
             w == s.counts
  <2> HIDE DEF v, w
  <2>2. /\ v \in [Features -> Int] /\ w \in [Features -> Int] /\ w[f] = v[f] + 1
        /\ \A g \in Features : g # f => w[g] = v[g]
        /\ SumIs(Features, v, Triggers(slot)) /\ SumIs(Features, w, Triggers(s))
    BY <1>1, <1>2, <2>1 DEF v, w
  <2>3. OneApart(Features, v, w, f, 1)
    BY <1>1, <2>2 DEF OneApart
  <2> QED BY <2>2, <2>3, SumShift
<1>4. /\ \A g \in Features : g # f => PointsOf(s)[g] = PointsOf(slot)[g]
      /\ PointsOf(s)[f] = PointsOf(slot)[f] + PointsDelta[f] /\ PointsOf(slot)[f] \in Int
  <2>1. PointsOf(slot)[f] = slot.counts[f] * PointsDelta[f] /\ PointsOf(slot)[f] \in Int
    BY PointsOfInt DEF PointsOf
  <2>2. PointsOf(s)[f] = (slot.counts[f] + 1) * PointsDelta[f]
    BY <1>2 DEF PointsOf
  <2>3. (slot.counts[f] + 1) * PointsDelta[f] = slot.counts[f] * PointsDelta[f] + PointsDelta[f]
    BY <1>1, <1>2
  <2>4. \A g \in Features : g # f => PointsOf(s)[g] = PointsOf(slot)[g]
    BY <1>2 DEF PointsOf
  <2> QED BY <2>1, <2>2, <2>3, <2>4
<1>5. FeaturePoints(s) = FeaturePoints(slot) + PointsDelta[f] /\ FeaturePoints(slot) \in Int
  <2>1. /\ SumIs(Features, PointsOf(slot), FeaturePoints(slot))
        /\ SumIs(Features, PointsOf(s), FeaturePoints(s))
        /\ PointsOf(slot) \in [Features -> Int] /\ PointsOf(s) \in [Features -> Int]
    BY FeaturePointsSum, PointsOfInt
  <2>2. IsFiniteSet(Features) /\ PointsDelta[f] \in Int
    BY <1>1
  <2> DEFINE v == PointsOf(slot)
             w == PointsOf(s)
             d == PointsDelta[f]
  <2> HIDE DEF v, w, d
  <2>3. /\ v \in [Features -> Int] /\ w \in [Features -> Int] /\ w[f] = v[f] + d /\ d \in Int
        /\ \A g \in Features : g # f => w[g] = v[g]
        /\ SumIs(Features, v, FeaturePoints(slot)) /\ SumIs(Features, w, FeaturePoints(s))
    BY <1>4, <2>1, <2>2 DEF v, w, d
  <2>4. OneApart(Features, v, w, f, d)
    BY <2>2, <2>3 DEF OneApart
  <2>5. FeaturePoints(slot) \in Int /\ FeaturePoints(s) = FeaturePoints(slot) + d
    BY <2>3, <2>4, SumShift
  <2> QED BY <2>5 DEF d
<1> QED BY <1>3, <1>5

(* The scorecard s written on a board.                                     *)
Written(board, h, p, s, after) ==
    /\ board \in [Holes -> [Players -> PlayerHoleState]]
    /\ h \in Holes /\ p \in Players /\ s \in PlayerHoleState
    /\ after = [board EXCEPT ![h][p] = s]

(* Writing one scorecard changes the worth of the board by as much.        *)
LEMMA BoardShift ==
    ASSUME NEW board, NEW h, NEW p, NEW s, NEW after, Written(board, h, p, s, after)
    PROVE  /\ BoardWorth(board) \in Int
           /\ BoardWorth(after) = BoardWorth(board) + (Worth(s) - Worth(board[h][p]))
<1> DEFINE x == <<h, p>>
<1>0. /\ board \in [Holes -> [Players -> PlayerHoleState]]
      /\ h \in Holes /\ p \in Players /\ s \in PlayerHoleState
      /\ after = [board EXCEPT ![h][p] = s]
  BY DEF Written
<1>1. after \in [Holes -> [Players -> PlayerHoleState]] /\ x \in Slots
  BY <1>0 DEF Slots
<1>2. \A y \in Slots : y # x => after[y[1]][y[2]] = board[y[1]][y[2]]
  BY <1>0 DEF Slots
<1>3. \A y \in Slots : y # x => WorthOf(after)[y] = WorthOf(board)[y]
  <2> HIDE DEF x
  <2> QED BY <1>2 DEF WorthOf
<1>4. WorthOf(after)[x] = Worth(s) /\ WorthOf(board)[x] = Worth(board[h][p])
  <2>1. after[x[1]][x[2]] = s /\ board[x[1]][x[2]] = board[h][p]
    BY <1>0
  <2> HIDE DEF x
  <2> QED BY <1>1, <2>1 DEF WorthOf
<1>5. /\ WorthOf(board) \in [Slots -> Int] /\ WorthOf(after) \in [Slots -> Int]
      /\ SumIs(Slots, WorthOf(board), BoardWorth(board))
      /\ SumIs(Slots, WorthOf(after), BoardWorth(after))
  BY <1>0, <1>1, WorthOfInt, BoardWorthSum
<1> DEFINE v == WorthOf(board)
           w == WorthOf(after)
           d == Worth(s) - Worth(board[h][p])
<1> HIDE DEF x, v, w, d
<1>6. d \in Int /\ Worth(board[h][p]) \in Int /\ Worth(s) \in Int
  BY <1>0, WorthInt DEF d
<1>7. w[x] = v[x] + d
  BY <1>4, <1>6 DEF v, w, d
<1>8. /\ v \in [Slots -> Int] /\ w \in [Slots -> Int]
      /\ \A y \in Slots : y # x => w[y] = v[y]
      /\ SumIs(Slots, v, BoardWorth(board)) /\ SumIs(Slots, w, BoardWorth(after))
  BY <1>3, <1>5 DEF v, w
<1>9. OneApart(Slots, v, w, x, d)
  BY <1>1, <1>6, <1>7, <1>8, SlotsFinite DEF OneApart
<1>10. BoardWorth(board) \in Int /\ BoardWorth(after) = BoardWorth(board) + d
  BY <1>8, <1>9, SumShift
<1> QED BY <1>10 DEF d

(* An empty board is worth nothing.                                        *)
LEMMA BoardZero ==
    ASSUME NEW board, board = [h \in Holes |-> [p \in Players |-> NewPlayerHoleState]]
    PROVE  BoardWorth(board) = 0 /\ FeaturePoints(NewPlayerHoleState) = 0
<1> DEFINE new == NewPlayerHoleState
<1>1. new \in PlayerHoleState /\ \A f \in Features : new.counts[f] = 0
  BY DEF NewPlayerHoleState, PlayerHoleState, PlayerHoleStatus
<1>2. new.counts \in [Features -> Int] /\ IsFiniteSet(Features)
  BY <1>1, FeaturesAssumption DEF PlayerHoleState
<1>3. Triggers(new) = 0
  <2>1. SumIs(Features, new.counts, Triggers(new))
    BY <1>1, TriggersSum
  <2> HIDE DEF new
  <2> QED BY <1>1, <1>2, <2>1, SumZero
<1>4. Worth(new) = 0
  BY <1>3 DEF Worth, NewPlayerHoleState
<1>5. FeaturePoints(new) = 0
  <2>1. SumIs(Features, PointsOf(new), FeaturePoints(new)) /\ PointsOf(new) \in [Features -> Int]
    BY <1>1, FeaturePointsSum, PointsOfInt
  <2>2. \A f \in Features : PointsOf(new)[f] = 0
    <3>1. \A f \in Features : 0 * PointsDelta[f] = 0
      BY FeaturesAssumption
    <3> HIDE DEF new
    <3> QED BY <1>1, <3>1 DEF PointsOf
  <2> HIDE DEF new
  <2> QED BY <1>2, <2>1, <2>2, SumZero
<1>6. board \in [Holes -> [Players -> PlayerHoleState]]
  <2> HIDE DEF new
  <2> QED BY <1>1 DEF new
<1>7. \A y \in Slots : WorthOf(board)[y] = 0
  <2>1. \A y \in Slots : board[y[1]][y[2]] = new
    BY DEF Slots
  <2> HIDE DEF new
  <2> QED BY <1>4, <2>1 DEF WorthOf
<1>8. WorthOf(board) \in [Slots -> Int] /\ SumIs(Slots, WorthOf(board), BoardWorth(board))
  BY <1>6, WorthOfInt, BoardWorthSum
<1> QED BY <1>5, <1>7, <1>8, SlotsFinite, SumZero

-----------------------------------------------------------------------------
(* The leaderboard.                                                        *)

(* What a scorecard adds to holesCompleted and to playMs.                  *)
HoleDone(slot) == IF slot.status = "complete" THEN 1 ELSE 0

HoleMs(slot) ==
    IF slot.status = "complete" THEN Elapsed(slot.started, slot.completed) ELSE 0

(* A player's running totals are the scorecards of a board added up.       *)
Totals(board, total, p) ==
    /\ total.points = HoleTotal([h \in Holes |-> board[h][p].points])
    /\ total.strokes = HoleTotal([h \in Holes |-> board[h][p].strokes])
    /\ total.bonus = HoleTotal([h \in Holes |-> board[h][p].bonus])
    /\ total.penalties = HoleTotal([h \in Holes |-> board[h][p].penalties])
    /\ total.holesCompleted = HoleTotal([h \in Holes |-> HoleDone(board[h][p])])
    /\ total.playMs = HoleTotal([h \in Holes |-> HoleMs(board[h][p])])

(* RoundTotals in these words.                                             *)
LEMMA TotalsNow == RoundTotals <=> \A p \in Players : Totals(play, stats[p], p)
  BY DEF RoundTotals, Totals, HoleDone, HoleMs

(* The same after a step.                                                  *)
LEMMA TotalsNext == RoundTotals' <=> \A p \in Players : Totals(play', stats'[p], p)
  BY DEF RoundTotals, Totals, HoleDone, HoleMs

(* From a slot to s as from a player's totals to t: each field as much.    *)
SameStep(slot, s, total, t) ==
    /\ t.points = total.points + (s.points - slot.points)
    /\ t.strokes = total.strokes + (s.strokes - slot.strokes)
    /\ t.bonus = total.bonus + (s.bonus - slot.bonus)
    /\ t.penalties = total.penalties + (s.penalties - slot.penalties)
    /\ t.holesCompleted = total.holesCompleted + (HoleDone(s) - HoleDone(slot))
    /\ t.playMs = total.playMs + (HoleMs(s) - HoleMs(slot))

(* A scorecard's play time is a number.                                    *)
LEMMA HoleMsInt ==
    ASSUME NEW slot \in PlayerHoleState, SlotAgrees(slot)
    PROVE  HoleMs(slot) \in Int /\ HoleDone(slot) \in Int
<1>1. CASE slot.status = "complete"
  <2>1. slot.started \in Times /\ slot.completed \in Times
    BY <1>1 DEF SlotAgrees, PlayerHoleState
  <2>2. \A t \in Times : t \in Int
    BY TimesAssumption
  <2>3. slot.started \in Int /\ slot.completed \in Int
    BY <2>1, <2>2
  <2>4. Elapsed(slot.started, slot.completed) \in Int
    BY <2>3 DEF Elapsed, Positive
  <2> QED BY <1>1, <2>4 DEF HoleMs, HoleDone
<1>2. CASE slot.status # "complete"
  BY <1>2 DEF HoleMs, HoleDone
<1> QED BY <1>1, <1>2

(* Both sides of the books make the same step.                             *)
LEMMA TotalsShift ==
    ASSUME NEW board \in [Holes -> [Players -> PlayerHoleState]],
           \A g \in Holes, q \in Players : SlotAgrees(board[g][q]),
           NEW h \in Holes, NEW p \in Players, NEW s \in PlayerHoleState, SlotAgrees(s),
           NEW after, after = [board EXCEPT ![h][p] = s],
           NEW total, NEW t, Totals(board, total, p), SameStep(board[h][p], s, total, t)
    PROVE  Totals(after, t, p)
<1>1. /\ \A g \in Holes : board[g][p] \in PlayerHoleState /\ after[g][p] \in PlayerHoleState
      /\ \A g \in Holes : g # h => after[g][p] = board[g][p]
      /\ after[h][p] = s
  OBVIOUS
<1>2. \A g \in Holes : SlotAgrees(after[g][p])
  BY <1>1
<1>3. ASSUME NEW v \in [Holes -> Int], NEW w \in [Holes -> Int], NEW n, NEW m,
             \A g \in Holes : g # h => w[g] = v[g],
             n = HoleTotal(v), m = n + (w[h] - v[h])
      PROVE  m = HoleTotal(w)
  BY <1>3, HoleTotalShift
<1>4. t.points = HoleTotal([g \in Holes |-> after[g][p].points])
  <2> DEFINE v == [g \in Holes |-> board[g][p].points]
             w == [g \in Holes |-> after[g][p].points]
  <2>1. v \in [Holes -> Int] /\ w \in [Holes -> Int]
    BY <1>1 DEF PlayerHoleState
  <2>2. \A g \in Holes : g # h => w[g] = v[g]
    BY <1>1
  <2>3. v[h] = board[h][p].points /\ w[h] = s.points
    BY <1>1
  <2>4. total.points = HoleTotal(v)
    BY DEF Totals
  <2> HIDE DEF v, w
  <2>5. t.points = total.points + (w[h] - v[h])
    BY <2>3 DEF SameStep
  <2>6. t.points = HoleTotal(w)
    BY <1>3, <2>1, <2>2, <2>4, <2>5
  <2> QED BY <2>6 DEF w
<1>5. t.strokes = HoleTotal([g \in Holes |-> after[g][p].strokes])
  <2> DEFINE v == [g \in Holes |-> board[g][p].strokes]
             w == [g \in Holes |-> after[g][p].strokes]
  <2>1. v \in [Holes -> Int] /\ w \in [Holes -> Int]
    BY <1>1 DEF PlayerHoleState
  <2>2. \A g \in Holes : g # h => w[g] = v[g]
    BY <1>1
  <2>3. v[h] = board[h][p].strokes /\ w[h] = s.strokes
    BY <1>1
  <2>4. total.strokes = HoleTotal(v)
    BY DEF Totals
  <2> HIDE DEF v, w
  <2>5. t.strokes = total.strokes + (w[h] - v[h])
    BY <2>3 DEF SameStep
  <2>6. t.strokes = HoleTotal(w)
    BY <1>3, <2>1, <2>2, <2>4, <2>5
  <2> QED BY <2>6 DEF w
<1>6. t.bonus = HoleTotal([g \in Holes |-> after[g][p].bonus])
  <2> DEFINE v == [g \in Holes |-> board[g][p].bonus]
             w == [g \in Holes |-> after[g][p].bonus]
  <2>1. v \in [Holes -> Int] /\ w \in [Holes -> Int]
    BY <1>1 DEF PlayerHoleState
  <2>2. \A g \in Holes : g # h => w[g] = v[g]
    BY <1>1
  <2>3. v[h] = board[h][p].bonus /\ w[h] = s.bonus
    BY <1>1
  <2>4. total.bonus = HoleTotal(v)
    BY DEF Totals
  <2> HIDE DEF v, w
  <2>5. t.bonus = total.bonus + (w[h] - v[h])
    BY <2>3 DEF SameStep
  <2>6. t.bonus = HoleTotal(w)
    BY <1>3, <2>1, <2>2, <2>4, <2>5
  <2> QED BY <2>6 DEF w
<1>7. t.penalties = HoleTotal([g \in Holes |-> after[g][p].penalties])
  <2> DEFINE v == [g \in Holes |-> board[g][p].penalties]
             w == [g \in Holes |-> after[g][p].penalties]
  <2>1. v \in [Holes -> Int] /\ w \in [Holes -> Int]
    BY <1>1 DEF PlayerHoleState
  <2>2. \A g \in Holes : g # h => w[g] = v[g]
    BY <1>1
  <2>3. v[h] = board[h][p].penalties /\ w[h] = s.penalties
    BY <1>1
  <2>4. total.penalties = HoleTotal(v)
    BY DEF Totals
  <2> HIDE DEF v, w
  <2>5. t.penalties = total.penalties + (w[h] - v[h])
    BY <2>3 DEF SameStep
  <2>6. t.penalties = HoleTotal(w)
    BY <1>3, <2>1, <2>2, <2>4, <2>5
  <2> QED BY <2>6 DEF w
<1>8. t.holesCompleted = HoleTotal([g \in Holes |-> HoleDone(after[g][p])])
  <2> DEFINE v == [g \in Holes |-> HoleDone(board[g][p])]
             w == [g \in Holes |-> HoleDone(after[g][p])]
  <2>1. v \in [Holes -> Int] /\ w \in [Holes -> Int]
    BY <1>1, <1>2, HoleMsInt
  <2>2. \A g \in Holes : g # h => w[g] = v[g]
    BY <1>1
  <2>3. v[h] = HoleDone(board[h][p]) /\ w[h] = HoleDone(s)
    BY <1>1
  <2>4. total.holesCompleted = HoleTotal(v)
    BY DEF Totals
  <2> HIDE DEF v, w
  <2>5. t.holesCompleted = total.holesCompleted + (w[h] - v[h])
    BY <2>3 DEF SameStep
  <2>6. t.holesCompleted = HoleTotal(w)
    BY <1>3, <2>1, <2>2, <2>4, <2>5
  <2> QED BY <2>6 DEF w
<1>9. t.playMs = HoleTotal([g \in Holes |-> HoleMs(after[g][p])])
  <2> DEFINE v == [g \in Holes |-> HoleMs(board[g][p])]
             w == [g \in Holes |-> HoleMs(after[g][p])]
  <2>1. v \in [Holes -> Int] /\ w \in [Holes -> Int]
    BY <1>1, <1>2, HoleMsInt
  <2>2. \A g \in Holes : g # h => w[g] = v[g]
    BY <1>1
  <2>3. v[h] = HoleMs(board[h][p]) /\ w[h] = HoleMs(s)
    BY <1>1
  <2>4. total.playMs = HoleTotal(v)
    BY DEF Totals
  <2> HIDE DEF v, w
  <2>5. t.playMs = total.playMs + (w[h] - v[h])
    BY <2>3 DEF SameStep
  <2>6. t.playMs = HoleTotal(w)
    BY <1>3, <2>1, <2>2, <2>4, <2>5
  <2> QED BY <2>6 DEF w
<1> QED BY <1>4, <1>5, <1>6, <1>7, <1>8, <1>9 DEF Totals

-----------------------------------------------------------------------------
(* The books balance.                                                      *)

(* Beside IInv: there is a last event, so that events can be counted.      *)
Books == ScoresAddUp /\ IsFiniteSet(seen)

(* An event that makes the same step on the scorecard and in the totals,   *)
(* is worth one event at most and leaves the scorecard's features in order *)
(* leaves the books balanced.                                              *)
Balanced(h, slot, s, total, t) ==
    /\ SameStep(slot, s, total, t)
    /\ Worth(s) <= Worth(slot) + 1
    /\ Ledger(h, s)

(* What is balanced keeps the books.                                       *)
LEMMA BalancedKeepsBooks ==
    ASSUME IInv, IInv', Books, NEW id, id \notin seen, seen' = seen \cup {id},
           NEW h \in Holes, NEW p \in Players, NEW s \in PlayerHoleState, NEW t,
           play' = [play EXCEPT ![h][p] = s], stats' = [stats EXCEPT ![p] = t],
           Balanced(h, play[h][p], s, stats[p], t)
    PROVE  Books'
<1>0. /\ play \in [Holes -> [Players -> PlayerHoleState]] /\ stats \in [Players -> PlayerStats]
      /\ \A g \in Holes, q \in Players : SlotAgrees(play[g][q])
      /\ RoundTotals /\ OneEventOneScore /\ FeatureLedger /\ IsFiniteSet(seen)
  BY DEF IInv, TypeOK, PhaseAgrees, Books, ScoresAddUp
<1>1. /\ play'[h][p] = s
      /\ \A g \in Holes, q \in Players : g # h \/ q # p => play'[g][q] = play[g][q]
  BY <1>0
<1>2. SlotAgrees(s)
  <2>1. SlotAgrees(play'[h][p])
    BY DEF IInv, PhaseAgrees
  <2> QED BY <1>1, <2>1
<1>3. RoundTotals'
  <2>1. ASSUME NEW q \in Players
        PROVE  Totals(play', stats'[q], q)
    <3>1. Totals(play, stats[q], q)
      BY <1>0, TotalsNow
    <3>2. CASE q = p
      <4>1. stats'[p] = t /\ SameStep(play[h][p], s, stats[p], t)
        BY <1>0 DEF Balanced
      <4>2. Totals(play', t, p)
        BY <1>0, <1>2, <3>1, <3>2, <4>1, TotalsShift
      <4> QED BY <3>2, <4>1, <4>2
    <3>3. CASE q # p
      <4>1. stats'[q] = stats[q] /\ \A g \in Holes : play'[g][q] = play[g][q]
        BY <1>0, <1>1, <3>3
      <4> QED BY <3>1, <4>1 DEF Totals
    <3> QED BY <3>2, <3>3
  <2> QED BY <2>1, TotalsNext
<1>4. OneEventOneScore'
  <2>1. /\ BoardWorth(play) \in Int
        /\ BoardWorth(play') = BoardWorth(play) + (Worth(s) - Worth(play[h][p]))
    <3>1. Written(play, h, p, s, play')
      BY <1>0 DEF Written
    <3> QED BY <3>1, BoardShift
  <2>2. Worth(s) \in Int /\ Worth(play[h][p]) \in Int
    BY <1>0, WorthInt
  <2>3. Worth(s) <= Worth(play[h][p]) + 1
    BY DEF Balanced
  <2>4. Cardinality(seen') = Cardinality(seen) + 1 /\ Cardinality(seen) \in Nat
    BY <1>0, FS_AddElement, FS_CardinalityType
  <2>5. BoardWorth(play) <= Cardinality(seen)
    BY <1>0 DEF OneEventOneScore
  <2>6. BoardWorth(play') <= Cardinality(seen')
    <3>1. Worth(s) - Worth(play[h][p]) <= 1
      BY <2>2, <2>3
    <3> QED BY <2>1, <2>2, <2>4, <2>5, <3>1
  <2> QED BY <2>6 DEF OneEventOneScore
<1>5. FeatureLedger'
  <2>1. ASSUME NEW g \in Holes, NEW q \in Players
        PROVE  Ledger(g, play'[g][q])
    <3>1. Ledger(g, play[g][q]) /\ Ledger(h, s)
      BY <1>0 DEF FeatureLedger, Balanced
    <3>2. (g = h /\ q = p) \/ play'[g][q] = play[g][q]
      BY <1>1
    <3> QED BY <1>1, <3>1, <3>2
  <2> QED BY <2>1 DEF FeatureLedger, Ledger
<1>6. IsFiniteSet(seen')
  BY <1>0, FS_AddElement
<1> QED BY <1>3, <1>4, <1>5, <1>6 DEF Books, ScoresAddUp

(* A scorecard of the same features keeps their ledger.                    *)
LEMMA SameLedger ==
    ASSUME NEW h, NEW slot \in PlayerHoleState, NEW s \in PlayerHoleState, Ledger(h, slot),
           s.counts = slot.counts, s.bonus = slot.bonus, s.penalties = slot.penalties
    PROVE  Ledger(h, s)
  BY SameCounts DEF Ledger

(* Events that change no scorecard are balanced.                           *)
LEMMA NothingBalanced ==
    ASSUME NEW h, NEW slot \in PlayerHoleState, SlotAgrees(slot), Ledger(h, slot),
           NEW total \in PlayerStats
    PROVE  Balanced(h, slot, slot, total, total)
<1>1. HoleMs(slot) \in Int /\ HoleDone(slot) \in Int /\ Worth(slot) \in Int
  BY HoleMsInt, WorthInt
<1>2. SameStep(slot, slot, total, total)
  BY <1>1 DEF SameStep, PlayerHoleState, PlayerStats
<1> QED BY <1>1, <1>2 DEF Balanced

(* Arming and cancelling are balanced.                                     *)
LEMMA StatusBalanced ==
    ASSUME NEW h, NEW slot \in PlayerHoleState, SlotAgrees(slot), Ledger(h, slot),
           NEW total \in PlayerStats, NEW st \in {"not_started", "armed"},
           slot.status \in {"not_started", "armed"}
    PROVE  Balanced(h, slot, WithStatus(slot, st), total, total)
<1> DEFINE s == WithStatus(slot, st)
<1>1. /\ s \in PlayerHoleState /\ s.status = st
      /\ s.strokes = slot.strokes /\ s.counts = slot.counts /\ s.points = slot.points
      /\ s.bonus = slot.bonus /\ s.penalties = slot.penalties
  <2>1. st \in PlayerHoleStatus
    BY DEF PlayerHoleStatus
  <2> QED BY <2>1, StatusSlot
<1> HIDE DEF s
<1>2. HoleMs(slot) = 0 /\ HoleDone(slot) = 0 /\ HoleMs(s) = 0 /\ HoleDone(s) = 0
  BY <1>1 DEF HoleMs, HoleDone
<1>3. SameStep(slot, s, total, total)
  BY <1>1, <1>2 DEF SameStep, PlayerHoleState, PlayerStats
<1>4. Worth(s) <= Worth(slot) + 1
  <2>1. Triggers(s) = Triggers(slot) /\ Triggers(slot) \in Int
    BY <1>1, SameCounts, WorthInt
  <2>2. slot.strokes \in Nat /\ s.status # "complete" /\ slot.status # "complete"
    BY <1>1 DEF PlayerHoleState
  <2> QED BY <1>1, <2>1, <2>2 DEF Worth
<1>5. Ledger(h, s)
  BY <1>1, SameLedger
<1> QED BY <1>3, <1>4, <1>5 DEF Balanced, s

(* A stroke is balanced.                                                   *)
LEMMA StrokeBalanced ==
    ASSUME NEW h, NEW slot \in PlayerHoleState, SlotAgrees(slot), Ledger(h, slot),
           NEW total \in PlayerStats, NEW ts \in Times, slot.status \in {"armed", "playing"}
    PROVE  Balanced(h, slot, Struck(slot, ts), total, [total EXCEPT !.strokes = @ + 1])
<1> DEFINE s == Struck(slot, ts)
           t == [total EXCEPT !.strokes = @ + 1]
<1>1. /\ s \in PlayerHoleState /\ s.status = "playing"
      /\ s.strokes = slot.strokes + 1 /\ s.counts = slot.counts /\ s.points = slot.points
      /\ s.bonus = slot.bonus /\ s.penalties = slot.penalties
  BY StrokeSlot
<1>2. /\ t.points = total.points /\ t.strokes = total.strokes + 1
      /\ t.bonus = total.bonus /\ t.penalties = total.penalties
      /\ t.playMs = total.playMs /\ t.holesCompleted = total.holesCompleted
  BY DEF PlayerStats
<1> HIDE DEF s, t
<1>3. HoleMs(slot) = 0 /\ HoleDone(slot) = 0 /\ HoleMs(s) = 0 /\ HoleDone(s) = 0
  BY <1>1 DEF HoleMs, HoleDone
<1>4. SameStep(slot, s, total, t)
  <2>1. /\ slot.points \in Int /\ slot.strokes \in Int
        /\ slot.bonus \in Int /\ slot.penalties \in Int
        /\ total.points \in Int /\ total.strokes \in Int /\ total.bonus \in Int
        /\ total.penalties \in Int /\ total.playMs \in Int /\ total.holesCompleted \in Int
    BY DEF PlayerHoleState, PlayerStats
  <2> QED BY <1>1, <1>2, <1>3, <2>1 DEF SameStep
<1>5. Worth(s) <= Worth(slot) + 1
  <2>1. Triggers(s) = Triggers(slot) /\ Triggers(slot) \in Int
    BY <1>1, SameCounts, WorthInt
  <2>2. slot.strokes \in Nat
    BY DEF PlayerHoleState
  <2> QED BY <1>1, <2>1, <2>2 DEF Worth
<1>6. Ledger(h, s)
  BY <1>1, SameLedger
<1> QED BY <1>4, <1>5, <1>6 DEF Balanced, s, t

(* A feature is balanced: its points and their itemisation land on both    *)
(* sides, and the ledger takes them.                                       *)
LEMMA FeatureBalanced ==
    ASSUME NEW h, NEW slot \in PlayerHoleState, SlotAgrees(slot), Ledger(h, slot),
           NEW total \in PlayerStats, NEW f \in Features, f \in HoleFeatures[h],
           UnderLimit(slot, f), slot.status = "playing", NEW delta, delta = PointsDelta[f]
    PROVE  Balanced(h, slot, Itemised(Scored(Counted(slot, f), delta), delta),
                    total, Itemised(Scored(total, delta), delta))
<1> DEFINE c == Counted(slot, f)
           d == Scored(c, delta)
           s == Itemised(d, delta)
           e == Scored(total, delta)
           t == Itemised(e, delta)
           plus == Positive(delta)
           minus == Positive(-delta)
<1>0. delta \in Int /\ plus \in Nat /\ minus \in Nat /\ plus - minus = delta
  <2>1. delta \in Int
    BY FeaturesAssumption
  <2> QED BY <2>1 DEF Positive
<1>1. /\ c \in PlayerHoleState /\ c.status = slot.status /\ c.points = slot.points
      /\ c.strokes = slot.strokes /\ c.counts = [slot.counts EXCEPT ![f] = @ + 1]
      /\ c.bonus = slot.bonus /\ c.penalties = slot.penalties
  BY CountedSlot
<1> HIDE DEF c
<1>2. /\ d \in PlayerHoleState /\ d.status = c.status /\ d.points = c.points + delta
      /\ d.strokes = c.strokes /\ d.counts = c.counts
      /\ d.bonus = c.bonus /\ d.penalties = c.penalties
  BY <1>0, <1>1, ScoredSlot
<1> HIDE DEF d
<1>3. /\ s \in PlayerHoleState /\ s.status = d.status /\ s.points = d.points
      /\ s.strokes = d.strokes /\ s.counts = d.counts
      /\ s.bonus = d.bonus + plus /\ s.penalties = d.penalties + minus
  BY <1>0, <1>2, ItemisedSlot
<1> HIDE DEF s
<1>4. /\ e \in PlayerStats /\ e.points = total.points + delta /\ e.strokes = total.strokes
      /\ e.bonus = total.bonus /\ e.penalties = total.penalties
      /\ e.playMs = total.playMs /\ e.holesCompleted = total.holesCompleted
  BY <1>0, ScoredStats
<1> HIDE DEF e
<1>5. /\ t.points = e.points /\ t.strokes = e.strokes
      /\ t.bonus = e.bonus + plus /\ t.penalties = e.penalties + minus
      /\ t.playMs = e.playMs /\ t.holesCompleted = e.holesCompleted
  BY <1>0, <1>4, ItemisedStats
<1> HIDE DEF t, plus, minus
<1>6. /\ slot.points \in Int /\ slot.strokes \in Int
      /\ slot.bonus \in Int /\ slot.penalties \in Int
      /\ total.points \in Int /\ total.strokes \in Int /\ total.bonus \in Int
      /\ total.penalties \in Int /\ total.playMs \in Int /\ total.holesCompleted \in Int
  BY DEF PlayerHoleState, PlayerStats
<1>7. HoleMs(slot) = 0 /\ HoleDone(slot) = 0 /\ HoleMs(s) = 0 /\ HoleDone(s) = 0
  BY <1>1, <1>2, <1>3 DEF HoleMs, HoleDone
<1>8. /\ s.points = slot.points + delta /\ s.strokes = slot.strokes
      /\ s.bonus = slot.bonus + plus /\ s.penalties = slot.penalties + minus
      /\ s.counts = [slot.counts EXCEPT ![f] = @ + 1] /\ s.status = "playing"
  BY <1>1, <1>2, <1>3
<1>9. /\ t.points = total.points + delta /\ t.strokes = total.strokes
      /\ t.bonus = total.bonus + plus /\ t.penalties = total.penalties + minus
      /\ t.playMs = total.playMs /\ t.holesCompleted = total.holesCompleted
  BY <1>4, <1>5
<1>10. SameStep(slot, s, total, t)
  <2>1. /\ t.points = total.points + (s.points - slot.points)
        /\ t.strokes = total.strokes + (s.strokes - slot.strokes)
    BY <1>0, <1>6, <1>8, <1>9
  <2>2. /\ t.bonus = total.bonus + (s.bonus - slot.bonus)
        /\ t.penalties = total.penalties + (s.penalties - slot.penalties)
    BY <1>0, <1>6, <1>8, <1>9
  <2>3. /\ t.holesCompleted = total.holesCompleted + (HoleDone(s) - HoleDone(slot))
        /\ t.playMs = total.playMs + (HoleMs(s) - HoleMs(slot))
    BY <1>6, <1>7, <1>9
  <2> QED BY <2>1, <2>2, <2>3 DEF SameStep
<1>11. /\ Triggers(s) = Triggers(slot) + 1 /\ Triggers(slot) \in Int
       /\ FeaturePoints(s) = FeaturePoints(slot) + delta /\ FeaturePoints(slot) \in Int
  BY <1>3, <1>8, OneMoreTrigger, WorthInt
<1>12. Worth(s) <= Worth(slot) + 1
  BY <1>6, <1>8, <1>11 DEF Worth
<1>13. Ledger(h, s)
  <2>1. s.bonus - s.penalties = FeaturePoints(s)
    <3>1. slot.bonus - slot.penalties = FeaturePoints(slot)
      BY DEF Ledger
    <3> QED BY <1>0, <1>6, <1>8, <1>11, <3>1
  <2>2. ASSUME NEW g \in Features
        PROVE  s.counts[g] <= MaxTriggers[g] /\ (g \notin HoleFeatures[h] => s.counts[g] = 0)
    <3>1. /\ slot.counts[g] <= MaxTriggers[g] /\ (g \notin HoleFeatures[h] => slot.counts[g] = 0)
          /\ slot.counts \in [Features -> Nat] /\ MaxTriggers[g] \in Nat
      BY FeaturesAssumption DEF Ledger, PlayerHoleState
    <3>2. CASE g = f
      <4>1. s.counts[f] = slot.counts[f] + 1 /\ slot.counts[f] < MaxTriggers[f]
        BY <1>8, <3>1 DEF UnderLimit
      <4> QED BY <3>1, <3>2, <4>1
    <3>3. CASE g # f
      BY <1>8, <3>1, <3>3
    <3> QED BY <3>2, <3>3
  <2> QED BY <2>1, <2>2 DEF Ledger
<1>14. Balanced(h, slot, s, total, t)
  BY <1>10, <1>12, <1>13 DEF Balanced
<1> QED BY <1>14 DEF s, t, d, c, e

(* The cup is balanced.                                                    *)
LEMMA CupBalanced ==
    ASSUME NEW h, NEW slot \in PlayerHoleState, SlotAgrees(slot), Ledger(h, slot),
           NEW total \in PlayerStats, NEW ts \in Times, NEW base \in Int, slot.status = "playing"
    PROVE  Balanced(h, slot, HoledOut(slot, base, ts),
                    total, HoleCompleted(total, base, Elapsed(slot.started, ts)))
<1> DEFINE ms == Elapsed(slot.started, ts)
           s == HoledOut(slot, base, ts)
           t == HoleCompleted(total, base, ms)
<1>0. ms \in Nat
  <2>1. slot.started \in Times
    BY DEF SlotAgrees, PlayerHoleState
  <2>2. \A u \in Times : u \in Int
    BY TimesAssumption
  <2>3. slot.started \in Int /\ ts \in Int
    BY <2>1, <2>2
  <2> QED BY <2>3 DEF Elapsed, Positive
<1>1. /\ s \in PlayerHoleState /\ s.status = "complete" /\ s.completed = ts
      /\ s.points = slot.points + base /\ s.strokes = slot.strokes /\ s.started = slot.started
      /\ s.counts = slot.counts /\ s.bonus = slot.bonus /\ s.penalties = slot.penalties
  BY CupSlot
<1>2. HoleMs(s) = ms /\ HoleDone(s) = 1 /\ HoleMs(slot) = 0 /\ HoleDone(slot) = 0
  <2> HIDE DEF s
  <2> QED BY <1>1 DEF HoleMs, HoleDone
<1> HIDE DEF ms
<1>3. /\ t.points = total.points + base /\ t.strokes = total.strokes
      /\ t.bonus = total.bonus /\ t.penalties = total.penalties
      /\ t.playMs = total.playMs + ms /\ t.holesCompleted = total.holesCompleted + 1
  BY <1>0, CupStats
<1> HIDE DEF s, t
<1>4. SameStep(slot, s, total, t)
  <2>1. /\ slot.points \in Int /\ slot.strokes \in Int
        /\ slot.bonus \in Int /\ slot.penalties \in Int
        /\ total.points \in Int /\ total.strokes \in Int /\ total.bonus \in Int
        /\ total.penalties \in Int /\ total.playMs \in Int /\ total.holesCompleted \in Int
    BY DEF PlayerHoleState, PlayerStats
  <2>2. /\ t.points = total.points + (s.points - slot.points)
        /\ t.strokes = total.strokes + (s.strokes - slot.strokes)
        /\ t.bonus = total.bonus + (s.bonus - slot.bonus)
        /\ t.penalties = total.penalties + (s.penalties - slot.penalties)
    BY <1>1, <1>3, <2>1
  <2>3. /\ t.holesCompleted = total.holesCompleted + (HoleDone(s) - HoleDone(slot))
        /\ t.playMs = total.playMs + (HoleMs(s) - HoleMs(slot))
    BY <1>0, <1>2, <1>3, <2>1
  <2> QED BY <2>2, <2>3 DEF SameStep
<1>5. Worth(s) <= Worth(slot) + 1
  <2>1. Triggers(s) = Triggers(slot) /\ Triggers(slot) \in Int
    BY <1>1, SameCounts, WorthInt
  <2>2. slot.strokes \in Nat
    BY DEF PlayerHoleState
  <2> QED BY <1>1, <2>1, <2>2 DEF Worth
<1>6. Ledger(h, s)
  BY <1>1, SameLedger
<1>7. Balanced(h, slot, s, total, t)
  BY <1>4, <1>5, <1>6 DEF Balanced
<1> QED BY <1>7 DEF s, t, ms

(* An operator's adjustment is balanced.                                   *)
LEMMA AdjustmentBalanced ==
    ASSUME NEW h, NEW slot \in PlayerHoleState, SlotAgrees(slot), Ledger(h, slot),
           NEW total \in PlayerStats, NEW delta \in Int
    PROVE  Balanced(h, slot, Scored(slot, delta), total, Scored(total, delta))
<1> DEFINE s == Scored(slot, delta)
           t == Scored(total, delta)
<1>1. /\ s \in PlayerHoleState /\ s.status = slot.status /\ s.completed = slot.completed
      /\ s.points = slot.points + delta /\ s.strokes = slot.strokes /\ s.started = slot.started
      /\ s.counts = slot.counts /\ s.bonus = slot.bonus /\ s.penalties = slot.penalties
  BY ScoredSlot
<1>2. /\ t.points = total.points + delta /\ t.strokes = total.strokes
      /\ t.bonus = total.bonus /\ t.penalties = total.penalties
      /\ t.playMs = total.playMs /\ t.holesCompleted = total.holesCompleted
  BY ScoredStats
<1> HIDE DEF s, t
<1>3. /\ HoleMs(s) = HoleMs(slot) /\ HoleDone(s) = HoleDone(slot)
      /\ HoleMs(slot) \in Int /\ HoleDone(slot) \in Int
  <2>1. HoleMs(slot) \in Int /\ HoleDone(slot) \in Int
    BY HoleMsInt
  <2> QED BY <1>1, <2>1 DEF HoleMs, HoleDone
<1>4. SameStep(slot, s, total, t)
  <2>1. /\ slot.points \in Int /\ slot.strokes \in Int
        /\ slot.bonus \in Int /\ slot.penalties \in Int
        /\ total.points \in Int /\ total.strokes \in Int /\ total.bonus \in Int
        /\ total.penalties \in Int /\ total.playMs \in Int /\ total.holesCompleted \in Int
    BY DEF PlayerHoleState, PlayerStats
  <2>2. /\ t.points = total.points + (s.points - slot.points)
        /\ t.strokes = total.strokes + (s.strokes - slot.strokes)
        /\ t.bonus = total.bonus + (s.bonus - slot.bonus)
        /\ t.penalties = total.penalties + (s.penalties - slot.penalties)
    BY <1>1, <1>2, <2>1
  <2>3. /\ t.holesCompleted = total.holesCompleted + (HoleDone(s) - HoleDone(slot))
        /\ t.playMs = total.playMs + (HoleMs(s) - HoleMs(slot))
    BY <1>2, <1>3, <2>1
  <2> QED BY <2>2, <2>3 DEF SameStep
<1>5. Worth(s) <= Worth(slot) + 1
  <2>1. Triggers(s) = Triggers(slot) /\ Worth(slot) \in Int
    BY <1>1, SameCounts, WorthInt
  <2>2. Worth(s) = Worth(slot)
    BY <1>1, <2>1 DEF Worth
  <2> QED BY <2>1, <2>2
<1>6. Ledger(h, s)
  BY <1>1, SameLedger
<1>7. Balanced(h, slot, s, total, t)
  BY <1>4, <1>5, <1>6 DEF Balanced
<1> QED BY <1>7 DEF s, t

(* A new round's books are empty, and balance.                             *)
LEMMA InitBooks == Init => Books
<1> SUFFICES ASSUME Init PROVE Books
  OBVIOUS
<1> DEFINE new == NewPlayerHoleState
<1>1. play = [h \in Holes |-> [p \in Players |-> NewPlayerHoleState]] /\ seen = {}
  BY DEF Init
<1>2. new \in PlayerHoleState /\ new.points = 0 /\ new.strokes = 0 /\ new.bonus = 0
      /\ new.penalties = 0 /\ HoleDone(new) = 0 /\ HoleMs(new) = 0
      /\ new.counts = [f \in Features |-> 0]
  BY DEF NewPlayerHoleState, PlayerHoleState, PlayerHoleStatus, HoleDone, HoleMs
<1>3. BoardWorth(play) = 0 /\ FeaturePoints(new) = 0
  BY <1>1, BoardZero
<1> HIDE DEF new
<1>4. \A h \in Holes, p \in Players : play[h][p] = new
  BY <1>1 DEF new
<1>5. ASSUME NEW p \in Players
      PROVE  Totals(play, stats[p], p)
  <2>1. \A v \in [Holes -> Int] : (\A h \in Holes : v[h] = 0) => HoleTotal(v) = 0
    BY HoleTotalZero
  <2>2. /\ stats[p].points = 0 /\ stats[p].strokes = 0 /\ stats[p].bonus = 0
        /\ stats[p].penalties = 0 /\ stats[p].holesCompleted = 0 /\ stats[p].playMs = 0
    BY DEF Init, NewPlayerStats
  <2>3. \A h \in Holes : /\ play[h][p].points = 0 /\ play[h][p].strokes = 0
                         /\ play[h][p].bonus = 0 /\ play[h][p].penalties = 0
                         /\ HoleDone(play[h][p]) = 0 /\ HoleMs(play[h][p]) = 0
    BY <1>2, <1>4
  <2> DEFINE zero == [h \in Holes |-> 0]
  <2>4. /\ [h \in Holes |-> play[h][p].points] = zero
        /\ [h \in Holes |-> play[h][p].strokes] = zero
        /\ [h \in Holes |-> play[h][p].bonus] = zero
        /\ [h \in Holes |-> play[h][p].penalties] = zero
        /\ [h \in Holes |-> HoleDone(play[h][p])] = zero
        /\ [h \in Holes |-> HoleMs(play[h][p])] = zero
    BY <2>3
  <2>5. HoleTotal(zero) = 0
    <3>1. zero \in [Holes -> Int] /\ \A h \in Holes : zero[h] = 0
      OBVIOUS
    <3> HIDE DEF zero
    <3> QED BY <2>1, <3>1
  <2> HIDE DEF zero
  <2> QED BY <2>2, <2>4, <2>5 DEF Totals
<1>6. RoundTotals
  BY <1>5, TotalsNow
<1>7. OneEventOneScore /\ IsFiniteSet(seen)
  BY <1>1, <1>3, FS_EmptySet DEF OneEventOneScore
<1>8. FeatureLedger
  <2>1. \A f \in Features : 0 <= MaxTriggers[f] /\ new.counts[f] = 0
    BY <1>2, FeaturesAssumption
  <2>2. new.bonus - new.penalties = FeaturePoints(new)
    BY <1>2, <1>3
  <2> QED BY <1>4, <2>1, <2>2 DEF FeatureLedger, Ledger
<1> QED BY <1>6, <1>7, <1>8 DEF Books, ScoresAddUp

(* Every event, and every ignored one, keeps the books balanced.           *)
LEMMA NextKeepsBooks == IInv /\ Books /\ [Next]_vars => Books'
<1> SUFFICES ASSUME IInv, Books, [Next]_vars PROVE Books'
  OBVIOUS
<1>0. IInv'
  BY NextKeepsIInv
<1>1. CASE UNCHANGED vars
  <2>1. play' = play /\ stats' = stats /\ seen' = seen
    BY <1>1 DEF vars
  <2>2. RoundTotals'
    <3>1. \A p \in Players : Totals(play, stats[p], p)
      BY TotalsNow DEF Books, ScoresAddUp
    <3> QED BY <2>1, <3>1, TotalsNext
  <2> QED BY <2>1, <2>2 DEF Books, ScoresAddUp, OneEventOneScore, FeatureLedger, Ledger
<1>2. ASSUME NEW id \in EventIds, NEW h \in Holes, NEW p \in Players, ProcessFor(id, h, p)
      PROVE  Books'
  <2> DEFINE slot == play[h][p]
             total == stats[p]
  <2>0. /\ play \in [Holes -> [Players -> PlayerHoleState]] /\ stats \in [Players -> PlayerStats]
        /\ slot \in PlayerHoleState /\ slot.status \in PlayerHoleStatus /\ total \in PlayerStats
        /\ slot.status \in {"armed", "playing"} <=> active[h] = p
        /\ NoPlayer # p /\ SlotAgrees(slot) /\ Ledger(h, slot) /\ slot.strokes \in Nat
    BY PlayersAssumption DEF IInv, TypeOK, TurnDiscipline, PhaseAgrees, PlayerHoleState,
                             Books, ScoresAddUp, FeatureLedger
  <2>1. id \notin seen /\ seen' = seen \cup {id}
    BY <1>2 DEF ProcessFor, TeePresented, AlreadyArmed, TeeCancelled, StrokeConfirmed,
            FeatureConfirmed, FeatureLimitIgnored, PickupDetected, CupConfirmed,
            ManualAdjustment, Dispatched
  <2>2. ASSUME NEW s, NEW t, play' = [play EXCEPT ![h][p] = s], stats' = [stats EXCEPT ![p] = t],
               Balanced(h, slot, s, total, t)
        PROVE  Books'
    <3>1. s \in PlayerHoleState
      <4>1. play'[h][p] \in PlayerHoleState /\ play'[h][p] = s
        BY <1>0, <2>0, <2>2 DEF IInv, TypeOK
      <4> QED BY <4>1
    <3> QED BY <1>0, <2>1, <2>2, <3>1, BalancedKeepsBooks
  <2>3. CASE UNCHANGED <<play, stats>>
    <3>1. Balanced(h, slot, slot, total, total)
      BY <2>0, NothingBalanced
    <3>2. play' = [play EXCEPT ![h][p] = slot] /\ stats' = [stats EXCEPT ![p] = total]
      BY <2>0, <2>3
    <3> QED BY <2>2, <3>1, <3>2
  <2>4. CASE TeePresented(id, h, p) \/ TeeCancelled(id, h, p)
    <3>1. slot.status \in {"not_started", "armed"}
      BY <2>0, <2>4 DEF TeePresented, TeeCancelled, PlayerHoleStatus
    <3>2. PICK st \in {"not_started", "armed"} :
                play' = [play EXCEPT ![h][p] = WithStatus(slot, st)]
      BY <2>0, <2>4 DEF TeePresented, TeeCancelled
    <3>3. stats' = [stats EXCEPT ![p] = total]
      BY <2>0, <2>4 DEF TeePresented, TeeCancelled
    <3>4. Balanced(h, slot, WithStatus(slot, st), total, total)
      BY <2>0, <3>1, StatusBalanced
    <3> QED BY <2>2, <3>2, <3>3, <3>4
  <2>5. ASSUME NEW ts \in Times, StrokeConfirmed(id, h, p, ts)
        PROVE  Books'
    <3>1. /\ slot.status \in {"armed", "playing"}
          /\ play' = [play EXCEPT ![h][p] = Struck(slot, ts)]
          /\ stats' = [stats EXCEPT ![p] = [total EXCEPT !.strokes = @ + 1]]
      BY <2>0, <2>5 DEF StrokeConfirmed
    <3>2. Balanced(h, slot, Struck(slot, ts), total, [total EXCEPT !.strokes = @ + 1])
      BY <2>0, <3>1, StrokeBalanced
    <3> QED BY <2>2, <3>1, <3>2
  <2>6. ASSUME NEW f \in Features, FeatureConfirmed(id, h, p, f)
        PROVE  Books'
    <3> DEFINE delta == PointsDelta[f]
               s == Itemised(Scored(Counted(slot, f), delta), delta)
               t == Itemised(Scored(total, delta), delta)
    <3>1. /\ slot.status = "playing" /\ f \in HoleFeatures[h] /\ UnderLimit(slot, f)
          /\ play' = [play EXCEPT ![h][p] = s] /\ stats' = [stats EXCEPT ![p] = t]
      BY <2>0, <2>6 DEF FeatureConfirmed
    <3>2. Balanced(h, slot, s, total, t)
      <4> HIDE DEF slot, total
      <4> QED BY <2>0, <3>1, FeatureBalanced
    <3> QED BY <2>2, <3>1, <3>2
  <2>7. ASSUME NEW ts \in Times, CupConfirmed(id, h, p, ts)
        PROVE  Books'
    <3> DEFINE base == CompletionPoints(ScoreCurve[h], slot.strokes)
    <3>1. /\ slot.status = "playing"
          /\ play' = [play EXCEPT ![h][p] = HoledOut(slot, base, ts)]
          /\ stats' = [stats EXCEPT ![p] =
                         HoleCompleted(total, base, Elapsed(slot.started, ts))]
      BY <2>0, <2>7 DEF CupConfirmed
    <3>2. base \in Int
      BY <2>0, CompletionPointsInt
    <3> HIDE DEF base
    <3>3. Balanced(h, slot, HoledOut(slot, base, ts),
                   total, HoleCompleted(total, base, Elapsed(slot.started, ts)))
      BY <2>0, <3>1, <3>2, CupBalanced
    <3> QED BY <2>2, <3>1, <3>3
  <2>8. ASSUME NEW delta \in Adjustments, ManualAdjustment(id, h, p, delta)
        PROVE  Books'
    <3>1. /\ play' = [play EXCEPT ![h][p] = Scored(slot, delta)]
          /\ stats' = [stats EXCEPT ![p] = Scored(total, delta)]
      BY <2>0, <2>8 DEF ManualAdjustment
    <3>2. delta \in Int
      BY AdjustmentsAssumption
    <3>3. Balanced(h, slot, Scored(slot, delta), total, Scored(total, delta))
      BY <2>0, <3>2, AdjustmentBalanced
    <3> QED BY <2>2, <3>1, <3>3
  <2> QED BY <1>2, <2>3, <2>4, <2>5, <2>6, <2>7, <2>8
          DEF ProcessFor, AlreadyArmed, FeatureLimitIgnored, PickupDetected
<1> QED BY <1>1, <1>2 DEF Next, DuplicateIgnored

-----------------------------------------------------------------------------
(* The theorems.                                                           *)

(* Every variable keeps its type: no event makes a count, a penalty or a   *)
(* play time negative or a total anything but an integer.                  *)
THEOREM Typing == Spec => []TypeOK
<1>1. IInv => TypeOK
  BY DEF IInv
<1> QED BY <1>1, Invariance, PTL

(* At most one player holds the turn, only on the current hole, and that   *)
(* player is exactly the one whose scorecard is mid-play.                  *)
THEOREM OneTurn == Spec => []TurnDiscipline
<1>1. IInv => TurnDiscipline
  BY DEF IInv
<1> QED BY <1>1, Invariance, PTL

(* The status of a slot accounts for its strokes, clock and features.      *)
THEOREM SlotPhases == Spec => []PhaseAgrees
<1>1. IInv => PhaseAgrees
  BY DEF IInv
<1> QED BY <1>1, Invariance, PTL

(* Holes are played in order, by everyone, exactly once.                   *)
THEOREM CourseOrder == Spec => []HolesInOrder
<1>1. IInv => HolesInOrder
  BY DEF IInv
<1> QED BY <1>1, Invariance, PTL

(* What is done is done: after a hole-out only the points of that slot can *)
(* change, and only on the hole being played; a finished round is frozen;  *)
(* and the course moves one hole at a time.                                *)
THEOREM DoneIsDone == Spec => FinishedStaysFinished
<1> DEFINE Kept ==
      /\ \A h \in Holes, p \in Players :
            play[h][p].status = "complete" =>
                /\ play'[h][p] = [play[h][p] EXCEPT !.points = play'[h][p].points]
                /\ h # current => play'[h][p] = play[h][p]
      /\ sessionStatus = "complete" => UNCHANGED vars
      /\ current' \in {current, current + 1}
<1>1. IInv /\ [Next]_vars => Kept
  BY OnlyForward DEF Later
<1>2. FinishedStaysFinished <=> [][Kept]_vars
  BY DEF FinishedStaysFinished
<1> HIDE DEF Kept
<1> QED BY <1>1, <1>2, Invariance, PTL DEF Spec

(* The books balance, for every course, group, curve and set of features:  *)
(* after any history of deliveries, cancellations and adjustments the      *)
(* running totals are the scorecards added up, bonuses and penalties are   *)
(* what the counted features are worth, and every arming, stroke, feature  *)
(* and completion was paid for by an evidence event of its own.            *)
THEOREM BooksBalance == Spec => []ScoresAddUp
<1>1. Init => IInv /\ Books
  BY InitIInv, InitBooks
<1>2. IInv /\ Books /\ [Next]_vars => (IInv /\ Books)'
  BY NextKeepsIInv, NextKeepsBooks
<1>3. IInv /\ Books => ScoresAddUp
  BY DEF Books
<1> QED BY <1>1, <1>2, <1>3, PTL DEF Spec

=============================================================================
