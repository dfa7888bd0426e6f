------------------------- MODULE VenueApplicationProofs -------------------------
(***************************************************************************)
(* Theorems about VenueApplication for any number of request threads,      *)
(* Balls, holes and bookings.                                              *)
(*                                                                         *)
(* What makes the invariant inductive is the lock: whoever is between the  *)
(* two assignments of self.runtime holds it and has seen the last round    *)
(* end, so no round is in play and the session of a failed check-in is the *)
(* only one whose Balls nobody will hand back.                             *)
(*                                                                         *)
(* The threads outside start_session never touch the check-in service.     *)
(* All they do to a round is to carry it on (Serves), which is what the    *)
(* requests that hold an earlier reading of it have to survive.            *)
(***************************************************************************)
EXTENDS VenueApplication, FiniteSetTheorems, TLAPS

-----------------------------------------------------------------------------
(* Types.                                                                  *)

CheckIns == [action : {"checkin"}, players : Balls, booking : Bookings \cup {None}]

Presses ==
    [action : Actions, ball : Balls \cup {None}, hole : 1 .. NumHoles \cup {None},
     from : SessionIds \cup {None}, turn : (SessionIds \X Nat) \cup {None},
     target : SessionIds \cup {None}]

Watches == [action : {"observe"}, observation : Observations]

CheckingIn == {"create", "build"}

Pressing == {"hole", "active", "ball", "target", "apply"}

TypeOK ==
    /\ ballInUse \in [Balls -> SessionIds \cup {None}]
    /\ sessions \in [SessionIds -> Group \cup {None}]
    /\ bookingIndex \in [Bookings -> SessionIds \cup {None}]
    /\ session \in SessionIds \cup {None}
    /\ runtime \in SessionIds \cup {None}
    /\ rounds \in [SessionIds -> Round \cup {None}]
    /\ lock \in Threads \cup {None}
    /\ pc \in [Threads -> {"idle", "observe"} \cup CheckingIn \cup Pressing]
    /\ request \in [Threads -> {Idle} \cup CheckIns \cup Presses \cup Watches]
    /\ minted \in 0 .. MaxSessions
    /\ failures \in Nat

(* What a thread holds goes with where it is.                              *)
RequestsFit ==
    \A t \in Threads :
        /\ pc[t] \in CheckingIn => request[t] \in CheckIns
        /\ pc[t] \in Pressing => request[t] \in Presses
        /\ pc[t] = "observe" => request[t] \in Watches

-----------------------------------------------------------------------------
(* The inductive invariant.                                                *)

(* Exactly the thread that checks a group in holds the lock.               *)
LockHeld ==
    /\ \A t \in Threads : pc[t] \in CheckingIn => lock = t
    /\ lock # None => pc[lock] \in CheckingIn

(* The screens show a session that exists, and its round when there is one;*)
(* while a group is checked in there is none.                              *)
ScreensAgree ==
    /\ session # None => sessions[session] # None
    /\ runtime # None => session = runtime /\ rounds[runtime] # None
    /\ \A t \in Threads : pc[t] \in CheckingIn => runtime = None
    /\ \A t \in Threads : pc[t] = "create" => minted < MaxSessions
    /\ \A t \in Threads : pc[t] = "build" => session # None /\ rounds[session] = None
    /\ \A s \in SessionIds : s > minted => sessions[s] = None /\ rounds[s] = None

(* Sessions that hold Balls and neither play nor are about to.             *)
Orphans ==
    {s \in SessionIds : /\ sessions[s] # None
                        /\ s # runtime
                        /\ s = session => \A t \in Threads : pc[t] # "build"}

OrphansAccounted == Cardinality(Orphans) <= failures

(* The player in play has not holed out.                                   *)
TurnOpen(r) == r.turn # None => r.turn \notin r.done

RoundsSound == \A s \in SessionIds : rounds[s] # None => TurnOpen(rounds[s])

(* The hole a button press has read was the hole of that round then.       *)
HoleSeen(p) ==
    /\ p.action # "tee"
    /\ p.from \in SessionIds /\ rounds[p.from] # None
    /\ p.hole \in 1 .. NumHoles /\ p.hole <= rounds[p.from].hole

(* So was the turn: if the hole is still the same, the player is either    *)
(* still in that turn or has holed out.                                    *)
TurnSeen(p) ==
    /\ p.turn \in SessionIds \X Nat
    /\ p.turn[1] = p.from =>
          /\ p.turn[2] <= rounds[p.from].turns
          /\ p.hole = rounds[p.from].hole =>
                \/ p.ball \in rounds[p.from].done
                \/ p.turn[2] = rounds[p.from].turns /\ rounds[p.from].turn = p.ball

PressSound(t) ==
    /\ pc[t] = "hole" => request[t].action # "tee"
    /\ pc[t] \in {"active", "ball"} => HoleSeen(request[t])
    /\ pc[t] \in {"target", "apply"} =>
          /\ request[t].ball \in Balls
          /\ request[t].action # "tee" => HoleSeen(request[t]) /\ TurnSeen(request[t])
    /\ pc[t] = "apply" => request[t].target \in SessionIds /\ rounds[request[t].target] # None

PressesSound == \A t \in Threads : PressSound(t)

IInv ==
    /\ TypeOK /\ RequestsFit
    /\ LockHeld /\ ScreensAgree
    /\ AssignmentsAgree /\ OrphansAccounted
    /\ OneGameAtATime /\ RoundsSound /\ PressesSound

-----------------------------------------------------------------------------
(* Rounds.                                                                 *)

(* How a round goes on: the hole and the turn count never go back, a       *)
(* finished round stays finished, and while the hole stays, a player keeps *)
(* the turn or has holed out.                                              *)
Continues(r, q) ==
    /\ q.balls = r.balls
    /\ r.over => q.over
    /\ r.hole <= q.hole
    /\ r.turns <= q.turns
    /\ q.hole = r.hole =>
          /\ r.done \subseteq q.done
          /\ r.turn # None => r.turn \in q.done \/ (q.turn = r.turn /\ q.turns = r.turns)

(* An event the engine accepts carries the round on.                       *)
LEMMA AfterContinues ==
    ASSUME NEW r \in Round, TurnOpen(r), NEW action \in Actions, NEW b \in Balls, NEW h,
           Legal(r, action, b, h)
    PROVE  /\ After(r, action, b) \in Round /\ TurnOpen(After(r, action, b))
           /\ Continues(r, After(r, action, b))
<1> DEFINE q == After(r, action, b)
<1> SUFFICES q \in Round /\ TurnOpen(q) /\ Continues(r, q)
  OBVIOUS
<1>0. /\ r.balls \in SUBSET Balls /\ r.hole \in 1 .. NumHoles /\ r.turn \in Balls \cup {None}
      /\ r.turns \in Nat /\ r.struck \in BOOLEAN /\ r.done \in SUBSET Balls
      /\ r.over = FALSE /\ r.answered \in SUBSET Observations
      /\ NumHoles \in Nat
  BY SizesAssumption DEF Round, Legal
<1>1. CASE action = "tee"
  <2> DEFINE turns == r.turns + 1
  <2>1. q = [r EXCEPT !.turn = b, !.turns = turns, !.struck = FALSE]
    BY <1>1 DEF After
  <2>2. b \notin r.done /\ r.turn = None
    BY <1>1 DEF Legal
  <2>3. turns \in Nat /\ r.turns <= turns
    BY <1>0
  <2> HIDE DEF turns
  <2>4. /\ q \in Round
        /\ q.balls = r.balls /\ q.hole = r.hole /\ q.done = r.done /\ q.over = r.over
        /\ q.turn = b /\ q.turns = turns
    BY <1>0, <2>1, <2>3 DEF Round
  <2> HIDE DEF q
  <2> QED BY <1>0, <2>2, <2>3, <2>4 DEF TurnOpen, Continues
<1>2. CASE action = "stroke"
  <2>1. q = [r EXCEPT !.struck = TRUE]
    BY <1>2 DEF After
  <2>2. /\ q \in Round
        /\ q.balls = r.balls /\ q.hole = r.hole /\ q.done = r.done /\ q.over = r.over
        /\ q.turn = r.turn /\ q.turns = r.turns
    BY <1>0, <2>1 DEF Round
  <2> HIDE DEF q
  <2> QED BY <1>0, <2>2 DEF TurnOpen, Continues
<1>3. CASE action = "cup"
  <2> DEFINE on == HoleDone(r, b) /\ r.hole < NumHoles
  <2>1. q = [r EXCEPT !.turn = None,
                      !.done = IF on THEN {} ELSE @ \cup {b},
                      !.hole = IF on THEN @ + 1 ELSE @,
                      !.over = HoleDone(r, b) /\ r.hole = NumHoles]
    BY <1>3 DEF After
  <2>2. r.turn = b
    BY <1>3 DEF Legal
  <2> DEFINE done == IF on THEN {} ELSE r.done \cup {b}
             hole == IF on THEN r.hole + 1 ELSE r.hole
             over == HoleDone(r, b) /\ r.hole = NumHoles
  <2>3. done \in SUBSET Balls /\ hole \in 1 .. NumHoles /\ over \in BOOLEAN
    BY <1>0
  <2>4. q = [r EXCEPT !.turn = None, !.done = done, !.hole = hole, !.over = over]
    BY <1>0, <2>1 DEF Round
  <2>5. hole = r.hole => r.done \subseteq done /\ b \in done
    BY <1>0
  <2>6. r.hole <= hole
    BY <1>0
  <2> HIDE DEF q, done, hole, over
  <2>7. /\ q \in Round
        /\ q.balls = r.balls /\ q.hole = hole /\ q.done = done /\ q.turn = None
        /\ q.turns = r.turns
    BY <1>0, <2>3, <2>4 DEF Round
  <2> HIDE DEF on
  <2> QED BY <1>0, <2>2, <2>5, <2>6, <2>7 DEF TurnOpen, Continues
<1> QED BY <1>1, <1>2, <1>3 DEF Actions

(* Whatever the answer to an observation, it carries the round on.         *)
LEMMA JudgedContinues ==
    ASSUME NEW r \in Round, TurnOpen(r), NEW o \in Observations
    PROVE  Judged(r, o) \in Round /\ TurnOpen(Judged(r, o)) /\ Continues(r, Judged(r, o))
<1> DEFINE e == EvidenceOf[o]
           heard == [r EXCEPT !.answered = @ \cup {o}]
<1>0. r.hole \in Nat /\ r.turns \in Nat
  BY SizesAssumption DEF Round
<1>1. /\ heard \in Round
      /\ heard.balls = r.balls /\ heard.hole = r.hole /\ heard.done = r.done
      /\ heard.over = r.over /\ heard.turn = r.turn /\ heard.turns = r.turns
      /\ heard.struck = r.struck
  BY DEF Round
<1>2. e.action \in Actions /\ e.ball \in Balls
  BY EvidenceAssumption
<1>3. Judged(r, o) = IF o \in r.answered THEN r
                     ELSE IF Legal(r, e.action, e.ball, r.hole)
                     THEN After(heard, e.action, e.ball) ELSE heard
  BY DEF Judged
<1> HIDE DEF heard, e
<1>4. Continues(r, r) /\ Continues(r, heard) /\ TurnOpen(heard)
  BY <1>0, <1>1 DEF Continues, TurnOpen
<1>5. ASSUME Legal(r, e.action, e.ball, r.hole)
      PROVE  /\ After(heard, e.action, e.ball) \in Round
             /\ TurnOpen(After(heard, e.action, e.ball))
             /\ Continues(r, After(heard, e.action, e.ball))
  <2>1. Legal(heard, e.action, e.ball, r.hole)
    BY <1>1, <1>5 DEF Legal
  <2>2. /\ After(heard, e.action, e.ball) \in Round
        /\ TurnOpen(After(heard, e.action, e.ball))
        /\ Continues(heard, After(heard, e.action, e.ball))
    BY <1>1, <1>2, <1>4, <2>1, AfterContinues
  <2> QED BY <1>1, <2>2 DEF Continues
<1> QED BY <1>1, <1>3, <1>4, <1>5

-----------------------------------------------------------------------------
(* The check-in service.                                                   *)

(* release_session frees the Balls and the booking code of one group and   *)
(* nobody else's.                                                          *)
LEMMA ReleaseKeepsBooks ==
    ASSUME TypeOK, AssignmentsAgree, NEW s \in SessionIds, sessions[s] # None, Release(s)
    PROVE  /\ AssignmentsAgree'
           /\ ballInUse' \in [Balls -> SessionIds \cup {None}]
           /\ sessions' \in [SessionIds -> Group \cup {None}]
           /\ bookingIndex' \in [Bookings -> SessionIds \cup {None}]
           /\ \A i \in SessionIds : sessions'[i] = IF i = s THEN None ELSE sessions[i]
           /\ UNCHANGED minted
<1>0. /\ ballInUse \in [Balls -> SessionIds \cup {None}]
      /\ sessions \in [SessionIds -> Group \cup {None}]
      /\ bookingIndex \in [Bookings -> SessionIds \cup {None}]
      /\ None \notin SessionIds /\ None \notin Bookings
  BY NoneAssumption DEF TypeOK, SessionIds
<1>1. /\ \A b \in Balls : ballInUse'[b] = IF b \in sessions[s].balls THEN None ELSE ballInUse[b]
      /\ \A i \in SessionIds : sessions'[i] = IF i = s THEN None ELSE sessions[i]
      /\ \A k \in Bookings :
           bookingIndex'[k] = IF k = sessions[s].booking THEN None ELSE bookingIndex[k]
      /\ ballInUse' \in [Balls -> SessionIds \cup {None}]
      /\ sessions' \in [SessionIds -> Group \cup {None}]
      /\ bookingIndex' \in [Bookings -> SessionIds \cup {None}]
      /\ UNCHANGED minted
  BY <1>0 DEF Release
<1>2. ASSUME NEW b \in Balls, NEW i \in SessionIds
      PROVE  ballInUse'[b] = i <=> sessions'[i] # None /\ b \in sessions'[i].balls
  <2>1. /\ ballInUse[b] = i <=> sessions[i] # None /\ b \in sessions[i].balls
        /\ ballInUse[b] = s <=> b \in sessions[s].balls
    BY DEF AssignmentsAgree
  <2> QED BY <1>0, <1>1, <2>1
<1>3. ASSUME NEW k \in Bookings, NEW i \in SessionIds
      PROVE  bookingIndex'[k] = i <=> sessions'[i] # None /\ sessions'[i].booking = k
  <2>1. /\ bookingIndex[k] = i <=> sessions[i] # None /\ sessions[i].booking = k
        /\ bookingIndex[k] = s <=> sessions[s].booking = k
    BY DEF AssignmentsAgree
  <2> QED BY <1>0, <1>1, <2>1
<1> QED BY <1>1, <1>2, <1>3 DEF AssignmentsAgree

(* create_session takes free Balls and a free booking code for a group of  *)
(* its own.                                                                *)
LEMMA CreateKeepsBooks ==
    ASSUME TypeOK, AssignmentsAgree, NEW s \in SessionIds, sessions[s] = None,
           NEW n, NEW k \in Bookings \cup {None}, CanCreate(n, k), Create(s, n, k)
    PROVE  /\ AssignmentsAgree'
           /\ ballInUse' \in [Balls -> SessionIds \cup {None}]
           /\ sessions' \in [SessionIds -> Group \cup {None}]
           /\ bookingIndex' \in [Bookings -> SessionIds \cup {None}]
           /\ sessions'[s] # None
           /\ \A i \in SessionIds : i # s => sessions'[i] = sessions[i]
           /\ minted' = s
<1> DEFINE assigned == Assigned(n)
           group == [balls |-> assigned, booking |-> k]
<1>0. /\ ballInUse \in [Balls -> SessionIds \cup {None}]
      /\ sessions \in [SessionIds -> Group \cup {None}]
      /\ bookingIndex \in [Bookings -> SessionIds \cup {None}]
      /\ None \notin SessionIds /\ None \notin Bookings
  BY NoneAssumption DEF TypeOK, SessionIds
<1>1. assigned \in SUBSET Balls /\ \A b \in assigned : ballInUse[b] = None
  BY DEF Assigned, FreeBalls
<1> HIDE DEF assigned
<1>2. group \in Group /\ group # None /\ group.balls = assigned /\ group.booking = k
  BY <1>1, NoneAssumption DEF Group
<1>3. /\ ballInUse' = [b \in Balls |-> IF b \in assigned THEN s ELSE ballInUse[b]]
      /\ sessions' = [sessions EXCEPT ![s] = group]
      /\ bookingIndex' = [j \in Bookings |-> IF j = k THEN s ELSE bookingIndex[j]]
      /\ minted' = s
      /\ k # None => bookingIndex[k] = None
  BY DEF Create, CanCreate, assigned
<1> HIDE DEF group
<1>4. /\ \A b \in Balls : ballInUse'[b] = IF b \in assigned THEN s ELSE ballInUse[b]
      /\ \A i \in SessionIds : sessions'[i] = IF i = s THEN group ELSE sessions[i]
      /\ \A j \in Bookings : bookingIndex'[j] = IF j = k THEN s ELSE bookingIndex[j]
      /\ ballInUse' \in [Balls -> SessionIds \cup {None}]
      /\ sessions' \in [SessionIds -> Group \cup {None}]
      /\ bookingIndex' \in [Bookings -> SessionIds \cup {None}]
  BY <1>0, <1>2, <1>3
<1>5. ASSUME NEW b \in Balls, NEW i \in SessionIds
      PROVE  ballInUse'[b] = i <=> sessions'[i] # None /\ b \in sessions'[i].balls
  <2>1. /\ ballInUse[b] = i <=> sessions[i] # None /\ b \in sessions[i].balls
        /\ ballInUse[b] # s
    BY DEF AssignmentsAgree
  <2> QED BY <1>0, <1>1, <1>2, <1>4, <2>1
<1>6. ASSUME NEW j \in Bookings, NEW i \in SessionIds
      PROVE  bookingIndex'[j] = i <=> sessions'[i] # None /\ sessions'[i].booking = j
  <2>1. /\ bookingIndex[j] = i <=> sessions[i] # None /\ sessions[i].booking = j
        /\ bookingIndex[j] # s
    BY DEF AssignmentsAgree
  <2> QED BY <1>0, <1>2, <1>3, <1>4, <2>1
<1> QED BY <1>2, <1>3, <1>4, <1>5, <1>6 DEF AssignmentsAgree

-----------------------------------------------------------------------------
(* What requests have read.                                                *)

(* Every round that exists goes on.                                        *)
RoundsGoOn ==
    \A s \in SessionIds : rounds[s] # None =>
        rounds'[s] # None /\ (rounds'[s] = rounds[s] \/ Continues(rounds[s], rounds'[s]))

(* What a waiting request has read stays true of a round that goes on.     *)
LEMMA SeenKept ==
    ASSUME TypeOK, TypeOK', RoundsGoOn, NEW t \in Threads, PressSound(t),
           UNCHANGED <<pc[t], request[t]>>
    PROVE  PressSound(t)'
<1> DEFINE p == request[t]
<1>0. /\ rounds \in [SessionIds -> Round \cup {None}]
      /\ rounds' \in [SessionIds -> Round \cup {None}]
      /\ \A r \in Round : r.hole \in Nat /\ r.turns \in Nat
      /\ \A b \in Balls : b # None
  <2>1. \A r \in Round : r.hole \in 1 .. NumHoles /\ r.turns \in Nat
    BY DEF Round
  <2> QED BY <2>1, SizesAssumption, NoneAssumption DEF TypeOK, Balls
<1>1. ASSUME HoleSeen(p)
      PROVE  HoleSeen(p)'
  <2> DEFINE r == rounds[p.from]
             q == rounds'[p.from]
  <2>1. p.from \in SessionIds /\ r # None /\ q # None /\ r.hole <= q.hole /\ p.hole <= r.hole
        /\ p.hole \in 1 .. NumHoles /\ r \in Round /\ q \in Round
    BY <1>0, <1>1 DEF HoleSeen, RoundsGoOn, Continues
  <2>2. p.hole <= q.hole
    BY <1>0, <2>1, SizesAssumption
  <2> QED BY <1>1, <2>1, <2>2 DEF HoleSeen
<1>2. ASSUME HoleSeen(p), TurnSeen(p), p.ball \in Balls, p.turn[1] = p.from
      PROVE  /\ p.turn[2] <= rounds'[p.from].turns
             /\ p.hole = rounds'[p.from].hole =>
                   \/ p.ball \in rounds'[p.from].done
                   \/ p.turn[2] = rounds'[p.from].turns /\ rounds'[p.from].turn = p.ball
  <2> DEFINE r == rounds[p.from]
             q == rounds'[p.from]
  <2>1. /\ p.from \in SessionIds /\ r \in Round /\ q \in Round
        /\ p.hole \in 1 .. NumHoles /\ p.hole <= r.hole
        /\ q = r \/ Continues(r, q)
        /\ p.turn[2] \in Nat /\ p.turn[2] <= r.turns
        /\ p.hole = r.hole => p.ball \in r.done \/ (p.turn[2] = r.turns /\ r.turn = p.ball)
    BY <1>0, <1>2 DEF HoleSeen, TurnSeen, RoundsGoOn
  <2> HIDE DEF p, r, q
  <2>2. CASE q = r
    BY <2>1, <2>2 DEF r, q
  <2>3. CASE Continues(r, q)
    <3>1. r.hole \in Nat /\ q.hole \in Nat /\ r.turns \in Nat /\ q.turns \in Nat
          /\ p.hole \in Nat
      BY <1>0, <2>1, SizesAssumption
    <3>2. r.hole <= q.hole /\ r.turns <= q.turns
      BY <2>3 DEF Continues
    <3>3. p.turn[2] <= q.turns
      BY <2>1, <3>1, <3>2
    <3>4. ASSUME p.hole = q.hole
          PROVE  p.ball \in q.done \/ (p.turn[2] = q.turns /\ q.turn = p.ball)
      <4>1. r.hole = p.hole /\ q.hole = r.hole
        BY <2>1, <3>1, <3>2, <3>4
      <4>2. CASE p.ball \in r.done
        BY <2>3, <4>1, <4>2 DEF Continues
      <4>3. CASE p.turn[2] = r.turns /\ r.turn = p.ball
        BY <1>0, <1>2, <2>3, <4>1, <4>3 DEF Continues
      <4> QED BY <2>1, <4>1, <4>2, <4>3
    <3> QED BY <3>3, <3>4 DEF q
  <2> QED BY <2>1, <2>2, <2>3
<1>3. ASSUME HoleSeen(p), TurnSeen(p), p.ball \in Balls
      PROVE  TurnSeen(p)'
  BY <1>2, <1>3 DEF TurnSeen
<1>4. request'[t] = p /\ pc'[t] = pc[t]
  OBVIOUS
<1>5. pc[t] = "apply" => p.target \in SessionIds /\ rounds'[p.target] # None
  BY DEF PressSound, RoundsGoOn
<1> QED BY <1>1, <1>3, <1>4, <1>5 DEF PressSound, HoleSeen, TurnSeen

-----------------------------------------------------------------------------
(* The threads outside start_session.                                      *)

(* What they may do: move on themselves, and carry on the round in play.   *)
Serves(t) ==
    /\ pc[t] \notin CheckingIn /\ pc'[t] \notin CheckingIn
    /\ \A u \in Threads : u # t => UNCHANGED <<pc[u], request[u]>>
    /\ UNCHANGED <<checkin, session, runtime, lock, failures>>
    /\ rounds' \in [SessionIds -> Round \cup {None}]
    /\ \A s \in SessionIds :
          \/ rounds'[s] = rounds[s]
          \/ /\ runtime = s
             /\ rounds[s] # None /\ rounds'[s] # None
             /\ Continues(rounds[s], rounds'[s]) /\ TurnOpen(rounds'[s])
    /\ PressSound(t)'
    /\ pc' \in [Threads -> {"idle", "observe"} \cup CheckingIn \cup Pressing]
    /\ request' \in [Threads -> {Idle} \cup CheckIns \cup Presses \cup Watches]
    /\ pc'[t] \in Pressing => request'[t] \in Presses
    /\ pc'[t] = "observe" => request'[t] \in Watches

(* A thread that goes to a label with a request that fits it.              *)
LEMMA Moves ==
    ASSUME TypeOK, NEW t \in Threads, NEW label \in {"idle", "observe"} \cup Pressing,
           NEW r \in {Idle} \cup CheckIns \cup Presses \cup Watches,
           pc[t] \notin CheckingIn, Goto(t, label), request' = [request EXCEPT ![t] = r],
           UNCHANGED <<checkin, session, runtime, lock, rounds, failures>>,
           label \in Pressing => r \in Presses, label = "observe" => r \in Watches,
           /\ label = "hole" => r.action # "tee"
           /\ label \in {"active", "ball"} => HoleSeen(r)
           /\ label \in {"target", "apply"} =>
                 /\ r.ball \in Balls
                 /\ r.action # "tee" => HoleSeen(r) /\ TurnSeen(r)
           /\ label = "apply" => r.target \in SessionIds /\ rounds[r.target] # None
    PROVE  Serves(t)
<1>1. /\ pc' \in [Threads -> {"idle", "observe"} \cup CheckingIn \cup Pressing]
      /\ request' \in [Threads -> {Idle} \cup CheckIns \cup Presses \cup Watches]
      /\ pc'[t] = label /\ request'[t] = r
      /\ \A u \in Threads : u # t => UNCHANGED <<pc[u], request[u]>>
  BY DEF Goto, TypeOK
<1>2. label \notin CheckingIn
  BY DEF CheckingIn, Pressing
<1>3. PressSound(t)'
  BY <1>1 DEF PressSound, HoleSeen, TurnSeen
<1> QED BY <1>1, <1>2, <1>3 DEF Serves, TypeOK

(* Ending a request is such a move.                                        *)
LEMMA Raises ==
    ASSUME TypeOK, NEW t \in Threads, pc[t] \notin CheckingIn, Raise(t)
    PROVE  Serves(t)
<1>1. Goto(t, "idle") /\ request' = [request EXCEPT ![t] = Idle]
      /\ UNCHANGED <<checkin, session, runtime, lock, rounds, failures>>
  BY DEF Raise, Return, Note
<1>2. "idle" \notin Pressing
  BY DEF Pressing
<1> QED BY <1>1, <1>2, Moves DEF Pressing

(* Pressing a button, and the reads of self.runtime that follow.           *)
LEMMA ReadsServe ==
    ASSUME TypeOK, RequestsFit, ScreensAgree, RoundsSound, NEW t \in Threads, PressSound(t),
           \/ \E b \in Balls : Simulate(t, "tee", b)
           \/ \E a \in {"stroke", "cup"} : Simulate(t, a, None)
           \/ ReadHole(t) \/ ReadActive(t) \/ ReadBall(t) \/ ReadTarget(t)
           \/ \E o \in Observations : Observe(t, o)
    PROVE  Serves(t)
<1> DEFINE p == request[t]
<1>0. /\ rounds \in [SessionIds -> Round \cup {None}]
      /\ runtime \in SessionIds \cup {None} /\ None \notin SessionIds /\ None \notin Balls
      /\ \A r \in Round : /\ r.hole \in 1 .. NumHoles /\ r.turns \in Nat
                          /\ r.turn \in Balls \cup {None}
      /\ runtime # None => rounds[runtime] # None
      /\ pc[t] \in Pressing => p \in Presses
  BY NoneAssumption DEF TypeOK, ScreensAgree, RequestsFit, SessionIds, Round, Balls
<1>1. ASSUME NEW a \in Actions, NEW b \in Balls \cup {None}, Simulate(t, a, b),
             a = "tee" => b \in Balls
      PROVE  Serves(t)
  <2> DEFINE r == [action |-> a, ball |-> b, hole |-> None, from |-> None,
                   turn |-> None, target |-> None]
             label == IF a = "tee" THEN "target" ELSE "hole"
  <2>1. /\ r \in Presses /\ r.action = a /\ r.ball = b
        /\ pc[t] = "idle" /\ Goto(t, label) /\ request' = [request EXCEPT ![t] = r]
        /\ UNCHANGED <<checkin, session, runtime, lock, rounds, failures>>
    BY <1>1 DEF Simulate, Presses, Note
  <2>2. label \in Pressing /\ pc[t] \notin CheckingIn
    BY <2>1 DEF Pressing, CheckingIn
  <2>3. /\ label = "hole" => a # "tee"
        /\ label = "target" => a = "tee"
        /\ label \in {"hole", "target"}
    OBVIOUS
  <2> HIDE DEF r, label
  <2> QED BY <1>1, <2>1, <2>2, <2>3, Moves
<1>2. CASE ReadHole(t)
  <2>1. CASE runtime = None /\ Raise(t)
    BY <1>2, <2>1, Raises DEF ReadHole, CheckingIn
  <2>2. CASE ~(runtime = None /\ Raise(t))
    <3> DEFINE r == [p EXCEPT !.hole = rounds[runtime].hole, !.from = runtime]
    <3>1. /\ pc[t] = "hole" /\ runtime # None
          /\ Goto(t, "active") /\ request' = [request EXCEPT ![t] = r]
          /\ UNCHANGED <<checkin, session, runtime, lock, rounds, failures>>
      BY <1>2, <2>2 DEF ReadHole, Note
    <3>2. /\ p \in Presses /\ p.action # "tee" /\ runtime \in SessionIds
          /\ rounds[runtime] \in Round /\ rounds[runtime].hole \in 1 .. NumHoles
      BY <1>0, <3>1 DEF Pressing, PressSound
    <3>3. /\ r \in Presses /\ r.action = p.action /\ r.from = runtime
          /\ r.hole = rounds[runtime].hole
      BY <3>2 DEF Presses
    <3> HIDE DEF p, r
    <3>4. HoleSeen(r)
      BY <1>0, <3>1, <3>2, <3>3, SizesAssumption DEF HoleSeen
    <3> QED BY <3>1, <3>3, <3>4, Moves DEF Pressing, CheckingIn
  <2> QED BY <2>1, <2>2
<1>3. CASE ReadActive(t)
  <2>1. CASE Raise(t)
    BY <1>3, <2>1, Raises DEF ReadActive, CheckingIn
  <2>2. CASE ~Raise(t)
    <3>1. /\ pc[t] = "active" /\ Goto(t, "ball") /\ UNCHANGED request
          /\ UNCHANGED <<checkin, session, runtime, lock, rounds, failures>>
      BY <1>3, <2>2 DEF ReadActive
    <3>2. p \in Presses /\ HoleSeen(p) /\ request' = [request EXCEPT ![t] = p]
      BY <1>0, <3>1 DEF Pressing, PressSound, TypeOK
    <3> HIDE DEF p
    <3> QED BY <3>1, <3>2, Moves DEF Pressing, CheckingIn
  <2> QED BY <2>1, <2>2
<1>4. CASE ReadBall(t)
  <2>1. CASE Raise(t)
    BY <1>4, <2>1, Raises DEF ReadBall, CheckingIn
  <2>2. CASE ~Raise(t)
    <3> DEFINE ball == rounds[runtime].turn
               turn == <<runtime, rounds[runtime].turns>>
               r == [p EXCEPT !.ball = ball, !.turn = turn]
    <3>1. /\ pc[t] = "ball" /\ runtime # None /\ ball # None
          /\ Goto(t, "target") /\ request' = [request EXCEPT ![t] = r]
          /\ UNCHANGED <<checkin, session, runtime, lock, rounds, failures>>
      BY <1>4, <2>2 DEF ReadBall, Note
    <3>2. /\ p \in Presses /\ HoleSeen(p) /\ runtime \in SessionIds
          /\ rounds[runtime] \in Round /\ ball \in Balls
          /\ turn \in SessionIds \X Nat /\ rounds[runtime].turns \in Nat
      BY <1>0, <3>1 DEF Pressing, PressSound
    <3>3. turn[1] = runtime /\ turn[2] = rounds[runtime].turns
      OBVIOUS
    <3> HIDE DEF turn
    <3>4. /\ r \in Presses /\ r.action = p.action /\ r.from = p.from /\ r.hole = p.hole
          /\ r.ball = ball /\ r.turn = turn
      BY <3>2 DEF Presses
    <3> HIDE DEF p, r
    <3>5. HoleSeen(r) /\ TurnSeen(r)
      BY <3>2, <3>3, <3>4 DEF HoleSeen, TurnSeen
    <3> QED BY <3>1, <3>2, <3>4, <3>5, Moves DEF Pressing, CheckingIn
  <2> QED BY <2>1, <2>2
<1>5. CASE ReadTarget(t)
  <2>1. CASE Raise(t)
    BY <1>5, <2>1, Raises DEF ReadTarget, CheckingIn
  <2>2. CASE ~Raise(t)
    <3> DEFINE r == [p EXCEPT !.target = runtime]
    <3>1. /\ pc[t] = "target" /\ runtime # None
          /\ Goto(t, "apply") /\ request' = [request EXCEPT ![t] = r]
          /\ UNCHANGED <<checkin, session, runtime, lock, rounds, failures>>
      BY <1>5, <2>2 DEF ReadTarget, Note
    <3>2. /\ p \in Presses /\ p.ball \in Balls /\ runtime \in SessionIds
          /\ rounds[runtime] # None
          /\ p.action # "tee" => HoleSeen(p) /\ TurnSeen(p)
      BY <1>0, <3>1 DEF Pressing, PressSound
    <3>3. /\ r \in Presses /\ r.action = p.action /\ r.from = p.from /\ r.hole = p.hole
          /\ r.ball = p.ball /\ r.turn = p.turn /\ r.target = runtime
      BY <3>2 DEF Presses
    <3> HIDE DEF p, r
    <3>4. r.action # "tee" => HoleSeen(r) /\ TurnSeen(r)
      BY <3>2, <3>3 DEF HoleSeen, TurnSeen
    <3> QED BY <3>1, <3>2, <3>3, <3>4, Moves DEF Pressing, CheckingIn
  <2> QED BY <2>1, <2>2
<1>6. ASSUME NEW o \in Observations, Observe(t, o)
      PROVE  Serves(t)
  <2> DEFINE r == [action |-> "observe", observation |-> o]
  <2>1. /\ r \in Watches /\ pc[t] = "idle" /\ Goto(t, "observe")
        /\ request' = [request EXCEPT ![t] = r]
        /\ UNCHANGED <<checkin, session, runtime, lock, rounds, failures>>
    BY <1>6 DEF Observe, Watches, Note
  <2> HIDE DEF r
  <2> QED BY <2>1, Moves DEF Pressing, CheckingIn
<1> QED BY <1>1, <1>2, <1>3, <1>4, <1>5, <1>6 DEF Actions

(* An event, and an observation, of the round in play.                     *)
LEMMA EventsServe ==
    ASSUME TypeOK, RequestsFit, ScreensAgree, RoundsSound, OneGameAtATime,
           NEW t \in Threads, PressSound(t), Process(t) \/ ProcessObservation(t)
    PROVE  Serves(t)
<1>0. /\ rounds \in [SessionIds -> Round \cup {None}]
      /\ runtime \in SessionIds \cup {None} /\ None \notin SessionIds /\ None \notin Round
      /\ \A s \in SessionIds : rounds[s] # None => rounds[s] \in Round /\ TurnOpen(rounds[s])
      /\ runtime # None => rounds[runtime] # None
  BY NoneAssumption DEF TypeOK, ScreensAgree, SessionIds, RoundsSound
<1>1. ASSUME pc[t] \notin CheckingIn, Return(t),
             UNCHANGED <<checkin, session, runtime, lock, failures>>,
             rounds' \in [SessionIds -> Round \cup {None}],
             \A s \in SessionIds :
                \/ rounds'[s] = rounds[s]
                \/ /\ runtime = s
                   /\ rounds[s] # None /\ rounds'[s] # None
                   /\ Continues(rounds[s], rounds'[s]) /\ TurnOpen(rounds'[s])
      PROVE  Serves(t)
  <2>1. pc' = [pc EXCEPT ![t] = "idle"] /\ request' = [request EXCEPT ![t] = Idle]
    BY <1>1 DEF Return, Goto, Note
  <2>2. /\ pc' \in [Threads -> {"idle", "observe"} \cup CheckingIn \cup Pressing]
        /\ request' \in [Threads -> {Idle} \cup CheckIns \cup Presses \cup Watches]
        /\ pc'[t] = "idle"
        /\ \A u \in Threads : u # t => UNCHANGED <<pc[u], request[u]>>
    BY <2>1 DEF TypeOK
  <2>3. PressSound(t)' /\ "idle" \notin CheckingIn /\ "idle" \notin Pressing
    BY <2>2 DEF PressSound, CheckingIn, Pressing
  <2> QED BY <1>1, <2>2, <2>3 DEF Serves
<1>2. ASSUME NEW s \in SessionIds, NEW q \in Round, runtime = s, rounds[s] # None,
             Continues(rounds[s], q), TurnOpen(q), rounds' = [rounds EXCEPT ![s] = q]
      PROVE  /\ rounds' \in [SessionIds -> Round \cup {None}]
             /\ \A i \in SessionIds :
                   \/ rounds'[i] = rounds[i]
                   \/ /\ runtime = i
                      /\ rounds[i] # None /\ rounds'[i] # None
                      /\ Continues(rounds[i], rounds'[i]) /\ TurnOpen(rounds'[i])
  BY <1>0, <1>2
<1>3. CASE Process(t)
  <2> DEFINE s == request[t].target
             b == request[t].ball
             a == request[t].action
             h == EventHole(t)
  <2>1. /\ pc[t] = "apply" /\ Return(t)
        /\ UNCHANGED <<checkin, session, runtime, lock, failures>>
        /\ rounds' = IF Legal(rounds[s], a, b, h)
                     THEN [rounds EXCEPT ![s] = After(rounds[s], a, b)] ELSE rounds
    BY <1>3 DEF Process
  <2>2. s \in SessionIds /\ rounds[s] # None /\ b \in Balls /\ a \in Actions
    <3>1. request[t] \in Presses
      BY <2>1 DEF RequestsFit, Pressing
    <3> QED BY <2>1, <3>1 DEF PressSound, Presses
  <2>3. pc[t] \notin CheckingIn
    BY <2>1 DEF CheckingIn
  <2> HIDE DEF s, b, a, h
  <2>4. CASE Legal(rounds[s], a, b, h)
    <3>1. /\ After(rounds[s], a, b) \in Round /\ TurnOpen(After(rounds[s], a, b))
          /\ Continues(rounds[s], After(rounds[s], a, b))
      BY <1>0, <2>2, <2>4, AfterContinues
    <3>2. runtime = s
      BY <2>2, <2>4 DEF Legal, OneGameAtATime
    <3> QED BY <1>1, <1>2, <2>1, <2>2, <2>3, <2>4, <3>1, <3>2
  <2>5. CASE ~Legal(rounds[s], a, b, h)
    BY <1>0, <1>1, <2>1, <2>3, <2>5
  <2> QED BY <2>4, <2>5
<1>4. CASE ProcessObservation(t)
  <2>1. pc[t] = "observe" /\ pc[t] \notin CheckingIn
    BY <1>4 DEF ProcessObservation, CheckingIn
  <2>2. CASE runtime = None /\ Raise(t)
    BY <2>1, <2>2, Raises
  <2>3. CASE ~(runtime = None /\ Raise(t))
    <3> DEFINE o == request[t].observation
               q == Judged(rounds[runtime], o)
    <3>1. /\ runtime # None /\ Return(t)
          /\ UNCHANGED <<checkin, session, runtime, lock, failures>>
          /\ rounds' = [rounds EXCEPT ![runtime] = q]
      BY <1>4, <2>3 DEF ProcessObservation
    <3>2. o \in Observations
      BY <2>1 DEF RequestsFit, Watches
    <3>3. runtime \in SessionIds /\ rounds[runtime] # None /\ rounds[runtime] \in Round
      BY <1>0, <3>1
    <3>4. q \in Round /\ TurnOpen(q) /\ Continues(rounds[runtime], q)
      BY <1>0, <3>2, <3>3, JudgedContinues
    <3> HIDE DEF q, o
    <3> QED BY <1>1, <1>2, <2>1, <3>1, <3>3, <3>4
  <2> QED BY <2>2, <2>3
<1> QED BY <1>3, <1>4

(* A thread outside start_session keeps the invariant.                     *)
LEMMA ServingKeepsIInv ==
    ASSUME IInv, NEW t \in Threads, Serves(t)
    PROVE  IInv'
<1>0. /\ TypeOK /\ RequestsFit /\ LockHeld /\ ScreensAgree
      /\ AssignmentsAgree /\ OrphansAccounted
      /\ OneGameAtATime /\ RoundsSound /\ PressesSound
      /\ UNCHANGED <<ballInUse, sessions, bookingIndex, minted, session, runtime, lock, failures>>
      /\ pc[t] \notin CheckingIn /\ pc'[t] \notin CheckingIn
      /\ \A u \in Threads : u # t => UNCHANGED <<pc[u], request[u]>>
      /\ "create" \in CheckingIn /\ "build" \in CheckingIn
      /\ \A s \in SessionIds :
          \/ rounds'[s] = rounds[s]
          \/ /\ runtime = s
             /\ rounds[s] # None /\ rounds'[s] # None
             /\ Continues(rounds[s], rounds'[s]) /\ TurnOpen(rounds'[s])
  BY DEF IInv, Serves, checkin, CheckingIn
<1>1. TypeOK'
  BY <1>0 DEF TypeOK, Serves
<1>2. RequestsFit'
  BY <1>0 DEF RequestsFit, Serves
<1>3. LockHeld'
  <2>1. lock # None => lock \in Threads /\ lock # t
    BY <1>0 DEF LockHeld, TypeOK
  <2> QED BY <1>0, <2>1 DEF LockHeld
<1>4. \A u \in Threads : pc'[u] \in CheckingIn <=> pc[u] \in CheckingIn
  BY <1>0
<1>5. \A u \in Threads : /\ pc'[u] = "create" <=> pc[u] = "create"
                         /\ pc'[u] = "build" <=> pc[u] = "build"
  BY <1>0
<1>6. \A s \in SessionIds : rounds'[s] # None <=> rounds[s] # None
  BY <1>0
<1>7. ScreensAgree'
  <2>1. runtime # None => runtime \in SessionIds
    BY <1>0 DEF TypeOK
  <2>2. session # None => session \in SessionIds
    BY <1>0 DEF TypeOK
  <2> QED BY <1>0, <1>4, <1>5, <1>6, <2>1, <2>2 DEF ScreensAgree
<1>8. AssignmentsAgree'
  BY <1>0 DEF AssignmentsAgree
<1>9. OrphansAccounted'
  <2>1. Orphans' = Orphans
    BY <1>0, <1>5 DEF Orphans
  <2> QED BY <1>0, <2>1 DEF OrphansAccounted
<1>10. OneGameAtATime'
  <2>1. ASSUME NEW s \in SessionIds, rounds'[s] # None, ~rounds'[s].over
        PROVE  /\ rounds[s] # None /\ ~rounds[s].over /\ rounds'[s].balls = rounds[s].balls
    BY <1>0, <1>6, <2>1 DEF Continues
  <2> QED BY <1>0, <2>1 DEF OneGameAtATime
<1>11. RoundsSound'
  BY <1>0 DEF RoundsSound
<1>12. RoundsGoOn
  BY <1>0, <1>6 DEF RoundsGoOn
<1>13. PressesSound'
  <2>1. ASSUME NEW u \in Threads, u # t
        PROVE  PressSound(u)'
    BY <1>0, <1>1, <1>12, <2>1, SeenKept DEF PressesSound
  <2>2. PressSound(t)'
    BY DEF Serves
  <2> QED BY <2>1, <2>2 DEF PressesSound
<1> QED BY <1>1, <1>2, <1>3, <1>7, <1>8, <1>9, <1>10, <1>11, <1>13 DEF IInv

-----------------------------------------------------------------------------
(* start_session.                                                          *)

(* A step of the thread that checks a group in; the others wait or go on.  *)
Checks(t) ==
    /\ \A u \in Threads : u # t => UNCHANGED <<pc[u], request[u]>>
    /\ \A u \in Threads : u # t => pc[u] \notin CheckingIn
    /\ PressSound(t)'
    /\ TypeOK' /\ RequestsFit'
    /\ pc'[t] \in CheckingIn => lock' = t
    /\ pc'[t] \notin CheckingIn => lock' = None
    /\ RoundsGoOn

(* What such a step leaves in order by itself.                             *)
LEMMA CheckingKeeps ==
    ASSUME IInv, NEW t \in Threads, Checks(t)
    PROVE  LockHeld' /\ PressesSound'
<1>1. LockHeld'
  <2>1. \A u \in Threads : u # t => pc'[u] \notin CheckingIn
    BY DEF Checks
  <2>2. None \notin Threads
    BY NoneAssumption
  <2> QED BY <2>1, <2>2 DEF LockHeld, Checks
<1>2. ASSUME NEW u \in Threads, u # t
      PROVE  PressSound(u)'
  BY <1>2, SeenKept DEF IInv, Checks, PressesSound
<1> QED BY <1>1, <1>2 DEF PressesSound, Checks

(* A thread at a label outside the reading of a press.                     *)
LEMMA NotPressing ==
    ASSUME NEW t, pc'[t] \in {"idle", "create", "build"}
    PROVE  PressSound(t)' /\ pc'[t] \notin Pressing /\ pc'[t] # "observe"
BY DEF PressSound, Pressing

(* The books are put in order before the lock is any use to the next group:*)
(* the finished round's session goes, and with it the screens' reference.  *)
LEMMA StartKeepsIInv ==
    ASSUME IInv, NEW t \in Threads, NEW n \in Balls, NEW k \in Bookings \cup {None},
           StartSession(t, n, k)
    PROVE  IInv'
<1> DEFINE r == [action |-> "checkin", players |-> n, booking |-> k]
<1>0. /\ TypeOK /\ RequestsFit /\ LockHeld /\ ScreensAgree
      /\ AssignmentsAgree /\ OrphansAccounted
      /\ OneGameAtATime /\ RoundsSound /\ PressesSound
      /\ None \notin SessionIds /\ None \notin Threads
      /\ "create" \in CheckingIn /\ "build" \in CheckingIn /\ "idle" \notin CheckingIn
  BY NoneAssumption DEF IInv, SessionIds, CheckingIn
<1>1. /\ pc[t] = "idle" /\ minted < MaxSessions /\ lock = None
      /\ runtime # None => rounds[runtime].over
      /\ ReleaseCompleted
      /\ session' = IF runtime # None THEN None ELSE session
      /\ runtime' = None /\ lock' = t
      /\ pc' = [pc EXCEPT ![t] = "create"] /\ request' = [request EXCEPT ![t] = r]
      /\ UNCHANGED <<rounds, failures>>
  BY DEF StartSession, LockFree, RoundOver, Goto, Note
<1>2. r \in CheckIns
  BY DEF CheckIns
<1> HIDE DEF r
<1>3. /\ \A u \in Threads : pc[u] \notin CheckingIn
      /\ \A u \in Threads : u # t => UNCHANGED <<pc[u], request[u]>>
      /\ pc'[t] = "create" /\ request'[t] = r
      /\ pc' \in [Threads -> {"idle", "observe"} \cup CheckingIn \cup Pressing]
      /\ request' \in [Threads -> {Idle} \cup CheckIns \cup Presses \cup Watches]
  BY <1>0, <1>1, <1>2 DEF LockHeld, TypeOK
<1>4. \A s \in SessionIds : rounds[s] # None => rounds[s].over
  BY <1>0, <1>1 DEF OneGameAtATime
<1>5. /\ AssignmentsAgree'
      /\ ballInUse' \in [Balls -> SessionIds \cup {None}]
      /\ sessions' \in [SessionIds -> Group \cup {None}]
      /\ bookingIndex' \in [Bookings -> SessionIds \cup {None}]
      /\ \A i \in SessionIds :
           sessions'[i] = IF runtime # None /\ i = session THEN None ELSE sessions[i]
      /\ UNCHANGED minted
  <2>1. CASE runtime # None
    <3>1. session = runtime /\ session \in SessionIds /\ sessions[session] # None
      BY <1>0, <2>1 DEF ScreensAgree, TypeOK
    <3>2. Release(session)
      BY <1>0, <1>1, <2>1, <3>1 DEF ReleaseCompleted
    <3> QED BY <1>0, <2>1, <3>1, <3>2, ReleaseKeepsBooks
  <2>2. CASE runtime = None
    BY <1>0, <1>1, <2>2 DEF ReleaseCompleted, checkin, AssignmentsAgree, TypeOK
  <2> QED BY <2>1, <2>2
<1>6. TypeOK'
  BY <1>0, <1>1, <1>3, <1>5 DEF TypeOK
<1>7. RequestsFit'
  <2>1. pc'[t] \notin Pressing /\ pc'[t] # "observe"
    BY <1>3, NotPressing
  <2> QED BY <1>0, <1>2, <1>3, <2>1 DEF RequestsFit
<1>8. Checks(t)
  <2>1. RoundsGoOn
    BY <1>1 DEF RoundsGoOn
  <2> QED BY <1>0, <1>1, <1>3, <1>6, <1>7, <2>1, NotPressing DEF Checks
<1>9. ScreensAgree'
  <2>1. session' # None => sessions'[session'] # None
    BY <1>0, <1>1, <1>5 DEF ScreensAgree, TypeOK
  <2>2. \A u \in Threads : pc'[u] # "build"
    BY <1>0, <1>3
  <2>3. \A s \in SessionIds : s > minted' => sessions'[s] = None /\ rounds'[s] = None
    BY <1>0, <1>1, <1>5 DEF ScreensAgree
  <2> QED BY <1>1, <1>5, <2>1, <2>2, <2>3 DEF ScreensAgree
<1>10. OrphansAccounted'
  <2>1. \A u \in Threads : pc'[u] # "build" /\ pc[u] # "build"
    BY <1>0, <1>3
  <2>2. runtime # None => session = runtime
    BY <1>0 DEF ScreensAgree
  <2>3. Orphans' = Orphans
    BY <1>0, <1>1, <1>5, <2>1, <2>2 DEF Orphans
  <2> QED BY <1>0, <1>1, <2>3 DEF OrphansAccounted
<1>11. OneGameAtATime' /\ RoundsSound'
  BY <1>0, <1>1, <1>4 DEF OneGameAtATime, RoundsSound
<1> QED BY <1>5, <1>6, <1>7, <1>8, <1>9, <1>10, <1>11, CheckingKeeps DEF IInv

(* A new group takes a session of its own; one left without a round by a   *)
(* failed check-in has already been counted.                               *)
LEMMA CreateKeepsIInv ==
    ASSUME IInv, NEW t \in Threads, CreateSession(t)
    PROVE  IInv'
<1> DEFINE n == request[t].players
           k == request[t].booking
           s == minted + 1
<1>0. /\ TypeOK /\ RequestsFit /\ LockHeld /\ ScreensAgree
      /\ AssignmentsAgree /\ OrphansAccounted
      /\ OneGameAtATime /\ RoundsSound /\ PressesSound
      /\ None \notin SessionIds /\ None \notin Threads
      /\ "create" \in CheckingIn /\ "build" \in CheckingIn /\ "idle" \notin CheckingIn
  BY NoneAssumption DEF IInv, SessionIds, CheckingIn
<1>1. /\ pc[t] = "create" /\ CanCreate(n, k) /\ Create(s, n, k)
      /\ session' = s /\ pc' = [pc EXCEPT ![t] = "build"]
      /\ UNCHANGED <<runtime, rounds, lock, request, failures>>
  BY DEF CreateSession, Goto
<1>2. /\ lock = t /\ runtime = None /\ k \in Bookings \cup {None}
      /\ \A u \in Threads : u # t => pc[u] \notin CheckingIn
      /\ \A u \in Threads : u # t => UNCHANGED <<pc[u], request[u]>>
      /\ pc'[t] = "build" /\ request'[t] = request[t] /\ request[t] \in CheckIns
      /\ pc' \in [Threads -> {"idle", "observe"} \cup CheckingIn \cup Pressing]
  BY <1>0, <1>1 DEF LockHeld, ScreensAgree, RequestsFit, TypeOK, CheckIns
<1>3. s \in SessionIds /\ s > minted /\ s \in 0 .. MaxSessions
  BY <1>0, <1>1, SizesAssumption DEF ScreensAgree, TypeOK, SessionIds
<1>4. sessions[s] = None /\ rounds[s] = None
  BY <1>0, <1>3 DEF ScreensAgree
<1>5. /\ AssignmentsAgree'
      /\ ballInUse' \in [Balls -> SessionIds \cup {None}]
      /\ sessions' \in [SessionIds -> Group \cup {None}]
      /\ bookingIndex' \in [Bookings -> SessionIds \cup {None}]
      /\ sessions'[s] # None
      /\ \A i \in SessionIds : i # s => sessions'[i] = sessions[i]
      /\ minted' = s
  <2> HIDE DEF s, n, k
  <2> QED BY <1>0, <1>1, <1>2, <1>3, <1>4, CreateKeepsBooks
<1>6. TypeOK'
  BY <1>0, <1>1, <1>2, <1>3, <1>5 DEF TypeOK
<1>7. RequestsFit'
  <2>1. pc'[t] \notin Pressing /\ pc'[t] # "observe"
    BY <1>2, NotPressing
  <2> QED BY <1>0, <1>2, <2>1 DEF RequestsFit
<1>8. Checks(t)
  <2>1. RoundsGoOn
    BY <1>1 DEF RoundsGoOn
  <2> QED BY <1>0, <1>1, <1>2, <1>6, <1>7, <2>1, NotPressing DEF Checks
<1>9. ScreensAgree'
  <2>1. \A i \in SessionIds : i > minted' => sessions'[i] = None /\ rounds'[i] = None
    <3>1. \A i \in SessionIds : i > s => i > minted /\ i # s
      BY <1>0, SizesAssumption DEF SessionIds, TypeOK
    <3> QED BY <1>0, <1>1, <1>5, <3>1 DEF ScreensAgree
  <2>2. \A u \in Threads : pc'[u] # "create"
    BY <1>0, <1>2
  <2> HIDE DEF s
  <2> QED BY <1>0, <1>1, <1>2, <1>3, <1>4, <1>5, <2>1, <2>2 DEF ScreensAgree
<1>10. OrphansAccounted'
  <2>1. \A u \in Threads : pc[u] # "build"
    BY <1>0, <1>1, <1>2
  <2> HIDE DEF s
  <2>2. Orphans' = Orphans
    BY <1>0, <1>1, <1>2, <1>3, <1>4, <1>5, <2>1 DEF Orphans
  <2> QED BY <1>0, <1>1, <2>2 DEF OrphansAccounted
<1>11. OneGameAtATime' /\ RoundsSound'
  BY <1>0, <1>1, <1>2 DEF OneGameAtATime, RoundsSound
<1> QED BY <1>5, <1>6, <1>7, <1>8, <1>9, <1>10, <1>11, CheckingKeeps DEF IInv

(* Giving up before anything is assigned, or after: the second leaves one  *)
(* session behind and is one more failure.                                 *)
LEMMA GivingUpKeepsIInv ==
    ASSUME IInv, NEW t \in Threads, CheckInRefused(t) \/ BuildFails(t)
    PROVE  IInv'
<1>0. /\ TypeOK /\ RequestsFit /\ LockHeld /\ ScreensAgree
      /\ AssignmentsAgree /\ OrphansAccounted
      /\ OneGameAtATime /\ RoundsSound /\ PressesSound
      /\ None \notin SessionIds /\ None \notin Threads
      /\ "create" \in CheckingIn /\ "build" \in CheckingIn /\ "idle" \notin CheckingIn
      /\ failures \in Nat
  BY NoneAssumption DEF IInv, SessionIds, CheckingIn, TypeOK
<1>1. /\ pc[t] \in CheckingIn /\ lock' = None
      /\ pc' = [pc EXCEPT ![t] = "idle"] /\ request' = [request EXCEPT ![t] = Idle]
      /\ UNCHANGED <<ballInUse, sessions, bookingIndex, minted, session, runtime, rounds>>
      /\ failures' \in {failures, failures + 1}
      /\ failures' = failures => pc[t] = "create"
  BY <1>0 DEF CheckInRefused, BuildFails, Return, Goto, Note, checkin
<1>2. /\ runtime = None
      /\ \A u \in Threads : u # t => pc[u] \notin CheckingIn
      /\ \A u \in Threads : u # t => UNCHANGED <<pc[u], request[u]>>
      /\ pc'[t] = "idle"
      /\ pc' \in [Threads -> {"idle", "observe"} \cup CheckingIn \cup Pressing]
      /\ request' \in [Threads -> {Idle} \cup CheckIns \cup Presses \cup Watches]
  BY <1>0, <1>1 DEF LockHeld, ScreensAgree, TypeOK
<1>3. TypeOK'
  BY <1>0, <1>1, <1>2 DEF TypeOK
<1>4. RequestsFit'
  <2>1. pc'[t] \notin Pressing /\ pc'[t] # "observe"
    BY <1>2, NotPressing
  <2> QED BY <1>0, <1>2, <2>1 DEF RequestsFit
<1>5. Checks(t)
  <2>1. RoundsGoOn
    BY <1>1 DEF RoundsGoOn
  <2> QED BY <1>0, <1>1, <1>2, <1>3, <1>4, <2>1, NotPressing DEF Checks
<1>6. ScreensAgree'
  BY <1>0, <1>1, <1>2 DEF ScreensAgree
<1>7. AssignmentsAgree'
  BY <1>0, <1>1 DEF AssignmentsAgree
<1>8. OrphansAccounted'
  <2>1. Orphans' \subseteq Orphans \cup {session}
    BY <1>1, <1>2 DEF Orphans
  <2>2. IsFiniteSet(Orphans) /\ Cardinality(Orphans) \in Nat
    <3>1. IsFiniteSet(SessionIds)
      BY FS_Interval, SizesAssumption DEF SessionIds
    <3>2. IsFiniteSet(Orphans)
      BY <3>1, FS_Subset DEF Orphans
    <3> QED BY <3>2, FS_CardinalityType
  <2>3. IsFiniteSet(Orphans \cup {session})
        /\ Cardinality(Orphans \cup {session}) <= Cardinality(Orphans) + 1
    BY <2>2, FS_AddElement
  <2>4. IsFiniteSet(Orphans') /\ Cardinality(Orphans') <= Cardinality(Orphans \cup {session})
        /\ Cardinality(Orphans \cup {session}) \in Nat /\ Cardinality(Orphans') \in Nat
    BY <2>1, <2>3, FS_Subset, FS_CardinalityType
  <2>5. CASE failures' = failures
    <3>1. \A u \in Threads : pc[u] # "build" /\ pc'[u] # "build"
      BY <1>0, <1>1, <1>2, <2>5
    <3>2. Orphans' = Orphans
      BY <1>1, <1>2, <3>1 DEF Orphans
    <3> QED BY <1>0, <2>5, <3>2 DEF OrphansAccounted
  <2>6. CASE failures' = failures + 1
    BY <1>0, <2>2, <2>3, <2>4, <2>6 DEF OrphansAccounted
  <2> QED BY <1>1, <2>5, <2>6
<1>9. OneGameAtATime' /\ RoundsSound'
  BY <1>0, <1>1, <1>2 DEF OneGameAtATime, RoundsSound
<1> QED BY <1>3, <1>4, <1>5, <1>6, <1>7, <1>8, <1>9, CheckingKeeps DEF IInv

(* The new round is the only one in play, with the Balls of its group.     *)
LEMMA BuildKeepsIInv ==
    ASSUME IInv, NEW t \in Threads, BuildRuntime(t)
    PROVE  IInv'
<1> DEFINE round == NewRound(sessions[session].balls)
<1>0. /\ TypeOK /\ RequestsFit /\ LockHeld /\ ScreensAgree
      /\ AssignmentsAgree /\ OrphansAccounted
      /\ OneGameAtATime /\ RoundsSound /\ PressesSound
      /\ None \notin SessionIds /\ None \notin Threads
      /\ "create" \in CheckingIn /\ "build" \in CheckingIn /\ "idle" \notin CheckingIn
  BY NoneAssumption DEF IInv, SessionIds, CheckingIn
<1>1. /\ pc[t] = "build" /\ lock' = None
      /\ rounds' = [rounds EXCEPT ![session] = round] /\ runtime' = session
      /\ pc' = [pc EXCEPT ![t] = "idle"] /\ request' = [request EXCEPT ![t] = Idle]
      /\ UNCHANGED <<ballInUse, sessions, bookingIndex, minted, session, failures>>
  BY DEF BuildRuntime, Return, Goto, Note, checkin
<1>2. /\ lock = t /\ runtime = None
      /\ \A u \in Threads : u # t => pc[u] \notin CheckingIn
      /\ \A u \in Threads : u # t => UNCHANGED <<pc[u], request[u]>>
      /\ pc'[t] = "idle"
      /\ pc' \in [Threads -> {"idle", "observe"} \cup CheckingIn \cup Pressing]
      /\ request' \in [Threads -> {Idle} \cup CheckIns \cup Presses \cup Watches]
      /\ session \in SessionIds /\ sessions[session] # None /\ rounds[session] = None
  BY <1>0, <1>1 DEF LockHeld, ScreensAgree, TypeOK
<1>3. sessions[session].balls \in SUBSET Balls
  BY <1>0, <1>2 DEF TypeOK, Group
<1>4. /\ round \in Round /\ round # None
      /\ round.balls = sessions[session].balls /\ round.turn = None
  <2> DEFINE balls == sessions[session].balls
  <2>1. /\ balls \in SUBSET Balls /\ 1 \in 1 .. NumHoles /\ 0 \in Nat
        /\ {} \in SUBSET Balls /\ {} \in SUBSET Observations
    BY <1>3, SizesAssumption
  <2> HIDE DEF balls
  <2>2. NewRound(balls) \in Round /\ NewRound(balls).balls = balls /\ NewRound(balls).turn = None
    BY <2>1 DEF NewRound, Round
  <2> QED BY <2>2, NoneAssumption DEF balls
<1> HIDE DEF round
<1>5. /\ rounds' \in [SessionIds -> Round \cup {None}]
      /\ \A s \in SessionIds : rounds'[s] = IF s = session THEN round ELSE rounds[s]
  BY <1>0, <1>1, <1>4 DEF TypeOK
<1>6. TypeOK'
  BY <1>0, <1>1, <1>2, <1>5 DEF TypeOK
<1>7. RequestsFit'
  <2>1. pc'[t] \notin Pressing /\ pc'[t] # "observe"
    BY <1>2, NotPressing
  <2> QED BY <1>0, <1>2, <2>1 DEF RequestsFit
<1>8. Checks(t)
  <2>1. RoundsGoOn
    BY <1>2, <1>5 DEF RoundsGoOn
  <2> QED BY <1>0, <1>1, <1>2, <1>6, <1>7, <2>1, NotPressing DEF Checks
<1>9. ScreensAgree'
  <2>1. \A u \in Threads : pc'[u] \notin CheckingIn
    BY <1>0, <1>2
  <2>2. \A s \in SessionIds : s > minted' => sessions'[s] = None /\ rounds'[s] = None
    BY <1>0, <1>1, <1>2, <1>5 DEF ScreensAgree
  <2> QED BY <1>0, <1>1, <1>2, <1>4, <1>5, <2>1, <2>2 DEF ScreensAgree
<1>10. AssignmentsAgree'
  BY <1>0, <1>1 DEF AssignmentsAgree
<1>11. OrphansAccounted'
  <2>1. Orphans' = Orphans
    BY <1>0, <1>1, <1>2 DEF Orphans
  <2> QED BY <1>0, <1>1, <2>1 DEF OrphansAccounted
<1>12. OneGameAtATime'
  <2>1. \A s \in SessionIds : rounds[s] # None => rounds[s].over
    BY <1>0, <1>2 DEF OneGameAtATime
  <2>2. \A b \in sessions[session].balls : b \in Balls /\ ballInUse[b] = session
    BY <1>0, <1>2, <1>3 DEF AssignmentsAgree
  <2> QED BY <1>1, <1>4, <1>5, <2>1, <2>2 DEF OneGameAtATime
<1>13. RoundsSound'
  BY <1>0, <1>4, <1>5 DEF RoundsSound, TurnOpen
<1> QED BY <1>6, <1>7, <1>8, <1>9, <1>10, <1>11, <1>12, <1>13, CheckingKeeps DEF IInv

-----------------------------------------------------------------------------
(* The invariant.                                                          *)

(* Before the first request there is no group and nobody holds the lock.   *)
LEMMA InitIInv == Init => IInv
<1> SUFFICES ASSUME Init PROVE IInv
  OBVIOUS
<1>0. None \notin SessionIds /\ None \notin Bookings /\ None \notin Balls
  BY NoneAssumption DEF SessionIds, Balls
<1>1. TypeOK
  BY SizesAssumption DEF Init, TypeOK
<1>2. \A t \in Threads : pc[t] = "idle" /\ pc[t] \notin CheckingIn /\ pc[t] \notin Pressing
  BY DEF Init, CheckingIn, Pressing
<1>3. RequestsFit /\ LockHeld /\ ScreensAgree
  BY <1>2 DEF Init, RequestsFit, LockHeld, ScreensAgree
<1>4. AssignmentsAgree /\ OneGameAtATime /\ RoundsSound
  BY <1>0 DEF Init, AssignmentsAgree, OneGameAtATime, RoundsSound
<1>5. PressesSound
  BY <1>2 DEF PressesSound, PressSound
<1>6. OrphansAccounted
  <2>1. Orphans = {}
    BY DEF Init, Orphans
  <2>2. Cardinality({}) = 0
    BY FS_EmptySet
  <2> QED BY <2>1, <2>2 DEF Init, OrphansAccounted
<1> QED BY <1>1, <1>3, <1>4, <1>5, <1>6 DEF IInv

(* What a step is: a check-in under the lock, or the service of a request. *)
LEMMA StepKinds ==
    ASSUME IInv, [Next]_vars
    PROVE  \/ UNCHANGED vars
           \/ \E t \in Threads :
                \/ \E n \in Balls, k \in Bookings \cup {None} : StartSession(t, n, k)
                \/ CreateSession(t)
                \/ CheckInRefused(t) \/ BuildFails(t)
                \/ BuildRuntime(t)
                \/ Serves(t)
<1>1. ASSUME NEW t \in Threads,
             \/ \E b \in Balls : Simulate(t, "tee", b)
             \/ \E a \in {"stroke", "cup"} : Simulate(t, a, None)
             \/ ReadHole(t) \/ ReadActive(t) \/ ReadBall(t) \/ ReadTarget(t)
             \/ \E o \in Observations : Observe(t, o)
      PROVE  Serves(t)
  BY <1>1, ReadsServe DEF IInv, PressesSound
<1>2. ASSUME NEW t \in Threads, Process(t) \/ ProcessObservation(t)
      PROVE  Serves(t)
  BY <1>2, EventsServe DEF IInv, PressesSound
<1>3. ASSUME NEW t \in Threads, CheckInFirst(t)
      PROVE  UNCHANGED vars
  BY <1>3 DEF CheckInFirst
<1> QED BY <1>1, <1>2, <1>3 DEF Next

(* Every step keeps the invariant.                                         *)
LEMMA NextKeepsIInv == IInv /\ [Next]_vars => IInv'
<1> SUFFICES ASSUME IInv, [Next]_vars PROVE IInv'
  OBVIOUS
<1>1. CASE UNCHANGED vars
  <2>1. UNCHANGED <<ballInUse, sessions, bookingIndex, minted, session, runtime, rounds, lock,
                    pc, request, failures>>
    BY <1>1 DEF vars, checkin
  <2> QED BY <2>1 DEF IInv, TypeOK, RequestsFit, LockHeld, ScreensAgree, AssignmentsAgree,
                      OrphansAccounted, Orphans, OneGameAtATime, RoundsSound, TurnOpen,
                      PressesSound, PressSound, HoleSeen, TurnSeen
<1> QED BY <1>1, StepKinds, StartKeepsIInv, CreateKeepsIInv, GivingUpKeepsIInv, BuildKeepsIInv,
           ServingKeepsIInv

(* The invariant holds throughout.                                         *)
LEMMA Invariance == Spec => []IInv
  BY InitIInv, NextKeepsIInv, PTL DEF Spec

-----------------------------------------------------------------------------
(* The theorems.                                                           *)

(* No Ball is in two groups, a booking code leads to the one group that was*)
(* checked in with it, no Balls leak but those of a check-in that failed   *)
(* half way, and only the game on the screens is being played.             *)
THEOREM BooksInOrder == Spec => []VenueInOrder
<1>1. ASSUME IInv
      PROVE  VenueInOrder
  <2> DEFINE left == {s \in SessionIds : sessions[s] # None /\ s # session}
  <2>1. None \notin SessionIds
    BY NoneAssumption DEF SessionIds
  <2>2. left \subseteq Orphans
    BY <1>1, <2>1 DEF IInv, ScreensAgree, Orphans
  <2>3. IsFiniteSet(SessionIds)
    BY FS_Interval, SizesAssumption DEF SessionIds
  <2>4. IsFiniteSet(Orphans)
    BY <2>3, FS_Subset DEF Orphans
  <2>5. Cardinality(left) <= Cardinality(Orphans) /\ IsFiniteSet(left)
    BY <2>2, <2>4, FS_Subset
  <2>6. Cardinality(left) \in Nat /\ Cardinality(Orphans) \in Nat /\ failures \in Nat
    BY <1>1, <2>4, <2>5, FS_CardinalityType DEF IInv, TypeOK
  <2>7. Cardinality(left) <= failures
    BY <1>1, <2>5, <2>6 DEF IInv, OrphansAccounted
  <2> QED BY <1>1, <2>7 DEF IInv, VenueInOrder, BallsAccounted
<1> QED BY <1>1, Invariance, PTL

(* A round whose Balls have gone back never changes again, however late    *)
(* the requests that still refer to it.                                    *)
THEOREM ReleasedRoundsStay == Spec => ReleasedRoundIsFrozen
<1> DEFINE Frozen == \A s \in SessionIds :
                       rounds[s] # None /\ sessions[s] = None => rounds'[s] = rounds[s]
<1>1. ASSUME IInv, [Next]_vars
      PROVE  Frozen
  <2>1. /\ session # None => session \in SessionIds /\ sessions[session] # None
        /\ runtime # None => session = runtime
        /\ \A t \in Threads : pc[t] = "build" => session # None
        /\ rounds \in [SessionIds -> Round \cup {None}]
    BY <1>1 DEF IInv, TypeOK, ScreensAgree
  <2>2. CASE UNCHANGED vars
    BY <2>2 DEF vars
  <2>3. ASSUME NEW t \in Threads, NEW n \in Balls, NEW k \in Bookings \cup {None},
               StartSession(t, n, k)
        PROVE  Frozen
    BY <2>3 DEF StartSession
  <2>4. ASSUME NEW t \in Threads, CreateSession(t) \/ CheckInRefused(t) \/ BuildFails(t)
        PROVE  Frozen
    BY <2>4 DEF CreateSession, CheckInRefused, BuildFails
  <2>5. ASSUME NEW t \in Threads, BuildRuntime(t)
        PROVE  Frozen
    BY <2>1, <2>5 DEF BuildRuntime
  <2>6. ASSUME NEW t \in Threads, Serves(t)
        PROVE  Frozen
    <3>1. None \notin SessionIds
      BY NoneAssumption DEF SessionIds
    <3> QED BY <2>1, <2>6, <3>1 DEF Serves
  <2> QED BY <1>1, <2>2, <2>3, <2>4, <2>5, <2>6, StepKinds
<1>2. ReleasedRoundIsFrozen <=> [][Frozen]_vars
  BY DEF ReleasedRoundIsFrozen
<1> QED BY <1>1, <1>2, Invariance, PTL DEF Spec

(* A stroke or a cup pressed during one turn never lands in another turn of*)
(* the same round: a player who has lost the turn on a hole has holed out  *)
(* there, and the engine refuses the hole once it has been left.           *)
THEOREM StalePressesRefused == Spec => StalePressRefused
<1> DEFINE Refused == \A t \in Threads :
                        LET s == request[t].target
                            turn == request[t].turn
                        IN  Process(t) /\ request[t].action # "tee"
                            /\ s = request[t].from /\ s = turn[1]
                            => rounds'[s] = rounds[s] \/ turn[2] = rounds[s].turns
<1>1. ASSUME IInv
      PROVE  Refused
  <2> SUFFICES ASSUME NEW t \in Threads, Process(t), request[t].action # "tee",
                      request[t].target = request[t].from,
                      request[t].target = request[t].turn[1]
               PROVE  \/ rounds'[request[t].target] = rounds[request[t].target]
                      \/ request[t].turn[2] = rounds[request[t].target].turns
    OBVIOUS
  <2> DEFINE p == request[t]
             s == p.target
             r == rounds[s]
  <2>1. /\ pc[t] = "apply"
        /\ rounds' = IF Legal(r, p.action, p.ball, p.hole)
                     THEN [rounds EXCEPT ![s] = After(r, p.action, p.ball)] ELSE rounds
    BY DEF Process, EventHole
  <2>2. /\ p \in Presses /\ HoleSeen(p) /\ TurnSeen(p) /\ p.ball \in Balls
        /\ s \in SessionIds /\ r # None /\ TurnOpen(r)
    BY <1>1, <2>1 DEF IInv, RequestsFit, Pressing, PressesSound, PressSound, RoundsSound
  <2>3. CASE ~Legal(r, p.action, p.ball, p.hole)
    BY <2>1, <2>3
  <2>4. CASE Legal(r, p.action, p.ball, p.hole)
    <3>1. p.hole = r.hole /\ r.turn = p.ball
      BY <2>2, <2>4 DEF Legal, Presses, Actions
    <3>2. p.ball \notin r.done
      BY <2>2, <3>1, NoneAssumption DEF TurnOpen, Balls
    <3> QED BY <2>2, <3>1, <3>2 DEF TurnSeen
  <2> QED BY <2>3, <2>4
<1>2. StalePressRefused <=> [][Refused]_vars
  BY DEF StalePressRefused
<1> QED BY <1>1, <1>2, Invariance, PTL DEF Spec

=============================================================================
