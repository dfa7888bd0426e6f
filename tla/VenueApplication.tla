--------------------------- MODULE VenueApplication ---------------------------
(***************************************************************************)
(* The venue's HTTP application: VenueApplication (venue/web.py) over the  *)
(* check-in service (venue/session.py).  The server handles every request  *)
(* in a thread of its own.                                                 *)
(*                                                                         *)
(* start_session runs under the application lock, _event_id takes it; all  *)
(* other reads of self.runtime and of what hangs off it are unlocked.  An  *)
(* action is what a thread does between two such reads.  A read that finds *)
(* no runtime or no active player where an earlier one did raises out of   *)
(* the handler; that, and every refusal, ends the request.                 *)
(*                                                                         *)
(* A round is reduced to what requests can disturb: the hole being played, *)
(* whose turn it is, whether that turn has a stroke, who has holed out.    *)
(* Modules Gameplay and RoundRuntime have the rest; features, pickups and  *)
(* operator adjustments touch nothing kept here.  Balls are numbered.      *)
(***************************************************************************)
EXTENDS Integers, FiniteSets

CONSTANTS
    Threads,        \* request handlers
    NumBalls,       \* enabled Balls, numbered from 1
    NumHoles,       \* len(course.holes)
    Bookings,       \* booking codes
    Observations,   \* sensor observations that would be granted as evidence
    EvidenceOf,     \* EvidenceOf[o]: the [action, ball] an observation stands for
    None,           \* an absent dictionary entry or attribute
    MaxSessions,    \* bound: sessions created
    MaxFailures     \* bound: run directories that cannot be created

ASSUME SizesAssumption ==
    NumBalls \in Nat \ {0} /\ NumHoles \in Nat \ {0} /\ MaxSessions \in Nat

Balls == 1 .. NumBalls
SessionIds == 1 .. MaxSessions

VARIABLES
    ballInUse,      \* CheckInService._ball_in_use
    sessions,       \* CheckInService._sessions
    bookingIndex,   \* CheckInService._booking_index
    session,        \* VenueApplication.session
    runtime,        \* VenueApplication.runtime, named by the round's session
    rounds,         \* the LocalRoundRuntime of each session
    lock,           \* the thread in start_session
    pc, request,    \* where each thread is, and what it has read so far
    minted,         \* sessions created
    failures

checkin == <<ballInUse, sessions, bookingIndex, minted>>
vars == <<checkin, session, runtime, rounds, lock, pc, request, failures>>

Actions == {"tee", "stroke", "cup"}

ASSUME EvidenceAssumption ==
    \A o \in Observations : EvidenceOf[o] \in [action : Actions, ball : Balls]

(* A checked-in group, and a round as the requests see it.                 *)
Group == [balls : SUBSET Balls, booking : Bookings \cup {None}]

Round ==
    [balls : SUBSET Balls, hole : 1 .. NumHoles, turn : Balls \cup {None}, turns : Nat,
     struck : BOOLEAN, done : SUBSET Balls, over : BOOLEAN, answered : SUBSET Observations]

ASSUME NoneAssumption ==
    /\ None \notin Threads \cup Bookings
    /\ None \notin Int
    /\ None \notin Group
    /\ None \notin Round

NewRound(assigned) ==
    [balls |-> assigned, hole |-> 1, turn |-> None, turns |-> 0, struck |-> FALSE,
     done |-> {}, over |-> FALSE,
     answered |-> {}]

Idle == [action |-> "none"]

Init ==
    /\ ballInUse = [b \in Balls |-> None]
    /\ sessions = [s \in SessionIds |-> None]
    /\ bookingIndex = [k \in Bookings |-> None]
    /\ session = None
    /\ runtime = None
    /\ rounds = [s \in SessionIds |-> None]
    /\ lock = None
    /\ pc = [t \in Threads |-> "idle"]
    /\ request = [t \in Threads |-> Idle]
    /\ minted = 0
    /\ failures = 0

Goto(t, label) == pc' = [pc EXCEPT ![t] = label]

Note(t, r) == request' = [request EXCEPT ![t] = r]

Return(t) == Goto(t, "idle") /\ Note(t, Idle)

-----------------------------------------------------------------------------
(* CheckInService.                                                         *)

(* release_session.                                                        *)
Release(s) ==
    /\ ballInUse' = [b \in Balls |-> IF b \in sessions[s].balls THEN None ELSE ballInUse[b]]
    /\ sessions' = [sessions EXCEPT ![s] = None]
    /\ bookingIndex' = [k \in Bookings |->
                          IF k = sessions[s].booking THEN None ELSE bookingIndex[k]]
    /\ UNCHANGED minted

FreeBalls == {b \in Balls : ballInUse[b] = None}

(* create_session validates before it assigns anything.                    *)
CanCreate(n, k) ==
    /\ n <= Cardinality(FreeBalls)
    /\ k # None => bookingIndex[k] = None

(* The n free Balls with the lowest numbers.                               *)
Assigned(n) == {b \in FreeBalls : Cardinality({c \in FreeBalls : c <= b}) <= n}

Create(s, n, k) ==
    /\ ballInUse' = [b \in Balls |-> IF b \in Assigned(n) THEN s ELSE ballInUse[b]]
    /\ sessions' = [sessions EXCEPT ![s] = [balls |-> Assigned(n), booking |-> k]]
    /\ bookingIndex' = [j \in Bookings |-> IF j = k THEN s ELSE bookingIndex[j]]
    /\ minted' = s

-----------------------------------------------------------------------------
(* start_session, under the lock; the two assignments of self.runtime and  *)
(* what lies between them are visible to the threads that do not take it.  *)

(* Fault: the lock is not taken.                                           *)
Unlocked == TRUE

LockFree == lock = None

(* Fault: an unfinished round does not stop the next check-in.             *)
AlwaysOver == TRUE

RoundOver == runtime # None => rounds[runtime].over

(* A completed round hands its Balls back before the new group is seen to. *)
ReleaseCompleted ==
    IF runtime # None /\ session # None THEN Release(session) ELSE UNCHANGED checkin

StartSession(t, n, k) ==
    /\ pc[t] = "idle"
    /\ minted < MaxSessions
    /\ LockFree
    /\ RoundOver
    /\ ReleaseCompleted
    /\ session' = IF runtime # None THEN None ELSE session
    /\ runtime' = None
    /\ lock' = t
    /\ Goto(t, "create")
    /\ Note(t, [action |-> "checkin", players |-> n, booking |-> k])
    /\ UNCHANGED <<rounds, failures>>

CreateSession(t) ==
    /\ pc[t] = "create"
    /\ CanCreate(request[t].players, request[t].booking)
    /\ Create(minted + 1, request[t].players, request[t].booking)
    /\ session' = minted + 1
    /\ Goto(t, "build")
    /\ UNCHANGED <<runtime, rounds, lock, request, failures>>

CheckInRefused(t) ==
    /\ pc[t] = "create"
    /\ ~CanCreate(request[t].players, request[t].booking)
    /\ lock' = None
    /\ Return(t)
    /\ UNCHANGED <<checkin, session, runtime, rounds, failures>>

BuildRuntime(t) ==
    /\ pc[t] = "build"
    /\ rounds' = [rounds EXCEPT ![session] = NewRound(sessions[session].balls)]
    /\ runtime' = session
    /\ lock' = None
    /\ Return(t)
    /\ UNCHANGED <<checkin, session, failures>>

(* RoundAuditLog cannot make its directory: the OSError leaves the session *)
(* checked in and the application without a runtime.                       *)
BuildFails(t) ==
    /\ pc[t] = "build"
    /\ failures < MaxFailures
    /\ failures' = failures + 1
    /\ lock' = None
    /\ Return(t)
    /\ UNCHANGED <<checkin, session, runtime, rounds>>

-----------------------------------------------------------------------------
(* What the engine makes of an event for ball b and hole h.                *)

Legal(r, action, b, h) ==
    /\ ~r.over
    /\ h = r.hole
    /\ CASE action = "tee" -> b \in r.balls \ r.done /\ r.turn = None
         [] action = "stroke" -> r.turn = b
         [] action = "cup" -> r.turn = b /\ r.struck

HoleDone(r, b) == r.done \cup {b} = r.balls

After(r, action, b) ==
    CASE action = "tee" -> [r EXCEPT !.turn = b, !.turns = @ + 1, !.struck = FALSE]
      [] action = "stroke" -> [r EXCEPT !.struck = TRUE]
      [] action = "cup" ->
           [r EXCEPT !.turn = None,
                     !.done = IF HoleDone(r, b) /\ r.hole < NumHoles THEN {} ELSE @ \cup {b},
                     !.hole = IF HoleDone(r, b) /\ r.hole < NumHoles THEN @ + 1 ELSE @,
                     !.over = HoleDone(r, b) /\ r.hole = NumHoles]

-----------------------------------------------------------------------------
(* simulate: hole, then active ball, then the runtime to call, each read   *)
(* on its own.  A Tee names its ball and reads the hole last.              *)

Simulate(t, action, b) ==
    /\ pc[t] = "idle"
    /\ runtime # None
    /\ Note(t, [action |-> action, ball |-> b, hole |-> None, from |-> None,
               turn |-> None, target |-> None])
    /\ Goto(t, IF action = "tee" THEN "target" ELSE "hole")
    /\ UNCHANGED <<checkin, session, runtime, rounds, lock, failures>>

(* "check in first": also for observations.                                *)
CheckInFirst(t) ==
    /\ pc[t] = "idle"
    /\ runtime = None
    /\ UNCHANGED vars

Raise(t) ==
    /\ Return(t)
    /\ UNCHANGED <<checkin, session, runtime, rounds, lock, failures>>

ReadHole(t) ==
    /\ pc[t] = "hole"
    /\ \/ /\ runtime # None
          /\ Note(t, [request[t] EXCEPT !.hole = rounds[runtime].hole, !.from = runtime])
          /\ Goto(t, "active")
          /\ UNCHANGED <<checkin, session, runtime, rounds, lock, failures>>
       \/ runtime = None /\ Raise(t)

(* _active_ball: someone is active ...                                     *)
ReadActive(t) ==
    /\ pc[t] = "active"
    /\ \/ /\ runtime # None
          /\ rounds[runtime].turn # None
          /\ Goto(t, "ball")
          /\ UNCHANGED <<checkin, session, runtime, rounds, lock, request, failures>>
       \/ runtime = None /\ Raise(t)
       \/ runtime # None /\ rounds[runtime].turn = None /\ Raise(t)

(* ... and, read again, who.                                               *)
ReadBall(t) ==
    /\ pc[t] = "ball"
    /\ \/ /\ runtime # None
          /\ rounds[runtime].turn # None
          /\ Note(t, [request[t] EXCEPT !.ball = rounds[runtime].turn,
                                        !.turn = <<runtime, rounds[runtime].turns>>])
          /\ Goto(t, "target")
          /\ UNCHANGED <<checkin, session, runtime, rounds, lock, failures>>
       \/ runtime = None /\ Raise(t)
       \/ runtime # None /\ rounds[runtime].turn = None /\ Raise(t)

(* The runtime whose method is called is fixed before the event id is made.*)
ReadTarget(t) ==
    /\ pc[t] = "target"
    /\ \/ /\ runtime # None
          /\ Note(t, [request[t] EXCEPT !.target = runtime])
          /\ Goto(t, "apply")
          /\ UNCHANGED <<checkin, session, runtime, rounds, lock, failures>>
       \/ runtime = None /\ Raise(t)

(* Fault: the hole is looked up when the event is made.                    *)
HoleAtCall(t) == rounds[request[t].target].hole

(* The hole the event is for.  A Tee's is looked up and processed in one   *)
(* step: were the hole left in between, the engine would refuse the event. *)
EventHole(t) ==
    IF request[t].action = "tee" THEN rounds[request[t].target].hole ELSE request[t].hole

(* _event_id waits for the lock; then the runtime processes the event.     *)
Process(t) ==
    LET r == rounds[request[t].target]
        b == request[t].ball
    IN  /\ pc[t] = "apply"
        /\ LockFree
        /\ rounds' = IF Legal(r, request[t].action, b, EventHole(t))
                     THEN [rounds EXCEPT ![request[t].target] = After(r, request[t].action, b)]
                     ELSE rounds
        /\ Return(t)
        /\ UNCHANGED <<checkin, session, runtime, lock, failures>>

-----------------------------------------------------------------------------
(* observe_physical: checks that there is a runtime, decodes the record,   *)
(* and calls whatever runtime there is by then.  The decision cache that   *)
(* makes a second delivery harmless belongs to the runtime.                *)

Observe(t, o) ==
    /\ pc[t] = "idle"
    /\ runtime # None
    /\ Note(t, [action |-> "observe", observation |-> o])
    /\ Goto(t, "observe")
    /\ UNCHANGED <<checkin, session, runtime, rounds, lock, failures>>

(* Granted or rejected, the first answer to an observation stands.         *)
Judged(r, o) ==
    LET e == EvidenceOf[o]
        heard == [r EXCEPT !.answered = @ \cup {o}]
    IN  IF o \in r.answered THEN r
        ELSE IF Legal(r, e.action, e.ball, r.hole)
        THEN After(heard, e.action, e.ball)
        ELSE heard

ProcessObservation(t) ==
    /\ pc[t] = "observe"
    /\ \/ /\ runtime # None
          /\ rounds' = [rounds EXCEPT ![runtime] = Judged(@, request[t].observation)]
          /\ Return(t)
          /\ UNCHANGED <<checkin, session, runtime, lock, failures>>
       \/ runtime = None /\ Raise(t)

Next ==
    \E t \in Threads :
        \/ \E n \in Balls, k \in Bookings \cup {None} : StartSession(t, n, k)
        \/ CreateSession(t)
        \/ CheckInRefused(t)
        \/ BuildRuntime(t)
        \/ BuildFails(t)
        \/ \E b \in Balls : Simulate(t, "tee", b)
        \/ \E a \in {"stroke", "cup"} : Simulate(t, a, None)
        \/ CheckInFirst(t)
        \/ ReadHole(t)
        \/ ReadActive(t)
        \/ ReadBall(t)
        \/ ReadTarget(t)
        \/ Process(t)
        \/ \E o \in Observations : Observe(t, o)
        \/ ProcessObservation(t)

Spec == Init /\ [][Next]_vars

-----------------------------------------------------------------------------
(* Properties.                                                             *)

(* The three tables of the check-in service describe the same assignments: *)
(* a Ball is in use for a session exactly when that session exists and has *)
(* it, so no Ball is in two groups, and a booking code leads to the one    *)
(* live session that was checked in with it.                               *)
AssignmentsAgree ==
    /\ \A b \in Balls, s \in SessionIds :
          ballInUse[b] = s <=> sessions[s] # None /\ b \in sessions[s].balls
    /\ \A k \in Bookings, s \in SessionIds :
          bookingIndex[k] = s <=> sessions[s] # None /\ sessions[s].booking = k

(* Balls do not leak: every session that still holds Balls is the one the  *)
(* application shows, but for one left behind per run directory that could *)
(* not be created.                                                         *)
BallsAccounted ==
    Cardinality({s \in SessionIds : sessions[s] # None /\ s # session}) <= failures

(* One game at a time: a round that is not over is the one the application *)
(* plays, and its Balls are its own.  Two check-ins racing each other, or  *)
(* one racing the last putt, never leave a group playing a round the       *)
(* screens have left.                                                      *)
OneGameAtATime ==
    \A s \in SessionIds :
        rounds[s] # None /\ ~rounds[s].over =>
            /\ runtime = s
            /\ \A b \in rounds[s].balls : ballInUse[b] = s

(* Whatever check-ins race and fail, the venue's books are in order: no    *)
(* Ball is in two groups, none leaks, and only the game on the screens is  *)
(* being played.                                                           *)
VenueInOrder ==
    /\ AssignmentsAgree
    /\ BallsAccounted
    /\ OneGameAtATime

(* Once its Balls have been handed back, a round never changes again,      *)
(* however late the requests that still refer to it.                       *)
ReleasedRoundIsFrozen ==
    [][\A s \in SessionIds :
          rounds[s] # None /\ sessions[s] = None => rounds'[s] = rounds[s]]_vars

(* A stroke or a cup button pressed during one turn never lands in another *)
(* turn of the same round: if ball or hole have changed by the time the    *)
(* event is processed, the engine refuses it.  `from' and `turn' are where *)
(* the hole and the ball were read.                                        *)
StalePressRefused ==
    [][\A t \in Threads :
          LET s == request[t].target
              turn == request[t].turn
          IN  Process(t) /\ request[t].action # "tee" /\ s = request[t].from /\ s = turn[1]
                  => rounds'[s] = rounds[s] \/ turn[2] = rounds[s].turns]_vars

=============================================================================
