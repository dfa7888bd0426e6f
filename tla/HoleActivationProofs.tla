------------------------ MODULE HoleActivationProofs ------------------------
(***************************************************************************)
(* Theorems about HoleActivation for any number of Balls, holes, sessions  *)
(* and tokens and any timing.                                              *)
(*                                                                         *)
(* The inductive invariant IInv adds one conjunct to the properties that   *)
(* the runs check: a published Ball has a session.  Typing needs it, since *)
(* the request a Tee read files copies the session of its Ball.            *)
(*                                                                         *)
(* Every step does one of four things to the leases (LeaseSteps): nothing, *)
(* a release, a refresh or a grant.  What a lease invariant has to survive *)
(* is therefore four cases and not the eighteen disjuncts of Next.         *)
(* Requests are treated the same way (TouchSteps); only what a Ball was    *)
(* last told is followed call by call (AwakeKept).                         *)
(***************************************************************************)
EXTENDS HoleActivation, TLAPS

(* Only Balls that have a session are ever published as eligible.          *)
EligibleAssigned ==
    \A h \in Holes : \A b \in eligible[h] : ballSession[b] # None

IInv == TypeOK /\ EligibleAssigned /\ LeaseTablesAgree /\ LeaseIsEligible

-----------------------------------------------------------------------------
(* Leases as records.                                                      *)

(* A granted lease is the request's turn under the next epoch of its hole. *)
LEMMA NewLeaseType ==
    ASSUME NEW r \in PendingActivation, NEW n \in Nat, epochs \in [Holes -> Nat]
    PROVE  /\ NewLease(r, n) \in HoleActivationLease
           /\ NewLease(r, n).ball = r.ball
           /\ NewLease(r, n).hole = r.hole
           /\ NewLease(r, n).session = r.session
           /\ NewLease(r, n).epoch = epochs[r.hole] + 1
           /\ NewLease(r, n).activated = n
           /\ NewLease(r, n).lastMotion = n
           /\ NewLease(r, n).lastContact = n
           /\ NewLease(r, n).hardExpires = n + MaximumActivation
<1>1. r.hole \in Holes /\ r.ball \in Balls /\ r.session \in Sessions
  BY DEF PendingActivation
<1>2. epochs[r.hole] + 1 \in Nat \ {0} /\ n + MaximumActivation \in Nat
  BY <1>1, TimingAssumption
<1> QED BY <1>1, <1>2 DEF NewLease, NextEpoch, HoleActivationLease

(* A refresh moves the two timestamps and nothing else.                    *)
LEMMA TouchedLease ==
    ASSUME NEW l \in HoleActivationLease, NEW m \in BOOLEAN, NEW n \in Nat
    PROVE  /\ Touched(l, m, n) \in HoleActivationLease
           /\ SameTurn(Touched(l, m, n), l)
           /\ Touched(l, m, n).lastContact = n
           /\ Touched(l, m, n).lastMotion = IF m THEN n ELSE l.lastMotion
<1> DEFINE a == [l EXCEPT !.lastMotion = IF m THEN n ELSE @]
<1>1. /\ a \in HoleActivationLease
      /\ a.session = l.session /\ a.hole = l.hole /\ a.ball = l.ball
      /\ a.epoch = l.epoch /\ a.activated = l.activated /\ a.hardExpires = l.hardExpires
      /\ a.lastMotion = IF m THEN n ELSE l.lastMotion
  BY DEF HoleActivationLease
<1>2. Touched(l, m, n) = [a EXCEPT !.lastContact = n]
  BY DEF Touched, HoleActivationLease
<1> HIDE DEF a
<1> QED BY <1>1, <1>2 DEF HoleActivationLease, SameTurn

-----------------------------------------------------------------------------
(* Leases and steps.                                                       *)

(* What a step may do to the leases.                                       *)
LEMMA LeaseSteps ==
    ASSUME [Next]_vars
    PROVE  \/ UNCHANGED leases
           \/ \E S : Release(S) /\ UNCHANGED registry
           \/ \E b \in Balls, h \in Holes, e \in Tokens, d \in Balls, motion \in BOOLEAN :
                Refreshed(b, h, e, d, motion)
           \/ \E t \in Tokens, d \in Balls : AuthorizeGranted(t, d)
<1>1. CASE UNCHANGED vars
  BY <1>1 DEF vars
<1>2. CASE \E s \in Sessions, B \in SUBSET Balls : RegisterSession(s, B)
  BY <1>2 DEF RegisterSession
<1>3. CASE \E h \in Holes, B \in SUBSET Balls : AllowBalls(h, B)
  BY <1>3 DEF AllowBalls
<1>4. CASE \E h \in Holes, b \in Balls : Touch(h, b)
  BY <1>4 DEF Touch, TouchRejected, Rejected, TouchWhileActive, TouchWhilePending, TouchAdmitted
<1>5. ASSUME NEW t \in Tokens, NEW d \in Balls, Authorize(t, d)
      PROVE  UNCHANGED leases \/ AuthorizeGranted(t, d)
  BY <1>5 DEF Authorize, AuthorizeRepeated, AuthorizeRejected, Rejected, AuthorizeDropped
<1>6. ASSUME NEW b \in Balls, NEW h \in Holes, NEW e \in Tokens, Command(b, h, e)
      PROVE  \/ UNCHANGED leases
             \/ \E S : Release(S) /\ UNCHANGED registry
             \/ \E d \in Balls, motion \in BOOLEAN : Refreshed(b, h, e, d, motion)
  BY <1>6 DEF Command, CommandRejected, Rejected, Ended, SemanticallyEnded, SemanticEndRejected
<1>7. CASE Sweep
  BY <1>7 DEF Sweep
<1>8. CASE Tick
  BY <1>8 DEF Tick
<1> QED BY <1>1, <1>2, <1>3, <1>4, <1>5, <1>6, <1>7, <1>8 DEF Next

(* The registry only grows: a Ball that has a session keeps it, and the    *)
(* Ball that holds a hole stays eligible there.                            *)
LEMMA RegistrySteps ==
    ASSUME [Next]_vars, TypeOK
    PROVE  /\ ballSession' \in [Balls -> Sessions \cup {None}]
           /\ \A b \in Balls : ballSession[b] # None => ballSession'[b] = ballSession[b]
           /\ \/ UNCHANGED eligible
              \/ /\ UNCHANGED <<ballSession, leases>>
                 /\ \E h \in Holes, B \in SUBSET Balls :
                      /\ \A b \in B : ballSession[b] # None
                      /\ activeByHole[h] # None => activeByHole[h].ball \in B
                      /\ eligible' = [eligible EXCEPT ![h] = B]
           /\ UNCHANGED ballSession \/ UNCHANGED leases
<1>0. ballSession \in [Balls -> Sessions \cup {None}]
  BY DEF TypeOK
<1>1. CASE UNCHANGED vars
  BY <1>1, <1>0 DEF vars, registry
<1>2. CASE \E s \in Sessions, B \in SUBSET Balls : RegisterSession(s, B)
  BY <1>2, <1>0 DEF RegisterSession
<1>3. CASE \E h \in Holes, B \in SUBSET Balls : AllowBalls(h, B)
  BY <1>3, <1>0 DEF AllowBalls
<1>4. CASE \E h \in Holes, b \in Balls : Touch(h, b)
  BY <1>4, <1>0 DEF Touch, TouchRejected, Rejected, TouchWhileActive, TouchWhilePending, TouchAdmitted,
              registry
<1>5. CASE \E t \in Tokens, d \in Balls : Authorize(t, d)
  BY <1>5, <1>0 DEF Authorize, AuthorizeRepeated, AuthorizeRejected, Rejected, AuthorizeDropped,
              AuthorizeGranted, registry
<1>6. ASSUME NEW b \in Balls, NEW h \in Holes, NEW e \in Tokens, Command(b, h, e)
      PROVE  UNCHANGED registry
  <2>1. ASSUME NEW d \in Balls, NEW motion \in BOOLEAN, Refreshed(b, h, e, d, motion)
        PROVE  UNCHANGED registry
    BY <2>1 DEF Refreshed
  <2> QED BY <1>6, <2>1 DEF Command, CommandRejected, Rejected, Ended, SemanticallyEnded,
                            SemanticEndRejected
<1>7. CASE Sweep
  BY <1>7, <1>0 DEF Sweep, registry
<1>8. CASE Tick
  BY <1>8, <1>0 DEF Tick, registry
<1> QED BY <1>0, <1>1, <1>2, <1>3, <1>4, <1>5, <1>6, <1>7, <1>8 DEF Next, registry

(* What a step may do to the outstanding requests.                         *)
LEMMA TouchSteps ==
    ASSUME [Next]_vars
    PROVE  \/ UNCHANGED touches
           \/ UNCHANGED minted /\ \E S : RemovePending(S)
           \/ \E h \in Holes, b \in Balls : TouchAdmitted(h, b)
<1>1. CASE UNCHANGED vars
  BY <1>1 DEF vars
<1>2. CASE \E s \in Sessions, B \in SUBSET Balls : RegisterSession(s, B)
  BY <1>2 DEF RegisterSession
<1>3. CASE \E h \in Holes, B \in SUBSET Balls : AllowBalls(h, B)
  BY <1>3 DEF AllowBalls
<1>4. CASE \E h \in Holes, b \in Balls : Touch(h, b)
  BY <1>4 DEF Touch, TouchRejected, Rejected, TouchWhileActive, TouchWhilePending
<1>5. ASSUME NEW t \in Tokens, NEW d \in Balls, Authorize(t, d)
      PROVE  UNCHANGED touches \/ (UNCHANGED minted /\ \E S : RemovePending(S))
  <2>1. CASE AuthorizeGranted(t, d)
    BY <2>1 DEF AuthorizeGranted
  <2> QED BY <1>5, <2>1 DEF Authorize, AuthorizeRepeated, AuthorizeRejected, Rejected,
                            AuthorizeDropped
<1>6. ASSUME NEW b \in Balls, NEW h \in Holes, NEW e \in Tokens, Command(b, h, e)
      PROVE  UNCHANGED touches
  <2>1. ASSUME NEW d \in Balls, NEW motion \in BOOLEAN, Refreshed(b, h, e, d, motion)
        PROVE  UNCHANGED touches
    BY <2>1 DEF Refreshed
  <2> QED BY <1>6, <2>1 DEF Command, CommandRejected, Rejected, Ended, SemanticallyEnded,
                            SemanticEndRejected
<1>7. CASE Sweep
  BY <1>7 DEF Sweep
<1>8. CASE Tick
  BY <1>8 DEF Tick
<1> QED BY <1>1, <1>2, <1>3, <1>4, <1>5, <1>6, <1>7, <1>8 DEF Next

(* The clock only moves forward, and what a Ball is told keeps its type.   *)
LEMMA ClockAndHistory ==
    ASSUME [Next]_vars, TypeOK
    PROVE  /\ now' \in Time /\ now <= now'
           /\ told' \in [Balls -> Directives]
<1>0. /\ now \in Time /\ told \in [Balls -> Directives]
      /\ now <= now
  BY BoundsAssumption DEF TypeOK, Time
<1>1. ASSUME NEW b \in Balls, NEW directive \in Directives, Tell(b, directive)
      PROVE  told' \in [Balls -> Directives]
  BY <1>0, <1>1 DEF Tell
<1>2. "system_off" \in Directives /\ "activation_pending" \in Directives
      /\ "active" \in Directives /\ \A l : LeaseDirective(l) \in Directives
  BY DEF Directives, LeaseDirective
<1>3. ASSUME NEW b \in Balls, Rejected(b)
      PROVE  told' \in [Balls -> Directives] /\ UNCHANGED now
  BY <1>1, <1>2, <1>3 DEF Rejected
<1>4. CASE UNCHANGED vars
  BY <1>0, <1>4 DEF vars
<1>5. CASE \E s \in Sessions, B \in SUBSET Balls : RegisterSession(s, B)
  BY <1>0, <1>5 DEF RegisterSession
<1>6. CASE \E h \in Holes, B \in SUBSET Balls : AllowBalls(h, B)
  BY <1>0, <1>6 DEF AllowBalls
<1>7. ASSUME NEW h \in Holes, NEW b \in Balls, Touch(h, b)
      PROVE  /\ told' \in [Balls -> Directives] /\ UNCHANGED now
  <2>1. CASE TouchRejected(h, b)
    BY <1>0, <1>3, <2>1 DEF TouchRejected
  <2>2. CASE TouchWhileActive(h, b)
    BY <1>0, <1>1, <1>2, <2>2 DEF TouchWhileActive
  <2>3. CASE TouchWhilePending(h, b)
    BY <1>0, <1>1, <1>2, <2>3 DEF TouchWhilePending
  <2>4. CASE TouchAdmitted(h, b)
    BY <1>0, <1>1, <1>2, <2>4 DEF TouchAdmitted
  <2> QED BY <1>7, <2>1, <2>2, <2>3, <2>4 DEF Touch
<1>8. ASSUME NEW t \in Tokens, NEW d \in Balls, Authorize(t, d)
      PROVE  told' \in [Balls -> Directives] /\ UNCHANGED now
  <2>0. /\ completed[t] # None => completed[t].ball \in Balls
        /\ pending[t] # None => pending[t].ball \in Balls
    BY DEF TypeOK, HoleActivationLease, PendingActivation
  <2>1. CASE AuthorizeRepeated(t)
    BY <1>1, <1>2, <2>0, <2>1 DEF AuthorizeRepeated
  <2>2. CASE \E verified \in BOOLEAN : AuthorizeRejected(t, d, verified)
    BY <1>3, <2>2 DEF AuthorizeRejected
  <2>3. CASE \E verified \in BOOLEAN : AuthorizeDropped(t, d, verified)
    BY <1>1, <1>2, <2>3 DEF AuthorizeDropped
  <2>4. CASE AuthorizeGranted(t, d)
    BY <1>1, <1>2, <2>0, <2>4 DEF AuthorizeGranted
  <2> QED BY <1>8, <2>1, <2>2, <2>3, <2>4 DEF Authorize
<1>9. ASSUME NEW b \in Balls, NEW h \in Holes, NEW e \in Tokens, Command(b, h, e)
      PROVE  told' \in [Balls -> Directives] /\ UNCHANGED now
  <2>1. ASSUME NEW d \in Balls, NEW verified \in BOOLEAN, CommandRejected(b, h, e, d, verified)
        PROVE  told' \in [Balls -> Directives] /\ UNCHANGED now
    BY <1>3, <2>1 DEF CommandRejected
  <2>2. ASSUME NEW d \in Balls, NEW motion \in BOOLEAN, Refreshed(b, h, e, d, motion)
        PROVE  told' \in [Balls -> Directives] /\ UNCHANGED now
    BY <1>1, <1>2, <2>2 DEF Refreshed
  <2>3. ASSUME NEW d \in Balls, Ended(b, h, e, d)
        PROVE  told' \in [Balls -> Directives] /\ UNCHANGED now
    BY <1>1, <1>2, <2>3 DEF Ended
  <2>4. ASSUME NEW s \in Sessions, SemanticallyEnded(b, h, e, s)
        PROVE  told' \in [Balls -> Directives] /\ UNCHANGED now
    BY <1>1, <1>2, <2>4 DEF SemanticallyEnded
  <2>5. ASSUME NEW s \in Sessions, NEW allowed \in BOOLEAN,
               SemanticEndRejected(b, h, e, s, allowed)
        PROVE  told' \in [Balls -> Directives] /\ UNCHANGED now
    BY <1>3, <2>5 DEF SemanticEndRejected
  <2> QED BY <1>9, <2>1, <2>2, <2>3, <2>4, <2>5 DEF Command
<1>10. CASE Sweep
  BY <1>0, <1>2, <1>10 DEF Sweep
<1>11. CASE Tick
  BY <1>0, <1>11, BoundsAssumption DEF Tick, Time
<1> QED BY <1>0, <1>4, <1>5, <1>6, <1>7, <1>8, <1>9, <1>10, <1>11 DEF Next

-----------------------------------------------------------------------------
(* The inductive invariant.                                                *)

(* Requests keep their type: a Tee read files the session of a Ball that   *)
(* has one.                                                                *)
LEMMA TouchesType ==
    ASSUME [Next]_vars, TypeOK, EligibleAssigned
    PROVE  /\ pending' \in [Tokens -> PendingActivation \cup {None}]
           /\ pendingToken' \in [Balls -> Tokens \cup {None}]
           /\ minted' \in 0 .. MaxTokens
<1>0. /\ pending \in [Tokens -> PendingActivation \cup {None}]
      /\ pendingToken \in [Balls -> Tokens \cup {None}]
      /\ minted \in 0 .. MaxTokens
  BY DEF TypeOK
<1>1. CASE UNCHANGED touches
  BY <1>0, <1>1 DEF touches
<1>2. CASE UNCHANGED minted /\ \E S : RemovePending(S)
  BY <1>0, <1>2 DEF RemovePending
<1>3. ASSUME NEW h \in Holes, NEW b \in Balls, TouchAdmitted(h, b)
      PROVE  /\ pending' \in [Tokens -> PendingActivation \cup {None}]
             /\ pendingToken' \in [Balls -> Tokens \cup {None}]
             /\ minted' \in 0 .. MaxTokens
  <2> DEFINE request == [hole |-> h, session |-> ballSession[b], ball |-> b,
                         expires |-> now + PendingTimeout]
  <2>1. ballSession[b] \in Sessions
    BY <1>3 DEF TouchAdmitted, Unclaimed, Admissible, EligibleAssigned, TypeOK
  <2>2. now + PendingTimeout \in Nat
    BY TimingAssumption, BoundsAssumption DEF TypeOK, Time
  <2>3. request \in PendingActivation
    BY <2>1, <2>2 DEF PendingActivation
  <2>4. /\ minted' = minted + 1 /\ minted < MaxTokens
        /\ pending' = [t \in Tokens |->
              IF t = minted + 1 THEN request
              ELSE IF t = pendingToken[b] THEN None ELSE pending[t]]
        /\ pendingToken' = [pendingToken EXCEPT ![b] = minted + 1]
    BY <1>3 DEF TouchAdmitted
  <2>5. minted + 1 \in Tokens /\ minted + 1 \in 0 .. MaxTokens
    BY <1>0, <2>4, BoundsAssumption DEF Tokens
  <2> HIDE DEF request
  <2> QED BY <1>0, <2>3, <2>4, <2>5
<1> QED BY <1>1, <1>2, <1>3, TouchSteps

(* A refresh as an assignment to both tables.                              *)
LEMMA RefreshedEffect ==
    ASSUME TypeOK, LeaseTablesAgree, NEW b \in Balls, NEW h \in Holes, NEW e \in Tokens,
           NEW d \in Balls, NEW motion \in BOOLEAN, Refreshed(b, h, e, d, motion)
    PROVE  \E l \in HoleActivationLease :
             /\ activeByBall[b] # None /\ activeByHole[h] = activeByBall[b]
             /\ SameTurn(l, activeByHole[h])
             /\ l.ball = b /\ l.hole = h
             /\ l.lastContact = now
             /\ l.lastMotion \in {now, activeByHole[h].lastMotion}
             /\ activeByHole' = [activeByHole EXCEPT ![h] = l]
             /\ activeByBall' = [activeByBall EXCEPT ![b] = l]
             /\ UNCHANGED <<registry, touches, epochs, completed, now>>
<1> DEFINE old == activeByBall[b]
           l == Touched(old, motion, now)
<1>1. /\ old \in HoleActivationLease /\ old.ball = b /\ old.hole = h
      /\ activeByHole[h] = old /\ old # None
  BY DEF Refreshed, Matches, TypeOK, LeaseTablesAgree
<1>2. now \in Nat
  BY BoundsAssumption DEF TypeOK, Time
<1>3. /\ l \in HoleActivationLease /\ SameTurn(l, old) /\ l.lastContact = now
      /\ l.lastMotion = IF motion THEN now ELSE old.lastMotion
  <2> HIDE DEF old
  <2> QED BY <1>1, <1>2, TouchedLease
<1>4. l.ball = b /\ l.hole = h
  BY <1>1, <1>3 DEF SameTurn
<1>5. /\ activeByHole' = [activeByHole EXCEPT ![h] = l]
      /\ activeByBall' = [activeByBall EXCEPT ![b] = l]
      /\ UNCHANGED <<registry, touches, epochs, completed, now>>
  BY DEF Refreshed
<1> HIDE DEF l
<1> QED BY <1>1, <1>3, <1>4, <1>5

(* A grant as an assignment to both tables.                                *)
LEMMA GrantedEffect ==
    ASSUME TypeOK, NEW t \in Tokens, NEW d \in Balls, AuthorizeGranted(t, d)
    PROVE  \E l \in HoleActivationLease :
             /\ completed[t] = None
             /\ activeByHole[l.hole] = None /\ activeByBall[l.ball] = None
             /\ l.ball \in eligible[l.hole] /\ ballSession[l.ball] = l.session
             /\ l.ball \in Balls /\ l.hole \in Holes
             /\ l.epoch = epochs[l.hole] + 1
             /\ l.activated = now /\ l.lastMotion = now /\ l.lastContact = now
             /\ l.hardExpires = now + MaximumActivation
             /\ activeByHole' = [activeByHole EXCEPT ![l.hole] = l]
             /\ activeByBall' = [activeByBall EXCEPT ![l.ball] = l]
             /\ epochs' = [epochs EXCEPT ![l.hole] = l.epoch]
             /\ completed' = [completed EXCEPT ![t] = l]
             /\ UNCHANGED <<registry, now>>
<1> DEFINE request == pending[t]
           l == NewLease(request, now)
<1>1. request \in PendingActivation /\ now \in Nat /\ epochs \in [Holes -> Nat]
  BY BoundsAssumption DEF AuthorizeGranted, TypeOK, Time
<1>2. /\ l \in HoleActivationLease
      /\ l.ball = request.ball /\ l.hole = request.hole /\ l.session = request.session
      /\ l.epoch = epochs[request.hole] + 1
      /\ l.activated = now /\ l.lastMotion = now /\ l.lastContact = now
      /\ l.hardExpires = now + MaximumActivation
  <2> HIDE DEF request
  <2> QED BY <1>1, NewLeaseType
<1>3. request.ball \in Balls /\ request.hole \in Holes
  BY <1>1 DEF PendingActivation
<1>4. /\ completed[t] = None
      /\ activeByHole[request.hole] = None /\ activeByBall[request.ball] = None
      /\ request.ball \in eligible[request.hole]
      /\ ballSession[request.ball] = request.session
      /\ activeByHole' = [activeByHole EXCEPT ![request.hole] = l]
      /\ activeByBall' = [activeByBall EXCEPT ![request.ball] = l]
      /\ epochs' = [epochs EXCEPT ![request.hole] = epochs[request.hole] + 1]
      /\ completed' = [completed EXCEPT ![t] = l]
      /\ UNCHANGED <<registry, now>>
  BY DEF AuthorizeGranted, Vacant, EligibleTurn, NextEpoch
<1> HIDE DEF l, request
<1> QED BY <1>2, <1>3, <1>4

(* Leases keep their type.                                                 *)
LEMMA LeasesType ==
    ASSUME [Next]_vars, TypeOK, LeaseTablesAgree
    PROVE  /\ activeByHole' \in [Holes -> HoleActivationLease \cup {None}]
           /\ activeByBall' \in [Balls -> HoleActivationLease \cup {None}]
           /\ epochs' \in [Holes -> Nat]
           /\ completed' \in [Tokens -> HoleActivationLease \cup {None}]
<1>0. /\ activeByHole \in [Holes -> HoleActivationLease \cup {None}]
      /\ activeByBall \in [Balls -> HoleActivationLease \cup {None}]
      /\ epochs \in [Holes -> Nat]
      /\ completed \in [Tokens -> HoleActivationLease \cup {None}]
  BY DEF TypeOK
<1>1. CASE UNCHANGED leases
  BY <1>0, <1>1 DEF leases
<1>2. CASE \E S : Release(S) /\ UNCHANGED registry
  BY <1>0, <1>2 DEF Release
<1>3. CASE \E b \in Balls, h \in Holes, e \in Tokens, d \in Balls, motion \in BOOLEAN :
             Refreshed(b, h, e, d, motion)
  <2>1. PICK b \in Balls, h \in Holes, e \in Tokens, d \in Balls, motion \in BOOLEAN :
          Refreshed(b, h, e, d, motion)
    BY <1>3
  <2>2. PICK l \in HoleActivationLease :
          /\ activeByHole' = [activeByHole EXCEPT ![h] = l]
          /\ activeByBall' = [activeByBall EXCEPT ![b] = l]
          /\ UNCHANGED <<epochs, completed>>
    BY <2>1, RefreshedEffect
  <2> QED BY <1>0, <2>2
<1>4. CASE \E t \in Tokens, d \in Balls : AuthorizeGranted(t, d)
  <2>1. PICK t \in Tokens, d \in Balls : AuthorizeGranted(t, d)
    BY <1>4
  <2>2. PICK l \in HoleActivationLease :
          /\ l.hole \in Holes /\ l.epoch = epochs[l.hole] + 1
          /\ activeByHole' = [activeByHole EXCEPT ![l.hole] = l]
          /\ activeByBall' = [activeByBall EXCEPT ![l.ball] = l]
          /\ epochs' = [epochs EXCEPT ![l.hole] = l.epoch]
          /\ completed' = [completed EXCEPT ![t] = l]
    BY <2>1, GrantedEffect
  <2>3. l.epoch \in Nat
    BY <1>0, <2>2
  <2> QED BY <1>0, <2>2, <2>3
<1> QED BY <1>1, <1>2, <1>3, <1>4, LeaseSteps

(* The two lease tables stay one table.                                    *)
LEMMA TablesStayInStep ==
    ASSUME [Next]_vars, TypeOK, LeaseTablesAgree
    PROVE  LeaseTablesAgree'
<1>0. /\ activeByHole \in [Holes -> HoleActivationLease \cup {None}]
      /\ activeByBall \in [Balls -> HoleActivationLease \cup {None}]
      /\ \A l \in HoleActivationLease : l.hole \in Holes /\ l.ball \in Balls /\ l # None
  <2>1. \A l \in HoleActivationLease : l.hole \in Holes /\ l.ball \in Balls
    BY DEF HoleActivationLease
  <2> QED BY <2>1, NoneAssumption DEF TypeOK
<1>1. CASE UNCHANGED leases
  BY <1>1 DEF leases, LeaseTablesAgree
<1>2. CASE \E S : Release(S) /\ UNCHANGED registry
  BY <1>0, <1>2 DEF Release, LeaseTablesAgree
<1>3. CASE \E b \in Balls, h \in Holes, e \in Tokens, d \in Balls, motion \in BOOLEAN :
             Refreshed(b, h, e, d, motion)
  <2>1. PICK b \in Balls, h \in Holes, e \in Tokens, d \in Balls, motion \in BOOLEAN :
          Refreshed(b, h, e, d, motion)
    BY <1>3
  <2>2. PICK l \in HoleActivationLease :
          /\ activeByBall[b] # None /\ activeByHole[h] = activeByBall[b]
          /\ l.ball = b /\ l.hole = h
          /\ activeByHole' = [activeByHole EXCEPT ![h] = l]
          /\ activeByBall' = [activeByBall EXCEPT ![b] = l]
    BY <2>1, RefreshedEffect
  <2>3. /\ activeByHole'[h] = l /\ activeByBall'[b] = l
        /\ \A g \in Holes : g # h => activeByHole'[g] = activeByHole[g]
        /\ \A c \in Balls : c # b => activeByBall'[c] = activeByBall[c]
    BY <1>0, <2>2
  <2>4. \A g \in Holes : g # h /\ activeByHole[g] # None => activeByHole[g].ball # b
    BY <1>0, <2>2 DEF LeaseTablesAgree
  <2>5. \A c \in Balls : c # b /\ activeByBall[c] # None => activeByBall[c].hole # h
    BY <1>0, <2>2 DEF LeaseTablesAgree
  <2> QED BY <1>0, <2>2, <2>3, <2>4, <2>5 DEF LeaseTablesAgree
<1>4. CASE \E t \in Tokens, d \in Balls : AuthorizeGranted(t, d)
  <2>1. PICK t \in Tokens, d \in Balls : AuthorizeGranted(t, d)
    BY <1>4
  <2>2. PICK l \in HoleActivationLease :
          /\ activeByHole[l.hole] = None /\ activeByBall[l.ball] = None
          /\ activeByHole' = [activeByHole EXCEPT ![l.hole] = l]
          /\ activeByBall' = [activeByBall EXCEPT ![l.ball] = l]
    BY <2>1, GrantedEffect
  <2>3. /\ activeByHole'[l.hole] = l /\ activeByBall'[l.ball] = l
        /\ \A g \in Holes : g # l.hole => activeByHole'[g] = activeByHole[g]
        /\ \A c \in Balls : c # l.ball => activeByBall'[c] = activeByBall[c]
    BY <1>0, <2>2
  <2>4. \A g \in Holes : activeByHole[g] # None => activeByHole[g].ball # l.ball
    BY <1>0, <2>2 DEF LeaseTablesAgree
  <2>5. \A c \in Balls : activeByBall[c] # None => activeByBall[c].hole # l.hole
    BY <1>0, <2>2 DEF LeaseTablesAgree
  <2> QED BY <1>0, <2>2, <2>3, <2>4, <2>5 DEF LeaseTablesAgree
<1> QED BY <1>1, <1>2, <1>3, <1>4, LeaseSteps

(* Published Balls keep their session, and holders stay eligible.          *)
LEMMA EligibilityKept ==
    ASSUME [Next]_vars, TypeOK, EligibleAssigned, LeaseTablesAgree, LeaseIsEligible
    PROVE  /\ ballSession' \in [Balls -> Sessions \cup {None}]
           /\ eligible' \in [Holes -> SUBSET Balls]
           /\ EligibleAssigned' /\ LeaseIsEligible'
<1>0. /\ ballSession' \in [Balls -> Sessions \cup {None}]
      /\ eligible \in [Holes -> SUBSET Balls]
      /\ activeByHole \in [Holes -> HoleActivationLease \cup {None}]
      /\ activeByBall \in [Balls -> HoleActivationLease \cup {None}]
      /\ \A l \in HoleActivationLease : l.ball \in Balls /\ l.hole \in Holes
      /\ \A b \in Balls : ballSession[b] # None => ballSession'[b] = ballSession[b]
      /\ UNCHANGED ballSession \/ UNCHANGED leases
  BY RegistrySteps DEF TypeOK, HoleActivationLease
<1>1. CASE UNCHANGED eligible
  <2>1. EligibleAssigned' /\ eligible' \in [Holes -> SUBSET Balls]
    BY <1>0, <1>1 DEF EligibleAssigned
  <2>2. CASE UNCHANGED leases
    <3>1. UNCHANGED <<activeByHole, activeByBall>>
      BY <2>2 DEF leases
    <3>2. ASSUME NEW h \in Holes, activeByHole[h] # None
          PROVE  /\ activeByHole[h].ball \in eligible[h]
                 /\ activeByHole[h].session = ballSession'[activeByHole[h].ball]
      <4> DEFINE b == activeByHole[h].ball
      <4>1. b \in Balls /\ b \in eligible[h] /\ activeByHole[h].session = ballSession[b]
        BY <1>0, <3>2 DEF LeaseIsEligible
      <4>2. ballSession[b] # None
        BY <4>1 DEF EligibleAssigned
      <4> QED BY <1>0, <4>1, <4>2
    <3>3. LeaseIsEligible'
      BY <1>1, <3>1, <3>2 DEF LeaseIsEligible
    <3> QED BY <1>0, <2>1, <3>3
  <2>3. CASE \E S : Release(S) /\ UNCHANGED registry
    BY <1>0, <1>1, <2>1, <2>3 DEF Release, registry, LeaseIsEligible
  <2>4. CASE \E b \in Balls, h \in Holes, e \in Tokens, d \in Balls, motion \in BOOLEAN :
               Refreshed(b, h, e, d, motion)
    <3>1. PICK b \in Balls, h \in Holes, e \in Tokens, d \in Balls, motion \in BOOLEAN :
            Refreshed(b, h, e, d, motion)
      BY <2>4
    <3>2. PICK l \in HoleActivationLease :
            /\ activeByBall[b] # None /\ activeByHole[h] = activeByBall[b]
            /\ SameTurn(l, activeByHole[h])
            /\ activeByHole' = [activeByHole EXCEPT ![h] = l]
            /\ UNCHANGED registry
      BY <3>1, RefreshedEffect
    <3>3. l.ball = activeByHole[h].ball /\ l.session = activeByHole[h].session
      BY <3>2 DEF SameTurn
    <3> QED BY <1>0, <1>1, <2>1, <3>2, <3>3 DEF LeaseIsEligible, registry
  <2>5. CASE \E t \in Tokens, d \in Balls : AuthorizeGranted(t, d)
    <3>1. PICK t \in Tokens, d \in Balls : AuthorizeGranted(t, d)
      BY <2>5
    <3>2. PICK l \in HoleActivationLease :
            /\ l.ball \in eligible[l.hole] /\ ballSession[l.ball] = l.session
            /\ activeByHole' = [activeByHole EXCEPT ![l.hole] = l]
            /\ UNCHANGED registry
      BY <3>1, GrantedEffect
    <3> QED BY <1>0, <2>1, <3>2 DEF LeaseIsEligible, registry
  <2> QED BY <1>0, <2>1, <2>2, <2>3, <2>4, <2>5, LeaseSteps
<1>2. CASE /\ UNCHANGED <<ballSession, leases>>
           /\ \E h \in Holes, B \in SUBSET Balls :
                /\ \A b \in B : ballSession[b] # None
                /\ activeByHole[h] # None => activeByHole[h].ball \in B
                /\ eligible' = [eligible EXCEPT ![h] = B]
  <2>1. PICK h \in Holes, B \in SUBSET Balls :
          /\ \A b \in B : ballSession[b] # None
          /\ activeByHole[h] # None => activeByHole[h].ball \in B
          /\ eligible' = [eligible EXCEPT ![h] = B]
    BY <1>2
  <2>2. UNCHANGED <<ballSession, activeByHole, activeByBall>>
    BY <1>2 DEF leases
  <2> QED BY <1>0, <2>1, <2>2 DEF EligibleAssigned, LeaseIsEligible
<1> QED BY <1>0, <1>1, <1>2, RegistrySteps

(* Nothing is registered, published, requested or held at the start.       *)
LEMMA InitIInv == Init => IInv
<1> SUFFICES ASSUME Init PROVE IInv
  OBVIOUS
<1>1. TypeOK
  BY BoundsAssumption DEF Init, TypeOK, Time, Directives
<1> QED BY <1>1 DEF Init, IInv, EligibleAssigned, LeaseTablesAgree, LeaseIsEligible

(* Every call, and the passing of time, keeps the invariant.               *)
LEMMA NextKeepsIInv == IInv /\ [Next]_vars => IInv'
<1> SUFFICES ASSUME IInv, [Next]_vars PROVE IInv'
  OBVIOUS
<1>0. TypeOK /\ EligibleAssigned /\ LeaseTablesAgree /\ LeaseIsEligible
  BY DEF IInv
<1>1. TypeOK'
  BY <1>0, EligibilityKept, TouchesType, LeasesType, ClockAndHistory DEF TypeOK
<1> QED BY <1>0, <1>1, EligibilityKept, TablesStayInStep DEF IInv

(* The invariant holds throughout.                                         *)
LEMMA Invariance == Spec => []IInv
  BY InitIInv, NextKeepsIInv, PTL DEF Spec

-----------------------------------------------------------------------------
(* The theorems.                                                           *)

(* Every dictionary of the authority keeps its type.                       *)
THEOREM Typing == Spec => []TypeOK
<1>1. IInv => TypeOK
  BY DEF IInv
<1> QED BY <1>1, Invariance, PTL

(* A lease found by its hole and by its Ball is one and the same, so a hole*)
(* has at most one Ball and a Ball at most one hole.                       *)
THEOREM TablesAgree == Spec => []LeaseTablesAgree
<1>1. IInv => LeaseTablesAgree
  BY DEF IInv
<1> QED BY <1>1, Invariance, PTL

(* Nobody holds a hole they are not assigned and eligible for.             *)
THEOREM HoldersEligible == Spec => []LeaseIsEligible
<1>1. IInv => LeaseIsEligible
  BY DEF IInv
<1> QED BY <1>1, Invariance, PTL

-----------------------------------------------------------------------------
(* Epochs.                                                                 *)

(* A grant takes the epoch after the newest one of its hole and is recorded*)
(* under a token of its own; everything else leaves epochs alone.          *)
LEMMA FenceKept ==
    ASSUME [Next]_vars, IInv, EpochsFence
    PROVE  EpochsFence'
<1>0. /\ TypeOK /\ LeaseTablesAgree
      /\ activeByHole \in [Holes -> HoleActivationLease \cup {None}]
      /\ activeByBall \in [Balls -> HoleActivationLease \cup {None}]
      /\ epochs \in [Holes -> Nat]
      /\ completed \in [Tokens -> HoleActivationLease \cup {None}]
      /\ \A l \in HoleActivationLease : l.hole \in Holes /\ l.epoch \in Nat /\ l # None
  BY NoneAssumption DEF IInv, TypeOK, HoleActivationLease
<1>1. CASE UNCHANGED leases
  BY <1>1 DEF leases, EpochsFence
<1>2. CASE \E S : Release(S) /\ UNCHANGED registry
  BY <1>0, <1>2 DEF Release, EpochsFence
<1>3. CASE \E b \in Balls, h \in Holes, e \in Tokens, d \in Balls, motion \in BOOLEAN :
             Refreshed(b, h, e, d, motion)
  <2>1. PICK b \in Balls, h \in Holes, e \in Tokens, d \in Balls, motion \in BOOLEAN :
          Refreshed(b, h, e, d, motion)
    BY <1>3
  <2>2. PICK l \in HoleActivationLease :
          /\ activeByBall[b] # None /\ activeByHole[h] = activeByBall[b]
          /\ SameTurn(l, activeByHole[h])
          /\ activeByHole' = [activeByHole EXCEPT ![h] = l]
          /\ UNCHANGED <<epochs, completed>>
    BY <1>0, <2>1, RefreshedEffect
  <2>3. ASSUME NEW g \in Holes, activeByHole'[g] # None
        PROVE  /\ activeByHole'[g].epoch = epochs'[g]
               /\ \E t \in Tokens : completed'[t] # None /\ SameTurn(completed'[t], activeByHole'[g])
    <3>1. CASE g # h
      BY <1>0, <2>2, <2>3, <3>1 DEF EpochsFence
    <3>2. CASE g = h
      <4>1. activeByHole'[g] = l /\ activeByHole[g] # None
        BY <1>0, <2>2, <3>2
      <4> QED BY <2>2, <3>2, <4>1 DEF EpochsFence, SameTurn
    <3> QED BY <3>1, <3>2
  <2> QED BY <2>2, <2>3 DEF EpochsFence
<1>4. CASE \E t \in Tokens, d \in Balls : AuthorizeGranted(t, d)
  <2>1. PICK t \in Tokens, d \in Balls : AuthorizeGranted(t, d)
    BY <1>4
  <2>2. PICK l \in HoleActivationLease :
          /\ completed[t] = None
          /\ l.epoch = epochs[l.hole] + 1
          /\ activeByHole' = [activeByHole EXCEPT ![l.hole] = l]
          /\ epochs' = [epochs EXCEPT ![l.hole] = l.epoch]
          /\ completed' = [completed EXCEPT ![t] = l]
    BY <1>0, <2>1, GrantedEffect
  <2>3. /\ completed'[t] = l /\ epochs'[l.hole] = l.epoch /\ activeByHole'[l.hole] = l
        /\ \A u \in Tokens : u # t => completed'[u] = completed[u]
        /\ \A g \in Holes : g # l.hole => epochs'[g] = epochs[g] /\ activeByHole'[g] = activeByHole[g]
        /\ \A g \in Holes : epochs[g] <= epochs'[g]
    BY <1>0, <2>2
  <2>4. ASSUME NEW g \in Holes, activeByHole'[g] # None
        PROVE  /\ activeByHole'[g].epoch = epochs'[g]
               /\ \E u \in Tokens : completed'[u] # None /\ SameTurn(completed'[u], activeByHole'[g])
    <3>1. CASE g = l.hole
      BY <1>0, <2>3, <3>1 DEF SameTurn
    <3>2. CASE g # l.hole
      <4>1. PICK u \in Tokens : completed[u] # None /\ SameTurn(completed[u], activeByHole[g])
        BY <2>3, <2>4, <3>2 DEF EpochsFence
      <4>2. completed'[u] = completed[u]
        BY <2>2, <2>3, <4>1
      <4> QED BY <2>3, <2>4, <3>2, <4>1, <4>2 DEF EpochsFence
    <3> QED BY <3>1, <3>2
  <2>5. ASSUME NEW u \in Tokens, completed'[u] # None
        PROVE  completed'[u].epoch <= epochs'[completed'[u].hole]
    <3>1. CASE u = t
      BY <1>0, <2>3, <3>1
    <3>2. CASE u # t
      <4>1. /\ completed'[u] = completed[u]
            /\ completed[u].hole \in Holes /\ completed[u].epoch \in Nat
            /\ completed[u].epoch <= epochs[completed[u].hole]
        BY <1>0, <2>3, <2>5, <3>2 DEF EpochsFence
      <4>2. epochs[completed[u].hole] <= epochs'[completed[u].hole]
            /\ epochs[completed[u].hole] \in Nat /\ epochs'[completed[u].hole] \in Nat
        BY <1>0, <2>2, <2>3, <4>1
      <4> QED BY <4>1, <4>2
    <3> QED BY <3>1, <3>2
  <2>6. ASSUME NEW u \in Tokens, completed[u] # None, completed[u].hole = l.hole
        PROVE  completed[u].epoch # l.epoch
    BY <1>0, <2>2, <2>6 DEF EpochsFence
  <2>7. ASSUME NEW u \in Tokens, NEW v \in Tokens, u # v,
               completed'[u] # None, completed'[v] # None,
               completed'[u].hole = completed'[v].hole
        PROVE  completed'[u].epoch # completed'[v].epoch
    BY <2>3, <2>6, <2>7 DEF EpochsFence
  <2> QED BY <2>4, <2>5, <2>7 DEF EpochsFence
<1> QED BY <1>0, <1>1, <1>2, <1>3, <1>4, LeaseSteps

(* No two turns of a hole share an epoch and a live lease has the newest   *)
(* one, whatever is retried, refreshed, released or swept in between.      *)
THEOREM Fencing == Spec => []EpochsFence
<1>1. Init => EpochsFence
  BY DEF Init, EpochsFence
<1> QED BY <1>1, FenceKept, Invariance, PTL DEF Spec

-----------------------------------------------------------------------------
(* Refinement.                                                             *)

(* Every step is a grant, a release or no step of the abstract lease.      *)
LEMMA StepSimulates ==
    ASSUME [Next]_vars, IInv
    PROVE  [Lease!Next]_<<Holder, epochs>>
<1>0. /\ TypeOK /\ LeaseTablesAgree
      /\ activeByHole \in [Holes -> HoleActivationLease \cup {None}]
      /\ activeByBall \in [Balls -> HoleActivationLease \cup {None}]
      /\ epochs \in [Holes -> Nat]
      /\ \A l \in HoleActivationLease : l.hole \in Holes /\ l.ball \in Balls /\ l # None
      /\ None \notin Balls
  BY NoneAssumption DEF IInv, TypeOK, HoleActivationLease
<1>1. CASE UNCHANGED leases
  BY <1>1 DEF leases, Holder
<1>2. CASE \E S : Release(S) /\ UNCHANGED registry
  <2>1. PICK S : Release(S)
    BY <1>2
  <2> DEFINE freed == {h \in Holes : activeByHole[h] # None /\ activeByHole[h] \in S}
  <2>2. \A h \in freed : Holder[h] # None
    BY <1>0 DEF Holder
  <2>3. Holder' = [h \in Holes |-> IF h \in freed THEN None ELSE Holder[h]]
    BY <1>0, <2>1 DEF Release, Holder
  <2>4. UNCHANGED epochs
    BY <2>1 DEF Release
  <2>5. Lease!Free(freed)
    BY <2>2, <2>3, <2>4 DEF Lease!Free
  <2> QED BY <2>5 DEF Lease!Next
<1>3. CASE \E b \in Balls, h \in Holes, e \in Tokens, d \in Balls, motion \in BOOLEAN :
             Refreshed(b, h, e, d, motion)
  <2>1. PICK b \in Balls, h \in Holes, e \in Tokens, d \in Balls, motion \in BOOLEAN :
          Refreshed(b, h, e, d, motion)
    BY <1>3
  <2>2. PICK l \in HoleActivationLease :
          /\ activeByBall[b] # None /\ activeByHole[h] = activeByBall[b]
          /\ SameTurn(l, activeByHole[h])
          /\ activeByHole' = [activeByHole EXCEPT ![h] = l]
          /\ UNCHANGED epochs
    BY <1>0, <2>1, RefreshedEffect
  <2>3. l.ball = activeByHole[h].ball /\ l # None /\ activeByHole[h] # None
    BY <1>0, <2>2 DEF SameTurn
  <2>4. Holder' = Holder
    BY <1>0, <2>2, <2>3 DEF Holder
  <2> QED BY <2>2, <2>4
<1>4. CASE \E t \in Tokens, d \in Balls : AuthorizeGranted(t, d)
  <2>1. PICK t \in Tokens, d \in Balls : AuthorizeGranted(t, d)
    BY <1>4
  <2>2. PICK l \in HoleActivationLease :
          /\ activeByHole[l.hole] = None /\ activeByBall[l.ball] = None
          /\ l.epoch = epochs[l.hole] + 1
          /\ activeByHole' = [activeByHole EXCEPT ![l.hole] = l]
          /\ epochs' = [epochs EXCEPT ![l.hole] = l.epoch]
    BY <1>0, <2>1, GrantedEffect
  <2>3. Holder[l.hole] = None
    BY <1>0, <2>2 DEF Holder
  <2>4. \A g \in Holes : Holder[g] # l.ball
    BY <1>0, <2>2 DEF Holder, LeaseTablesAgree
  <2>5. Holder' = [Holder EXCEPT ![l.hole] = l.ball]
    BY <1>0, <2>2 DEF Holder
  <2>6. epochs' = [epochs EXCEPT ![l.hole] = @ + 1]
    BY <2>2
  <2>7. Lease!Grant(l.hole, l.ball)
    BY <2>3, <2>4, <2>5, <2>6 DEF Lease!Grant
  <2> QED BY <1>0, <2>7 DEF Lease!Next
<1> QED BY <1>0, <1>1, <1>2, <1>3, <1>4, LeaseSteps

(* The authority implements the abstract hole lease.                       *)
THEOREM Refinement == Spec => ImplementsHoleLease
<1>1. Init => Lease!Init
  BY DEF Init, Lease!Init, Holder
<1> QED BY <1>1, StepSimulates, Invariance, PTL
        DEF Spec, ImplementsHoleLease, Lease!Spec, Lease!leaseVars

-----------------------------------------------------------------------------
(* Requests.                                                               *)

(* A request is filed under its own token and leaves both tables at once:  *)
(* granted, dropped, expired or replaced by the Ball's next one.           *)
LEMMA RequestsKept ==
    ASSUME [Next]_vars, IInv, PendingTablesAgree
    PROVE  PendingTablesAgree'
<1>0. /\ TypeOK /\ LeaseTablesAgree
      /\ pending \in [Tokens -> PendingActivation \cup {None}]
      /\ pendingToken \in [Balls -> Tokens \cup {None}]
      /\ completed \in [Tokens -> HoleActivationLease \cup {None}]
      /\ minted \in 0 .. MaxTokens
      /\ \A r \in PendingActivation : r.ball \in Balls /\ r # None
      /\ \A t \in Tokens : t \in Nat /\ t >= 1
  BY BoundsAssumption, NoneAssumption DEF IInv, TypeOK, PendingActivation, Tokens
<1>1. ASSUME NEW S, RemovePending(S), UNCHANGED minted,
             \A t \in Tokens : completed'[t] # completed[t] => t \in S /\ pending[t] # None
      PROVE  PendingTablesAgree'
  <2>1. /\ \A t \in Tokens : pending'[t] = IF t \in S THEN None ELSE pending[t]
        /\ \A b \in Balls : pendingToken'[b] =
              IF \E t \in S : pending[t] # None /\ pending[t].ball = b /\ pendingToken[b] = t
              THEN None ELSE pendingToken[b]
    BY <1>1 DEF RemovePending
  <2>2. ASSUME NEW t \in Tokens, pending'[t] # None
        PROVE  pendingToken'[pending'[t].ball] = t /\ completed'[t] = None
    <3>1. t \notin S /\ pending'[t] = pending[t] /\ pending[t] # None
      BY <2>1, <2>2
    <3>2. pending[t].ball \in Balls /\ pendingToken[pending[t].ball] = t /\ completed[t] = None
      BY <1>0, <3>1 DEF PendingTablesAgree
    <3> QED BY <1>1, <2>1, <3>1, <3>2
  <2>3. ASSUME NEW b \in Balls, pendingToken'[b] # None
        PROVE  pending'[pendingToken'[b]] # None /\ pending'[pendingToken'[b]].ball = b
    <3>1. pendingToken'[b] = pendingToken[b] /\ pendingToken[b] \in Tokens
      BY <1>0, <2>1, <2>3
    <3>2. pending[pendingToken[b]] # None /\ pending[pendingToken[b]].ball = b
      BY <2>3, <3>1 DEF PendingTablesAgree
    <3>3. pendingToken[b] \notin S
      BY <2>1, <2>3, <3>2
    <3> QED BY <2>1, <3>1, <3>2, <3>3
  <2>4. ASSUME NEW t \in Tokens, t > minted
        PROVE  pending'[t] = None /\ completed'[t] = None
    BY <1>1, <2>1, <2>4 DEF PendingTablesAgree
  <2> QED BY <1>1, <2>2, <2>3, <2>4 DEF PendingTablesAgree
<1>2. ASSUME NEW t \in Tokens, NEW d \in Balls, AuthorizeGranted(t, d)
      PROVE  PendingTablesAgree'
  <2>1. RemovePending({t}) /\ UNCHANGED minted /\ pending[t] # None
    BY <1>2 DEF AuthorizeGranted
  <2>2. \E l : completed' = [completed EXCEPT ![t] = l]
    BY <1>2 DEF AuthorizeGranted
  <2>3. \A u \in Tokens : completed'[u] # completed[u] => u \in {t} /\ pending[u] # None
    BY <1>0, <2>1, <2>2
  <2> QED BY <1>1, <2>1, <2>3
<1>3. ASSUME NEW h \in Holes, NEW b \in Balls, TouchAdmitted(h, b)
      PROVE  PendingTablesAgree'
  <2> DEFINE n == minted + 1
             request == [hole |-> h, session |-> ballSession[b], ball |-> b,
                         expires |-> now + PendingTimeout]
  <2>1. /\ minted' = n /\ minted < MaxTokens
        /\ pending' = [t \in Tokens |->
              IF t = n THEN request
              ELSE IF t = pendingToken[b] THEN None ELSE pending[t]]
        /\ pendingToken' = [pendingToken EXCEPT ![b] = n]
        /\ UNCHANGED completed
    BY <1>3 DEF TouchAdmitted, leases
  <2>2. request.ball = b /\ (request # None)
    <3>1. ballSession[b] \in Sessions
      BY <1>0, <1>3 DEF IInv, TouchAdmitted, Unclaimed, Admissible, EligibleAssigned, TypeOK
    <3>2. now + PendingTimeout \in Nat
      BY <1>0, TimingAssumption, BoundsAssumption DEF TypeOK, Time
    <3>3. request \in PendingActivation
      BY <3>1, <3>2 DEF PendingActivation
    <3> QED BY <1>0, <3>3
  <2>3. n \in Tokens /\ n \in Nat /\ n > minted
    BY <1>0, <2>1, BoundsAssumption DEF Tokens
  <2>4. pending[n] = None /\ completed[n] = None
    BY <2>3 DEF PendingTablesAgree
  <2> HIDE DEF request, n
  <2>5. ASSUME NEW t \in Tokens, pending'[t] # None
        PROVE  pendingToken'[pending'[t].ball] = t /\ completed'[t] = None
    <3>1. CASE t = n
      BY <1>0, <2>1, <2>2, <2>3, <2>4, <3>1
    <3>2. CASE t # n
      <4>1. pending'[t] = pending[t] /\ pending[t] # None /\ t # pendingToken[b]
        BY <2>1, <2>5, <3>2
      <4>2. pending[t].ball \in Balls /\ pendingToken[pending[t].ball] = t /\ completed[t] = None
        BY <1>0, <4>1 DEF PendingTablesAgree
      <4> QED BY <1>0, <2>1, <4>1, <4>2
    <3> QED BY <3>1, <3>2
  <2>6. ASSUME NEW c \in Balls, pendingToken'[c] # None
        PROVE  pending'[pendingToken'[c]] # None /\ pending'[pendingToken'[c]].ball = c
    <3>1. CASE c = b
      BY <1>0, <2>1, <2>2, <2>3, <3>1
    <3>2. CASE c # b
      <4>1. pendingToken'[c] = pendingToken[c] /\ pendingToken[c] \in Tokens
        BY <1>0, <2>1, <2>6, <3>2
      <4>2. pending[pendingToken[c]] # None /\ pending[pendingToken[c]].ball = c
        BY <2>6, <4>1 DEF PendingTablesAgree
      <4>3. pendingToken[c] # n /\ pendingToken[c] # pendingToken[b]
        BY <1>0, <2>4, <2>6, <3>2, <4>1, <4>2 DEF PendingTablesAgree
      <4> QED BY <2>1, <4>1, <4>2, <4>3
    <3> QED BY <3>1, <3>2
  <2>7. ASSUME NEW t \in Tokens, t > minted'
        PROVE  pending'[t] = None /\ completed'[t] = None
    <3>1. t > minted /\ t # n
      BY <1>0, <2>1, <2>3, <2>7
    <3> QED BY <2>1, <3>1 DEF PendingTablesAgree
  <2> QED BY <2>5, <2>6, <2>7 DEF PendingTablesAgree
<1>4. CASE UNCHANGED completed
  <2>1. CASE UNCHANGED touches
    BY <1>4, <2>1 DEF touches, PendingTablesAgree
  <2>2. CASE UNCHANGED minted /\ \E S : RemovePending(S)
    BY <1>1, <1>4, <2>2
  <2> QED BY <1>3, <2>1, <2>2, TouchSteps
<1>5. ASSUME NEW b \in Balls, NEW h \in Holes, NEW e \in Tokens, NEW d \in Balls,
             NEW motion \in BOOLEAN, Refreshed(b, h, e, d, motion)
      PROVE  UNCHANGED completed
  BY <1>5 DEF Refreshed
<1> QED BY <1>2, <1>4, <1>5, LeaseSteps DEF leases, Release

-----------------------------------------------------------------------------
(* The life of a lease.                                                    *)

(* A refresh moves a lease's last contact to the present and its last      *)
(* motion there or nowhere, and time does not run backwards.               *)
LEMMA WindowKept ==
    ASSUME [Next]_vars, IInv, LeaseWindow
    PROVE  LeaseWindow'
<1>0. /\ TypeOK /\ LeaseTablesAgree
      /\ activeByHole \in [Holes -> HoleActivationLease \cup {None}]
      /\ now \in Nat /\ now' \in Nat /\ now <= now'
      /\ MaximumActivation \in Nat
  BY ClockAndHistory, TimingAssumption, BoundsAssumption DEF IInv, TypeOK, Time
<1>1. \A l \in HoleActivationLease :
        l.activated \in Nat /\ l.lastMotion \in Nat /\ l.lastContact \in Nat
  BY DEF HoleActivationLease
<1>2. ASSUME \A h \in Holes : activeByHole'[h] # None => activeByHole'[h] = activeByHole[h]
      PROVE  LeaseWindow'
  <2>1. ASSUME NEW h \in Holes, activeByHole'[h] # None
        PROVE  activeByHole'[h].lastContact <= now'
    <3>1. /\ activeByHole'[h] = activeByHole[h] /\ activeByHole[h] \in HoleActivationLease
          /\ activeByHole[h].lastContact <= now
      BY <1>0, <1>2, <2>1 DEF LeaseWindow
    <3> QED BY <1>0, <1>1, <3>1
  <2> QED BY <1>2, <2>1 DEF LeaseWindow
<1>3. CASE UNCHANGED leases
  BY <1>2, <1>3 DEF leases
<1>4. CASE \E S : Release(S) /\ UNCHANGED registry
  BY <1>2, <1>4 DEF Release
<1>5. ASSUME NEW l \in HoleActivationLease, NEW h \in Holes,
             activeByHole' = [activeByHole EXCEPT ![h] = l], UNCHANGED now,
             /\ l.hardExpires = l.activated + MaximumActivation
             /\ l.activated <= l.lastMotion
             /\ l.lastMotion <= l.lastContact
             /\ l.lastContact <= now
      PROVE  LeaseWindow'
  BY <1>0, <1>5 DEF LeaseWindow
<1>6. CASE \E b \in Balls, h \in Holes, e \in Tokens, d \in Balls, motion \in BOOLEAN :
             Refreshed(b, h, e, d, motion)
  <2>1. PICK b \in Balls, h \in Holes, e \in Tokens, d \in Balls, motion \in BOOLEAN :
          Refreshed(b, h, e, d, motion)
    BY <1>6
  <2>2. PICK l \in HoleActivationLease :
          /\ activeByBall[b] # None /\ activeByHole[h] = activeByBall[b]
          /\ SameTurn(l, activeByHole[h])
          /\ l.lastContact = now
          /\ l.lastMotion \in {now, activeByHole[h].lastMotion}
          /\ activeByHole' = [activeByHole EXCEPT ![h] = l]
          /\ UNCHANGED now
    BY <1>0, <2>1, RefreshedEffect
  <2>3. /\ activeByHole[h].hardExpires = activeByHole[h].activated + MaximumActivation
        /\ activeByHole[h].activated <= activeByHole[h].lastMotion
        /\ activeByHole[h].lastMotion <= activeByHole[h].lastContact
        /\ activeByHole[h].lastContact <= now
        /\ activeByHole[h] \in HoleActivationLease
    BY <1>0, <2>2 DEF LeaseWindow
  <2>4. /\ l.hardExpires = l.activated + MaximumActivation
        /\ l.activated = activeByHole[h].activated
    BY <2>2, <2>3 DEF SameTurn
  <2>5. l.activated <= l.lastMotion /\ l.lastMotion <= l.lastContact /\ l.lastContact <= now
    BY <1>0, <1>1, <2>2, <2>3, <2>4
  <2> QED BY <1>5, <2>2, <2>4, <2>5
<1>7. CASE \E t \in Tokens, d \in Balls : AuthorizeGranted(t, d)
  <2>1. PICK t \in Tokens, d \in Balls : AuthorizeGranted(t, d)
    BY <1>7
  <2>2. PICK l \in HoleActivationLease :
          /\ l.hole \in Holes
          /\ l.activated = now /\ l.lastMotion = now /\ l.lastContact = now
          /\ l.hardExpires = now + MaximumActivation
          /\ activeByHole' = [activeByHole EXCEPT ![l.hole] = l]
          /\ UNCHANGED now
    BY <1>0, <2>1, GrantedEffect
  <2> QED BY <1>0, <1>5, <2>2
<1> QED BY <1>3, <1>4, <1>6, <1>7, LeaseSteps

(* While a hole stays held, a step only refreshes the turn that holds it.  *)
LEMMA TurnStep ==
    ASSUME [Next]_vars, IInv, LeaseWindow,
           NEW h \in Holes, activeByHole[h] # None, activeByHole'[h] # None
    PROVE  /\ SameTurn(activeByHole[h], activeByHole'[h])
           /\ activeByHole[h].lastMotion <= activeByHole'[h].lastMotion
           /\ activeByHole[h].lastContact <= activeByHole'[h].lastContact
<1>0. /\ TypeOK /\ LeaseTablesAgree
      /\ activeByHole \in [Holes -> HoleActivationLease \cup {None}]
      /\ now \in Nat
  BY BoundsAssumption DEF IInv, TypeOK, Time
<1>1. /\ activeByHole[h].lastMotion \in Nat /\ activeByHole[h].lastContact \in Nat
      /\ activeByHole[h].lastMotion <= activeByHole[h].lastContact
      /\ activeByHole[h].lastContact <= now
  <2>1. activeByHole[h] \in HoleActivationLease
    BY <1>0
  <2> QED BY <2>1 DEF HoleActivationLease, LeaseWindow
<1>2. CASE activeByHole'[h] = activeByHole[h]
  BY <1>1, <1>2 DEF SameTurn
<1>3. CASE \E b \in Balls, g \in Holes, e \in Tokens, d \in Balls, motion \in BOOLEAN :
             Refreshed(b, g, e, d, motion)
  <2>1. PICK b \in Balls, g \in Holes, e \in Tokens, d \in Balls, motion \in BOOLEAN :
          Refreshed(b, g, e, d, motion)
    BY <1>3
  <2>2. PICK l \in HoleActivationLease :
          /\ SameTurn(l, activeByHole[g])
          /\ l.lastContact = now
          /\ l.lastMotion \in {now, activeByHole[g].lastMotion}
          /\ activeByHole' = [activeByHole EXCEPT ![g] = l]
    BY <1>0, <2>1, RefreshedEffect
  <2>3. CASE g = h
    <3>1. activeByHole'[h] = l
      BY <1>0, <2>2, <2>3
    <3>2. activeByHole[h].lastMotion <= l.lastMotion /\ activeByHole[h].lastContact <= l.lastContact
      BY <1>0, <1>1, <2>2, <2>3
    <3> QED BY <2>2, <2>3, <3>1, <3>2 DEF SameTurn
  <2> QED BY <1>0, <1>2, <2>2, <2>3
<1>4. CASE \E t \in Tokens, d \in Balls : AuthorizeGranted(t, d)
  <2>1. PICK t \in Tokens, d \in Balls : AuthorizeGranted(t, d)
    BY <1>4
  <2>2. PICK l \in HoleActivationLease :
          /\ activeByHole[l.hole] = None
          /\ activeByHole' = [activeByHole EXCEPT ![l.hole] = l]
    BY <1>0, <2>1, GrantedEffect
  <2> QED BY <1>0, <1>2, <2>2
<1> QED BY <1>2, <1>3, <1>4, LeaseSteps DEF leases, Release

-----------------------------------------------------------------------------
(* Power.                                                                  *)

Awake == {"active", "active_idle"}

(* An answer to one Ball leaves the others as they were.                   *)
LEMMA ToldOne ==
    ASSUME TypeOK, AwakeOnlyWithLease, NEW b \in Balls, NEW directive, Tell(b, directive),
           \A c \in Balls : c # b => activeByBall'[c] = activeByBall[c],
           directive \notin Awake \/ activeByBall'[b] # None
    PROVE  AwakeOnlyWithLease'
<1>1. \A c \in Balls : told'[c] = IF c = b THEN directive ELSE told[c]
  BY DEF Tell, TypeOK
<1> QED BY <1>1 DEF AwakeOnlyWithLease, Awake

(* A lease that ends orders its Ball into System OFF in the same step, and *)
(* no Ball without a lease is ever told to wake.                           *)
LEMMA AwakeKept ==
    ASSUME [Next]_vars, IInv, AwakeOnlyWithLease
    PROVE  AwakeOnlyWithLease'
<1>0. /\ TypeOK /\ LeaseTablesAgree
      /\ activeByHole \in [Holes -> HoleActivationLease \cup {None}]
      /\ activeByBall \in [Balls -> HoleActivationLease \cup {None}]
      /\ told \in [Balls -> Directives]
      /\ \A l \in HoleActivationLease : l.hole \in Holes /\ l.ball \in Balls /\ l # None
  BY NoneAssumption DEF IInv, TypeOK, HoleActivationLease
<1>1. "system_off" \notin Awake /\ "activation_pending" \notin Awake
  BY DEF Awake
<1>2. ASSUME NEW b \in Balls, Rejected(b)
      PROVE  AwakeOnlyWithLease'
  BY <1>0, <1>1, <1>2, ToldOne DEF Rejected, leases
<1>3. ASSUME UNCHANGED <<told, activeByBall>>
      PROVE  AwakeOnlyWithLease'
  BY <1>3 DEF AwakeOnlyWithLease
<1>4. ASSUME NEW h \in Holes, NEW b \in Balls, Touch(h, b)
      PROVE  AwakeOnlyWithLease'
  <2>1. CASE TouchRejected(h, b)
    BY <1>2, <2>1 DEF TouchRejected
  <2>2. CASE TouchWhileActive(h, b)
    <3>1. activeByBall[b] # None /\ UNCHANGED activeByBall
      BY <1>0, <2>2 DEF TouchWhileActive, LeaseTablesAgree, leases
    <3>2. Tell(b, LeaseDirective(activeByBall[b]))
      BY <2>2 DEF TouchWhileActive
    <3> QED BY <1>0, <3>1, <3>2, ToldOne
  <2>3. CASE TouchWhilePending(h, b)
    BY <1>0, <1>1, <2>3, ToldOne DEF TouchWhilePending, leases
  <2>4. CASE TouchAdmitted(h, b)
    BY <1>0, <1>1, <2>4, ToldOne DEF TouchAdmitted, leases
  <2> QED BY <1>4, <2>1, <2>2, <2>3, <2>4 DEF Touch
<1>5. ASSUME NEW t \in Tokens, NEW d \in Balls, Authorize(t, d)
      PROVE  AwakeOnlyWithLease'
  <2>1. CASE AuthorizeRepeated(t)
    <3>1. completed[t] # None /\ completed[t].ball \in Balls
      BY <1>0, <2>1 DEF AuthorizeRepeated, TypeOK
    <3>2. activeByBall[completed[t].ball] # None /\ UNCHANGED activeByBall
      BY <2>1, <3>1 DEF AuthorizeRepeated, leases
    <3>3. Tell(completed[t].ball, LeaseDirective(completed[t]))
      BY <2>1 DEF AuthorizeRepeated
    <3> QED BY <1>0, <3>1, <3>2, <3>3, ToldOne
  <2>2. CASE \E verified \in BOOLEAN : AuthorizeRejected(t, d, verified)
    BY <1>2, <2>2 DEF AuthorizeRejected
  <2>3. CASE \E verified \in BOOLEAN : AuthorizeDropped(t, d, verified)
    BY <1>0, <1>1, <2>3, ToldOne DEF AuthorizeDropped, leases
  <2>4. CASE AuthorizeGranted(t, d)
    <3>1. /\ pending[t].ball \in Balls /\ Tell(pending[t].ball, "active")
          /\ activeByBall' = [activeByBall EXCEPT ![pending[t].ball] = NewLease(pending[t], now)]
      BY <2>4 DEF AuthorizeGranted, TypeOK, IInv, PendingActivation
    <3>2. NewLease(pending[t], now) \in HoleActivationLease
      BY <1>0, <2>4, NewLeaseType, BoundsAssumption DEF AuthorizeGranted, TypeOK, Time
    <3>3. /\ activeByBall'[pending[t].ball] # None
          /\ \A c \in Balls : c # pending[t].ball => activeByBall'[c] = activeByBall[c]
      BY <1>0, <3>1, <3>2
    <3> QED BY <1>0, <3>1, <3>3, ToldOne
  <2> QED BY <1>5, <2>1, <2>2, <2>3, <2>4 DEF Authorize
<1>6. ASSUME NEW b \in Balls, activeByBall[b] # None, Release({activeByBall[b]}),
             Tell(b, "system_off")
      PROVE  AwakeOnlyWithLease'
  <2>1. \A c \in Balls : activeByBall'[c] =
          IF activeByBall[c] = activeByBall[b] THEN None ELSE activeByBall[c]
    BY <1>6 DEF Release
  <2>2. \A c \in Balls : c # b => activeByBall'[c] = activeByBall[c]
    BY <1>0, <1>6, <2>1 DEF LeaseTablesAgree
  <2> QED BY <1>0, <1>1, <1>6, <2>2, ToldOne
<1>7. ASSUME NEW b \in Balls, NEW h \in Holes, NEW e \in Tokens, Command(b, h, e)
      PROVE  AwakeOnlyWithLease'
  <2>1. ASSUME NEW d \in Balls, NEW verified \in BOOLEAN, CommandRejected(b, h, e, d, verified)
        PROVE  AwakeOnlyWithLease'
    BY <1>2, <2>1 DEF CommandRejected
  <2>2. ASSUME NEW d \in Balls, NEW motion \in BOOLEAN, Refreshed(b, h, e, d, motion)
        PROVE  AwakeOnlyWithLease'
    <3>1. PICK l \in HoleActivationLease : activeByBall' = [activeByBall EXCEPT ![b] = l]
      BY <1>0, <2>2, RefreshedEffect
    <3>2. PICK directive : Tell(b, directive)
      BY <2>2 DEF Refreshed
    <3> QED BY <1>0, <3>1, <3>2, ToldOne
  <2>3. ASSUME NEW d \in Balls, Ended(b, h, e, d)
        PROVE  AwakeOnlyWithLease'
    BY <1>6, <2>3 DEF Ended, Matches
  <2>4. ASSUME NEW s \in Sessions, SemanticallyEnded(b, h, e, s)
        PROVE  AwakeOnlyWithLease'
    BY <1>6, <2>4 DEF SemanticallyEnded, Matches
  <2>5. ASSUME NEW s \in Sessions, NEW allowed \in BOOLEAN,
               SemanticEndRejected(b, h, e, s, allowed)
        PROVE  AwakeOnlyWithLease'
    BY <1>2, <2>5 DEF SemanticEndRejected
  <2> QED BY <1>7, <2>1, <2>2, <2>3, <2>4, <2>5 DEF Command
<1>8. CASE Sweep
  <2> DEFINE expiredTokens == {t \in Tokens : pending[t] # None /\ Expired(pending[t])}
             overdue == {activeByHole[h] : h \in {g \in Holes :
                             activeByHole[g] # None /\ Overdue(activeByHole[g])}}
  <2>1. /\ Release(overdue)
        /\ told' = [b \in Balls |-> IF b \in Silenced(expiredTokens, overdue)
                                   THEN "system_off" ELSE told[b]]
    BY <1>8 DEF Sweep
  <2> HIDE DEF expiredTokens, overdue
  <2>2. ASSUME NEW b \in Balls, told'[b] \in Awake
        PROVE  activeByBall'[b] # None
    <3>1. told[b] \in Awake /\ b \notin Silenced(expiredTokens, overdue)
      BY <1>1, <2>1, <2>2
    <3>2. activeByBall[b] # None /\ activeByBall[b].ball = b
      BY <1>0, <3>1 DEF AwakeOnlyWithLease, Awake, LeaseTablesAgree
    <3>3. activeByBall[b] \notin overdue
      BY <3>1, <3>2 DEF Silenced
    <3> QED BY <2>1, <3>2, <3>3 DEF Release
  <2> QED BY <2>2 DEF AwakeOnlyWithLease, Awake
<1>9. CASE UNCHANGED vars
  BY <1>3, <1>9 DEF vars, leases
<1>10. CASE \E s \in Sessions, B \in SUBSET Balls : RegisterSession(s, B)
  BY <1>3, <1>10 DEF RegisterSession, leases
<1>11. CASE \E h \in Holes, B \in SUBSET Balls : AllowBalls(h, B)
  BY <1>3, <1>11 DEF AllowBalls, leases
<1>12. CASE Tick
  BY <1>3, <1>12 DEF Tick, leases
<1> QED BY <1>4, <1>5, <1>7, <1>8, <1>9, <1>10, <1>11, <1>12 DEF Next

-----------------------------------------------------------------------------

(* A request, a lease and a waking Ball never outlive one another: the     *)
(* pending tables stay one table, a lease keeps to its window, and a Ball  *)
(* that was told to wake holds a lease.                                    *)
THEOREM NothingLeft == Spec => []NothingIsLeftBehind
<1>1. Init => NothingIsLeftBehind
  BY DEF Init, NothingIsLeftBehind, PendingTablesAgree, LeaseWindow, AwakeOnlyWithLease
<1>2. ASSUME [Next]_vars, IInv, NothingIsLeftBehind
      PROVE  NothingIsLeftBehind'
  BY <1>2, RequestsKept, WindowKept, AwakeKept DEF NothingIsLeftBehind
<1> QED BY <1>1, <1>2, Invariance, PTL DEF Spec

(* A held hole never passes from one turn to another without being free in *)
(* between, and the timestamps of a turn only move forward.                *)
THEOREM TurnsNotSwapped == Spec => TurnNeverSwapped
<1> DEFINE Kept == \A h \in Holes : activeByHole[h] # None /\ activeByHole'[h] # None =>
                     /\ SameTurn(activeByHole[h], activeByHole'[h])
                     /\ activeByHole[h].lastMotion <= activeByHole'[h].lastMotion
                     /\ activeByHole[h].lastContact <= activeByHole'[h].lastContact
<1>1. ASSUME [Next]_vars, IInv, NothingIsLeftBehind
      PROVE  Kept
  BY <1>1, TurnStep DEF NothingIsLeftBehind
<1>2. TurnNeverSwapped <=> [][Kept]_vars
  BY DEF TurnNeverSwapped
<1> QED BY <1>1, <1>2, NothingLeft, Invariance, PTL DEF Spec

=============================================================================
