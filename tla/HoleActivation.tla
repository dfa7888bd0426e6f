--------------------------- MODULE HoleActivation ---------------------------
(***************************************************************************)
(* HoleActivationAuthority, the fail-closed policy that decides which Ball *)
(* is awake on which hole: src/src/putttrack/venue/activation.py.          *)
(*                                                                         *)
(* A fixed installation maps one reader to each hole and one device to     *)
(* each Ball, so readers are named by their hole and devices by their      *)
(* Ball; unknown readers and devices are rejected without a trace.  Every  *)
(* call passes the venue's current time, a number of abstract ticks.  An   *)
(* authorization is the verdict of an external credential verifier: the    *)
(* Ball it is for and whether the credential was verified.                 *)
(*                                                                         *)
(* A call that raises changes nothing.  A call that is decided answers     *)
(* with a power directive for the Ball it concerns; `told' keeps the last  *)
(* one each Ball was given.  It is history: no handler reads it.           *)
(***************************************************************************)
EXTENDS Integers, FiniteSets

CONSTANTS
    Balls,          \* registered Balls, one device each
    Holes,          \* holes with an activation reader
    EnabledHoles,   \* those whose ReaderBinding is enabled
    Sessions,       \* session ids
    None,           \* an absent dictionary entry
    PendingTimeout, ActiveIdleAfter, AuthorityOffline,
    InactiveOff, MaximumActivation,     \* ActivationTiming
    MaxTokens,      \* bound: activation tokens minted
    MaxTime         \* bound: the venue clock

ASSUME EnabledAssumption == EnabledHoles \subseteq Holes
ASSUME TimingAssumption ==
    /\ PendingTimeout \in Nat \ {0} /\ ActiveIdleAfter \in Nat \ {0}
    /\ AuthorityOffline \in Nat \ {0} /\ InactiveOff \in Nat \ {0}
    /\ MaximumActivation \in Nat \ {0}
    /\ MaximumActivation > ActiveIdleAfter
ASSUME BoundsAssumption == MaxTokens \in Nat /\ MaxTime \in Nat

VARIABLES
    ballSession,    \* _ball_session (and, read backwards, _session_balls)
    eligible,       \* _eligible_by_hole; {} where the hole has no entry
    pending,        \* _pending_by_token
    pendingToken,   \* _pending_token_by_ball
    activeByHole,   \* _active_by_hole
    activeByBall,   \* _active_by_ball
    epochs,         \* _epoch_by_hole, 0 where the hole has no entry
    completed,      \* _completed_tokens
    minted,         \* how many tokens the factory has returned
    now,            \* the time the next call will pass as now_ms
    told            \* history

registry == <<ballSession, eligible>>
touches == <<pending, pendingToken, minted>>
leases == <<activeByHole, activeByBall, epochs, completed>>
vars == <<registry, touches, leases, now, told>>

Tokens == 1 .. MaxTokens
Time == 0 .. MaxTime

Directives == {"system_off", "activation_pending", "active", "active_idle"}

PendingActivation ==
    [hole : Holes, session : Sessions, ball : Balls, expires : Nat]

HoleActivationLease ==
    [session : Sessions, hole : Holes, ball : Balls, epoch : Nat \ {0},
     activated : Nat, hardExpires : Nat, lastMotion : Nat, lastContact : Nat]

ASSUME NoneAssumption ==
    /\ None \notin Balls \cup Holes \cup Sessions
    /\ None \notin PendingActivation
    /\ None \notin HoleActivationLease

Init ==
    /\ ballSession = [b \in Balls |-> None]
    /\ eligible = [h \in Holes |-> {}]
    /\ pending = [t \in Tokens |-> None]
    /\ pendingToken = [b \in Balls |-> None]
    /\ activeByHole = [h \in Holes |-> None]
    /\ activeByBall = [b \in Balls |-> None]
    /\ epochs = [h \in Holes |-> 0]
    /\ completed = [t \in Tokens |-> None]
    /\ minted = 0
    /\ now = 0
    /\ told = [b \in Balls |-> "system_off"]

-----------------------------------------------------------------------------
(* Helpers.                                                                *)

(* power_directive for a Ball that holds this lease now.                   *)
LeaseDirective(lease) ==
    IF now - lease.lastMotion >= ActiveIdleAfter THEN "active_idle" ELSE "active"

Tell(b, directive) == told' = [told EXCEPT ![b] = directive]

(* _rejected: whatever the Ball was doing, the answer is System OFF.       *)
Rejected(b) ==
    /\ Tell(b, "system_off")
    /\ UNCHANGED <<registry, touches, leases, now>>

(* _remove_pending over a set of tokens: a Ball's index entry goes only    *)
(* with the token it names.                                                *)
RemovePending(S) ==
    /\ pending' = [t \in Tokens |-> IF t \in S THEN None ELSE pending[t]]
    /\ pendingToken' = [b \in Balls |->
          IF \E t \in S : pending[t] # None /\ pending[t].ball = b /\ pendingToken[b] = t
          THEN None ELSE pendingToken[b]]

(* Fault: the hole is freed, the lease of the Ball stays.                  *)
ReleaseHoles(S) ==
    /\ activeByHole' = [h \in Holes |-> IF activeByHole[h] \in S THEN None ELSE activeByHole[h]]
    /\ UNCHANGED <<activeByBall, epochs, completed>>

(* _release over a set of leases: an entry goes only if it still is that   *)
(* lease, field for field.                                                 *)
Release(S) ==
    /\ activeByHole' = [h \in Holes |-> IF activeByHole[h] \in S THEN None ELSE activeByHole[h]]
    /\ activeByBall' = [b \in Balls |-> IF activeByBall[b] \in S THEN None ELSE activeByBall[b]]
    /\ UNCHANGED <<epochs, completed>>

(* _matching_lease: the Ball's own lease, if it is for this hole and epoch.*)
Matches(b, h, e) ==
    /\ activeByBall[b] # None
    /\ activeByBall[b].hole = h
    /\ activeByBall[b].epoch = e

-----------------------------------------------------------------------------
(* Assignments and eligibility.                                            *)

(* register_session; registering the same Balls again changes nothing, and *)
(* a different set, or a Ball of another session, raises.                  *)
RegisterSession(s, B) ==
    /\ B # {}
    /\ \A b \in Balls : ballSession[b] # s
    /\ \A b \in B : ballSession[b] = None
    /\ ballSession' = [b \in Balls |-> IF b \in B THEN s ELSE ballSession[b]]
    /\ UNCHANGED <<eligible, touches, leases, now, told>>

(* Fault: Balls of no session are published.                               *)
AllowUnassignedBalls(h, B) ==
    /\ B # {}
    /\ activeByHole[h] # None => activeByHole[h].ball \in B
    /\ eligible' = [eligible EXCEPT ![h] = B]
    /\ UNCHANGED <<ballSession, touches, leases, now, told>>

(* Fault: the Ball that holds the hole may be left out.                    *)
AllowBallsMidTurn(h, B) ==
    /\ B # {}
    /\ \A b \in B : ballSession[b] # None
    /\ eligible' = [eligible EXCEPT ![h] = B]
    /\ UNCHANGED <<ballSession, touches, leases, now, told>>

(* allow_active_balls; allow_balls and expect_ball are the case of Balls   *)
(* of one session.                                                         *)
AllowBalls(h, B) ==
    /\ B # {}
    /\ \A b \in B : ballSession[b] # None
    /\ activeByHole[h] # None => activeByHole[h].ball \in B
    /\ eligible' = [eligible EXCEPT ![h] = B]
    /\ UNCHANGED <<ballSession, touches, leases, now, told>>

-----------------------------------------------------------------------------
(* observe_nfc_touch.                                                      *)

Admissible(h, b) ==
    /\ h \in EnabledHoles
    /\ b \in eligible[h]

TouchRejected(h, b) ==
    /\ \/ ~Admissible(h, b)
       \/ /\ activeByHole[h] # None
          /\ ~(activeByHole[h].ball = b /\ activeByHole[h].session = ballSession[b])
       \/ activeByHole[h] = None /\ activeByBall[b] # None
    /\ Rejected(b)

TouchWhileActive(h, b) ==
    /\ Admissible(h, b)
    /\ activeByHole[h] # None
    /\ activeByHole[h].ball = b
    /\ activeByHole[h].session = ballSession[b]
    /\ Tell(b, LeaseDirective(activeByBall[b]))
    /\ UNCHANGED <<registry, touches, leases, now>>

Unclaimed(h, b) ==
    /\ Admissible(h, b)
    /\ activeByHole[h] = None
    /\ activeByBall[b] = None

StillPending(b) ==
    /\ pendingToken[b] # None
    /\ pending[pendingToken[b]] # None
    /\ now < pending[pendingToken[b]].expires

(* An unexpired request answers the touch, whichever reader saw it.        *)
TouchWhilePending(h, b) ==
    /\ Unclaimed(h, b)
    /\ StillPending(b)
    /\ Tell(b, "activation_pending")
    /\ UNCHANGED <<registry, touches, leases, now>>

(* A new request replaces an expired one of the same Ball.                 *)
TouchAdmitted(h, b) ==
    /\ Unclaimed(h, b)
    /\ ~StillPending(b)
    /\ minted < MaxTokens
    /\ minted' = minted + 1
    /\ pending' = [t \in Tokens |->
          IF t = minted + 1
          THEN [hole |-> h, session |-> ballSession[b], ball |-> b,
                expires |-> now + PendingTimeout]
          ELSE IF t = pendingToken[b] THEN None ELSE pending[t]]
    /\ pendingToken' = [pendingToken EXCEPT ![b] = minted + 1]
    /\ Tell(b, "activation_pending")
    /\ UNCHANGED <<registry, leases, now>>

-----------------------------------------------------------------------------
(* authorize_activation(token, authorization for Ball d).                  *)

(* The answer to a retry of an authorization that was already granted.     *)
AuthorizeRepeated(t) ==
    /\ completed[t] # None
    /\ activeByBall[completed[t].ball] = completed[t]
    /\ Tell(completed[t].ball, LeaseDirective(completed[t]))
    /\ UNCHANGED <<registry, touches, leases, now>>

EligibleTurn(request) ==
    /\ request.ball \in eligible[request.hole]
    /\ ballSession[request.ball] = request.session

Expired(request) == now >= request.expires

(* Fault: only the Ball is looked up, so a held hole can be granted again. *)
BallVacant(request) == activeByBall[request.ball] = None

(* Neither the hole nor the Ball of a request has a lease.                 *)
Vacant(request) ==
    /\ activeByHole[request.hole] = None
    /\ activeByBall[request.ball] = None

(* Fault: the first epoch of a hole is never followed by another.          *)
StuckEpoch(h) == IF epochs[h] = 0 THEN 1 ELSE epochs[h]

NextEpoch(h) == epochs[h] + 1

NewLease(request, time) ==
    [session |-> request.session, hole |-> request.hole, ball |-> request.ball,
     epoch |-> NextEpoch(request.hole),
     activated |-> time, hardExpires |-> time + MaximumActivation,
     lastMotion |-> time, lastContact |-> time]

(* Consumed, unknown, unverified or mismatched: the request stays.         *)
AuthorizeRejected(t, d, verified) ==
    /\ \/ completed[t] # None /\ activeByBall[completed[t].ball] # completed[t]
       \/ completed[t] = None /\ pending[t] = None
       \/ /\ completed[t] = None /\ pending[t] # None
          /\ ~Expired(pending[t])
          /\ \/ ~verified
             \/ d # pending[t].ball
             \/ EligibleTurn(pending[t]) /\ ~Vacant(pending[t])
    /\ Rejected(d)

(* Expired, or the turn it was for has changed: the request goes.          *)
AuthorizeDropped(t, d, verified) ==
    /\ completed[t] = None
    /\ pending[t] # None
    /\ \/ Expired(pending[t])
       \/ verified /\ d = pending[t].ball /\ ~EligibleTurn(pending[t])
    /\ RemovePending({t})
    /\ Tell(d, "system_off")
    /\ UNCHANGED <<registry, minted, leases, now>>

AuthorizeGranted(t, d) ==
    LET request == pending[t]
        lease == NewLease(request, now)
    IN  /\ completed[t] = None
        /\ request # None
        /\ ~Expired(request)
        /\ d = request.ball
        /\ EligibleTurn(request)
        /\ Vacant(request)
        /\ epochs' = [epochs EXCEPT ![request.hole] = NextEpoch(request.hole)]
        /\ activeByHole' = [activeByHole EXCEPT ![request.hole] = lease]
        /\ activeByBall' = [activeByBall EXCEPT ![request.ball] = lease]
        /\ completed' = [completed EXCEPT ![t] = lease]
        /\ RemovePending({t})
        /\ Tell(request.ball, "active")
        /\ UNCHANGED <<registry, minted, now>>

-----------------------------------------------------------------------------
(* Commands that name a lease by Ball, hole and epoch.                     *)

(* _authorization_error is None.                                           *)
Authorized(lease, d, verified) == verified /\ d = lease.ball

(* heartbeat, note_motion, end_activation: stale or unauthorized.          *)
CommandRejected(b, h, e, d, verified) ==
    /\ ~(Matches(b, h, e) /\ Authorized(activeByBall[b], d, verified))
    /\ Rejected(d)

Touched(lease, motion, time) ==
    [lease EXCEPT !.lastMotion = IF motion THEN time ELSE @,
                  !.lastContact = time]

(* _refresh_lease; motion is the difference between note_motion and        *)
(* heartbeat.                                                              *)
Refreshed(b, h, e, d, motion) ==
    /\ Matches(b, h, e)
    /\ Authorized(activeByBall[b], d, TRUE)
    /\ LET lease == Touched(activeByBall[b], motion, now)
       IN  /\ activeByHole' = [activeByHole EXCEPT ![h] = lease]
           /\ activeByBall' = [activeByBall EXCEPT ![b] = lease]
           /\ Tell(b, LeaseDirective(lease))
    /\ UNCHANGED <<registry, touches, epochs, completed, now>>

Ended(b, h, e, d) ==
    /\ Matches(b, h, e)
    /\ Authorized(activeByBall[b], d, TRUE)
    /\ Release({activeByBall[b]})
    /\ Tell(b, "system_off")
    /\ UNCHANGED <<registry, touches, now>>

(* end_from_authoritative_event: an allowed semantic event of the Edge.    *)
SemanticallyEnded(b, h, e, s) ==
    /\ Matches(b, h, e)
    /\ activeByBall[b].session = s
    /\ Release({activeByBall[b]})
    /\ Tell(b, "system_off")
    /\ UNCHANGED <<registry, touches, now>>

(* Another event type, or one that does not match the live lease.          *)
SemanticEndRejected(b, h, e, s, allowed) ==
    /\ ~(allowed /\ Matches(b, h, e) /\ activeByBall[b].session = s)
    /\ Rejected(b)

-----------------------------------------------------------------------------
(* Time.                                                                   *)

Overdue(lease) ==
    \/ now >= lease.hardExpires
    \/ /\ now - lease.lastMotion >= InactiveOff
       /\ now - lease.lastContact >= AuthorityOffline

(* Fault: a swept lease is released without a directive.                   *)
SilencedRequests(tokens, overdue) == {pending[t].ball : t \in tokens}

(* The Balls a sweep orders into System OFF.                               *)
Silenced(tokens, overdue) ==
    {pending[t].ball : t \in tokens} \cup {lease.ball : lease \in overdue}

Sweep ==
    LET expiredTokens == {t \in Tokens : pending[t] # None /\ Expired(pending[t])}
        overdue == {activeByHole[h] : h \in {g \in Holes :
                        activeByHole[g] # None /\ Overdue(activeByHole[g])}}
    IN  /\ RemovePending(expiredTokens)
        /\ Release(overdue)
        /\ told' = [b \in Balls |-> IF b \in Silenced(expiredTokens, overdue)
                                   THEN "system_off" ELSE told[b]]
        /\ UNCHANGED <<registry, minted, now>>

Tick ==
    /\ now < MaxTime
    /\ now' = now + 1
    /\ UNCHANGED <<registry, touches, leases, told>>

-----------------------------------------------------------------------------

Touch(h, b) ==
    \/ TouchRejected(h, b)
    \/ TouchWhileActive(h, b)
    \/ TouchWhilePending(h, b)
    \/ TouchAdmitted(h, b)

Authorize(t, d) ==
    \/ AuthorizeRepeated(t)
    \/ \E verified \in BOOLEAN : AuthorizeRejected(t, d, verified)
    \/ \E verified \in BOOLEAN : AuthorizeDropped(t, d, verified)
    \/ AuthorizeGranted(t, d)

Command(b, h, e) ==
    \/ \E d \in Balls, verified \in BOOLEAN : CommandRejected(b, h, e, d, verified)
    \/ \E d \in Balls, motion \in BOOLEAN : Refreshed(b, h, e, d, motion)
    \/ \E d \in Balls : Ended(b, h, e, d)
    \/ \E s \in Sessions : SemanticallyEnded(b, h, e, s)
    \/ \E s \in Sessions, allowed \in BOOLEAN : SemanticEndRejected(b, h, e, s, allowed)

Next ==
    \/ \E s \in Sessions, B \in SUBSET Balls : RegisterSession(s, B)
    \/ \E h \in Holes, B \in SUBSET Balls : AllowBalls(h, B)
    \/ \E h \in Holes, b \in Balls : Touch(h, b)
    \/ \E t \in Tokens, d \in Balls : Authorize(t, d)
    \/ \E b \in Balls, h \in Holes, e \in Tokens : Command(b, h, e)
    \/ Sweep
    \/ Tick

Spec == Init /\ [][Next]_vars

-----------------------------------------------------------------------------
(* Properties.                                                             *)

(* Every table holds what its dictionary may hold.                         *)
TypeOK ==
    /\ ballSession \in [Balls -> Sessions \cup {None}]
    /\ eligible \in [Holes -> SUBSET Balls]
    /\ pending \in [Tokens -> PendingActivation \cup {None}]
    /\ pendingToken \in [Balls -> Tokens \cup {None}]
    /\ activeByHole \in [Holes -> HoleActivationLease \cup {None}]
    /\ activeByBall \in [Balls -> HoleActivationLease \cup {None}]
    /\ epochs \in [Holes -> Nat]
    /\ completed \in [Tokens -> HoleActivationLease \cup {None}]
    /\ minted \in 0 .. MaxTokens
    /\ now \in Time
    /\ told \in [Balls -> Directives]

(* The two lease tables are one table seen from both sides.  They are      *)
(* written one after the other by authorize and refresh, and each entry is *)
(* removed only if it equals the released lease field for field, so a      *)
(* refresh that reached one table only would leave a hole held for ever.   *)
LeaseTablesAgree ==
    /\ \A h \in Holes : activeByHole[h] # None =>
          activeByHole[h].hole = h /\ activeByBall[activeByHole[h].ball] = activeByHole[h]
    /\ \A b \in Balls : activeByBall[b] # None =>
          activeByBall[b].ball = b /\ activeByHole[activeByBall[b].hole] = activeByBall[b]

(* A Ball has at most one outstanding request, filed under the token its   *)
(* index names, never under a token already spent, and nothing is filed    *)
(* under a token the factory has not returned.                             *)
PendingTablesAgree ==
    /\ \A t \in Tokens : pending[t] # None =>
          pendingToken[pending[t].ball] = t /\ completed[t] = None
    /\ \A b \in Balls : pendingToken[b] # None =>
          pending[pendingToken[b]] # None /\ pending[pendingToken[b]].ball = b
    /\ \A t \in Tokens : t > minted => pending[t] = None /\ completed[t] = None

(* A live lease is always for a Ball that is still assigned to the session *)
(* the lease scores for and still eligible on its hole, although           *)
(* eligibility is republished and requests age while the lease lives.      *)
LeaseIsEligible ==
    \A h \in Holes : activeByHole[h] # None =>
        /\ activeByHole[h].ball \in eligible[h]
        /\ activeByHole[h].session = ballSession[activeByHole[h].ball]

SameTurn(l, m) ==
    /\ l.session = m.session /\ l.hole = m.hole /\ l.ball = m.ball /\ l.epoch = m.epoch
    /\ l.activated = m.activated /\ l.hardExpires = m.hardExpires

(* Epochs fence turns: a live lease carries the newest epoch of its hole,  *)
(* was issued for a token of its own, and no two tokens ever bought the    *)
(* same epoch of a hole.  A replayed command can therefore be told from a  *)
(* current one (ADR-015, decision 8).                                      *)
EpochsFence ==
    /\ \A h \in Holes : activeByHole[h] # None =>
          /\ activeByHole[h].epoch = epochs[h]
          /\ \E t \in Tokens : completed[t] # None /\ SameTurn(completed[t], activeByHole[h])
    /\ \A t, u \in Tokens :
          /\ completed[t] # None => completed[t].epoch <= epochs[completed[t].hole]
          /\ (completed[t] # None /\ completed[u] # None /\ t # u
              /\ completed[t].hole = completed[u].hole)
             => completed[t].epoch # completed[u].epoch

(* A lease never outgrows its window: the hard limit stays where activation*)
(* put it whatever heartbeats arrive, and motion and contact are moments   *)
(* of the lease's own life.                                                *)
LeaseWindow ==
    \A h \in Holes : activeByHole[h] # None =>
        LET lease == activeByHole[h]
        IN  /\ lease.hardExpires = lease.activated + MaximumActivation
            /\ lease.activated <= lease.lastMotion
            /\ lease.lastMotion <= lease.lastContact
            /\ lease.lastContact <= now

(* No Ball is left awake: a Ball that was last told to be active holds a   *)
(* live lease, because every way a lease ends also orders System OFF.      *)
AwakeOnlyWithLease ==
    \A b \in Balls : told[b] \in {"active", "active_idle"} => activeByBall[b] # None

(* Requests, leases and power go together: a request leaves no entry of    *)
(* its Ball behind, a lease keeps to its window whatever refreshes it, and *)
(* a Ball that was told to wake has a lease whose end will tell it to      *)
(* sleep.  The three can only break over a chain of touches, retries,      *)
(* heartbeats and sweeps of more than one Ball.                            *)
NothingIsLeftBehind ==
    /\ PendingTablesAgree
    /\ LeaseWindow
    /\ AwakeOnlyWithLease

(* While a hole stays held, the turn that holds it is one and the same:    *)
(* only its two timestamps move, and only forward.  A hole never passes    *)
(* from one turn to another without being free in between.                 *)
TurnNeverSwapped ==
    [][\A h \in Holes : activeByHole[h] # None /\ activeByHole'[h] # None =>
          /\ SameTurn(activeByHole[h], activeByHole'[h])
          /\ activeByHole[h].lastMotion <= activeByHole'[h].lastMotion
          /\ activeByHole[h].lastContact <= activeByHole'[h].lastContact]_vars

(* The authority implements the abstract lease: readers, tokens, retries,  *)
(* credentials and expiry never let it do anything but grant a free hole   *)
(* to a free Ball under the next epoch, or free held holes.                *)
Holder == [h \in Holes |-> IF activeByHole[h] = None THEN None ELSE activeByHole[h].ball]

Lease == INSTANCE HoleLease WITH holder <- Holder, epoch <- epochs, NoBall <- None

ImplementsHoleLease == Lease!Spec

(* ADR-015, decision 6: a Ball enters System OFF after an explicit end or  *)
(* as a bounded fail-safe, so a Ball whose turn is live is never told to.  *)
LiveTurnKeepsPower ==
    \A b \in Balls : activeByBall[b] # None => told[b] # "system_off"

=============================================================================
