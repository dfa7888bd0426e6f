--------------------------- MODULE FieldCaptureProofs ---------------------------
(***************************************************************************)
(* Theorems about FieldCapture for any number of repetitions, batches and  *)
(* attempts and any number of threads.                                     *)
(*                                                                         *)
(* No lock is held from one step of a worker to the next.  What makes its  *)
(* steps safe is that the phase is owned: in a phase that lets the operator*)
(* act no thread would still write it, and in any other exactly one does   *)
(* (Owned).  So whatever the owner relies on (OwnerOK) need only survive   *)
(* the handlers that run in its phases, the capture tool, and the threads  *)
(* with a single last step left.                                           *)
(***************************************************************************)
EXTENDS FieldCapture, FiniteSetTheorems, TLAPS

Labels ==
    {"none", "research", "ready", "arm", "timeout", "popen", "register", "read", "analyze",
     "judge", "failed", "restore", "restore_complete", "auto", "auto_complete", "idle",
     "complete", "unrestored", "abort", "abort_popen", "auto_abort", "auto_abort_popen",
     "error_low", "error_high", "error_low_popen", "error_high_popen", "finally"}

Loose == {"none", "arm", "timeout", "finally"}

Busy == {"preparing", "countdown", "arming", "go_ready", "capturing", "freezing", "analyzing",
         "recovering", "restoring"}

ThreadRecord == [at : Labels, rep : Nat, try : Nat, read : Nat]

ProcRecord ==
    [lines : 0 .. 5, exit : {"none", "", "ok", "failed"}, ack : Nat \X Nat, session : Nat,
     rep : Nat]

TypeOK ==
    /\ app \in {"up", "down"} /\ phase \in Rest \cup Busy \cup {"ready"} /\ lowPower \in BOOLEAN
    /\ completed \in 0 .. Count /\ lastFailure \in Nat
    /\ shown \in Nat /\ attempt \in 0 .. MaxAttempts /\ current \in 0 .. MaxAttempts
    /\ timerOn \in BOOLEAN
    /\ thread \in [Slots -> ThreadRecord]
    /\ proc \in [Attempts -> ProcRecord]
    /\ file \in [Repetitions -> Nat] /\ counted \in [Repetitions -> 0 .. MaxAttempts]
    /\ device \in {"auto", "research"}
    /\ sessions \in Nat /\ retries \in Nat /\ posting \in Nat \X Nat

(* The phase has its owner, or waits for the operator.                     *)
Owned ==
    /\ phase \in Rest => Holders = {}
    /\ phase \notin Rest => \E t \in Slots : Holders = {t}

(* An attempt under way: its process, what it has been sent and printed.   *)
Running(p, rep, try) ==
    /\ p.exit # "none" /\ p.rep = rep
    /\ p.ack \in {NoAck, <<sessions, try>>}
    /\ p.lines > GoReady => p.ack # NoAck
    /\ p.lines > 0 => file[rep] = try
    /\ p.exit = "ok" => p.lines = 5

Attempting == {"popen", "register", "read", "analyze", "judge", "failed"}

(* What a thread may rely on where it is.                                  *)
OwnerOK(t) ==
    LET w == thread[t] IN
    /\ w.at \in {"research", "ready"} \cup Attempting => completed < Count
    /\ w.at \notin Loose \cup {"restore", "auto", "idle", "unrestored"} => ~lowPower
    /\ w.at \in {"idle", "complete", "error_low", "error_low_popen"} => device = "auto"
    /\ w.at \in Attempting =>
          w.try \in Attempts /\ w.try = attempt /\ w.try = shown /\ w.rep = completed + 1
    /\ w.at = "popen" => proc[w.try].exit = "none"
    /\ w.at \in Attempting \ {"popen"} => Running(proc[w.try], w.rep, w.try)
    /\ w.at \in {"analyze", "judge"} => proc[w.try].exit = "ok"
    /\ w.at = "failed" => proc[w.try].exit # ""

(* What handlers, processes and acknowledgements may rely on.              *)
BatchOK ==
    /\ lowPower => device = "auto" /\ phase # "ready"
    /\ lastFailure # 0 => completed < Count
    /\ phase = "ready" => completed < Count
    /\ shown <= attempt
    /\ posting # NoAck =>
          posting[2] \in 1 .. attempt /\ (posting[2] = shown => posting[1] = sessions)
    /\ \A n \in Attempts : n > attempt => proc[n].exit = "none"
    /\ \A n \in Attempts : Alive(n) =>
          \E t \in Slots : thread[t].at \in {"register", "read"} /\ thread[t].try = n
    /\ current # 0 => \E t \in Slots : thread[t].at = "read" /\ thread[t].try = current
    /\ phase = "go_ready" => \E t \in Slots : thread[t].at \in {"read", "analyze", "failed"}

UpInv == Owned /\ BatchOK /\ \A t \in Slots : OwnerOK(t)

IInv == TypeOK /\ CountedWasPerformed /\ (app = "up" => UpInv)

-----------------------------------------------------------------------------
(* Threads.                                                                *)

(* A thread that goes elsewhere keeps what it works on.                    *)
LEMMA GoesEffect ==
    ASSUME thread \in [Slots -> ThreadRecord], NEW t \in Slots, NEW x \in Labels, Goes(t, x)
    PROVE  /\ thread' \in [Slots -> ThreadRecord]
           /\ thread'[t].at = x /\ thread'[t].rep = thread[t].rep
           /\ thread'[t].try = thread[t].try /\ thread'[t].read = thread[t].read
           /\ \A u \in Slots : u # t => thread'[u] = thread[u]
<1> DEFINE w == [thread[t] EXCEPT !.at = x]
<1>1. thread[t] \in ThreadRecord
  OBVIOUS
<1>2. /\ w \in ThreadRecord /\ w.at = x
      /\ w.rep = thread[t].rep /\ w.try = thread[t].try /\ w.read = thread[t].read
  BY <1>1 DEF ThreadRecord
<1>3. thread' = [thread EXCEPT ![t] = w]
  BY DEF Goes
<1> HIDE DEF w
<1> QED BY <1>2, <1>3

(* A thread that ends leaves its slot free.                                *)
LEMMA EndsEffect ==
    ASSUME thread \in [Slots -> ThreadRecord], NEW t \in Slots, Ends(t)
    PROVE  /\ thread' \in [Slots -> ThreadRecord]
           /\ thread'[t].at = "none"
           /\ \A u \in Slots : u # t => thread'[u] = thread[u]
<1>1. NoThread \in ThreadRecord /\ NoThread.at = "none"
  BY DEF NoThread, ThreadRecord, Labels
<1> QED BY <1>1 DEF Ends

(* A new thread takes a free slot.                                         *)
LEMMA SpawnEffect ==
    ASSUME thread \in [Slots -> ThreadRecord], NEW at \in Labels, NEW rep \in Nat, NEW try \in Nat,
           Spawn(at, rep, try)
    PROVE  /\ thread' \in [Slots -> ThreadRecord]
           /\ \E t \in Slots :
                /\ thread[t].at = "none"
                /\ thread'[t].at = at /\ thread'[t].rep = rep /\ thread'[t].try = try
                /\ \A u \in Slots : u # t => thread'[u] = thread[u]
<1>1. /\ NoThread.at = "none"
      /\ Started(at, rep, try) \in ThreadRecord /\ Started(at, rep, try).at = at
      /\ Started(at, rep, try).rep = rep /\ Started(at, rep, try).try = try
  BY DEF NoThread, Started, ThreadRecord
<1>2. FreeSlot \in Slots /\ thread[FreeSlot] = NoThread
  BY DEF Spawn, HasSlot, FreeSlot
<1>3. thread' = [thread EXCEPT ![FreeSlot] = Started(at, rep, try)]
  BY DEF Spawn
<1> HIDE DEF FreeSlot
<1> QED BY <1>1, <1>2, <1>3

-----------------------------------------------------------------------------
(* Ownership.                                                              *)

(* Threads with a last step left rely on nothing.                          *)
LEMMA LooseRelyOnNothing ==
    ASSUME NEW t, thread'[t].at \in Loose
    PROVE  OwnerOK(t)'
BY DEF OwnerOK, Loose, Attempting

(* The thread that holds the phase is alone.                               *)
LEMMA HolderAlone ==
    ASSUME Owned, NEW t \in Slots, thread[t].at \notin Loose
    PROVE  phase \notin Rest /\ \A u \in Slots : u # t => thread[u].at \in Loose
BY DEF Owned, Holders, Loose

(* The holder passes the phase on to itself or gives it up.                *)
LEMMA HolderActs ==
    ASSUME Owned, NEW t \in Slots, thread[t].at \notin Loose,
           \A u \in Slots : u # t => thread'[u] = thread[u],
           thread'[t].at \in Loose <=> phase' \in Rest,
           OwnerOK(t)'
    PROVE  Owned' /\ \A u \in Slots : OwnerOK(u)'
<1>1. \A u \in Slots : u # t => thread'[u].at \in Loose
  BY HolderAlone
<1>2. \A u \in Slots : u # t => OwnerOK(u)'
  BY <1>1, LooseRelyOnNothing
<1>3. Holders' = IF thread'[t].at \in Loose THEN {} ELSE {t}
  BY <1>1 DEF Holders, Loose
<1>4. Owned'
  BY <1>3 DEF Owned
<1> QED BY <1>2, <1>4

(* A handler gives the phase it found at rest to a new thread.             *)
LEMMA HandedOver ==
    ASSUME Owned, phase \in Rest, phase' \notin Rest, NEW t \in Slots,
           \A u \in Slots : u # t => thread'[u] = thread[u],
           thread'[t].at \notin Loose, OwnerOK(t)'
    PROVE  Owned' /\ \A u \in Slots : OwnerOK(u)'
<1>1. \A u \in Slots : u # t => thread'[u].at \in Loose
  BY DEF Owned, Holders, Loose
<1>2. \A u \in Slots : u # t => OwnerOK(u)'
  BY <1>1, LooseRelyOnNothing
<1>3. Holders' = {t}
  BY <1>1 DEF Holders, Loose
<1> QED BY <1>2, <1>3 DEF Owned

(* A loose thread leaves the phase and its holder alone.                   *)
LEMMA LooseActs ==
    ASSUME Owned, \A u \in Slots : OwnerOK(u), NEW t \in Slots,
           thread[t].at \in Loose, thread'[t].at \in Loose,
           \A u \in Slots : u # t => thread'[u] = thread[u],
           UNCHANGED <<phase, completed, lowPower, device, attempt, shown, sessions, file, proc>>
    PROVE  Owned' /\ \A u \in Slots : OwnerOK(u)'
<1>1. Holders' = Holders
  BY DEF Holders, Loose
<1>2. Owned'
  BY <1>1 DEF Owned
<1>3. OwnerOK(t)'
  BY LooseRelyOnNothing
<1>4. ASSUME NEW u \in Slots, u # t
      PROVE  OwnerOK(u)'
  BY <1>4 DEF OwnerOK, Running
<1> QED BY <1>2, <1>3, <1>4

-----------------------------------------------------------------------------
(* What the invariant says to whoever acts.                                *)

(* Nothing runs for a holder but what it started.                          *)
LEMMA HolderBatch ==
    ASSUME Owned, BatchOK, NEW t \in Slots, thread[t].at \notin Loose
    PROVE  /\ \A n \in Attempts : Alive(n) =>
                 thread[t].try = n /\ thread[t].at \in {"register", "read"}
           /\ current # 0 => thread[t].try = current /\ thread[t].at = "read"
           /\ phase = "go_ready" => thread[t].at \in {"read", "analyze", "failed"}
<1>1. \A u \in Slots : thread[u].at \in {"register", "read", "analyze", "failed"} => u = t
  BY HolderAlone DEF Loose
<1> QED BY <1>1 DEF BatchOK

(* At rest nothing runs at all.                                            *)
LEMMA RestBatch ==
    ASSUME Owned, BatchOK, phase \in Rest
    PROVE  (\A n \in Attempts : ~Alive(n)) /\ current = 0
<1>1. \A u \in Slots : thread[u].at \notin {"register", "read"}
  BY DEF Owned, Holders
<1> QED BY <1>1 DEF BatchOK

(* Repetitions that count stay what they were if their files and attempts  *)
(* do.                                                                     *)
LEMMA CountedStays ==
    ASSUME TypeOK, CountedWasPerformed, UNCHANGED <<completed, counted, sessions>>,
           \A r \in Repetitions : r <= completed => file'[r] = file[r],
           \A n \in Attempts : proc[n].exit = "ok" /\ proc[n].rep <= completed
                                => proc'[n] = proc[n]
    PROVE  CountedWasPerformed'
<1>1. ASSUME NEW r \in 1 .. completed
      PROVE  r \in Repetitions /\ r <= completed /\ counted[r] \in 0 .. MaxAttempts
  BY FieldAssumption DEF TypeOK, Repetitions
<1>2. ASSUME NEW r \in 1 .. completed
      PROVE  file'[r] = file[r] /\ proc'[counted[r]] = proc[counted[r]]
  <2>1. counted[r] \in Attempts /\ proc[counted[r]].exit = "ok" /\ proc[counted[r]].rep = r
    BY <1>1, FieldAssumption DEF CountedWasPerformed, Attempts
  <2> QED BY <1>1, <2>1
<1> QED BY <1>2 DEF CountedWasPerformed

(* A running attempt is not one that counts.                               *)
LEMMA RunningIsNext ==
    ASSUME TypeOK, BatchOK, \A t \in Slots : OwnerOK(t), NEW n \in Attempts, Alive(n)
    PROVE  \E t \in Slots :
             /\ thread[t].at \in {"register", "read"} /\ thread[t].try = n
             /\ n = attempt /\ n = shown /\ thread[t].rep = completed + 1
             /\ completed < Count
             /\ Running(proc[n], completed + 1, n)
             /\ proc[n].rep = completed + 1 /\ completed + 1 \in Repetitions
<1>1. PICK t \in Slots : thread[t].at \in {"register", "read"} /\ thread[t].try = n
  BY DEF BatchOK
<1>2. /\ n = attempt /\ n = shown /\ thread[t].rep = completed + 1 /\ completed < Count
      /\ Running(proc[n], completed + 1, n)
  BY <1>1 DEF OwnerOK, Attempting
<1>3. proc[n].rep = completed + 1
  BY <1>2 DEF Running
<1>4. completed + 1 \in Repetitions
  BY <1>2, FieldAssumption DEF TypeOK, Repetitions
<1> QED BY <1>1, <1>2, <1>3, <1>4

-----------------------------------------------------------------------------
(* Power commands.                                                         *)

(* A command leaves the Ball as it was or in the mode it asked for, and    *)
(* the worker knows which only when the Ball confirmed.                    *)
LEMMA PowerKeeps ==
    ASSUME IInv, app = "up", NEW t \in Slots, Research(t) \/ Restore(t) \/ Abort(t)
    PROVE  TypeOK' /\ CountedWasPerformed' /\ UpInv' /\ UNCHANGED app
<1>0. /\ TypeOK /\ CountedWasPerformed /\ Owned /\ BatchOK /\ OwnerOK(t)
      /\ thread \in [Slots -> ThreadRecord]
  BY DEF IInv, UpInv, TypeOK
<1>1. /\ UNCHANGED <<app, phase, lowPower, completed, lastFailure, shown, attempt, current,
                     timerOn, proc, file, sessions, retries, posting, counted>>
      /\ \/ /\ thread[t].at = "research"
            /\ \/ device' = "research" /\ Goes(t, "ready")
               \/ device' \in {device, "research"} /\ Goes(t, "abort")
         \/ /\ thread[t].at = "auto"
            /\ \/ device' = "auto" /\ Goes(t, "idle")
               \/ device' \in {device, "auto"} /\ Goes(t, "unrestored")
         \/ /\ thread[t].at = "auto_complete"
            /\ \/ device' = "auto" /\ Goes(t, "complete")
               \/ device' \in {device, "auto"} /\ Goes(t, "unrestored")
         \/ /\ thread[t].at = "auto_abort"
            /\ \/ device' = "auto" /\ Goes(t, "error_low")
               \/ device' \in {device, "auto"} /\ Goes(t, "error_high")
         \/ /\ thread[t].at = "auto_abort_popen"
            /\ \/ device' = "auto" /\ Goes(t, "error_low_popen")
               \/ device' \in {device, "auto"} /\ Goes(t, "error_high_popen")
  BY DEF Research, Restore, Abort, Power, State, Quiet
<1>2. /\ thread' \in [Slots -> ThreadRecord]
      /\ \A u \in Slots : u # t => thread'[u] = thread[u]
      /\ \/ /\ thread[t].at = "research"
            /\ \/ device' = "research" /\ thread'[t].at = "ready"
               \/ device' \in {device, "research"} /\ thread'[t].at = "abort"
         \/ /\ thread[t].at = "auto"
            /\ \/ device' = "auto" /\ thread'[t].at = "idle"
               \/ device' \in {device, "auto"} /\ thread'[t].at = "unrestored"
         \/ /\ thread[t].at = "auto_complete"
            /\ \/ device' = "auto" /\ thread'[t].at = "complete"
               \/ device' \in {device, "auto"} /\ thread'[t].at = "unrestored"
         \/ /\ thread[t].at = "auto_abort"
            /\ \/ device' = "auto" /\ thread'[t].at = "error_low"
               \/ device' \in {device, "auto"} /\ thread'[t].at = "error_high"
         \/ /\ thread[t].at = "auto_abort_popen"
            /\ \/ device' = "auto" /\ thread'[t].at = "error_low_popen"
               \/ device' \in {device, "auto"} /\ thread'[t].at = "error_high_popen"
  BY <1>0, <1>1, GoesEffect DEF Labels
<1>3. thread[t].at \notin Loose /\ thread'[t].at \notin Loose
      /\ thread'[t].at \notin Attempting /\ thread[t].at \notin Attempting
  BY <1>2 DEF Loose, Attempting
<1>4. /\ phase \notin Rest
      /\ (\A n \in Attempts : ~Alive(n)) /\ current = 0 /\ phase # "go_ready"
  BY <1>0, <1>2, <1>3, HolderAlone, HolderBatch
<1>5. TypeOK'
  BY <1>0, <1>1, <1>2 DEF TypeOK
<1>6. CountedWasPerformed'
  BY <1>0, <1>1, CountedStays
<1>7. OwnerOK(t)'
  BY <1>0, <1>1, <1>2, <1>3 DEF OwnerOK, Loose, BatchOK
<1>8. Owned' /\ \A u \in Slots : OwnerOK(u)'
  BY <1>0, <1>1, <1>2, <1>3, <1>4, <1>7, HolderActs
<1>9. BatchOK'
  <2>1. lowPower => device' = "auto"
    BY <1>0, <1>2 DEF BatchOK, OwnerOK, Loose
  <2> QED BY <1>0, <1>1, <1>4, <2>1 DEF BatchOK, Alive
<1> QED BY <1>1, <1>5, <1>6, <1>8, <1>9 DEF UpInv

-----------------------------------------------------------------------------
(* Handlers and the timer.                                                 *)

(* Where no thread moves, what threads rely on stays.                      *)
LEMMA NobodyMoves ==
    ASSUME Owned, \A u \in Slots : OwnerOK(u),
           UNCHANGED <<phase, thread, completed, lowPower, device, attempt, shown, sessions,
                       file, proc>>
    PROVE  Owned' /\ \A u \in Slots : OwnerOK(u)'
BY DEF Owned, Holders, OwnerOK, Running

(* A new batch starts with no attempt of the old one left.                 *)
LEMMA PrepareKeeps ==
    ASSUME IInv, Prepare
    PROVE  TypeOK' /\ CountedWasPerformed' /\ UpInv' /\ UNCHANGED app
<1>0. /\ TypeOK /\ CountedWasPerformed /\ Owned /\ BatchOK /\ app = "up" /\ phase \in Rest
      /\ thread \in [Slots -> ThreadRecord]
  BY DEF IInv, UpInv, TypeOK, Prepare, MayPrepare, Rest
<1>1. (\A n \in Attempts : ~Alive(n)) /\ current = 0
  BY <1>0, RestBatch
<1>2. PICK t \in Slots :
        /\ thread'[t].at = "research"
        /\ \A u \in Slots : u # t => thread'[u] = thread[u]
  BY <1>0, SpawnEffect DEF Prepare, Labels
<1>3. thread' \in [Slots -> ThreadRecord]
  BY <1>0, SpawnEffect DEF Prepare, Labels
<1>4. /\ phase' = "preparing" /\ lowPower' = FALSE
      /\ completed' = 0 /\ lastFailure' = 0 /\ shown' = 0 /\ sessions' = sessions + 1
      /\ file' = [r \in Repetitions |-> 0] /\ counted' = [r \in Repetitions |-> 0]
      /\ UNCHANGED <<app, attempt, current, timerOn, device, retries, posting>>
  BY DEF Prepare
<1>5. NoProcess \in ProcRecord /\ NoProcess.exit = "none"
  BY DEF NoProcess, ProcRecord, NoAck
<1>6. proc' = [n \in Attempts |-> NoProcess]
  BY <1>1 DEF Prepare
<1>7. TypeOK'
  <2>1. phase' \in Busy /\ completed' \in 0 .. Count /\ sessions' \in Nat
    BY <1>0, <1>4, FieldAssumption DEF TypeOK, Busy
  <2>2. /\ proc' \in [Attempts -> ProcRecord] /\ file' \in [Repetitions -> Nat]
        /\ counted' \in [Repetitions -> 0 .. MaxAttempts]
    BY <1>4, <1>5, <1>6, FieldAssumption
  <2> QED BY <1>0, <1>3, <1>4, <2>1, <2>2 DEF TypeOK
<1>8. CountedWasPerformed'
  BY <1>4 DEF CountedWasPerformed
<1>9. OwnerOK(t)'
  BY <1>2, <1>4, FieldAssumption DEF OwnerOK, Loose, Attempting
<1>10. Owned' /\ \A u \in Slots : OwnerOK(u)'
  BY <1>0, <1>2, <1>4, <1>9, HandedOver DEF Rest, Loose
<1>11. BatchOK'
  <2>1. \A n \in Attempts : proc'[n].exit = "none"
    BY <1>5, <1>6
  <2>2. \A n \in Attempts : ~Alive(n)'
    BY <2>1 DEF Alive
  <2>3. posting # NoAck => posting[2] \in 1 .. attempt /\ posting[2] # 0
    BY <1>0 DEF BatchOK, TypeOK
  <2> QED BY <1>0, <1>1, <1>4, <2>1, <2>2, <2>3 DEF BatchOK, TypeOK
<1> QED BY <1>4, <1>7, <1>8, <1>10, <1>11 DEF UpInv

(* A batch in error continues with the repetition that failed.             *)
LEMMA ReconnectKeeps ==
    ASSUME IInv, Reconnect
    PROVE  TypeOK' /\ CountedWasPerformed' /\ UpInv' /\ UNCHANGED app
<1>0. /\ TypeOK /\ CountedWasPerformed /\ Owned /\ BatchOK /\ app = "up" /\ phase \in Rest
      /\ thread \in [Slots -> ThreadRecord]
  BY DEF IInv, UpInv, TypeOK, Reconnect, Rest
<1>1. (\A n \in Attempts : ~Alive(n)) /\ current = 0
  BY <1>0, RestBatch
<1>2. PICK t \in Slots :
        /\ thread'[t].at = "research"
        /\ \A u \in Slots : u # t => thread'[u] = thread[u]
  BY <1>0, SpawnEffect DEF Reconnect, Labels
<1>3. thread' \in [Slots -> ThreadRecord]
  BY <1>0, SpawnEffect DEF Reconnect, Labels
<1>4. /\ phase' = "preparing" /\ lowPower' = FALSE /\ retries' = retries + 1 /\ lastFailure # 0
      /\ UNCHANGED <<app, completed, lastFailure, shown, attempt, current, timerOn, proc, file,
                     device, sessions, posting, counted>>
  BY DEF Reconnect
<1>5. TypeOK'
  <2>1. phase' \in Busy /\ retries' \in Nat
    BY <1>0, <1>4 DEF TypeOK, Busy
  <2> QED BY <1>0, <1>3, <1>4, <2>1 DEF TypeOK
<1>6. CountedWasPerformed'
  BY <1>0, <1>4, CountedStays
<1>7. OwnerOK(t)'
  BY <1>0, <1>2, <1>4 DEF OwnerOK, Loose, Attempting, BatchOK
<1>8. Owned' /\ \A u \in Slots : OwnerOK(u)'
  BY <1>0, <1>2, <1>4, <1>7, HandedOver DEF Rest, Loose
<1>9. BatchOK'
  BY <1>0, <1>1, <1>4 DEF BatchOK, Alive
<1> QED BY <1>4, <1>5, <1>6, <1>8, <1>9 DEF UpInv

(* An attempt gets a number no process ever had.                           *)
LEMMA StartCaptureKeeps ==
    ASSUME IInv, StartCapture
    PROVE  TypeOK' /\ CountedWasPerformed' /\ UpInv' /\ UNCHANGED app
<1>0. /\ TypeOK /\ CountedWasPerformed /\ Owned /\ BatchOK /\ app = "up" /\ phase \in Rest
      /\ thread \in [Slots -> ThreadRecord]
      /\ completed \in Nat /\ attempt \in Nat /\ attempt < MaxAttempts
      /\ phase = "ready" /\ attempt + 1 \in Attempts
  BY FieldAssumption DEF IInv, UpInv, TypeOK, StartCapture, Rest, Attempts
<1>1. (\A n \in Attempts : ~Alive(n)) /\ current = 0
  BY <1>0, RestBatch
<1>2. PICK t \in Slots :
        /\ thread'[t].at = "popen" /\ thread'[t].rep = completed + 1
        /\ thread'[t].try = attempt + 1
        /\ \A u \in Slots : u # t => thread'[u] = thread[u]
  BY <1>0, SpawnEffect DEF StartCapture, Labels
<1>3. thread' \in [Slots -> ThreadRecord]
  BY <1>0, SpawnEffect DEF StartCapture, Labels
<1>4. /\ phase' = "countdown" /\ attempt' = attempt + 1 /\ shown' = attempt + 1
      /\ timerOn' = FALSE
      /\ UNCHANGED <<app, lowPower, completed, lastFailure, current, proc, file, device,
                     sessions, retries, posting, counted>>
  BY DEF StartCapture
<1>5. TypeOK'
  <2>1. phase' \in Busy /\ attempt' \in 0 .. MaxAttempts /\ shown' \in Nat
    BY <1>0, <1>4, FieldAssumption DEF Busy
  <2> QED BY <1>0, <1>3, <1>4, <2>1 DEF TypeOK
<1>6. CountedWasPerformed'
  BY <1>0, <1>4, CountedStays
<1>7. proc[attempt + 1].exit = "none" /\ completed < Count /\ ~lowPower
  BY <1>0 DEF BatchOK, TypeOK
<1>8. OwnerOK(t)'
  BY <1>0, <1>2, <1>4, <1>7 DEF OwnerOK, Loose, Attempting
<1>9. Owned' /\ \A u \in Slots : OwnerOK(u)'
  BY <1>0, <1>2, <1>4, <1>8, HandedOver DEF Rest, Loose
<1>10. BatchOK'
  <2>1. posting # NoAck => posting[2] \in 1 .. attempt + 1 /\ posting[2] # attempt + 1
    BY <1>0 DEF BatchOK
  <2>2. \A n \in Attempts : n > attempt + 1 => proc[n].exit = "none"
    BY <1>0 DEF BatchOK, Attempts
  <2>3. \A n \in Attempts : ~Alive(n)'
    BY <1>1, <1>4 DEF Alive
  <2>4. posting' # NoAck =>
          posting'[2] \in 1 .. attempt' /\ (posting'[2] = shown' => posting'[1] = sessions')
    BY <1>4, <2>1
  <2>5. lastFailure' # 0 => completed' < Count
    BY <1>4, <1>7
  <2> QED BY <1>0, <1>1, <1>4, <1>7, <2>2, <2>3, <2>4, <2>5 DEF BatchOK
<1> QED BY <1>4, <1>5, <1>6, <1>9, <1>10 DEF UpInv

(* The operator ends a batch.                                              *)
LEMMA FinishKeeps ==
    ASSUME IInv, Finish
    PROVE  TypeOK' /\ CountedWasPerformed' /\ UpInv' /\ UNCHANGED app
<1>0. /\ TypeOK /\ CountedWasPerformed /\ Owned /\ BatchOK /\ app = "up" /\ phase \in Rest
      /\ thread \in [Slots -> ThreadRecord]
  BY DEF IInv, UpInv, TypeOK, Finish, Rest
<1>1. (\A n \in Attempts : ~Alive(n)) /\ current = 0
  BY <1>0, RestBatch
<1>2. PICK t \in Slots :
        /\ thread'[t].at = "restore"
        /\ \A u \in Slots : u # t => thread'[u] = thread[u]
  BY <1>0, SpawnEffect DEF Finish, Labels
<1>3. thread' \in [Slots -> ThreadRecord]
  BY <1>0, SpawnEffect DEF Finish, Labels
<1>4. /\ phase' = "restoring" /\ timerOn' = FALSE
      /\ UNCHANGED <<app, lowPower, completed, lastFailure, shown, attempt, current, proc, file,
                     device, sessions, retries, posting, counted>>
  BY DEF Finish
<1>5. TypeOK'
  BY <1>0, <1>3, <1>4 DEF TypeOK, Busy
<1>6. CountedWasPerformed'
  BY <1>0, <1>4, CountedStays
<1>7. OwnerOK(t)'
  BY <1>2 DEF OwnerOK, Loose, Attempting
<1>8. Owned' /\ \A u \in Slots : OwnerOK(u)'
  BY <1>0, <1>2, <1>4, <1>7, HandedOver DEF Rest, Loose
<1>9. BatchOK'
  BY <1>0, <1>1, <1>4 DEF BatchOK, Alive
<1> QED BY <1>4, <1>5, <1>6, <1>8, <1>9 DEF UpInv

(* What a page paints is the attempt that waits.                           *)
LEMMA PaintKeeps ==
    ASSUME IInv, Paint
    PROVE  TypeOK' /\ CountedWasPerformed' /\ UpInv' /\ UNCHANGED app
<1>0. /\ TypeOK /\ CountedWasPerformed /\ Owned /\ BatchOK /\ \A u \in Slots : OwnerOK(u)
      /\ phase = "go_ready"
  BY DEF IInv, UpInv, Paint
<1>1. /\ posting' = <<sessions, shown>>
      /\ UNCHANGED <<app, phase, lowPower, completed, lastFailure, shown, attempt, current,
                     timerOn, thread, proc, file, device, sessions, retries, counted>>
  BY DEF Paint, State
<1>2. PICK t \in Slots : thread[t].at \in {"read", "analyze", "failed"}
  BY <1>0 DEF BatchOK
<1>3. shown \in 1 .. attempt
  <2>1. thread[t].try \in Attempts /\ thread[t].try = attempt /\ thread[t].try = shown
    BY <1>0, <1>2 DEF OwnerOK, Attempting
  <2> QED BY <2>1, FieldAssumption DEF Attempts
<1>4. TypeOK'
  BY <1>0, <1>1 DEF TypeOK
<1>5. CountedWasPerformed'
  BY <1>0, <1>1, CountedStays
<1>6. Owned' /\ \A u \in Slots : OwnerOK(u)'
  BY <1>0, <1>1, NobodyMoves
<1>7. BatchOK'
  BY <1>0, <1>1, <1>3 DEF BatchOK, Alive
<1> QED BY <1>1, <1>4, <1>5, <1>6, <1>7 DEF UpInv

(* The timer's thread has yet to look at the phase.                        *)
LEMMA TimerFiresKeeps ==
    ASSUME IInv, TimerFires
    PROVE  TypeOK' /\ CountedWasPerformed' /\ UpInv' /\ UNCHANGED app
<1>0. /\ TypeOK /\ CountedWasPerformed /\ Owned /\ BatchOK /\ \A u \in Slots : OwnerOK(u)
      /\ thread \in [Slots -> ThreadRecord]
  BY DEF IInv, UpInv, TimerFires, TypeOK
<1>1. /\ timerOn' = FALSE
      /\ UNCHANGED <<app, phase, lowPower, completed, lastFailure, shown, attempt, current,
                     proc, file, device, sessions, retries, posting, counted>>
  BY DEF TimerFires, State
<1>2. PICK t \in Slots :
        /\ thread[t].at = "none" /\ thread'[t].at = "timeout"
        /\ \A u \in Slots : u # t => thread'[u] = thread[u]
  BY <1>0, SpawnEffect DEF TimerFires, Labels
<1>3. thread' \in [Slots -> ThreadRecord]
  BY <1>0, SpawnEffect DEF TimerFires, Labels
<1>4. TypeOK'
  BY <1>0, <1>1, <1>3 DEF TypeOK
<1>5. CountedWasPerformed'
  BY <1>0, <1>1, CountedStays
<1>6. Owned' /\ \A u \in Slots : OwnerOK(u)'
  BY <1>0, <1>1, <1>2, LooseActs DEF Loose
<1>7. BatchOK'
  <2>1. \A n \in Attempts : Alive(n)' => Alive(n)
    BY <1>1 DEF Alive
  <2>2. \A u \in Slots : thread[u].at \in {"register", "read", "analyze", "failed"}
          => thread'[u] = thread[u]
    BY <1>2
  <2> QED BY <1>0, <1>1, <2>1, <2>2 DEF BatchOK
<1> QED BY <1>1, <1>4, <1>5, <1>6, <1>7 DEF UpInv

-----------------------------------------------------------------------------
(* The capture tool and its acknowledgement.                               *)

(* Whatever happens to a running process leaves it the next repetition's.  *)
LEMMA ToolActs ==
    ASSUME IInv, app = "up", NEW n \in Attempts, Alive(n), NEW p \in ProcRecord,
           proc' = [proc EXCEPT ![n] = p],
           p.rep = proc[n].rep, p.exit # "none",
           p.ack \in {NoAck, <<sessions, n>>}, p.lines > GoReady => p.ack # NoAck,
           p.lines > 0 => file'[completed + 1] = n, p.exit = "ok" => p.lines = 5,
           file' \in [Repetitions -> Nat],
           \A r \in Repetitions : r <= completed => file'[r] = file[r],
           posting' \in {NoAck, posting},
           UNCHANGED <<app, phase, lowPower, completed, lastFailure, shown, attempt, current,
                       timerOn, thread, device, sessions, retries, counted>>
    PROVE  TypeOK' /\ CountedWasPerformed' /\ UpInv' /\ UNCHANGED app
<1>0. /\ TypeOK /\ CountedWasPerformed /\ Owned /\ BatchOK /\ \A u \in Slots : OwnerOK(u)
  BY DEF IInv, UpInv
<1>1. n = attempt /\ proc[n].rep = completed + 1 /\ proc[n].exit = ""
  BY <1>0, RunningIsNext DEF Alive
<1>2. /\ proc' \in [Attempts -> ProcRecord] /\ proc'[n] = p
      /\ \A m \in Attempts : m # n => proc'[m] = proc[m]
  BY <1>0 DEF TypeOK
<1>3. TypeOK'
  <2>1. posting' \in Nat \X Nat
    BY <1>0 DEF TypeOK, NoAck
  <2> QED BY <1>0, <1>2, <2>1 DEF TypeOK
<1>4. CountedWasPerformed'
  BY <1>0, <1>1, <1>2, CountedStays
<1>5. Owned'
  BY <1>0 DEF Owned, Holders
<1>6. ASSUME NEW u \in Slots
      PROVE  OwnerOK(u)'
  <2>1. CASE thread[u].at \notin Attempting
    BY <1>0, <2>1 DEF OwnerOK, Attempting
  <2>2. CASE thread[u].at \in Attempting
    <3>1. /\ thread[u].try = n /\ thread[u].rep = completed + 1
          /\ thread[u].at \in {"register", "read"}
      BY <1>0, <1>1, <2>2 DEF OwnerOK, Attempting
    <3>2. Running(p, completed + 1, n)'
      BY <1>1 DEF Running
    <3>3. Running(proc[thread[u].try], thread[u].rep, thread[u].try)'
      BY <1>2, <3>1, <3>2
    <3> QED BY <1>0, <3>1, <3>3 DEF OwnerOK, Attempting
  <2> QED BY <2>1, <2>2
<1>7. BatchOK'
  <2>1. \A m \in Attempts : Alive(m)' => Alive(m)
    BY <1>1, <1>2 DEF Alive, Attempts
  <2>2. \A m \in Attempts : m > attempt => proc'[m].exit = "none"
    BY <1>0, <1>1, <1>2, FieldAssumption DEF BatchOK, Attempts, TypeOK
  <2> QED BY <1>0, <2>1, <2>2 DEF BatchOK
<1> QED BY <1>3, <1>4, <1>5, <1>6, <1>7 DEF UpInv

(* A capture prints five lines.                                            *)
LEMMA FiveLines == Cardinality(Lines) = 5
<1>1. 1 \in Int /\ 5 \in Int
  OBVIOUS
<1>2. Cardinality(1 .. 5) = IF 1 > 5 THEN 0 ELSE 5 - 1 + 1
  BY <1>1, FS_Interval, Zenon
<1> QED BY <1>2 DEF Lines

(* An acknowledgement reaches the attempt it was painted for, or none.     *)
LEMMA AcknowledgeGoKeeps ==
    ASSUME IInv, AcknowledgeGo
    PROVE  TypeOK' /\ CountedWasPerformed' /\ UpInv' /\ UNCHANGED app
<1>0. /\ TypeOK /\ CountedWasPerformed /\ Owned /\ BatchOK /\ \A u \in Slots : OwnerOK(u)
      /\ app = "up"
  BY DEF IInv, UpInv, AcknowledgeGo
<1>1. /\ posting # NoAck /\ posting' = NoAck
      /\ UNCHANGED <<app, phase, lowPower, completed, lastFailure, shown, attempt, current,
                     timerOn, thread, file, device, sessions, retries, counted>>
  BY DEF AcknowledgeGo, State
<1>2. CASE AckMatches /\ Alive(current)
  <2> DEFINE p == [proc[current] EXCEPT !.ack = posting]
  <2>1. current \in Attempts
    <3>1. current \in 0 .. MaxAttempts /\ current # 0
      BY <1>0, <1>2 DEF TypeOK, Alive
    <3> QED BY <3>1, FieldAssumption DEF Attempts
  <2>2. /\ current = attempt /\ current = shown /\ Running(proc[current], completed + 1, current)
        /\ proc[current] \in ProcRecord
    BY <1>0, <1>2, <2>1, RunningIsNext DEF TypeOK
  <2>3. posting = <<sessions, current>>
    BY <1>0, <1>1, <1>2, <2>2 DEF BatchOK, AckMatches, TypeOK
  <2>4. p \in ProcRecord /\ p.ack = posting /\ p.rep = proc[current].rep
        /\ p.exit = proc[current].exit /\ p.lines = proc[current].lines
    BY <1>0, <2>2 DEF ProcRecord, TypeOK
  <2>5. proc' = [proc EXCEPT ![current] = p]
    BY <1>2 DEF AcknowledgeGo
  <2>6. file' \in [Repetitions -> Nat]
    BY <1>0, <1>1 DEF TypeOK
  <2>7. /\ p.exit # "none"
        /\ p.exit = "ok" => p.lines = 5
        /\ p.lines > 0 => file'[completed + 1] = current
    BY <1>1, <2>2, <2>4 DEF Running
  <2>8. /\ p.ack \in {NoAck, <<sessions, current>>} /\ p.ack # NoAck
        /\ \A r \in Repetitions : r <= completed => file'[r] = file[r]
        /\ posting' \in {NoAck, posting}
    BY <1>1, <2>3, <2>4
  <2> HIDE DEF p
  <2> QED BY <1>0, <1>1, <1>2, <2>1, <2>4, <2>5, <2>6, <2>7, <2>8, ToolActs
<1>3. CASE ~(AckMatches /\ Alive(current))
  <2>1. proc' = proc
    BY <1>3 DEF AcknowledgeGo
  <2>2. TypeOK'
    BY <1>0, <1>1, <2>1 DEF TypeOK, NoAck
  <2>3. CountedWasPerformed'
    BY <1>0, <1>1, <2>1, CountedStays
  <2>4. Owned' /\ \A u \in Slots : OwnerOK(u)'
    BY <1>0, <1>1, <2>1, NobodyMoves
  <2>5. BatchOK'
    BY <1>0, <1>1, <2>1 DEF BatchOK, Alive
  <2> QED BY <1>1, <2>2, <2>3, <2>4, <2>5 DEF UpInv
<1> QED BY <1>2, <1>3

(* The tool writes its own repetition's file and prints.                   *)
LEMMA ToolPrintsKeeps ==
    ASSUME IInv, NEW n \in Attempts, ToolPrints(n)
    PROVE  TypeOK' /\ CountedWasPerformed' /\ UpInv' /\ UNCHANGED app
<1> DEFINE lines == proc[n].lines + 1
           p == [proc[n] EXCEPT !.lines = lines]
<1>0. /\ TypeOK /\ BatchOK /\ (\A u \in Slots : OwnerOK(u))
      /\ app = "up" /\ Alive(n) /\ MayPrint(n)
  BY DEF IInv, UpInv, ToolPrints
<1>1. /\ completed + 1 \in Repetitions /\ proc[n].rep = completed + 1
      /\ Running(proc[n], completed + 1, n) /\ proc[n] \in ProcRecord
  BY <1>0, RunningIsNext DEF TypeOK
<1>3. lines \in 0 .. 5 /\ lines # 0 /\ (lines > GoReady => proc[n].ack # NoAck)
  <2>1. proc[n].lines \in 0 .. 5 /\ proc[n].lines < 5
    BY <1>1, FiveLines DEF ProcRecord, ToolPrints
  <2>2. /\ proc[n].lines = 3 => proc[n].ack # NoAck
        /\ proc[n].lines > 3 => proc[n].ack # NoAck
    BY <1>0, <1>1 DEF MayPrint, Running, GoReady
  <2> QED BY <2>1, <2>2 DEF GoReady
<1>4. proc' = [proc EXCEPT ![n] = p]
  BY DEF ToolPrints
<1> HIDE DEF lines
<1>5. /\ p \in ProcRecord /\ p.lines = lines
      /\ p.ack = proc[n].ack /\ p.rep = proc[n].rep /\ p.exit = proc[n].exit
  BY <1>1, <1>3 DEF ProcRecord
<1> HIDE DEF p
<1>6. /\ file' \in [Repetitions -> Nat] /\ file'[completed + 1] = n
      /\ \A r \in Repetitions : r <= completed => file'[r] = file[r]
  <2>1. n \in Nat /\ completed \in Nat
    BY <1>0, FieldAssumption DEF Attempts, TypeOK
  <2>2. \A r \in Repetitions : r \in Nat
    BY FieldAssumption DEF Repetitions
  <2> QED BY <1>0, <1>1, <2>1, <2>2 DEF ToolPrints, TypeOK
<1>7. p.exit = ""
  BY <1>0, <1>5 DEF Alive
<1> QED BY <1>0, <1>1, <1>3, <1>4, <1>5, <1>6, <1>7, ToolActs DEF ToolPrints, State, Running

(* A process that ends well has printed all its lines.                     *)
LEMMA ToolExitsKeeps ==
    ASSUME IInv, NEW n \in Attempts, ToolExits(n)
    PROVE  TypeOK' /\ CountedWasPerformed' /\ UpInv' /\ UNCHANGED app
<1>0. /\ TypeOK /\ BatchOK /\ (\A u \in Slots : OwnerOK(u)) /\ app = "up" /\ Alive(n)
  BY DEF IInv, UpInv, ToolExits
<1>1. /\ Running(proc[n], completed + 1, n) /\ proc[n] \in ProcRecord
  BY <1>0, RunningIsNext DEF TypeOK
<1>3. PICK how \in {"ok", "failed"} :
        /\ how = "ok" => proc[n].lines = 5
        /\ proc' = [proc EXCEPT ![n].exit = how]
  BY FiveLines DEF ToolExits
<1> DEFINE p == [proc[n] EXCEPT !.exit = how]
<1>4. /\ p \in ProcRecord /\ p.lines = proc[n].lines
      /\ p.ack = proc[n].ack /\ p.rep = proc[n].rep /\ p.exit = how
  BY <1>1 DEF ProcRecord
<1>5. proc' = [proc EXCEPT ![n] = p]
  BY <1>3
<1> HIDE DEF p
<1>6. file' \in [Repetitions -> Nat]
  BY <1>0 DEF ToolExits, TypeOK
<1> QED BY <1>0, <1>1, <1>3, <1>4, <1>5, <1>6, ToolActs DEF ToolExits, State, Running

-----------------------------------------------------------------------------
(* The last steps of loose threads.                                        *)

(* A loose thread that ends disturbs nobody.                               *)
LEMMA LooseEnds ==
    ASSUME IInv, app = "up", NEW t \in Slots, thread[t].at \in Loose, Ends(t),
           current' \in {0, current}, timerOn' \in BOOLEAN,
           UNCHANGED <<app, phase, lowPower, completed, lastFailure, shown, attempt, proc, file,
                       device, sessions, retries, posting, counted>>
    PROVE  TypeOK' /\ CountedWasPerformed' /\ UpInv' /\ UNCHANGED app
<1>0. /\ TypeOK /\ CountedWasPerformed /\ Owned /\ BatchOK /\ \A u \in Slots : OwnerOK(u)
      /\ thread \in [Slots -> ThreadRecord]
  BY DEF IInv, UpInv, TypeOK
<1>1. /\ thread' \in [Slots -> ThreadRecord] /\ thread'[t].at \in Loose
      /\ \A u \in Slots : u # t => thread'[u] = thread[u]
  BY <1>0, EndsEffect DEF Loose
<1>2. TypeOK'
  BY <1>0, <1>1, FieldAssumption DEF TypeOK
<1>3. CountedWasPerformed'
  BY <1>0, CountedStays
<1>4. Owned' /\ \A u \in Slots : OwnerOK(u)'
  BY <1>0, <1>1, LooseActs
<1>5. BatchOK'
  <2>1. \A n \in Attempts : Alive(n)' => Alive(n)
    BY DEF Alive
  <2>2. \A u \in Slots : thread[u].at \in {"register", "read", "analyze", "failed"}
          => thread'[u] = thread[u]
    BY <1>1 DEF Loose
  <2>3. current' # 0 => \E u \in Slots : thread'[u].at = "read" /\ thread'[u].try = current'
    BY <1>0, <2>2 DEF BatchOK
  <2> QED BY <1>0, <2>1, <2>2, <2>3 DEF BatchOK
<1> QED BY <1>2, <1>3, <1>4, <1>5 DEF UpInv

(* The timer's thread ends the batch only from the phase it was armed for. *)
LEMMA ReadyTimeoutKeeps ==
    ASSUME IInv, app = "up", NEW t \in Slots, ReadyTimeout(t)
    PROVE  TypeOK' /\ CountedWasPerformed' /\ UpInv' /\ UNCHANGED app
<1>0. /\ TypeOK /\ CountedWasPerformed /\ Owned /\ BatchOK /\ \A u \in Slots : OwnerOK(u)
      /\ thread \in [Slots -> ThreadRecord] /\ thread[t].at = "timeout"
  BY DEF IInv, UpInv, TypeOK, ReadyTimeout
<1>1. UNCHANGED <<app, lowPower, completed, lastFailure, shown, attempt, current, timerOn,
                  proc, file, device, sessions, retries, posting, counted>>
  BY DEF ReadyTimeout
<1>2. CASE phase = "ready"
  <2>1. phase' = "restoring" /\ phase \in Rest /\ phase' \notin Rest
    BY <1>2 DEF ReadyTimeout, TimeoutApplies, Rest
  <2>2. /\ thread' \in [Slots -> ThreadRecord] /\ thread'[t].at = "restore"
        /\ \A u \in Slots : u # t => thread'[u] = thread[u]
    BY <1>0, <1>2, GoesEffect DEF ReadyTimeout, TimeoutApplies, Labels
  <2>3. (\A n \in Attempts : ~Alive(n)) /\ current = 0
    BY <1>0, <2>1, RestBatch
  <2>4. TypeOK'
    BY <1>0, <1>1, <2>1, <2>2 DEF TypeOK, Busy
  <2>5. CountedWasPerformed'
    BY <1>0, <1>1, CountedStays
  <2>6. OwnerOK(t)'
    BY <2>2 DEF OwnerOK, Loose, Attempting
  <2>7. Owned' /\ \A u \in Slots : OwnerOK(u)'
    BY <1>0, <2>1, <2>2, <2>6, HandedOver DEF Loose
  <2>8. BatchOK'
    BY <1>0, <1>1, <2>1, <2>3 DEF BatchOK, Alive
  <2> QED BY <1>1, <2>4, <2>5, <2>7, <2>8 DEF UpInv
<1>3. CASE phase # "ready"
  BY <1>0, <1>1, <1>3, LooseEnds DEF ReadyTimeout, TimeoutApplies, TypeOK, Loose
<1> QED BY <1>2, <1>3

(* Arming the timer and clearing the process are last steps.               *)
LEMMA LastStepsKeep ==
    ASSUME IInv, app = "up", NEW t \in Slots, ArmReadyTimeout(t) \/ Finally(t)
    PROVE  TypeOK' /\ CountedWasPerformed' /\ UpInv' /\ UNCHANGED app
<1>1. timerOn \in BOOLEAN
  BY DEF IInv, TypeOK
<1> QED BY <1>1, LooseEnds DEF ArmReadyTimeout, Finally, State, Quiet, Loose

-----------------------------------------------------------------------------
(* The steps of the worker that holds the phase.                           *)

(* What a holder keeps if it leaves processes alone and nothing runs.      *)
LEMMA HolderKeeps ==
    ASSUME IInv, app = "up", UNCHANGED app, NEW t \in Slots, thread[t].at \notin Loose,
           TypeOK', CountedWasPerformed', OwnerOK(t)', BatchOK',
           \A u \in Slots : u # t => thread'[u] = thread[u],
           thread'[t].at \in Loose <=> phase' \in Rest
    PROVE  TypeOK' /\ CountedWasPerformed' /\ UpInv' /\ UNCHANGED app
<1>1. Owned
  BY DEF IInv, UpInv
<1>2. Owned' /\ \A u \in Slots : OwnerOK(u)'
  BY <1>1, HolderActs
<1> QED BY <1>2 DEF UpInv

(* What a holder between two commands may rely on.                         *)
LEMMA HolderKnows ==
    ASSUME IInv, app = "up", NEW t \in Slots, thread[t].at \notin Loose
    PROVE  /\ TypeOK /\ CountedWasPerformed /\ BatchOK /\ OwnerOK(t)
           /\ thread \in [Slots -> ThreadRecord] /\ thread[t] \in ThreadRecord
           /\ phase \notin Rest
           /\ \A n \in Attempts : Alive(n) =>
                 thread[t].try = n /\ thread[t].at \in {"register", "read"}
           /\ current # 0 => thread[t].try = current /\ thread[t].at = "read"
           /\ phase = "go_ready" => thread[t].at \in {"read", "analyze", "failed"}
<1>1. /\ TypeOK /\ CountedWasPerformed /\ Owned /\ BatchOK /\ OwnerOK(t)
      /\ thread \in [Slots -> ThreadRecord]
  BY DEF IInv, UpInv, TypeOK
<1> QED BY <1>1, HolderAlone, HolderBatch

(* What an attempt's worker may rely on.                                   *)
LEMMA AttemptKnows ==
    ASSUME TypeOK, NEW t \in Slots, OwnerOK(t), thread[t].at \in Attempting
    PROVE  /\ ~lowPower /\ completed < Count
           /\ thread[t].try \in Attempts /\ thread[t].try = attempt /\ thread[t].try = shown
           /\ thread[t].rep = completed + 1 /\ thread[t].rep \in Repetitions
           /\ thread[t].try \in Nat /\ thread[t].rep \in Nat
           /\ proc[thread[t].try] \in ProcRecord
           /\ thread[t].at # "popen" => Running(proc[thread[t].try], thread[t].rep, thread[t].try)
<1>1. /\ ~lowPower /\ completed < Count
      /\ thread[t].try \in Attempts /\ thread[t].try = attempt /\ thread[t].try = shown
      /\ thread[t].rep = completed + 1
      /\ thread[t].at # "popen" => Running(proc[thread[t].try], thread[t].rep, thread[t].try)
  BY DEF OwnerOK, Attempting, Loose
<1>2. completed + 1 \in Repetitions /\ completed + 1 \in Nat
  BY <1>1, FieldAssumption DEF TypeOK, Repetitions
<1>3. thread[t].try \in Nat /\ proc[thread[t].try] \in ProcRecord
  BY <1>1, FieldAssumption DEF TypeOK, Attempts
<1> QED BY <1>1, <1>2, <1>3

(* The Ball confirmed research power: the operator has the turn.           *)
LEMMA SetReadyKeeps ==
    ASSUME IInv, app = "up", NEW t \in Slots, SetReady(t)
    PROVE  TypeOK' /\ CountedWasPerformed' /\ UpInv' /\ UNCHANGED app
<1>1. thread[t].at = "ready" /\ thread[t].at \notin Loose
  BY DEF SetReady, Loose
<1>2. /\ TypeOK /\ CountedWasPerformed /\ BatchOK /\ OwnerOK(t)
      /\ thread \in [Slots -> ThreadRecord]
      /\ (\A n \in Attempts : ~Alive(n)) /\ current = 0
  BY <1>1, HolderKnows
<1>3. /\ phase' = "ready" /\ lowPower' = FALSE
      /\ UNCHANGED <<app, completed, lastFailure, shown, attempt, current, timerOn, proc, file,
                     device, sessions, retries, posting, counted>>
  BY DEF SetReady, Quiet
<1>4. /\ thread' \in [Slots -> ThreadRecord] /\ thread'[t].at = "arm"
      /\ \A u \in Slots : u # t => thread'[u] = thread[u]
  BY <1>2, GoesEffect DEF SetReady, Labels
<1>5. TypeOK'
  BY <1>2, <1>3, <1>4 DEF TypeOK
<1>6. CountedWasPerformed'
  BY <1>2, <1>3, CountedStays
<1>7. OwnerOK(t)'
  BY <1>4, LooseRelyOnNothing DEF Loose
<1>8. completed < Count
  BY <1>1, <1>2 DEF OwnerOK
<1>9. BatchOK'
  BY <1>2, <1>3, <1>8 DEF BatchOK, Alive
<1> QED BY <1>1, <1>3, <1>4, <1>5, <1>6, <1>7, <1>9, HolderKeeps DEF Loose, Rest

(* The process starts under the number the attempt got, or not at all.     *)
LEMMA PopenKeeps ==
    ASSUME IInv, app = "up", NEW t \in Slots, Popen(t)
    PROVE  TypeOK' /\ CountedWasPerformed' /\ UpInv' /\ UNCHANGED app
<1> DEFINE n == thread[t].try
           number == thread[t].rep
           fresh == [NoProcess EXCEPT !.exit = "", !.session = sessions, !.rep = number]
<1>1. thread[t].at = "popen" /\ thread[t].at \notin Loose /\ thread[t].at \in Attempting
  BY DEF Popen, Loose, Attempting
<1>2. /\ TypeOK /\ CountedWasPerformed /\ BatchOK /\ OwnerOK(t)
      /\ thread \in [Slots -> ThreadRecord] /\ phase \notin Rest
      /\ (\A m \in Attempts : ~Alive(m)) /\ current = 0 /\ phase # "go_ready"
  BY <1>1, HolderKnows
<1>3. UNCHANGED <<app, phase, lowPower, completed, lastFailure, shown, attempt, current, timerOn,
                  file, device, sessions, retries, posting, counted>>
  BY DEF Popen, State, Quiet
<1>4. /\ ~lowPower /\ completed < Count /\ n \in Attempts /\ n = attempt /\ n = shown
      /\ number = completed + 1 /\ number \in Nat /\ proc[n].exit = "none"
  BY <1>1, <1>2, AttemptKnows DEF OwnerOK
<1>5. CASE proc' = [proc EXCEPT ![n] = fresh] /\ Goes(t, "register")
  <2>1. /\ thread' \in [Slots -> ThreadRecord] /\ thread'[t].at = "register"
        /\ thread'[t].rep = number /\ thread'[t].try = n
        /\ \A u \in Slots : u # t => thread'[u] = thread[u]
    BY <1>2, <1>5, GoesEffect DEF Labels
  <2> HIDE DEF number
  <2>2. /\ fresh \in ProcRecord /\ fresh.exit = "" /\ fresh.rep = number
        /\ fresh.ack = NoAck /\ fresh.lines = 0
    <3>1. sessions \in Nat /\ NoAck \in Nat \X Nat
      BY <1>2 DEF TypeOK, NoAck
    <3>2. NoProcess \in ProcRecord /\ NoProcess.ack = NoAck /\ NoProcess.lines = 0
      BY <3>1 DEF NoProcess, ProcRecord
    <3> QED BY <1>4, <3>1, <3>2 DEF ProcRecord
  <2> HIDE DEF fresh
  <2>3. /\ proc' \in [Attempts -> ProcRecord] /\ proc'[n] = fresh
        /\ \A m \in Attempts : m # n => proc'[m] = proc[m]
    BY <1>2, <1>4, <1>5, <2>2 DEF TypeOK
  <2> HIDE DEF n
  <2>4. TypeOK'
    BY <1>2, <1>3, <2>1, <2>3 DEF TypeOK
  <2>5. CountedWasPerformed'
    BY <1>2, <1>3, <1>4, <2>3, CountedStays
  <2>6. Running(proc[thread[t].try], thread[t].rep, thread[t].try)'
    <3>1. proc'[thread'[t].try] = fresh /\ thread'[t].rep = number
      BY <2>1, <2>3
    <3>2. fresh.lines = 0
      BY <2>2
    <3>3. ~(fresh.lines > GoReady) /\ ~(fresh.lines > 0)
      BY <3>2 DEF GoReady
    <3>4. fresh.exit # "none" /\ fresh.exit # "ok"
      BY <2>2
    <3>5. fresh.rep = number /\ fresh.ack \in {NoAck, <<sessions', thread'[t].try>>}
      BY <2>2
    <3> QED BY <3>1, <3>3, <3>4, <3>5 DEF Running
  <2>7. OwnerOK(t)'
    BY <1>3, <1>4, <2>1, <2>6 DEF OwnerOK, Loose, Attempting
  <2>8. BatchOK'
    <3>1. \A m \in Attempts : Alive(m)' => thread'[t].at = "register" /\ thread'[t].try = m
      BY <1>2, <2>1, <2>3 DEF Alive
    <3>2. \A m \in Attempts : m > attempt => proc'[m].exit = "none"
      <4>1. \A m \in Attempts : m > attempt => m # n
        BY <1>4, FieldAssumption DEF Attempts
      <4> QED BY <1>2, <2>3, <4>1 DEF BatchOK
    <3> QED BY <1>2, <1>3, <3>1, <3>2 DEF BatchOK
  <2> QED BY <1>1, <1>2, <1>3, <2>1, <2>4, <2>5, <2>7, <2>8, HolderKeeps DEF Loose
<1>6. CASE proc' = proc /\ Goes(t, "abort_popen")
  <2>1. /\ thread' \in [Slots -> ThreadRecord] /\ thread'[t].at = "abort_popen"
        /\ \A u \in Slots : u # t => thread'[u] = thread[u]
    BY <1>2, <1>6, GoesEffect DEF Labels
  <2>2. TypeOK'
    BY <1>2, <1>3, <1>6, <2>1 DEF TypeOK
  <2>3. CountedWasPerformed'
    BY <1>2, <1>3, <1>6, CountedStays
  <2>4. OwnerOK(t)'
    BY <1>3, <1>4, <2>1 DEF OwnerOK, Loose, Attempting
  <2>5. BatchOK'
    BY <1>2, <1>3, <1>6 DEF BatchOK, Alive
  <2> QED BY <1>1, <1>2, <1>3, <2>1, <2>2, <2>3, <2>4, <2>5, HolderKeeps DEF Loose
<1> QED BY <1>5, <1>6 DEF Popen

(* The process becomes the one the page and close() can reach.             *)
LEMMA RegisterKeeps ==
    ASSUME IInv, app = "up", NEW t \in Slots, Register(t)
    PROVE  TypeOK' /\ CountedWasPerformed' /\ UpInv' /\ UNCHANGED app
<1> DEFINE n == thread[t].try
<1>1. thread[t].at = "register" /\ thread[t].at \notin Loose /\ thread[t].at \in Attempting
  BY DEF Register, Loose, Attempting
<1>2. /\ TypeOK /\ CountedWasPerformed /\ BatchOK /\ OwnerOK(t)
      /\ thread \in [Slots -> ThreadRecord] /\ phase \notin Rest
      /\ (\A m \in Attempts : Alive(m) => n = m) /\ phase # "go_ready"
  BY <1>1, HolderKnows
<1>3. UNCHANGED <<app, phase, lowPower, completed, lastFailure, shown, attempt, timerOn, proc,
                  file, device, sessions, retries, posting, counted>>
  BY DEF Register, State, Quiet
<1>4. /\ ~lowPower /\ completed < Count /\ n \in Attempts /\ n = attempt /\ n = shown
      /\ thread[t].rep = completed + 1 /\ Running(proc[n], thread[t].rep, n)
  BY <1>1, <1>2, AttemptKnows
<1>5. /\ thread' \in [Slots -> ThreadRecord] /\ thread'[t].at = "read"
      /\ thread'[t].rep = thread[t].rep /\ thread'[t].try = n
      /\ \A u \in Slots : u # t => thread'[u] = thread[u]
  BY <1>2, GoesEffect DEF Register, Labels
<1>6. current' = n /\ n \in 0 .. MaxAttempts
  BY <1>2, <1>4 DEF Register, TypeOK
<1> HIDE DEF n
<1>7. TypeOK'
  BY <1>2, <1>3, <1>5, <1>6 DEF TypeOK
<1>8. CountedWasPerformed'
  BY <1>2, <1>3, CountedStays
<1>9. Running(proc[thread[t].try], thread[t].rep, thread[t].try)'
  BY <1>3, <1>4, <1>5 DEF Running
<1>10. OwnerOK(t)'
  BY <1>3, <1>4, <1>5, <1>9 DEF OwnerOK, Loose, Attempting
<1>11. BatchOK'
  BY <1>2, <1>3, <1>5, <1>6 DEF BatchOK, Alive
<1> QED BY <1>1, <1>2, <1>3, <1>5, <1>7, <1>8, <1>10, <1>11, HolderKeeps DEF Loose

(* A line becomes a phase, never one in which the operator acts.           *)
LEMMA ReadLineKeeps ==
    ASSUME IInv, app = "up", NEW t \in Slots, ReadLine(t)
    PROVE  TypeOK' /\ CountedWasPerformed' /\ UpInv' /\ UNCHANGED app
<1> DEFINE read == thread[t].read + 1
           w == [thread[t] EXCEPT !.read = read]
<1>1. thread[t].at = "read" /\ thread[t].at \notin Loose /\ thread[t].at \in Attempting
  BY DEF ReadLine, Loose, Attempting
<1>2. /\ TypeOK /\ CountedWasPerformed /\ BatchOK /\ OwnerOK(t)
      /\ thread \in [Slots -> ThreadRecord] /\ thread[t] \in ThreadRecord /\ phase \notin Rest
  BY <1>1, HolderKnows
<1>3. UNCHANGED <<app, lowPower, completed, lastFailure, shown, attempt, current, timerOn, proc,
                  file, device, sessions, retries, posting, counted>>
  BY DEF ReadLine, Quiet
<1>4. read \in 1 .. 5
  <2>1. proc[thread[t].try].lines \in 0 .. 5
    BY <1>1, <1>2, AttemptKnows DEF ProcRecord
  <2>2. thread[t].read \in Nat
    BY <1>2 DEF ThreadRecord
  <2>3. thread[t].read < proc[thread[t].try].lines
    BY DEF ReadLine
  <2> QED BY <2>1, <2>2, <2>3
<1>5. phase' = LinePhase[read] /\ thread' = [thread EXCEPT ![t] = w]
  BY DEF ReadLine
<1> HIDE DEF read
<1>6. /\ w \in ThreadRecord /\ w.at = "read" /\ w.rep = thread[t].rep /\ w.try = thread[t].try
  BY <1>1, <1>2, <1>4 DEF ThreadRecord
<1> HIDE DEF w
<1>7. phase' \in Busy /\ phase' \notin Rest /\ phase' # "ready"
  BY <1>4, <1>5 DEF LinePhase, Busy, Rest
<1>8. /\ thread' \in [Slots -> ThreadRecord] /\ thread'[t] = w
      /\ \A u \in Slots : u # t => thread'[u] = thread[u]
  BY <1>2, <1>5, <1>6
<1>9. TypeOK'
  BY <1>2, <1>3, <1>7, <1>8 DEF TypeOK
<1>10. CountedWasPerformed'
  BY <1>2, <1>3, CountedStays
<1>11. OwnerOK(t)'
  BY <1>1, <1>2, <1>3, <1>6, <1>8 DEF OwnerOK, Loose, Attempting, Running
<1>12. BatchOK'
  <2>1. \A u \in Slots : thread'[u].at = thread[u].at /\ thread'[u].try = thread[u].try
    BY <1>1, <1>6, <1>8
  <2>2. \A n \in Attempts : Alive(n)' => Alive(n)
    BY <1>3 DEF Alive
  <2> QED BY <1>1, <1>2, <1>3, <1>7, <2>1, <2>2 DEF BatchOK
<1> QED BY <1>1, <1>3, <1>6, <1>7, <1>8, <1>9, <1>10, <1>11, <1>12, HolderKeeps

(* The process has ended, well or not, and all its lines were read.        *)
LEMMA ProcessDoneKeeps ==
    ASSUME IInv, app = "up", NEW t \in Slots, ProcessDone(t)
    PROVE  TypeOK' /\ CountedWasPerformed' /\ UpInv' /\ UNCHANGED app
<1> DEFINE n == thread[t].try
<1>1. thread[t].at = "read" /\ thread[t].at \notin Loose /\ thread[t].at \in Attempting
  BY DEF ProcessDone, Loose, Attempting
<1>2. /\ TypeOK /\ CountedWasPerformed /\ BatchOK /\ OwnerOK(t)
      /\ thread \in [Slots -> ThreadRecord] /\ phase \notin Rest
      /\ \A m \in Attempts : Alive(m) => n = m
  BY <1>1, HolderKnows
<1>3. /\ current' = 0
      /\ UNCHANGED <<app, phase, lowPower, completed, lastFailure, shown, attempt, timerOn, proc,
                     file, device, sessions, retries, posting, counted>>
  BY DEF ProcessDone, State, Quiet
<1>4. /\ ~lowPower /\ completed < Count /\ n \in Attempts /\ n = attempt /\ n = shown
      /\ thread[t].rep = completed + 1 /\ Running(proc[n], thread[t].rep, n)
  BY <1>1, <1>2, AttemptKnows
<1>5. proc[n].exit # "" /\ Goes(t, IF proc[n].exit = "ok" THEN "analyze" ELSE "failed")
  BY DEF ProcessDone
<1>6. /\ thread' \in [Slots -> ThreadRecord]
      /\ thread'[t].at = IF proc[n].exit = "ok" THEN "analyze" ELSE "failed"
      /\ thread'[t].rep = thread[t].rep /\ thread'[t].try = n
      /\ \A u \in Slots : u # t => thread'[u] = thread[u]
  BY <1>2, <1>5, GoesEffect DEF Labels
<1>7. TypeOK'
  BY <1>2, <1>3, <1>6, FieldAssumption DEF TypeOK
<1>8. CountedWasPerformed'
  BY <1>2, <1>3, CountedStays
<1> HIDE DEF n
<1>9. Running(proc[thread[t].try], thread[t].rep, thread[t].try)'
  BY <1>3, <1>4, <1>6 DEF Running
<1>10. OwnerOK(t)'
  BY <1>3, <1>4, <1>5, <1>6, <1>9 DEF OwnerOK, Loose, Attempting
<1>11. BatchOK'
  <2>1. \A m \in Attempts : ~Alive(m)'
    BY <1>2, <1>3, <1>5 DEF Alive
  <2> QED BY <1>2, <1>3, <1>6, <2>1 DEF BatchOK
<1> QED BY <1>1, <1>2, <1>3, <1>6, <1>7, <1>8, <1>10, <1>11, HolderKeeps DEF Loose

(* The analysis judges what the process of this attempt wrote.             *)
LEMMA AnalyzeKeeps ==
    ASSUME IInv, app = "up", NEW t \in Slots, Analyze(t)
    PROVE  TypeOK' /\ CountedWasPerformed' /\ UpInv' /\ UNCHANGED app
<1> DEFINE n == thread[t].try
<1>1. thread[t].at = "analyze" /\ thread[t].at \notin Loose /\ thread[t].at \in Attempting
  BY DEF Analyze, Loose, Attempting
<1>2. /\ TypeOK /\ CountedWasPerformed /\ BatchOK /\ OwnerOK(t)
      /\ thread \in [Slots -> ThreadRecord] /\ phase \notin Rest
      /\ (\A m \in Attempts : ~Alive(m)) /\ current = 0
  BY <1>1, HolderKnows
<1>3. /\ phase' = "analyzing"
      /\ UNCHANGED <<app, lowPower, completed, lastFailure, shown, attempt, current, timerOn,
                     proc, file, device, sessions, retries, posting, counted>>
  BY DEF Analyze, Quiet
<1>4. /\ ~lowPower /\ completed < Count /\ n \in Attempts /\ n = attempt /\ n = shown
      /\ thread[t].rep = completed + 1 /\ Running(proc[n], thread[t].rep, n)
      /\ proc[n].exit = "ok"
  BY <1>1, <1>2, AttemptKnows DEF OwnerOK
<1>5. PICK next \in {"judge", "failed", "abort"} : Goes(t, next)
  BY DEF Analyze, AnalysisVerdict
<1>6. /\ thread' \in [Slots -> ThreadRecord] /\ thread'[t].at = next
      /\ thread'[t].rep = thread[t].rep /\ thread'[t].try = n
      /\ \A u \in Slots : u # t => thread'[u] = thread[u]
  BY <1>2, <1>5, GoesEffect DEF Labels
<1>7. TypeOK'
  BY <1>2, <1>3, <1>6 DEF TypeOK, Busy
<1>8. CountedWasPerformed'
  BY <1>2, <1>3, CountedStays
<1> HIDE DEF n
<1>9. Running(proc[thread[t].try], thread[t].rep, thread[t].try)'
  BY <1>3, <1>4, <1>6 DEF Running
<1>10. OwnerOK(t)'
  BY <1>3, <1>4, <1>6, <1>9 DEF OwnerOK, Loose, Attempting
<1>11. BatchOK'
  BY <1>2, <1>3 DEF BatchOK, Alive, Rest
<1> QED BY <1>1, <1>3, <1>6, <1>7, <1>8, <1>10, <1>11, HolderKeeps DEF Loose, Rest

(* The repetition that now counts is the one the worker saw performed.     *)
LEMMA CountResultKeeps ==
    ASSUME IInv, app = "up", NEW t \in Slots, CountResult(t)
    PROVE  TypeOK' /\ CountedWasPerformed' /\ UpInv' /\ UNCHANGED app
<1> DEFINE n == thread[t].try
           r == thread[t].rep
<1>1. thread[t].at = "judge" /\ thread[t].at \notin Loose /\ thread[t].at \in Attempting
  BY DEF CountResult, Loose, Attempting
<1>2. /\ TypeOK /\ CountedWasPerformed /\ BatchOK /\ OwnerOK(t)
      /\ thread \in [Slots -> ThreadRecord] /\ phase \notin Rest
      /\ (\A m \in Attempts : ~Alive(m)) /\ current = 0 /\ phase # "go_ready"
  BY <1>1, HolderKnows
<1>3. /\ completed' = r /\ lastFailure' = 0 /\ counted' = [counted EXCEPT ![r] = n]
      /\ UNCHANGED <<app, phase, lowPower, shown, attempt, current, timerOn, proc, file, device,
                     sessions, retries, posting>>
  BY DEF CountResult, Quiet
<1>4. /\ ~lowPower /\ completed < Count /\ n \in Attempts
      /\ r = completed + 1 /\ r \in Repetitions /\ r \in Nat /\ Running(proc[n], r, n)
      /\ proc[n].exit = "ok"
  BY <1>1, <1>2, AttemptKnows DEF OwnerOK
<1>5. Goes(t, IF r >= Count THEN "restore_complete" ELSE "ready")
  BY DEF CountResult
<1>6. /\ thread' \in [Slots -> ThreadRecord]
      /\ thread'[t].at = IF r >= Count THEN "restore_complete" ELSE "ready"
      /\ \A u \in Slots : u # t => thread'[u] = thread[u]
  BY <1>2, <1>5, GoesEffect DEF Labels
<1>7. n # 0 /\ n \in 0 .. MaxAttempts /\ completed \in Nat /\ Count \in Nat
  BY <1>2, <1>4, FieldAssumption DEF Attempts, TypeOK
<1>8. /\ counted' \in [Repetitions -> 0 .. MaxAttempts] /\ counted'[r] = n
      /\ \A q \in Repetitions : q # r => counted'[q] = counted[q]
  BY <1>2, <1>3, <1>4, <1>7 DEF TypeOK
<1>9. file[r] = n /\ proc[n].rep = r /\ proc[n].ack = <<sessions, n>>
  BY <1>4, <1>7 DEF Running, GoReady
<1> HIDE DEF n, r
<1>10. TypeOK'
  <2>1. completed' \in 0 .. Count
    BY <1>3, <1>4, <1>7
  <2> QED BY <1>2, <1>3, <1>6, <1>8, <2>1 DEF TypeOK
<1>11. CountedWasPerformed'
  <2>1. ASSUME NEW q \in 1 .. completed'
        PROVE  q = r \/ (q \in 1 .. completed /\ q # r /\ q \in Repetitions)
    BY <1>3, <1>4, <1>7 DEF Repetitions
  <2>2. ASSUME NEW q \in 1 .. completed
        PROVE  /\ counted[q] # 0 /\ file[q] = counted[q] /\ proc[counted[q]].exit = "ok"
               /\ proc[counted[q]].rep = q /\ proc[counted[q]].ack = <<sessions, counted[q]>>
    BY <1>2 DEF CountedWasPerformed
  <2>3. ASSUME NEW q \in 1 .. completed'
        PROVE  /\ counted'[q] # 0 /\ file[q] = counted'[q] /\ proc[counted'[q]].exit = "ok"
               /\ proc[counted'[q]].rep = q /\ proc[counted'[q]].ack = <<sessions, counted'[q]>>
    <3>1. CASE q = r
      BY <1>4, <1>7, <1>8, <1>9, <3>1
    <3>2. CASE q # r
      BY <1>8, <2>1, <2>2, <3>2
    <3> QED BY <3>1, <3>2
  <2> QED BY <1>3, <2>3 DEF CountedWasPerformed
<1>12. OwnerOK(t)'
  BY <1>3, <1>4, <1>6, <1>7 DEF OwnerOK, Loose, Attempting
<1>13. BatchOK'
  BY <1>2, <1>3 DEF BatchOK, Alive, Rest
<1> QED BY <1>1, <1>2, <1>3, <1>6, <1>10, <1>11, <1>12, <1>13, HolderKeeps DEF Loose

(* A failed attempt leaves its repetition to be done again.                *)
LEMMA RetryAfterFailureKeeps ==
    ASSUME IInv, app = "up", NEW t \in Slots, RetryAfterFailure(t)
    PROVE  TypeOK' /\ CountedWasPerformed' /\ UpInv' /\ UNCHANGED app
<1> DEFINE n == thread[t].try
           r == thread[t].rep
<1>1. thread[t].at = "failed" /\ thread[t].at \notin Loose /\ thread[t].at \in Attempting
  BY DEF RetryAfterFailure, Loose, Attempting
<1>2. /\ TypeOK /\ CountedWasPerformed /\ BatchOK /\ OwnerOK(t)
      /\ thread \in [Slots -> ThreadRecord]
      /\ (\A m \in Attempts : ~Alive(m)) /\ current = 0
  BY <1>1, HolderKnows
<1>3. /\ lastFailure' = r /\ phase' = "recovering" /\ file' = [file EXCEPT ![r] = 0]
      /\ proc' = [proc EXCEPT ![n] = NoProcess]
      /\ UNCHANGED <<app, lowPower, completed, shown, attempt, current, timerOn, device, sessions,
                     retries, posting, counted>>
  BY DEF RetryAfterFailure, Quiet
<1>4. /\ ~lowPower /\ completed < Count /\ n \in Attempts
      /\ r = completed + 1 /\ r \in Repetitions /\ r \in Nat /\ proc[n].rep = r
  BY <1>1, <1>2, AttemptKnows DEF Running
<1>5. /\ thread' \in [Slots -> ThreadRecord] /\ thread'[t].at = "research"
      /\ \A u \in Slots : u # t => thread'[u] = thread[u]
  BY <1>2, GoesEffect DEF RetryAfterFailure, Labels
<1>6. NoProcess \in ProcRecord /\ NoProcess.exit = "none"
  BY DEF NoProcess, ProcRecord, NoAck
<1> HIDE DEF n, r
<1>7. /\ proc' \in [Attempts -> ProcRecord] /\ proc'[n] = NoProcess
      /\ \A m \in Attempts : m # n => proc'[m] = proc[m]
  BY <1>2, <1>3, <1>4, <1>6 DEF TypeOK
<1>8. /\ file' \in [Repetitions -> Nat]
      /\ \A q \in Repetitions : q # r => file'[q] = file[q]
  BY <1>2, <1>3, <1>4 DEF TypeOK
<1>9. TypeOK'
  BY <1>2, <1>3, <1>4, <1>5, <1>7, <1>8 DEF TypeOK, Busy
<1>10. CountedWasPerformed'
  <2>1. completed \in Nat /\ \A q \in Repetitions : q <= completed => q # r
    BY <1>2, <1>4, FieldAssumption DEF TypeOK, Repetitions
  <2>2. \A m \in Attempts : proc[m].exit = "ok" /\ proc[m].rep <= completed => m # n
    BY <1>4, <2>1
  <2> QED BY <1>2, <1>3, <1>7, <1>8, <2>1, <2>2, CountedStays
<1>11. OwnerOK(t)'
  BY <1>3, <1>4, <1>5 DEF OwnerOK, Loose, Attempting
<1>12. BatchOK'
  <2>1. \A m \in Attempts : ~Alive(m)' /\ (proc[m].exit = "none" => proc'[m].exit = "none")
    BY <1>2, <1>6, <1>7 DEF Alive
  <2> QED BY <1>2, <1>3, <1>4, <2>1 DEF BatchOK
<1> QED BY <1>1, <1>3, <1>5, <1>9, <1>10, <1>11, <1>12, HolderKeeps DEF Loose, Rest

(* Restoring starts by silencing the timer.                                *)
LEMMA BeginRestoreKeeps ==
    ASSUME IInv, app = "up", NEW t \in Slots, BeginRestore(t)
    PROVE  TypeOK' /\ CountedWasPerformed' /\ UpInv' /\ UNCHANGED app
<1> DEFINE next == IF thread[t].at = "restore" THEN "auto" ELSE "auto_complete"
<1>1. thread[t].at \in {"restore", "restore_complete"} /\ thread[t].at \notin Loose
  BY DEF BeginRestore, Loose
<1>2. /\ TypeOK /\ CountedWasPerformed /\ BatchOK /\ OwnerOK(t)
      /\ thread \in [Slots -> ThreadRecord]
      /\ (\A m \in Attempts : ~Alive(m)) /\ current = 0
  BY <1>1, HolderKnows
<1>3. /\ phase' = "restoring" /\ timerOn' = FALSE
      /\ UNCHANGED <<app, lowPower, completed, lastFailure, shown, attempt, current, proc, file,
                     device, sessions, retries, posting, counted>>
  BY DEF BeginRestore, Quiet
<1>4. /\ thread' \in [Slots -> ThreadRecord] /\ thread'[t].at = next
      /\ \A u \in Slots : u # t => thread'[u] = thread[u]
  BY <1>2, GoesEffect DEF BeginRestore, Labels
<1>5. TypeOK'
  BY <1>2, <1>3, <1>4 DEF TypeOK, Busy
<1>6. CountedWasPerformed'
  BY <1>2, <1>3, CountedStays
<1>7. OwnerOK(t)'
  BY <1>1, <1>2, <1>3, <1>4 DEF OwnerOK, Loose, Attempting
<1>8. BatchOK'
  BY <1>2, <1>3 DEF BatchOK, Alive, Rest
<1> QED BY <1>1, <1>3, <1>4, <1>5, <1>6, <1>7, <1>8, HolderKeeps DEF Loose, Rest

(* A restoration that is over leaves what it knows of the Ball's power.    *)
LEMMA EndRestoreKeeps ==
    ASSUME IInv, app = "up", NEW t \in Slots, EndRestore(t)
    PROVE  TypeOK' /\ CountedWasPerformed' /\ UpInv' /\ UNCHANGED app
<1>1. thread[t].at \in {"idle", "complete", "unrestored"} /\ thread[t].at \notin Loose
  BY DEF EndRestore, Loose
<1>2. /\ TypeOK /\ CountedWasPerformed /\ BatchOK /\ OwnerOK(t)
      /\ thread \in [Slots -> ThreadRecord]
      /\ (\A m \in Attempts : ~Alive(m)) /\ current = 0
  BY <1>1, HolderKnows
<1>3. /\ phase' \in {"idle", "complete", "error"} /\ lowPower' = (thread[t].at # "unrestored")
      /\ UNCHANGED <<app, completed, lastFailure, shown, attempt, current, timerOn, proc, file,
                     device, sessions, retries, posting, counted>>
  BY DEF EndRestore, Restored, Quiet
<1>4. /\ thread' \in [Slots -> ThreadRecord] /\ thread'[t].at = "none"
      /\ \A u \in Slots : u # t => thread'[u] = thread[u]
  BY <1>2, EndsEffect DEF EndRestore
<1>5. TypeOK'
  BY <1>2, <1>3, <1>4 DEF TypeOK, Rest
<1>6. CountedWasPerformed'
  BY <1>2, <1>3, CountedStays
<1>7. OwnerOK(t)'
  BY <1>4, LooseRelyOnNothing DEF Loose
<1>8. lowPower' => device' = "auto"
  BY <1>1, <1>2, <1>3 DEF OwnerOK
<1>9. BatchOK'
  BY <1>2, <1>3, <1>8 DEF BatchOK, Alive
<1> QED BY <1>1, <1>3, <1>4, <1>5, <1>6, <1>7, <1>9, HolderKeeps DEF Loose, Rest

(* Failing, too, starts by silencing the timer.                            *)
LEMMA BeginAbortKeeps ==
    ASSUME IInv, app = "up", NEW t \in Slots, BeginAbort(t)
    PROVE  TypeOK' /\ CountedWasPerformed' /\ UpInv' /\ UNCHANGED app
<1> DEFINE next == IF thread[t].at = "abort" THEN "auto_abort" ELSE "auto_abort_popen"
<1>1. thread[t].at \in {"abort", "abort_popen"} /\ thread[t].at \notin Loose
  BY DEF BeginAbort, Loose
<1>2. /\ TypeOK /\ CountedWasPerformed /\ BatchOK /\ OwnerOK(t)
      /\ thread \in [Slots -> ThreadRecord] /\ phase \notin Rest
      /\ (\A m \in Attempts : ~Alive(m)) /\ current = 0
  BY <1>1, HolderKnows
<1>3. /\ timerOn' = FALSE
      /\ UNCHANGED <<app, phase, lowPower, completed, lastFailure, shown, attempt, current, proc,
                     file, device, sessions, retries, posting, counted>>
  BY DEF BeginAbort, State, Quiet
<1>4. /\ thread' \in [Slots -> ThreadRecord] /\ thread'[t].at = next
      /\ \A u \in Slots : u # t => thread'[u] = thread[u]
  BY <1>2, GoesEffect DEF BeginAbort, Labels
<1>5. TypeOK'
  BY <1>2, <1>3, <1>4 DEF TypeOK
<1>6. CountedWasPerformed'
  BY <1>2, <1>3, CountedStays
<1>7. OwnerOK(t)'
  BY <1>1, <1>2, <1>3, <1>4 DEF OwnerOK, Loose, Attempting
<1>8. BatchOK'
  <2>1. phase # "go_ready"
    BY <1>1, <1>2, HolderBatch DEF IInv, UpInv
  <2> QED BY <1>2, <1>3, <2>1 DEF BatchOK, Alive
<1> QED BY <1>1, <1>2, <1>3, <1>4, <1>5, <1>6, <1>7, <1>8, HolderKeeps DEF Loose, Rest

(* A batch that failed is in error, its Ball in auto if that was confirmed. *)
LEMMA EndAbortKeeps ==
    ASSUME IInv, app = "up", NEW t \in Slots, EndAbort(t)
    PROVE  TypeOK' /\ CountedWasPerformed' /\ UpInv' /\ UNCHANGED app
<1>1. /\ thread[t].at \in {"error_low", "error_high", "error_low_popen", "error_high_popen"}
      /\ thread[t].at \notin Loose
  BY DEF EndAbort, Loose
<1>2. /\ TypeOK /\ CountedWasPerformed /\ BatchOK /\ OwnerOK(t)
      /\ thread \in [Slots -> ThreadRecord]
      /\ (\A m \in Attempts : ~Alive(m)) /\ current = 0
  BY <1>1, HolderKnows
<1>3. /\ phase' = "error" /\ lowPower' = (thread[t].at \in {"error_low", "error_low_popen"})
      /\ UNCHANGED <<app, completed, lastFailure, shown, attempt, current, timerOn, proc, file,
                     device, sessions, retries, posting, counted>>
  BY DEF EndAbort, Quiet
<1>4. /\ thread' \in [Slots -> ThreadRecord] /\ thread'[t].at \in {"none", "finally"}
      /\ \A u \in Slots : u # t => thread'[u] = thread[u]
  <2>1. CASE Ends(t)
    BY <1>2, <2>1, EndsEffect
  <2>2. CASE Goes(t, "finally")
    BY <1>2, <2>2, GoesEffect DEF Labels
  <2> QED BY <2>1, <2>2 DEF EndAbort
<1>5. TypeOK'
  <2>1. lowPower' \in BOOLEAN /\ phase' \in Rest
    BY <1>3 DEF Rest
  <2> QED BY <1>2, <1>3, <1>4, <2>1 DEF TypeOK
<1>6. CountedWasPerformed'
  BY <1>2, <1>3, CountedStays
<1>7. OwnerOK(t)'
  BY <1>4, LooseRelyOnNothing DEF Loose
<1>8. lowPower' => device' = "auto"
  BY <1>1, <1>2, <1>3 DEF OwnerOK
<1>9. BatchOK'
  BY <1>2, <1>3, <1>8 DEF BatchOK, Alive
<1> QED BY <1>1, <1>3, <1>4, <1>5, <1>6, <1>7, <1>9, HolderKeeps DEF Loose, Rest

-----------------------------------------------------------------------------
(* Shutting down.                                                          *)

(* Stopping the tool takes nothing from a repetition that counts.          *)
LEMMA CloseKeeps ==
    ASSUME IInv, Close
    PROVE  IInv'
<1>0. /\ TypeOK /\ CountedWasPerformed /\ Owned /\ BatchOK
  BY DEF IInv, UpInv, Close
<1>1. /\ app' = "down" /\ timerOn' = FALSE /\ device' \in {"auto", device}
      /\ UNCHANGED <<phase, lowPower, completed, lastFailure, shown, attempt, current, thread,
                     file, sessions, retries, posting, counted>>
  BY DEF Close, State
<1>2. proc' \in [Attempts -> ProcRecord]
      /\ \A n \in Attempts : proc[n].exit = "ok" => proc'[n] = proc[n]
  <2>1. CASE Alive(current)
    <3> DEFINE p == [proc[current] EXCEPT !.exit = "failed"]
    <3>1. proc[current].exit = ""
      BY <2>1 DEF Alive
    <3>2. current \in Attempts
      <4>1. current \in 0 .. MaxAttempts /\ current # 0
        BY <1>0, <2>1 DEF TypeOK, Alive
      <4> QED BY <4>1, FieldAssumption DEF Attempts
    <3>3. proc[current] \in ProcRecord
      BY <1>0, <3>2 DEF TypeOK
    <3>4. p \in ProcRecord
      BY <3>3 DEF ProcRecord
    <3>5. proc' = [proc EXCEPT ![current] = p]
      BY <2>1 DEF Close
    <3> HIDE DEF p
    <3> QED BY <1>0, <3>1, <3>2, <3>4, <3>5 DEF TypeOK
  <2>2. CASE ~Alive(current)
    BY <1>0, <2>2 DEF Close, TypeOK
  <2> QED BY <2>1, <2>2
<1>3. TypeOK'
  BY <1>0, <1>1, <1>2 DEF TypeOK
<1>4. CountedWasPerformed'
  BY <1>0, <1>1, <1>2, CountedStays
<1> QED BY <1>1, <1>3, <1>4 DEF IInv

(* What a worker left under way changes the Ball and nothing else.         *)
LEMMA OrphanKeeps ==
    ASSUME IInv, NEW t \in Slots, Orphan(t)
    PROVE  IInv'
<1>0. TypeOK /\ CountedWasPerformed /\ thread \in [Slots -> ThreadRecord]
  BY DEF IInv, TypeOK
<1>1. /\ app = "down" /\ device' \in {device, "research", "auto"} /\ Ends(t)
      /\ UNCHANGED <<app, phase, lowPower, completed, lastFailure, shown, attempt, current,
                     timerOn, proc, file, sessions, retries, posting, counted>>
  BY DEF Orphan, State
<1>2. TypeOK'
  BY <1>0, <1>1, EndsEffect DEF TypeOK
<1>3. CountedWasPerformed'
  BY <1>0, <1>1, CountedStays
<1> QED BY <1>1, <1>2, <1>3 DEF IInv

-----------------------------------------------------------------------------
(* Nothing has started.                                                    *)
LEMMA InitIInv == ASSUME Init PROVE IInv
<1>1. NoThread \in ThreadRecord /\ NoThread.at = "none"
  BY DEF NoThread, ThreadRecord, Labels
<1>2. NoProcess \in ProcRecord /\ NoProcess.exit = "none" /\ NoAck \in Nat \X Nat
  BY DEF NoProcess, ProcRecord, NoAck
<1>3. TypeOK
  <2>1. /\ thread \in [Slots -> ThreadRecord] /\ proc \in [Attempts -> ProcRecord]
        /\ posting \in Nat \X Nat
    BY <1>1, <1>2 DEF Init
  <2>2. /\ file \in [Repetitions -> Nat] /\ counted \in [Repetitions -> 0 .. MaxAttempts]
        /\ completed \in 0 .. Count /\ attempt \in 0 .. MaxAttempts
        /\ current \in 0 .. MaxAttempts
    BY FieldAssumption DEF Init
  <2>3. phase \in Rest /\ app \in {"up", "down"} /\ device \in {"auto", "research"}
    BY DEF Init, Rest
  <2> QED BY <2>1, <2>2, <2>3 DEF Init, TypeOK
<1>4. CountedWasPerformed
  BY DEF Init, CountedWasPerformed
<1>5. Owned
  BY <1>1 DEF Init, Owned, Holders, Rest
<1>6. \A t \in Slots : OwnerOK(t)
  BY <1>1 DEF Init, OwnerOK, Loose, Attempting
<1>7. BatchOK
  <2>1. \A n \in Attempts : proc[n].exit = "none" /\ ~Alive(n)
    BY <1>2 DEF Init, Alive
  <2> QED BY <2>1 DEF Init, BatchOK
<1> QED BY <1>3, <1>4, <1>5, <1>6, <1>7 DEF IInv, UpInv

(* A thread of the running tool keeps everything, whatever its step.       *)
LEMMA WorkerKeeps ==
    ASSUME IInv, NEW t \in Slots, Worker(t)
    PROVE  TypeOK' /\ CountedWasPerformed' /\ UpInv' /\ UNCHANGED app
<1>1. app = "up"
  BY DEF Worker
<1>2. CASE Research(t) \/ Restore(t) \/ Abort(t)
  BY <1>1, <1>2, PowerKeeps
<1>3. CASE SetReady(t)
  BY <1>1, <1>3, SetReadyKeeps
<1>4. CASE ArmReadyTimeout(t) \/ Finally(t)
  BY <1>1, <1>4, LastStepsKeep
<1>5. CASE ReadyTimeout(t)
  BY <1>1, <1>5, ReadyTimeoutKeeps
<1>6. CASE Popen(t)
  BY <1>1, <1>6, PopenKeeps
<1>7. CASE Register(t)
  BY <1>1, <1>7, RegisterKeeps
<1>8. CASE ReadLine(t)
  BY <1>1, <1>8, ReadLineKeeps
<1>9. CASE ProcessDone(t)
  BY <1>1, <1>9, ProcessDoneKeeps
<1>10. CASE Analyze(t)
  BY <1>1, <1>10, AnalyzeKeeps
<1>11. CASE CountResult(t)
  BY <1>1, <1>11, CountResultKeeps
<1>12. CASE RetryAfterFailure(t)
  BY <1>1, <1>12, RetryAfterFailureKeeps
<1>13. CASE BeginRestore(t)
  BY <1>1, <1>13, BeginRestoreKeeps
<1>14. CASE EndRestore(t)
  BY <1>1, <1>14, EndRestoreKeeps
<1>15. CASE EndAbort(t)
  BY <1>1, <1>15, EndAbortKeeps
<1>16. CASE BeginAbort(t)
  BY <1>1, <1>16, BeginAbortKeeps
<1> QED BY <1>2, <1>3, <1>4, <1>5, <1>6, <1>7, <1>8, <1>9, <1>10, <1>11, <1>12, <1>13, <1>14,
           <1>15, <1>16 DEF Worker

(* Every step keeps the invariant.                                         *)
LEMMA NextKeepsIInv ==
    ASSUME IInv, [Next]_vars
    PROVE  IInv'
<1>1. ASSUME TypeOK' /\ CountedWasPerformed' /\ UpInv'
      PROVE  IInv'
  BY <1>1 DEF IInv
<1>2. CASE Prepare
  BY <1>1, <1>2, PrepareKeeps
<1>3. CASE Reconnect
  BY <1>1, <1>3, ReconnectKeeps
<1>4. CASE StartCapture
  BY <1>1, <1>4, StartCaptureKeeps
<1>5. CASE Paint
  BY <1>1, <1>5, PaintKeeps
<1>6. CASE AcknowledgeGo
  BY <1>1, <1>6, AcknowledgeGoKeeps
<1>7. CASE Finish
  BY <1>1, <1>7, FinishKeeps
<1>8. CASE TimerFires
  BY <1>1, <1>8, TimerFiresKeeps
<1>9. ASSUME NEW t \in Slots, Worker(t) PROVE IInv'
  BY <1>1, <1>9, WorkerKeeps
<1>10. ASSUME NEW t \in Slots, Orphan(t) PROVE IInv'
  BY <1>10, OrphanKeeps
<1>11. ASSUME NEW n \in Attempts, ToolPrints(n) \/ ToolExits(n) PROVE IInv'
  BY <1>1, <1>11, ToolPrintsKeeps, ToolExitsKeeps
<1>12. CASE Close
  BY <1>12, CloseKeeps
<1>13. CASE UNCHANGED vars
  <2> USE <1>13 DEF vars
  <2>1. TypeOK'
    BY DEF IInv, TypeOK
  <2>2. CountedWasPerformed'
    BY DEF IInv, CountedWasPerformed
  <2>3. ASSUME UpInv PROVE UpInv'
    <3>1. Owned' /\ \A u \in Slots : OwnerOK(u)'
      BY <2>3, NobodyMoves DEF UpInv
    <3>2. BatchOK'
      BY <2>3 DEF UpInv, BatchOK, Alive
    <3> QED BY <3>1, <3>2 DEF UpInv
  <2> QED BY <2>1, <2>2, <2>3 DEF IInv
<1> QED BY <1>2, <1>3, <1>4, <1>5, <1>6, <1>7, <1>8, <1>9, <1>10, <1>11, <1>12, <1>13 DEF Next

(* Every reachable state satisfies the invariant.                          *)
THEOREM Invariance == Spec => []IInv
<1>1. Init => IInv
  BY InitIInv
<1>2. IInv /\ [Next]_vars => IInv'
  BY NextKeepsIInv
<1> QED BY <1>1, <1>2, PTL DEF Spec

(* Handlers, the ready timer and workers hand a batch over without a gap   *)
(* and without a second owner, however they interleave.                    *)
THEOREM PhaseOwned == Spec => []PhaseHasOneOwner
<1>1. ASSUME IInv PROVE PhaseHasOneOwner
  <2> SUFFICES ASSUME app = "up" PROVE Cardinality(Holders) = IF phase \in Rest THEN 0 ELSE 1
    BY DEF PhaseHasOneOwner
  <2>1. Owned
    BY <1>1 DEF IInv, UpInv
  <2>2. CASE phase \in Rest
    BY <2>1, <2>2, FS_EmptySet DEF Owned
  <2>3. CASE phase \notin Rest
    <3>1. PICK t \in Slots : Holders = {t}
      BY <2>1, <2>3 DEF Owned
    <3> QED BY <2>3, <3>1, FS_Singleton
  <2> QED BY <2>2, <2>3
<1> QED BY <1>1, Invariance, PTL

(* The page never says that a Ball left in research mode has low power,    *)
(* whichever commands failed, applied or lost.                             *)
THEOREM PowerKnown == Spec => []LowPowerIsTrue
<1>1. IInv => LowPowerIsTrue
  BY DEF IInv, UpInv, BatchOK, LowPowerIsTrue
<1> QED BY <1>1, Invariance, PTL

(* A repetition counts only for an attempt of this batch that wrote its    *)
(* file, ended well and started on a GO painted for it, even after the     *)
(* tool was closed.                                                        *)
THEOREM CountedPerformed == Spec => []CountedWasPerformed
<1>1. IInv => CountedWasPerformed
  BY DEF IInv
<1> QED BY <1>1, Invariance, PTL

=============================================================================
