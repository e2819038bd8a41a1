----------------------------- MODULE PoolShutdown -----------------------------
(***************************************************************************)
(* Proofs about Pool, continued: what a close() that returned leaves       *)
(* behind, which task may start a batch, how much nested batches hold, and *)
(* that a program of one thread can do none of the things that two threads *)
(* can do to each other (runs pool_race, pool_reentry, pool_callback,      *)
(* pool_leak and pool_nested).                                             *)
(***************************************************************************)
EXTENDS PoolProofs, FunctionTheorems

-----------------------------------------------------------------------------
(* What is left of the executions when close() returns. *)

\* The executor is shut down once, by the thread that took it.
OneShutdown ==
    /\ drainer = Nothing <=> open
    /\ executor => open
    /\ \A t \in Thread : closing[t] \in {"shut", "drain"} =>
          /\ open
          /\ \A u \in Thread : closing[u] \in {"shut", "drain"} => u = t
    /\ \A t \in Thread :
          closing[t] \in {"join", "collect", "await"} \/ awaited[t] # {} => drainer = t

\* Nothing is queued on an executor that was shut down, and what runs has a
\* worker.
NothingQueued == ~open => \A f \in Future : fut[f] # "queued"
HasWorker == \A f \in Future : fut[f] = "running" => \E w \in Worker : at[w] = f

\* Who found the executor gone came after a thread that took it: that one is
\* still at it, or its close() ended.
Taken ==
    /\ "gone" \in report => ~executor
    /\ ~executor => (\E t \in Thread : ShuttingDown(t)) \/ report \ {"gone"} # {}

\* The shutdown ends once, and what it established stays true.
Settled ==
    /\ report \ {"gone"} # {} =>
          ~open /\ \A t \in Thread : closing[t] \notin {"join", "collect", "await"}
    /\ "joined" \in report => \A f \in Future : fut[f] # "running"
    /\ "closed" \in report => \A t \in Thread : \A f \in awaited[t] : fut[f] = "done"

ShutInv == OneShutdown /\ NothingQueued /\ HasWorker /\ Taken /\ Settled

LEMMA ShutInit == Init => ShutInv
  BY PoolAssumption DEF Init, ShutInv, OneShutdown, NothingQueued, HasWorker, Taken,
     Settled, ShuttingDown

\* Nothing but close() changes its fields.
LEMMA OnlyCloseShuts ==
    ASSUME IndInv, [Next]_vars
    PROVE  (\E t \in Client : Close(t)) \/ UNCHANGED <<fields, shutdown>>
<1> USE DEF IndInv
<1>1. CASE \E r \in Run : RunStep(r)
  <2>1. PICK r \in Run : Moves(r) \/ Withdraw(r) \/ RecordLeaks(r)
    BY <1>1 DEF RunStep, Moves
  <2> QED
    BY <2>1, MovesFrame DEF Withdraw, RecordLeaks
<1>2. CASE \E f \in Future : FutureStep(f)
  BY <1>2, FutureFrame
<1>3. CASE UNCHANGED vars
  BY <1>3 DEF vars
<1> QED
  BY <1>1, <1>2, <1>3 DEF Next, EnterMap, OpenStream, EnterStream, StartTask, EndTask

\* Who moves a future, and from where.
LEMMA FutureLife ==
    ASSUME IndInv, [Next]_vars, NEW f \in Future
    PROVE  /\ fut'[f] = "queued" => fut[f] = "queued" \/ (open /\ UNCHANGED fields)
           /\ fut'[f] = "running" =>
                 \/ fut[f] = "running"
                 \/ fut[f] = "queued" /\ \E w \in Worker : StartTask(w, f)
           /\ fut[f] = "done" => fut'[f] = "done"
<1> USE DEF IndInv, TypeOK
<1>1. CASE \E t \in Thread, r \in Run : Enters(t, r)
  BY <1>1 DEF Enters, EnterMap, OpenStream, EnterStream, tasks
<1>2. CASE \E r \in Run : Moves(r)
  BY <1>2, MovesFrame DEF tasks
<1>3. CASE \E r \in Run : Withdraw(r) \/ RecordLeaks(r)
  BY <1>3 DEF Withdraw, RecordLeaks, tasks
<1>4. CASE \E g \in Future : FutureStep(g)
  <2>1. PICK g \in Future : FutureStep(g)
    BY <1>4
  <2>2. CASE Submit(g)
    BY <2>2 DEF Submit
  <2>3. CASE Deliver(g) \/ TimeOut(g) \/ FreeSlot(g)
    BY <2>3 DEF Deliver, TimeOut, FreeSlot, tasks
  <2> QED
    BY <2>1, <2>2, <2>3 DEF FutureStep
<1>5. CASE \E w \in Worker, g \in Future : StartTask(w, g)
  BY <1>5 DEF StartTask
<1>6. CASE \E w \in Worker : EndTask(w)
  BY <1>6 DEF EndTask
<1>7. CASE \E t \in Thread : Close(t)
  <2>1. fut'[f] = fut[f] \/ (fut[f] = "queued" /\ fut'[f] = "drained")
    BY <1>7, CloseFrame
  <2> QED
    BY <2>1
<1>8. CASE UNCHANGED vars
  BY <1>8 DEF vars, tasks
<1>9. Client \subseteq Thread
  BY DEF Thread
<1> QED
  BY <1>1, <1>2, <1>3, <1>4, <1>5, <1>6, <1>7, <1>8, <1>9
     DEF Next, Enters, RunStep, Moves

LEMMA OneShutdownStep ==
    ASSUME IndInv, OneShutdown, [Next]_vars
    PROVE  OneShutdown'
<1> USE DEF IndInv, TypeOK
<1>1. CASE UNCHANGED <<fields, shutdown>>
  BY <1>1 DEF OneShutdown, fields, shutdown
<1>2. CASE \E t \in Thread : Close(t)
  <2>1. PICK t \in Thread : Close(t)
    BY <1>2
  <2>2. CASE CloseCheck(t) \/ CloseTest(t) \/ CloseCrash(t)
    BY <2>2 DEF CloseCheck, CloseTest, CloseCrash, At, OneShutdown, fields
  <2>3. CASE CloseSwap(t)
    <3>1. /\ UNCHANGED <<open, drainer, awaited>> /\ ~executor'
          /\ closing' = [closing EXCEPT ![t] = IF executor THEN "shut" ELSE "crash"]
      BY <2>3 DEF CloseSwap, At
    <3>2. executor => \A u \in Thread : closing[u] \notin {"shut", "drain"}
      BY DEF CloseOnce
    <3> QED
      BY <3>1, <3>2 DEF OneShutdown
  <2>4. CASE CloseForget(t)
    BY <2>4 DEF CloseForget, At, OneShutdown
  <2>5. CASE CloseDrain(t)
    <3>1. /\ closing[t] = "drain" /\ ~open' /\ drainer' = t
          /\ UNCHANGED <<executor, awaited>>
          /\ \E c \in {"collect", "join"} : closing' = [closing EXCEPT ![t] = c]
      BY <2>5 DEF CloseDrain, At
    <3>2. open /\ drainer = Nothing
      BY <3>1 DEF OneShutdown
    <3>3. ~executor
      BY <3>1 DEF CloseOnce
    <3>4. \A u \in Thread : /\ closing[u] \notin {"join", "collect", "await"}
                            /\ awaited[u] = {}
      BY <3>2, PoolAssumption DEF OneShutdown
    <3>5. \A u \in Thread : u # t => closing[u] \notin {"shut", "drain"}
      BY <3>1 DEF OneShutdown
    <3> QED
      BY <3>1, <3>3, <3>4, <3>5, PoolAssumption DEF OneShutdown
  <2>6. CASE CloseJoin(t) \/ CloseAwait(t)
    BY <2>6 DEF CloseJoin, CloseAwait, At, OneShutdown, fields
  <2>7. CASE CloseCollect(t)
    BY <2>7 DEF CloseCollect, At, OneShutdown, fields
  <2> QED
    BY <2>1, <2>2, <2>3, <2>4, <2>5, <2>6, <2>7 DEF Close
<1> QED
  BY <1>1, <1>2, OnlyCloseShuts DEF Thread

\* The shutdown empties the queue, and submit() refuses from then on.
LEMMA NothingQueuedStep ==
    ASSUME IndInv, NothingQueued, [Next]_vars
    PROVE  NothingQueued'
<1> SUFFICES ASSUME ~open', NEW f \in Future, fut'[f] = "queued"
             PROVE  FALSE
  BY DEF NothingQueued
<1>1. fut[f] = "queued"
  BY FutureLife DEF fields
<1>2. open
  BY <1>1 DEF NothingQueued
<1>3. PICK t \in Client : Close(t)
  BY <1>2, OnlyCloseShuts DEF fields
<1>4. CloseDrain(t)
  BY <1>2, <1>3 DEF Close, CloseCheck, CloseTest, CloseSwap, CloseCrash, CloseForget,
     CloseJoin, CloseCollect, CloseAwait, fields
<1> QED
  BY <1>1, <1>4 DEF CloseDrain

LEMMA HasWorkerStep ==
    ASSUME IndInv, HasWorker, [Next]_vars
    PROVE  HasWorker'
<1> USE DEF IndInv, TypeOK
<1> SUFFICES ASSUME NEW f \in Future, fut'[f] = "running"
             PROVE  \E w \in Worker : at'[w] = f
  BY DEF HasWorker
<1>1. CASE \E w \in Worker : StartTask(w, f)
  BY <1>1 DEF StartTask
<1>2. CASE fut[f] = "running"
  <2>1. PICK w \in Worker : at[w] = f
    BY <1>2 DEF HasWorker
  <2>2. f # Nothing
    BY PoolAssumption
  <2>3. CASE at' = at
    BY <2>1, <2>3
  <2>4. CASE \E v \in Worker, g \in Future : StartTask(v, g)
    BY <2>1, <2>2, <2>4 DEF StartTask
  <2>5. CASE \E v \in Worker : EndTask(v)
    <3>1. PICK v \in Worker : EndTask(v)
      BY <2>5
    <3>2. v # w
      BY <2>1, <3>1 DEF EndTask
    <3> QED
      BY <2>1, <3>1, <3>2 DEF EndTask
  <2>6. CASE \E r \in Run : RunStep(r)
    <3>1. PICK r \in Run : Moves(r) \/ Withdraw(r) \/ RecordLeaks(r)
      BY <2>6 DEF RunStep, Moves
    <3>2. at' = at
      BY <3>1, MovesFrame DEF Withdraw, RecordLeaks, tasks
    <3> QED
      BY <2>3, <3>2
  <2>7. CASE \E g \in Future : FutureStep(g)
    BY <2>3, <2>7, FutureFrame
  <2>8. CASE \E t \in Client : Close(t)
    <3>1. at' = at
      BY <2>8, CloseFrame DEF Thread
    <3> QED
      BY <2>3, <3>1
  <2>9. CASE UNCHANGED vars
    BY <2>3, <2>9 DEF vars, tasks
  <2> QED
    BY <2>3, <2>4, <2>5, <2>6, <2>7, <2>8, <2>9
       DEF Next, EnterMap, OpenStream, EnterStream, tasks
<1> QED
  BY <1>1, <1>2, FutureLife

LEMMA TakenStep ==
    ASSUME IndInv, Taken, [Next]_vars
    PROVE  Taken'
<1> USE DEF IndInv, TypeOK
<1>1. CASE UNCHANGED <<fields, shutdown>>
  BY <1>1 DEF Taken, ShuttingDown, fields, shutdown
<1>2. CASE \E t \in Thread : Close(t)
  <2>1. PICK t \in Thread : Close(t)
    BY <1>2
  <2>2. CASE CloseCheck(t) \/ CloseTest(t)
    BY <2>2 DEF CloseCheck, CloseTest, At, Taken, ShuttingDown, fields
  <2>3. CASE CloseSwap(t)
    BY <2>3 DEF CloseSwap, At, Taken, ShuttingDown
  <2>4. CASE CloseCrash(t) \/ CloseForget(t)
    BY <2>4 DEF CloseCrash, CloseForget, At, Taken, ShuttingDown
  <2>5. CASE CloseDrain(t) \/ CloseCollect(t)
    BY <2>5 DEF CloseDrain, CloseCollect, At, Taken, ShuttingDown, fields
  <2>6. CASE CloseJoin(t) \/ CloseAwait(t)
    <3>1. \E w \in {"joined", "closed", "ShutdownTimeout"} : report' = report \union {w}
      BY <2>6 DEF CloseJoin, CloseAwait
    <3>2. executor' = executor
      BY <2>6 DEF CloseJoin, CloseAwait, fields
    <3> QED
      BY <3>1, <3>2 DEF Taken
  <2> QED
    BY <2>1, <2>2, <2>3, <2>4, <2>5, <2>6 DEF Close
<1> QED
  BY <1>1, <1>2, OnlyCloseShuts DEF Thread

LEMMA SettledStep ==
    ASSUME IndInv, ShutInv, [Next]_vars
    PROVE  Settled'
<1> USE DEF IndInv, TypeOK
<1>1. ASSUME UNCHANGED <<open, awaited>>, report' \in {report, report \union {"gone"}},
             \A t \in Thread : closing'[t] \in {"join", "collect", "await"} =>
                                   closing[t] = closing'[t]
      PROVE  Settled'
  <2> SUFFICES ASSUME report \ {"gone"} # {} PROVE Settled'
    BY <1>1 DEF Settled
  <2>1. ~open /\ ~open'
    BY <1>1 DEF ShutInv, Settled
  <2>2. \A f \in Future : fut'[f] = "running" => fut[f] = "running"
    BY <2>1, FutureLife DEF ShutInv, NothingQueued
  <2>3. \A f \in Future : fut[f] = "done" => fut'[f] = "done"
    BY FutureLife
  <2> QED
    BY <1>1, <2>1, <2>2, <2>3 DEF ShutInv, Settled
<1>2. CASE UNCHANGED <<fields, shutdown>>
  BY <1>1, <1>2 DEF fields, shutdown
<1>3. CASE \E t \in Thread : Close(t)
  <2>1. PICK t \in Thread : Close(t)
    BY <1>3
  <2>2. CASE CloseCheck(t) \/ CloseTest(t)
    BY <1>1, <2>2 DEF CloseCheck, CloseTest, At, fields
  <2>3. CASE CloseSwap(t) \/ CloseCrash(t) \/ CloseForget(t)
    BY <1>1, <2>3 DEF CloseSwap, CloseCrash, CloseForget, At
  <2>4. CASE CloseDrain(t)
    <3>1. open
      BY <2>4 DEF CloseDrain, At, ShutInv, OneShutdown
    <3>2. report' \ {"gone"} = {}
      BY <2>4, <3>1 DEF CloseDrain, ShutInv, Settled
    <3> QED
      BY <3>2 DEF Settled
  <2>5. CASE CloseCollect(t)
    <3>1. report' \ {"gone"} = {}
      BY <2>5 DEF CloseCollect, At, ShutInv, Settled
    <3> QED
      BY <3>1 DEF Settled
  <2>6. CASE CloseJoin(t) \/ CloseAwait(t)
    <3>1. /\ closing[t] \in {"join", "await"}
          /\ closing' = [closing EXCEPT ![t] = "no"]
          /\ UNCHANGED <<fields, fut, awaited, drainer>>
      BY <2>6 DEF CloseJoin, CloseAwait, At, tasks
    <3>2. drainer = t /\ ~open /\ report \ {"gone"} = {}
      BY <3>1, PoolAssumption DEF ShutInv, OneShutdown, Settled
    <3>3. \A u \in Thread : u # t => /\ closing[u] \notin {"join", "collect", "await"}
                                     /\ awaited[u] = {}
      BY <3>2 DEF ShutInv, OneShutdown
    <3>4. ~open' /\ \A u \in Thread : closing'[u] \notin {"join", "collect", "await"}
      BY <3>1, <3>2, <3>3 DEF fields
    <3>5. CASE CloseJoin(t)
      <4>1. \A f \in Future : fut[f] # "running"
        BY <3>5, PoolAssumption DEF CloseJoin, ShutInv, HasWorker
      <4>2. report' = report \union {"joined"} /\ fut' = fut
        BY <3>1, <3>5 DEF CloseJoin
      <4> QED
        BY <3>2, <3>4, <4>1, <4>2 DEF Settled
    <3>6. CASE CloseAwait(t)
      <4>1. report' = report \union
                        {IF \A f \in awaited[t] : fut[f] = "done" THEN "closed"
                         ELSE "ShutdownTimeout"}
        BY <3>6 DEF CloseAwait
      <4>2. "joined" \notin report'
        BY <3>2, <4>1
      <4>3. "closed" \in report' => \A f \in awaited[t] : fut[f] = "done"
        BY <3>2, <4>1
      <4> QED
        BY <3>1, <3>3, <3>4, <4>2, <4>3 DEF Settled
    <3> QED
      BY <2>6, <3>5, <3>6
  <2> QED
    BY <2>1, <2>2, <2>3, <2>4, <2>5, <2>6 DEF Close
<1> QED
  BY <1>2, <1>3, OnlyCloseShuts DEF Thread

\* What runs after a close() that returned, for any number of threads in close()
\* together: nothing, if that close() took the executor and was unbounded;
\* executions of batches that were not over when it looked at _leaked, if it
\* took the executor and was bounded (594-607).  A close() that found the
\* executor gone (589-590) promises no more than the one that took it: while
\* that one is at work, or if it was bounded, tasks may run.
THEOREM CloseLeavesNothingUnknown == Spec => []CloseAccounts
<1>1. Init => IndInv /\ ShutInv
  BY InitInv, ShutInit
<1>2. IndInv /\ ShutInv /\ [Next]_vars => IndInv' /\ ShutInv'
  BY StepInv, OneShutdownStep, NothingQueuedStep, HasWorkerStep, TakenStep,
     SettledStep DEF ShutInv
<1>3. IndInv /\ ShutInv => CloseAccounts
  <2> SUFFICES ASSUME IndInv, ShutInv, NEW f \in Future, fut[f] = "running"
               PROVE  /\ "joined" \notin report
                      /\ "closed" \in report => f[1] \in Claimed \/ f \in leaked
                      /\ "gone" \in report =>
                            \/ \E t \in Thread : ShuttingDown(t)
                            \/ report \intersect {"closed", "ShutdownTimeout"} # {}
    BY DEF CloseAccounts
  <2>1. "joined" \notin report
    BY DEF ShutInv, Settled
  <2>2. ASSUME "closed" \in report, f[1] \notin Claimed
        PROVE  f \in leaked
    <3>1. f[1] \in Run
      BY FutureRun
    <3>2. run[f[1]] = "ended"
      BY <2>2, <3>1 DEF IndInv, TypeOK, RunState, Places, NothingBefore, Claimed
    <3>3. f \in leaked \/ \E t \in Thread : f \in awaited[t]
      BY <3>2 DEF IndInv, LeaksKnown
    <3> QED
      BY <2>2, <3>3 DEF ShutInv, Settled
  <2>3. ASSUME "gone" \in report, ~\E t \in Thread : ShuttingDown(t)
        PROVE  report \intersect {"closed", "ShutdownTimeout"} # {}
    <3>1. report \ {"gone"} # {}
      BY <2>3 DEF ShutInv, Taken
    <3> QED
      BY <2>1, <3>1 DEF IndInv, TypeOK
  <2> QED
    BY <2>1, <2>2, <2>3
<1> QED
  BY <1>1, <1>2, <1>3, PTL DEF Spec

-----------------------------------------------------------------------------
(* Tasks that start a batch. *)

\* A run has a thread from the step that enters it to the one that ends it.
LEMMA CoordChanges ==
    ASSUME IndInv, [Next]_vars, NEW r \in Run, coord'[r] # coord[r]
    PROVE  \/ coord'[r] = Nothing
           \/ \E t \in Thread : EnterMap(t, r) \/ EnterStream(t, r)
<1> USE DEF IndInv, TypeOK
<1>1. CASE \E q \in Run : Moves(q)
  <2>1. PICK q \in Run : Moves(q)
    BY <1>1
  <2> QED
    BY <2>1, MovesFrame
<1>2. CASE \E q \in Run : Withdraw(q) \/ RecordLeaks(q)
  BY <1>2 DEF Withdraw, RecordLeaks
<1>3. CASE \E f \in Future : FutureStep(f)
  BY <1>3, FutureFrame
<1>4. CASE \E t \in Client : Close(t)
  BY <1>4, CloseFrame DEF Thread, runs
<1>5. CASE UNCHANGED vars
  BY <1>5 DEF vars, runs
<1>6. CASE \E w \in Worker : (\E f \in Future : StartTask(w, f)) \/ EndTask(w)
  BY <1>6 DEF StartTask, EndTask, runs
<1>7. CASE \E t \in Thread, q \in Run : Enters(t, q)
  BY <1>7 DEF Enters, EnterMap, OpenStream, EnterStream
<1> QED
  BY <1>1, <1>2, <1>3, <1>4, <1>5, <1>6, <1>7 DEF Next, RunStep, Moves, Enters

\* A run that is about to claim the pool was already, or is entered now.
LEMMA Entering ==
    ASSUME IndInv, [Next]_vars, NEW r \in Run, run'[r] = "entering"
    PROVE  \/ run[r] = "entering" /\ coord'[r] = coord[r]
           \/ \E t \in Thread : EnterMap(t, r) \/ EnterStream(t, r)
<1> USE DEF IndInv, TypeOK
<1>1. CASE \E q \in Run : Moves(q)
  <2>1. PICK q \in Run : Moves(q)
    BY <1>1
  <2>2. q # r => run'[r] = run[r] /\ coord'[r] = coord[r]
    BY <2>1, MovesFrame
  <2>3. q # r
    BY <2>1 DEF Moves, Claim, Check, Leave, CallbackReturns, Resume, CloseStream,
       FinalizeStream, DropStream, Release
  <2> QED
    BY <2>2, <2>3
<1>2. CASE \E q \in Run : Withdraw(q) \/ RecordLeaks(q)
  BY <1>2 DEF Withdraw, RecordLeaks
<1>3. CASE \E f \in Future : FutureStep(f)
  <2>1. PICK f \in Future : FutureStep(f)
    BY <1>3
  <2> QED
    BY <2>1, FutureFrame
<1>4. CASE \E t \in Client : Close(t)
  BY <1>4, CloseFrame DEF Thread, runs
<1>5. CASE UNCHANGED vars
  BY <1>5 DEF vars, runs
<1>6. CASE \E w \in Worker : (\E f \in Future : StartTask(w, f)) \/ EndTask(w)
  BY <1>6 DEF StartTask, EndTask, runs
<1>7. CASE \E t \in Thread, q \in Run : Enters(t, q)
  BY <1>7 DEF Enters, EnterMap, OpenStream, EnterStream
<1> QED
  BY <1>1, <1>2, <1>3, <1>4, <1>5, <1>6, <1>7 DEF Next, RunStep, Moves, Enters

\* A worker thread is about to claim the pool only inside a task function.
EntersInTask ==
    \A w \in Worker, r \in Run :
        coord[r] = w /\ run[r] = "entering" => at[w] # Nothing

LEMMA EntersInTaskStep ==
    ASSUME IndInv, FinalizedOK, EntersInTask, [Next]_vars
    PROVE  EntersInTask'
<1> USE DEF IndInv, TypeOK
<1> SUFFICES ASSUME NEW w \in Worker, NEW r \in Run, coord'[r] = w,
                    run'[r] = "entering"
             PROVE  at'[w] # Nothing
  BY DEF EntersInTask
<1>1. CASE \E t \in Thread : EnterMap(t, r) \/ EnterStream(t, r)
  <2>1. PICK t \in Thread : EnterMap(t, r) \/ EnterStream(t, r)
    BY <1>1
  <2>2. t = w /\ at' = at
    BY <2>1, PoolAssumption DEF EnterMap, EnterStream, tasks, Thread
  <2> QED
    BY <2>1, <2>2 DEF EnterMap, EnterStream, UserCode
<1>2. CASE run[r] = "entering" /\ coord'[r] = coord[r]
  <2>1. at[w] # Nothing
    BY <1>2 DEF EntersInTask
  <2>2. ~EndTask(w)
    BY <1>2 DEF EndTask, Outside, FinalizedOK
  <2>3. CASE UNCHANGED at
    BY <2>1, <2>3
  <2>4. CASE \E q \in Run : RunStep(q)
    <3>1. PICK q \in Run : Moves(q) \/ Withdraw(q) \/ RecordLeaks(q)
      BY <2>4 DEF RunStep, Moves
    <3> QED
      BY <2>3, <3>1, MovesFrame DEF Withdraw, RecordLeaks, tasks
  <2>5. CASE \E f \in Future : FutureStep(f)
    BY <2>3, <2>5, FutureFrame
  <2>6. CASE \E t \in Client : Close(t)
    <3>1. at' = at
      BY <2>6, CloseFrame DEF Thread
    <3> QED
      BY <2>3, <3>1
  <2>7. CASE UNCHANGED vars
    BY <2>3, <2>7 DEF vars, tasks
  <2>8. CASE \E v \in Worker : (\E f \in Future : StartTask(v, f)) \/ EndTask(v)
    <3>1. CASE \E v \in Worker, f \in Future : StartTask(v, f)
      BY <2>1, <3>1 DEF StartTask
    <3>2. CASE \E v \in Worker : EndTask(v)
      <4>1. PICK v \in Worker : EndTask(v)
        BY <3>2
      <4> QED
        BY <2>1, <2>2, <4>1 DEF EndTask
    <3> QED
      BY <2>8, <3>1, <3>2
  <2> QED
    BY <2>3, <2>4, <2>5, <2>6, <2>7, <2>8
       DEF Next, EnterMap, OpenStream, EnterStream, tasks
<1> QED
  BY <1>1, <1>2, Entering

\* A worker thread comes to the claim inside a task, and only if the batch of that
\* task is over.
LEMMA ClaimFromTask ==
    ASSUME IndInv, EntersInTask, [Next]_vars, NEW w \in Worker,
           run_owner # w, run_owner' = w
    PROVE  at[w] # Nothing /\ run[at[w][1]] = "ended"
<1> USE DEF IndInv, TypeOK
<1>1. w # Nothing
  BY PoolAssumption DEF Thread
<1>2. PICK r \in Run : Claim(r)
  <2>1. ~UNCHANGED claim
    BY DEF claim
  <2>2. \E r \in Run : Claim(r) \/ Release(r)
    <3>1. ~\E t \in Client : Close(t)
      BY <2>1, CloseFrame DEF Thread
    <3>2. ~\E f \in Future : FutureStep(f)
      BY <2>1, FutureFrame
    <3> QED
      BY <2>1, <3>1, <3>2 DEF Next, RunStep, EnterMap, OpenStream, EnterStream,
         StartTask, EndTask, Check, Leave, CallbackReturns, Resume, CloseStream,
         FinalizeStream, DropStream, Withdraw, RecordLeaks, vars
  <2>3. \A r \in Run : ~Release(r)
    BY <1>1 DEF Release, claim
  <2> QED
    BY <2>2, <2>3
<1>3. run[r] = "entering" /\ coord[r] = w /\ run_owner = Nothing
  BY <1>2 DEF Claim, MayClaim, claim
<1>4. at[w] # Nothing
  BY <1>3 DEF EntersInTask
<1>5. at[w] \in Future /\ at[w][1] \in Run /\ fut[at[w]] # "none"
  BY <1>4, FutureRun DEF Places, StartedOK
<1>6. at[w][1] \notin Claimed
  BY <1>3 DEF OneCoordinator
<1>7. run[at[w][1]] \notin {"unused", "opened", "entering"}
  BY <1>5 DEF Places, NothingBefore
<1> QED
  BY <1>4, <1>5, <1>6, <1>7 DEF Claimed, RunState

\* A task function gets a batch of its own pool through only once the batch it
\* belongs to is over, for any number of threads, tasks and batches
\* (_active_run, 229-233): that is how a worker thread comes to the claim.  If
\* the task returns and leaves a stream suspended its thread keeps the claim.
THEOREM OnlyLateTasks == Spec => OnlyLateTasksCoordinate
<1> DEFINE Inv == IndInv /\ FinalizedOK /\ EntersInTask
<1>1. Init => Inv
  BY InitInv, DrainInit DEF DrainInv, Init, EntersInTask
<1>2. Inv /\ [Next]_vars => Inv'
  <2> SUFFICES ASSUME Inv, [Next]_vars PROVE Inv'
    OBVIOUS
  <2>1. IndInv' /\ EntersInTask'
    BY StepInv, EntersInTaskStep
  <2>2. FinalizedOK'
    BY FinalizedStep DEF FinalizedOK, vars, runs
  <2> QED
    BY <2>1, <2>2
<1>3. Inv /\ [Next]_vars =>
          [\A w \in Worker :
              run_owner # w /\ run_owner' = w =>
                  at[w] # Nothing /\ run[at[w][1]] = "ended"]_vars
  BY ClaimFromTask
<1> QED
  BY <1>1, <1>2, <1>3, PTL DEF Spec, OnlyLateTasksCoordinate

-----------------------------------------------------------------------------
(* The window of each run. *)

\* The items a run holds, in whatever part of the window and in however many
\* executions.
Held(r) == {<<f[1], f[2]>> : f \in Window(r)}

\* They fit its window, and its futures are gone once it reported them.
WindowOK ==
    /\ \A r \in Run : Cardinality(Held(r)) <= MaxPending
    /\ \A f \in in_flight \union abandoned : run[f[1]] \notin {"release", "ended"}

LEMMA WindowFinite ==
    ASSUME TypeOK, NEW r \in Run
    PROVE  IsFiniteSet(Window(r)) /\ Cardinality(Window(r)) \in Nat
<1>1. Window(r) \subseteq Future
  BY DEF Window, Of
<1>2. IsFiniteSet(Window(r))
  BY <1>1, PoolAssumption, FS_Subset
<1> QED
  BY <1>2, FS_CardinalityType

\* What a run holds was submitted.
LEMMA HeldStarted ==
    ASSUME IndInv, NEW f \in in_flight \union abandoned
    PROVE  /\ f \in Future /\ f[1] \in Run /\ fut[f] # "none"
           /\ run[f[1]] \notin {"unused", "opened", "entering"}
<1>1. f \in Future /\ f[1] \in Run
  BY FutureRun DEF IndInv, TypeOK
<1>2. fut[f] # "none"
  BY DEF IndInv, Places, InFlightOK, StartedOK
<1> QED
  BY <1>1, <1>2 DEF IndInv, Places, NothingBefore

\* There are no more items than futures of them.
LEMMA FewerItems ==
    ASSUME NEW S, IsFiniteSet(S)
    PROVE  /\ IsFiniteSet({<<f[1], f[2]>> : f \in S})
           /\ Cardinality({<<f[1], f[2]>> : f \in S}) <= Cardinality(S)
<1> DEFINE T == {<<f[1], f[2]>> : f \in S}
           item == [f \in S |-> <<f[1], f[2]>>]
<1>1. item \in Surjection(S, T)
  BY DEF Surjection
<1>2. IsFiniteSet(T) /\ Cardinality(T) <= Cardinality(S)
  <2> HIDE DEF item, T
  <2> QED
    BY <1>1, FS_Surjection
<1> QED
  BY <1>2

LEMMA HeldFinite ==
    ASSUME TypeOK, NEW r \in Run
    PROVE  /\ IsFiniteSet(Held(r)) /\ Cardinality(Held(r)) \in Nat
           /\ Cardinality(Held(r)) <= Cardinality(Window(r))
<1>1. IsFiniteSet(Window(r))
  BY WindowFinite
<1> QED
  BY <1>1, FewerItems, FS_CardinalityType DEF Held

\* Only a new item makes what a run holds grow, and only where there is room: a
\* retried one was there before, as the execution that is done or timed out.
LEMMA HeldKept ==
    ASSUME IndInv, [Next]_vars, NEW r \in Run, Cardinality(Held(r)) <= MaxPending
    PROVE  Cardinality(Held(r)') <= MaxPending
<1> USE DEF IndInv
<1>1. /\ IsFiniteSet(Held(r)) /\ Cardinality(Held(r)) \in Nat
      /\ Cardinality(Held(r)) <= Cardinality(Window(r))
  BY HeldFinite
<1>2. ASSUME Held(r)' \subseteq Held(r)
      PROVE  Cardinality(Held(r)') <= MaxPending
  <2>1. IsFiniteSet(Held(r)') /\ Cardinality(Held(r)') <= Cardinality(Held(r))
    BY <1>1, <1>2, FS_Subset
  <2>2. Cardinality(Held(r)') \in Nat
    BY <2>1, FS_CardinalityType
  <2> QED
    BY <1>1, <2>1, <2>2, PoolAssumption
<1>3. ASSUME Window(r)' \subseteq Window(r)
      PROVE  Cardinality(Held(r)') <= MaxPending
  BY <1>2, <1>3 DEF Held
<1>4. CASE UNCHANGED window
  BY <1>3, <1>4 DEF window, Window, Of
<1>5. ASSUME NEW f \in Future, Submit(f)
      PROVE  Cardinality(Held(r)') <= MaxPending
  <2>1. CASE f \in retry_wait \/ f[1] # r
    BY <1>3, <1>5, <2>1 DEF Submit, Window, Of
  <2>2. CASE f \notin retry_wait /\ f[1] = r
    <3>1. HasRoom(r)
      BY <1>5, <2>2 DEF Submit, Submittable
    <3>2. Cardinality(Held(r)) < MaxPending
      BY <1>1, <3>1, WindowFinite, PoolAssumption DEF HasRoom
    <3>3. Held(r)' \subseteq Held(r) \union {<<f[1], f[2]>>}
      BY <1>5 DEF Submit, Held, Window, Of
    <3>4. CASE <<f[1], f[2]>> \in Held(r)
      BY <1>2, <3>3, <3>4
    <3>5. CASE <<f[1], f[2]>> \notin Held(r)
      <4> DEFINE more == Held(r) \union {<<f[1], f[2]>>}
      <4>1. IsFiniteSet(more) /\ Cardinality(more) = Cardinality(Held(r)) + 1
        BY <1>1, <3>5, FS_AddElement
      <4>2. IsFiniteSet(Held(r)') /\ Cardinality(Held(r)') <= Cardinality(more)
        BY <3>3, <4>1, FS_Subset
      <4>3. Cardinality(Held(r)') \in Nat
        BY <4>2, FS_CardinalityType
      <4> QED
        BY <1>1, <3>2, <4>1, <4>2, <4>3, PoolAssumption
    <3> QED
      BY <3>4, <3>5
  <2> QED
    BY <2>1, <2>2
<1>6. ASSUME NEW f \in Future, Deliver(f) \/ TimeOut(f)
      PROVE  Cardinality(Held(r)') <= MaxPending
  <2>1. f \in in_flight
    BY <1>6 DEF Deliver, TimeOut
  <2>2. \A g \in Window(r)' : g \in Window(r) \/ g = <<f[1], f[2], f[3] + 1>>
    BY <1>6 DEF Deliver, TimeOut, Completes, Park, Window, Of
  <2>3. ASSUME NEW g \in Window(r)', g = <<f[1], f[2], f[3] + 1>>
        PROVE  <<g[1], g[2]>> \in Held(r)
    <3>1. g[1] = f[1] /\ g[2] = f[2] /\ g[1] = r
      BY <2>3 DEF Window, Of
    <3>2. f \in Window(r)
      BY <2>1, <3>1 DEF Window, Of
    <3> QED
      BY <3>1, <3>2 DEF Held
  <2>4. Held(r)' \subseteq Held(r)
    BY <2>2, <2>3 DEF Held
  <2> QED
    BY <1>2, <2>4
<1>7. ASSUME NEW f \in Future, FreeSlot(f)
      PROVE  Cardinality(Held(r)') <= MaxPending
  BY <1>3, <1>7 DEF FreeSlot, Window, Of
<1>8. CASE \E q \in Run : RecordLeaks(q)
  BY <1>3, <1>8 DEF RecordLeaks, Window, Of
<1>9. CASE \E q \in Run : Moves(q) \/ Withdraw(q)
  BY <1>4, <1>9, MovesFrame DEF Withdraw
<1>10. CASE \E t \in Client : Close(t)
  BY <1>4, <1>10, CloseFrame DEF Thread
<1>11. CASE UNCHANGED vars
  BY <1>4, <1>11 DEF vars
<1> QED
  BY <1>4, <1>5, <1>6, <1>7, <1>8, <1>9, <1>10, <1>11 DEF Next, RunStep, Moves,
     FutureStep, EnterMap, OpenStream, EnterStream, StartTask, EndTask

\* A run that is over holds nothing: a refused one held nothing yet, any other
\* one reported what it held.
LEMMA HeldUntilReported ==
    ASSUME IndInv, [Next]_vars,
           \A f \in in_flight \union abandoned : run[f[1]] \notin {"release", "ended"}
    PROVE  \A f \in in_flight' \union abandoned' : run'[f[1]] \notin {"release", "ended"}
<1> USE DEF IndInv, TypeOK
<1>1. CASE UNCHANGED <<run, window>>
  BY <1>1 DEF window
<1>2. CASE \E t \in Thread, r \in Run : Enters(t, r)
  <2>1. PICK t \in Thread, r \in Run : Enters(t, r)
    BY <1>2
  <2>2. /\ UNCHANGED window /\ run[r] \in {"unused", "opened"}
        /\ \A q \in Run : q # r => run'[q] = run[q]
    BY <2>1 DEF Enters, EnterMap, OpenStream, EnterStream
  <2> QED
    BY <2>2, HeldStarted DEF window
<1>3. CASE \E r \in Run : Moves(r)
  <2>1. PICK r \in Run : Moves(r)
    BY <1>3
  <2>2. UNCHANGED window /\ \A q \in Run : q # r => run'[q] = run[q]
    BY <2>1, MovesFrame
  <2>3. ASSUME NEW f \in in_flight \union abandoned, f[1] = r
        PROVE  run'[r] \notin {"release", "ended"}
    <3>1. run[r] \notin {"opened", "entering", "release"} /\ f \in Of(r) /\ fut[f] # "none"
      BY <2>3, HeldStarted DEF Of
    <3> QED
      BY <2>1, <3>1 DEF Moves, Claim, Check, Leave, CallbackReturns, Resume,
         CloseStream, FinalizeStream, DropStream, Release
  <2> QED
    BY <2>2, <2>3, HeldStarted DEF window
<1>4. CASE \E r \in Run : Withdraw(r)
  BY <1>4, HeldStarted DEF Withdraw, window
<1>5. CASE \E r \in Run : RecordLeaks(r)
  <2>1. PICK r \in Run : RecordLeaks(r)
    BY <1>5
  <2>2. /\ in_flight' = {f \in in_flight : f[1] # r}
        /\ abandoned' = {f \in abandoned : f[1] # r}
        /\ \A q \in Run : q # r => run'[q] = run[q]
    BY <2>1 DEF RecordLeaks, Of
  <2> QED
    BY <2>2, HeldStarted
<1>6. CASE \E f \in Future : FutureStep(f)
  <2>1. PICK f \in Future : FutureStep(f)
    BY <1>6
  <2>2. /\ run'[f[1]] \in {"loop", "callback", "suspended", "cleanup"}
        /\ \A q \in Run : q # f[1] => run'[q] = run[q]
    BY <2>1, FutureFrame
  <2>3. in_flight' \union abandoned' \subseteq in_flight \union abandoned \union {f}
    BY <2>1 DEF FutureStep, Submit, Deliver, TimeOut, FreeSlot
  <2> QED
    BY <2>2, <2>3, HeldStarted
<1>7. CASE \E t \in Client : Close(t)
  BY <1>1, <1>7, CloseFrame DEF Thread, runs
<1>8. CASE \E w \in Worker : (\E f \in Future : StartTask(w, f)) \/ EndTask(w)
  BY <1>1, <1>8 DEF StartTask, EndTask, runs
<1>9. CASE UNCHANGED vars
  BY <1>1, <1>9 DEF vars, runs
<1>10. Client \subseteq Thread
  BY DEF Thread
<1> QED
  BY <1>2, <1>3, <1>4, <1>5, <1>6, <1>7, <1>8, <1>9, <1>10
     DEF Next, Enters, RunStep, Moves

LEMMA WindowInit == Init => WindowOK
<1> SUFFICES ASSUME Init PROVE WindowOK
  OBVIOUS
<1>1. \A r \in Run : Held(r) = {}
  BY DEF Init, Window, Held
<1>2. \A r \in Run : Cardinality(Held(r)) <= MaxPending
  BY <1>1, FS_EmptySet, PoolAssumption
<1> QED
  BY <1>2 DEF Init, WindowOK

LEMMA WindowStep ==
    ASSUME IndInv, WindowOK, [Next]_vars
    PROVE  WindowOK'
  BY HeldKept, HeldUntilReported DEF WindowOK

\* A set that holds at most m elements for each of finitely many runs is no
\* larger than the runs times m: each element is numbered within its run.
LEMMA Numbered ==
    ASSUME NEW R \in SUBSET Run, NEW S, IsFiniteSet(S), NEW m \in Nat,
           \A f \in S : f[1] \in R,
           \A r \in R : Cardinality({f \in S : f[1] = r}) <= m
    PROVE  Cardinality(S) <= Cardinality(R) * m
<1> DEFINE Part(r) == {f \in S : f[1] = r}
           pos == [r \in R |-> CHOOSE b : b \in Injection(Part(r), 1 .. m)]
           number == [f \in S |-> <<f[1], pos[f[1]][f]>>]
<1>1. \A r \in R : pos[r] \in Injection(Part(r), 1 .. m)
  <2> SUFFICES ASSUME NEW r \in R
               PROVE  \E b : b \in Injection(Part(r), 1 .. m)
    OBVIOUS
  <2>1. IsFiniteSet(Part(r))
    BY FS_Subset
  <2>2. Cardinality(Part(r)) \in Nat /\ ExistsBijection(1 .. Cardinality(Part(r)), Part(r))
    BY <2>1, FS_CardinalityType
  <2>3. ExistsBijection(Part(r), 1 .. Cardinality(Part(r)))
    BY <2>2, Fun_ExistsBijSymmetric
  <2>4. PICK b : b \in Bijection(Part(r), 1 .. Cardinality(Part(r)))
    BY <2>3 DEF ExistsBijection
  <2>5. 1 .. Cardinality(Part(r)) \subseteq 1 .. m
    <3>1. Cardinality(Part(r)) <= m
      OBVIOUS
    <3> HIDE DEF Part
    <3> QED
      BY <2>2, <3>1
  <2>6. b \in Injection(Part(r), 1 .. m)
    <3> HIDE DEF Part
    <3> QED
      BY <2>4, <2>5 DEF Bijection, Injection, IsInjective
  <2> QED
    BY <2>6
<1>2. number \in Injection(S, R \X (1 .. m))
  <2>1. \A f \in S : f \in Part(f[1]) /\ f[1] \in R
    OBVIOUS
  <2>2. \A f \in S : number[f] = <<f[1], pos[f[1]][f]>>
    OBVIOUS
  <2> HIDE DEF pos, Part, number
  <2>3. \A f \in S : pos[f[1]][f] \in 1 .. m
    BY <1>1, <2>1 DEF Injection
  <2>4. number \in [S -> R \X (1 .. m)]
    BY <2>1, <2>3 DEF number
  <2>5. ASSUME NEW f \in S, NEW g \in S, number[f] = number[g] PROVE f = g
    <3>1. f[1] = g[1] /\ pos[f[1]][f] = pos[f[1]][g]
      BY <2>2, <2>5
    <3>2. f \in Part(f[1]) /\ g \in Part(f[1])
      BY <2>1, <3>1
    <3> QED
      BY <1>1, <2>1, <3>1, <3>2 DEF Injection, IsInjective
  <2> QED
    BY <2>4, <2>5 DEF Injection, IsInjective
<1>3. IsFiniteSet(R) /\ IsFiniteSet(1 .. m) /\ Cardinality(1 .. m) = m
  <2>1. IsFiniteSet(R)
    BY PoolAssumption, FS_Subset
  <2> QED
    BY <2>1, FS_Interval
<1>4. /\ IsFiniteSet(R \X (1 .. m))
      /\ Cardinality(R \X (1 .. m)) = Cardinality(R) * m
  BY <1>3, FS_Product
<1> HIDE DEF number
<1> QED
  BY <1>2, <1>4, FS_Injection

\* However deep batches nest on their thread, and whatever times out and is
\* retried in them, the executor holds executions of at most a window of items
\* for each of them (_active_run, 226-227; the single window that the comment
\* speaks of is refuted by pool_nested).  It may hold more executions than
\* items: FuturesBound of BoundedScheduler counts those.
THEOREM NestedWindows == Spec => []NestedWindow
<1>1. Init => IndInv /\ WindowOK
  BY InitInv, WindowInit
<1>2. IndInv /\ WindowOK /\ [Next]_vars => IndInv' /\ WindowOK'
  BY StepInv, WindowStep
<1>3. IndInv /\ WindowOK => NestedWindow
  <2> SUFFICES ASSUME IndInv, WindowOK PROVE NestedWindow
    OBVIOUS
  <2> DEFINE Futures == in_flight \union abandoned
             Items == {<<f[1], f[2]>> : f \in Futures}
  <2>1. Futures \subseteq Future
    BY DEF IndInv, TypeOK
  <2>2. IsFiniteSet(Items)
    <3>1. IsFiniteSet(Futures)
      BY <2>1, PoolAssumption, FS_Subset
    <3> QED
      BY <3>1, FewerItems
  <2>3. \A f \in Futures : f[1] \in Claimed
    BY HeldStarted DEF WindowOK, Claimed, IndInv, TypeOK, RunState
  <2>4. \A r \in Claimed : Cardinality({i \in Items : i[1] = r}) <= MaxPending
    <3> SUFFICES ASSUME NEW r \in Claimed
                 PROVE  Cardinality({i \in Items : i[1] = r}) <= MaxPending
      OBVIOUS
    <3>1. r \in Run
      BY DEF Claimed
    <3>2. {i \in Items : i[1] = r} \subseteq Held(r)
      BY <2>1 DEF Held, Window, Of
    <3>3. IsFiniteSet(Held(r)) /\ Cardinality(Held(r)) \in Nat
      BY <3>1, HeldFinite DEF IndInv
    <3>4. /\ IsFiniteSet({i \in Items : i[1] = r})
          /\ Cardinality({i \in Items : i[1] = r}) <= Cardinality(Held(r))
      BY <3>2, <3>3, FS_Subset
    <3>5. Cardinality({i \in Items : i[1] = r}) \in Nat
      BY <3>4, FS_CardinalityType
    <3>6. Cardinality(Held(r)) <= MaxPending
      BY <3>1 DEF WindowOK
    <3> HIDE DEF Items
    <3> QED
      BY <3>3, <3>4, <3>5, <3>6, PoolAssumption
  <2>5. Cardinality(Items) <= Cardinality(Claimed) * MaxPending
    <3>1. Claimed \in SUBSET Run /\ MaxPending \in Nat
      BY PoolAssumption DEF Claimed
    <3>2. \A i \in Items : i[1] \in Claimed
      BY <2>3
    <3> HIDE DEF Items
    <3> QED
      BY <2>2, <2>4, <3>1, <3>2, Numbered
  <2> QED
    BY <2>5 DEF NestedWindow, IndInv, OneCoordinator
<1> QED
  BY <1>1, <1>2, <1>3, PTL DEF Spec

-----------------------------------------------------------------------------
(* Programs of one thread. *)

\* Where tasks start no batch, the threads of the program do everything.
ClientsOnly ==
    /\ \A r \in Run : coord[r] \in Client \union {Nothing}
    /\ drainer \in Client \union {Nothing}
    /\ \A f \in Future : fut[f] = "drained" => drainer # Nothing

LEMMA ClientsOnlyStep ==
    ASSUME IndInv, ClientsOnly, ~TasksReenter, [Next]_vars
    PROVE  ClientsOnly'
<1> USE DEF IndInv, TypeOK
<1>1. \A r \in Run : coord'[r] \in Client \union {Nothing}
  <2> SUFFICES ASSUME NEW r \in Run, coord'[r] # coord[r]
               PROVE  coord'[r] \in Client \union {Nothing}
    BY DEF ClientsOnly
  <2>1. CASE \E t \in Thread : EnterMap(t, r) \/ EnterStream(t, r)
    BY <2>1 DEF EnterMap, EnterStream, UserCode, Thread
  <2> QED
    BY <2>1, CoordChanges
<1>2. CASE UNCHANGED drainer /\ \A f \in Future : fut'[f] = "drained" => fut[f] = "drained"
  BY <1>1, <1>2 DEF ClientsOnly
<1>3. CASE \E r \in Run : Moves(r)
  BY <1>2, <1>3, MovesFrame DEF tasks, shutdown
<1>4. CASE \E r \in Run : Withdraw(r) \/ RecordLeaks(r)
  BY <1>2, <1>4 DEF Withdraw, RecordLeaks, tasks, shutdown
<1>5. CASE \E f \in Future : FutureStep(f)
  <2>1. PICK f \in Future : FutureStep(f)
    BY <1>5
  <2>2. \A g \in Future : fut'[g] = "drained" => fut[g] = "drained"
    BY <2>1 DEF FutureStep, Submit, Deliver, TimeOut, FreeSlot, tasks
  <2>3. UNCHANGED drainer
    BY <2>1, FutureFrame DEF shutdown
  <2> QED
    BY <1>2, <2>2, <2>3
<1>6. CASE \E w \in Worker : (\E f \in Future : StartTask(w, f)) \/ EndTask(w)
  BY <1>2, <1>6 DEF StartTask, EndTask, shutdown
<1>7. CASE \E t \in Client : Close(t)
  <2>1. PICK t \in Client : Close(t)
    BY <1>7
  <2>2. t # Nothing
    BY PoolAssumption DEF Thread
  <2>3. CASE CloseDrain(t)
    BY <1>1, <2>2, <2>3 DEF CloseDrain, ClientsOnly
  <2>4. CASE ~CloseDrain(t)
    <3>1. UNCHANGED <<fut, drainer>>
      BY <2>1, <2>4 DEF Close, CloseCheck, CloseTest, CloseSwap, CloseCrash,
         CloseForget, CloseJoin, CloseCollect, CloseAwait, tasks
    <3> QED
      BY <1>2, <3>1
  <2> QED
    BY <2>3, <2>4
<1>8. CASE UNCHANGED vars
  BY <1>2, <1>8 DEF vars, tasks, shutdown
<1> QED
  BY <1>2, <1>3, <1>4, <1>5, <1>6, <1>7, <1>8
     DEF Next, RunStep, Moves, EnterMap, OpenStream, EnterStream, tasks, shutdown

\* In a program of one thread, whose tasks start no batch and whose callbacks
\* do not close the pool, no coordinator is in the scheduler with a future that
\* close() drained: what close() says of run() loops (594-596) is true there.
\* Runs pool_race and pool_callback refute it where one of the assumptions fails.
THEOREM OneThreadNeverWaits ==
    ASSUME \A c, d \in Client : c = d, ~TasksReenter, ~CallbacksClose
    PROVE  Spec => []NoDrainedWait
<1>1. Init => ClientsOnly
  BY DEF Init, ClientsOnly
<1>2. IndInv /\ DrainInv /\ ClientsOnly /\ [Next]_vars => ClientsOnly'
  BY ClientsOnlyStep
<1>3. IndInv /\ DrainInv /\ ClientsOnly => NoDrainedWait
  <2> SUFFICES ASSUME IndInv, DrainInv, ClientsOnly,
                      NEW f \in in_flight, run[f[1]] = "loop", fut[f] = "drained"
               PROVE  FALSE
    BY DEF NoDrainedWait
  <2>1. f \in Future /\ f[1] \in Run
    BY FutureRun DEF IndInv, TypeOK
  <2>2. coord[f[1]] # drainer
    BY <2>1 DEF DrainInv, NotInside
  <2>3. drainer \in Client
    BY <2>1 DEF ClientsOnly
  <2>4. coord[f[1]] \in Client
    BY <2>1, PoolAssumption DEF ClientsOnly, IndInv, CoordKnown
  <2> QED
    BY <2>2, <2>3, <2>4
<1> QED
  BY <1>1, <1>2, <1>3, DrainInvariance, PTL DEF Spec

\* The executor is still there when the only thread takes it.
NoneOutruns ==
    \A t \in Thread :
        /\ closing[t] # "no" => t \in Client
        /\ closing[t] = "swap" => executor
        /\ closing[t] # "crash"

LEMMA NoneOutrunsStep ==
    ASSUME IndInv, NoneOutruns, [Next]_vars, \A c, d \in Client : c = d
    PROVE  NoneOutruns'
<1> USE DEF IndInv, TypeOK
<1>1. CASE UNCHANGED <<fields, shutdown>>
  BY <1>1 DEF NoneOutruns, fields, shutdown
<1>2. CASE \E t \in Client : Close(t)
  <2>1. PICK t \in Client : Close(t)
    BY <1>2
  <2>2. t \in Thread /\ \A u \in Thread : u # t => closing[u] = "no"
    BY DEF NoneOutruns, Thread
  <2>3. \E s : closing' = [closing EXCEPT ![t] = s]
    BY <2>1 DEF Close, CloseCheck, CloseTest, CloseSwap, CloseCrash, CloseForget,
       CloseDrain, CloseJoin, CloseCollect, CloseAwait, At
  <2>4. \A u \in Thread : u # t => closing'[u] = "no"
    BY <2>2, <2>3
  <2>5. (closing'[t] = "swap" => executor') /\ closing'[t] # "crash"
    BY <2>1, <2>2 DEF Close, CloseCheck, CloseTest, CloseSwap, CloseCrash, CloseForget,
       CloseDrain, CloseJoin, CloseCollect, CloseAwait, At, NoneOutruns, fields
  <2> QED
    BY <2>2, <2>4, <2>5 DEF NoneOutruns
<1> QED
  BY <1>1, <1>2, OnlyCloseShuts

\* In a program of one thread close() is idempotent, as its docstring says
\* (558): called again, at any moment and with anything suspended or
\* running, it finds either the executor or the mark that it is gone.
THEOREM CloseIsIdempotent ==
    ASSUME \A c, d \in Client : c = d
    PROVE  Spec => []CloseNeverFails
<1>1. Init => NoneOutruns
  BY DEF Init, NoneOutruns
<1>2. IndInv /\ NoneOutruns /\ [Next]_vars => NoneOutruns'
  BY NoneOutrunsStep
<1>3. NoneOutruns => CloseNeverFails
  BY DEF NoneOutruns, CloseNeverFails
<1> QED
  BY <1>1, <1>2, <1>3, Invariance, PTL DEF Spec
===============================================================================
