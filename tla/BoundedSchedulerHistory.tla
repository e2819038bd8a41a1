------------------------ MODULE BoundedSchedulerHistory ------------------------
(***************************************************************************)
(* Proofs about what a run leaves behind and what it reports: no execution *)
(* escapes the teardown, the attempts reported are the executions that     *)
(* happened, and an outcome handed out does not change.  They rest on      *)
(* IndInv, and on two invariants of their own: SlotInv says which part of  *)
(* the run accounts for each worker, CountInv what "executed" counts.      *)
(***************************************************************************)
EXTENDS BoundedSchedulerProofs

-----------------------------------------------------------------------------
(* Every execution is accounted for. *)

Queued(w) == fut[w] = "queued"

\* A future the executor holds belongs to in_flight or to the abandoned; the
\* teardown visits what is queued, and in the end on_leak knows the rest.
SlotInv ==
    /\ \A w \in WorkItem :
          /\ Queued(w) => w \in in_flight
          /\ Busy(w) => w \in in_flight \union abandoned
    /\ pc = "created" => \A w \in WorkItem : ~Queued(w) /\ ~Busy(w)
    /\ pc = "teardown" => \A w \in WorkItem : Queued(w) => w \in todo
    /\ pc = "ended" => \A w \in WorkItem : ~Queued(w) /\ (Busy(w) => w \in leaked)

LEMMA SlotInit == Init => SlotInv
  BY DEF Init, SlotInv, Queued, Busy

\* The steps of the loop that leave window and futures alone.
LEMMA SlotControl ==
    ASSUME IndInv, SlotInv, ControlStep
    PROVE  SlotInv'
<1>1. UNCHANGED <<in_flight, abandoned, fut, leaked>>
  BY ControlFrame
<1>2. pc' = "created" => pc = "created"
  BY DEF ControlStep, Start, SeeCancellation, RaiseCancelled, SeeDeadline,
         StartPass, PullStop, Filling, PullRaises, Return, EnterWait, Wake,
         DrainEnds, ScanLate, ScanEnds, Resume, Close, CloseUnstarted,
         Interrupt, RequestCancellation, Tick, Terminated, Teardown, vars, control
<1>3. pc' = "ended" => pc \in {"ended", "created"}
  BY DEF ControlStep, Start, SeeCancellation, RaiseCancelled, SeeDeadline,
         StartPass, PullStop, Filling, PullRaises, Return, EnterWait, Wake,
         DrainEnds, ScanLate, ScanEnds, Resume, Close, CloseUnstarted,
         Interrupt, RequestCancellation, Tick, Terminated, Teardown, vars, control
<1>4. pc' = "teardown" => todo' = in_flight \/ (pc = "teardown" /\ todo' = todo)
  BY DEF ControlStep, Start, SeeCancellation, RaiseCancelled, SeeDeadline,
         StartPass, PullStop, Filling, PullRaises, Return, EnterWait, Wake,
         DrainEnds, ScanLate, ScanEnds, Resume, Close, CloseUnstarted,
         Interrupt, RequestCancellation, Tick, Terminated, Teardown, vars, control
<1> QED
  BY <1>1, <1>2, <1>3, <1>4 DEF SlotInv, Queued, Busy

LEMMA SlotStep == IndInv /\ SlotInv /\ [Next]_vars => SlotInv'
<1> SUFFICES ASSUME IndInv, SlotInv, [Next]_vars PROVE SlotInv'
  OBVIOUS
<1> USE DEF SlotInv, Queued, Busy, IndInv
<1>1. CASE ControlStep
  BY <1>1, SlotControl
<1>2. ASSUME NEW w \in WorkItem, Worker(w) PROVE SlotInv'
  <2>1. UNCHANGED <<in_flight, abandoned, pc, todo, leaked>>
    BY <1>2 DEF Worker, Take, start_execution, FnEnds, finish_success,
         finish_failure, finish_escape, Finalize, SetResult, window, control
  <2>2. /\ Busy(w) \/ Queued(w)
        /\ ~Queued(w)'
        /\ \A v \in WorkItem : v # w => fut'[v] = fut[v]
    BY <1>2 DEF TypeOK, Worker, Take, start_execution, FnEnds, finish_success,
         finish_failure, finish_escape, Finalize, SetResult
  <2>3. Queued(w) => Take(w)
    BY <1>2 DEF Worker, Take, start_execution, FnEnds, finish_success,
         finish_failure, finish_escape, SetResult
  <2> QED
    BY <2>1, <2>2, <2>3
<1>3. ASSUME NEW w \in WorkItem, Ask(w) PROVE SlotInv'
  BY <1>3 DEF Ask, window
<1>4. ASSUME NEW w \in WorkItem, Resubmit(w) PROVE SlotInv'
  BY <1>4 DEF Resubmit, TypeOK
<1>5. CASE PullItem
  BY <1>5 DEF PullItem, Filling, TypeOK, control
<1>6. ASSUME NEW w \in WorkItem, DrainAbandoned(w) \/ DrainFinished(w) PROVE SlotInv'
  <2>1. pc = "drain" /\ Done(w) /\ pc' \in {"drain", "yield_drain"}
    BY <1>6 DEF DrainAbandoned, DrainFinished, LoopOK
  <2>2. UNCHANGED fut
    BY <1>6 DEF DrainAbandoned, DrainFinished
  <2>3. /\ in_flight \subseteq in_flight' \union {w}
        /\ abandoned \subseteq abandoned' \union {w}
    BY <1>6 DEF DrainAbandoned, DrainFinished
  <2> QED
    BY <2>1, <2>2, <2>3 DEF Done
<1>7. ASSUME NEW w \in WorkItem, TimeOut(w) PROVE SlotInv'
  <2>1. fut[w] = "in_fn"
    BY <1>7, TimeOutFacts
  <2>2. /\ in_flight' = in_flight \ {w} /\ abandoned' = abandoned \union {w}
        /\ UNCHANGED fut
        /\ pc' \in {"scan", "yield_scan"}
    BY <1>7 DEF TimeOut, Continue, GiveUp
  <2> QED
    BY <2>1, <2>2
<1>8. ASSUME NEW w \in WorkItem, CancelPending(w) PROVE SlotInv'
  BY <1>8 DEF CancelPending, window, TypeOK
<1>9. CASE EndRun
  BY <1>9 DEF EndRun, Leaks, window
<1>10. CASE UNCHANGED vars
  BY <1>10 DEF vars, control, window
<1> QED
  BY <1>1, <1>2, <1>3, <1>4, <1>5, <1>6, <1>7, <1>8, <1>9, <1>10
     DEF Next, Coordinator, Consumer, ControlStep

LEMMA SlotInvariance == Spec => [](IndInv /\ SlotInv)
<1>1. Init => IndInv /\ SlotInv
  BY InitInv, SlotInit
<1>2. IndInv /\ SlotInv /\ [Next]_vars => IndInv' /\ SlotInv'
  BY StepInv, SlotStep
<1> QED
  BY <1>1, <1>2, PTL DEF Spec

\* When a run is over, whatever ended it, nothing of it can start any more
\* and on_leak was told of every worker that is still inside its function.
THEOREM TeardownIsComplete == Spec => []TeardownComplete
<1>1. SlotInv => TeardownComplete
  BY DEF SlotInv, TeardownComplete, Queued
<1> QED
  BY <1>1, SlotInvariance, PTL

-----------------------------------------------------------------------------
(* Executions are counted honestly. *)

\* The executions of an index are the attempts of the item that stands for
\* it, less the one that is submitted but did not start.
CountInv ==
    /\ \A i \in Index : executed[i] <= MaxAttempts
    /\ \A w \in WorkItem : w[1] >= next_index => executed[w[1]] = 0
    /\ \A w \in Live :
          /\ state[w] = "PENDING" => executed[w[1]] = attempts[w] - 1
          /\ state[w] \notin {"PENDING", "CANCELLED"} => executed[w[1]] = attempts[w]

LEMMA CountInit == Init => CountInv
  BY RetryAssumption DEF Init, CountInv, Live, Index, WorkItem

LEMMA CountStep == IndInv /\ SlotInv /\ CountInv /\ [Next]_vars => CountInv'
<1> SUFFICES ASSUME IndInv, SlotInv, CountInv, [Next]_vars PROVE CountInv'
  OBVIOUS
<1> USE RetryAssumption DEF IndInv, Places, CountInv
<1>1. CASE ControlStep
  <2>1. UNCHANGED <<in_flight, retry_wait, yielded, next_index, state, attempts,
                    executed>>
    BY <1>1, ControlFrame
  <2> QED
    BY <2>1 DEF Live
<1>2. ASSUME NEW w \in WorkItem, Take(w) \/ SetResult(w) PROVE CountInv'
  BY <1>2 DEF Take, SetResult, window, input, items, history, Live
<1>3. ASSUME NEW w \in WorkItem, start_execution(w) PROVE CountInv'
  <2>1. w \in Live /\ state[w] = "PENDING"
    BY <1>3 DEF start_execution, SlotInv, Busy, FuturesAgree, FutureAgrees,
         AbandonedPlace, Live
  <2>2. w[1] \in Index /\ attempts[w] \in 1 .. MaxAttempts
    BY DEF WorkItem, TypeOK
  <2>3. /\ state' = [state EXCEPT ![w] = "RUNNING"]
        /\ executed' = [executed EXCEPT ![w[1]] = @ + 1]
        /\ UNCHANGED <<in_flight, retry_wait, yielded, next_index, attempts>>
    BY <1>3 DEF start_execution, transition_to, window, input
  <2>4. executed'[w[1]] = attempts[w]
    BY <2>1, <2>2, <2>3 DEF TypeOK
  <2>5. \A i \in Index : i # w[1] => executed'[i] = executed[i]
    BY <2>3 DEF TypeOK
  <2>6. w[1] < next_index
    BY <2>1 DEF NothingLost, WorkItem
  <2>7. \A v \in Live : v # w => v[1] # w[1]
    BY <2>1 DEF NothingLost
  <2>8. \A v \in WorkItem : v[1] \in Index
    BY DEF WorkItem
  <2>9. Live' = Live /\ Live \subseteq WorkItem
    BY <2>3 DEF Live, TypeOK
  <2>10. \A i \in Index : executed'[i] <= MaxAttempts
    BY <2>2, <2>4, <2>5
  <2>11. \A v \in WorkItem : v[1] >= next_index' => executed'[v[1]] = 0
    BY <2>2, <2>3, <2>5, <2>6, <2>8 DEF TypeOK, Index
  <2>12. ASSUME NEW v \in Live'
         PROVE  /\ state'[v] = "PENDING" => executed'[v[1]] = attempts'[v] - 1
                /\ state'[v] \notin {"PENDING", "CANCELLED"} =>
                      executed'[v[1]] = attempts'[v]
    <3>1. CASE v = w
      BY <2>3, <2>4, <3>1 DEF TypeOK
    <3>2. CASE v # w
      BY <2>3, <2>5, <2>7, <2>8, <2>9, <2>12, <3>2 DEF TypeOK
    <3> QED
      BY <3>1, <3>2
  <2> QED
    BY <2>10, <2>11, <2>12
<1>4. ASSUME NEW w \in WorkItem, FnEnds(w) PROVE CountInv'
  <2>1. UNCHANGED <<in_flight, retry_wait, yielded, next_index, attempts, executed>>
    BY <1>4 DEF FnEnds, finish_success, finish_failure, finish_escape, Finalize,
         window, input, history
  <2>2. \A v \in WorkItem : v # w => state'[v] = state[v]
    BY <1>4 DEF FnEnds, finish_success, finish_failure, finish_escape, Finalize,
         transition_to, TypeOK
  <2>3. state[w] \notin {"PENDING", "CANCELLED"} /\ state'[w] # "PENDING"
    BY <1>4 DEF FnEnds, finish_success, finish_failure, finish_escape, Finalize,
         transition_to, TypeOK, FuturesAgree, FutureAgrees
  <2> QED
    BY <2>1, <2>2, <2>3 DEF Live, TypeOK
<1>5. ASSUME NEW w \in WorkItem, Ask(w) PROVE CountInv'
  BY <1>5 DEF Ask, transition_to, window, input, history, Live, TypeOK
<1>6. ASSUME NEW w \in WorkItem, Resubmit(w) PROVE CountInv'
  <2>1. w \in retry_wait /\ state[w] = "RETRY_WAIT"
    BY <1>6 DEF Resubmit, LoopOK, RetryPlace
  <2>2. /\ state' = [state EXCEPT ![w] = "PENDING"]
        /\ attempts' = [attempts EXCEPT ![w] = @ + 1]
        /\ UNCHANGED <<yielded, next_index, executed>>
        /\ in_flight' = in_flight \union {w} /\ retry_wait' = retry_wait \ {w}
    BY <1>6 DEF Resubmit, transition_to, input, history
  <2>3. Live' = Live /\ w \in Live
    BY <2>1, <2>2 DEF Live
  <2> QED
    BY <2>1, <2>2, <2>3 DEF TypeOK, Live
<1>7. CASE PullItem
  <2> DEFINE w == <<next_index, 0>>
  <2>1. w \in WorkItem /\ w[1] = next_index
    BY <1>7, SchedulerAssumption DEF PullItem, Filling, TypeOK, WorkItem, Index
  <2>2. /\ state' = [state EXCEPT ![w] = "PENDING"]
        /\ in_flight' = in_flight \union {w}
        /\ next_index' = next_index + 1
        /\ UNCHANGED <<retry_wait, yielded, attempts, executed>>
    BY <1>7 DEF PullItem, transition_to, history
  <2>3. attempts[w] = 1
    BY <2>1 DEF TypeOK, UnreadAbsent, AttemptsOK
  <2>4. Live' = Live \union {w} /\ Live \subseteq WorkItem
    BY <2>2 DEF Live, TypeOK
  <2>5. executed[next_index] = 0
    BY <2>1 DEF TypeOK
  <2>6. \A v \in Live : v # w
    BY <2>1 DEF NothingLost, WorkItem, Index, TypeOK
  <2> HIDE DEF w
  <2>7. \A v \in WorkItem : v[1] >= next_index' => executed'[v[1]] = 0
    BY <2>2 DEF TypeOK, WorkItem, Index
  <2>8. ASSUME NEW v \in Live'
        PROVE  /\ state'[v] = "PENDING" => executed'[v[1]] = attempts'[v] - 1
               /\ state'[v] \notin {"PENDING", "CANCELLED"} =>
                     executed'[v[1]] = attempts'[v]
    <3>1. CASE v = w
      BY <2>1, <2>2, <2>3, <2>5, <3>1 DEF TypeOK
    <3>2. CASE v \in Live
      BY <2>2, <2>4, <2>6, <3>2 DEF TypeOK
    <3> QED
      BY <2>4, <3>1, <3>2
  <2> QED
    BY <2>2, <2>7, <2>8
<1>8. ASSUME NEW w \in WorkItem, DrainAbandoned(w) PROVE CountInv'
  BY <1>8 DEF DrainAbandoned, input, items, history, Live
<1>9. ASSUME NEW w \in WorkItem, DrainFinished(w) PROVE CountInv'
  <2>1. ~Unrecorded(w)
    BY DEF Unrecorded, TERMINAL_STATES, FuturesAgree, FutureAgrees
  <2>2. UNCHANGED <<next_index, state, attempts, executed>>
    BY <1>9, <2>1 DEF DrainFinished, input
  <2>3. w \in in_flight
    BY <1>9 DEF DrainFinished, LoopOK
  <2>4. Live' = Live
    BY <1>9, <2>3 DEF DrainFinished, Live
  <2> QED
    BY <2>2, <2>4
<1>10. ASSUME NEW w \in WorkItem, TimeOut(w) PROVE CountInv'
  <2>1. w \in in_flight /\ state[w] = "RUNNING" /\ executed[w[1]] = attempts[w]
    BY <1>10, TimeOutFacts DEF Live
  <2>2. UNCHANGED <<next_index, executed>>
    BY <1>10 DEF TimeOut, input
  <2>3. CASE should_retry("timeout", attempts[w])
    <3> DEFINE c == retry_clone(w)
    <3>1. c \in WorkItem /\ c # w /\ c[1] = w[1] /\ c \notin Live
      BY <1>10, <2>3, CloneFacts
    <3>2. /\ state' = [state EXCEPT ![w] = "TIMED_OUT", ![c] = "RETRY_WAIT"]
          /\ attempts' = [attempts EXCEPT ![c] = attempts[w]]
          /\ in_flight' = in_flight \ {w}
          /\ retry_wait' = retry_wait \union {c}
          /\ UNCHANGED yielded
      BY <1>10, <2>3 DEF TimeOut, Continue, ParkClone, CloneAttempts
    <3> HIDE DEF c
    <3>3. Live' \subseteq (Live \ {w}) \union {c} /\ Live \subseteq WorkItem
      BY <2>1, <3>2 DEF Live, NothingLost, TypeOK
    <3>4. ASSUME NEW v \in Live'
          PROVE  /\ state'[v] = "PENDING" => executed'[v[1]] = attempts'[v] - 1
                 /\ state'[v] \notin {"PENDING", "CANCELLED"} =>
                       executed'[v[1]] = attempts'[v]
      <4>1. CASE v = c
        BY <2>1, <2>2, <3>1, <3>2, <4>1 DEF TypeOK
      <4>2. CASE v # c
        BY <2>2, <3>1, <3>2, <3>3, <4>2 DEF TypeOK
      <4> QED
        BY <4>1, <4>2
    <3> QED
      BY <2>2, <3>4
  <2>4. CASE ~should_retry("timeout", attempts[w])
    <3>1. /\ state' = [state EXCEPT ![w] = "TIMED_OUT"]
          /\ in_flight' = in_flight \ {w}
          /\ yielded' = yielded \union {w}
          /\ UNCHANGED <<retry_wait, attempts>>
      BY <1>10, <2>4 DEF TimeOut, GiveUp
    <3>2. Live' = Live
      BY <2>1, <3>1 DEF Live
    <3> QED
      BY <2>1, <2>2, <3>1, <3>2 DEF TypeOK, Live
  <2> QED
    BY <2>3, <2>4
<1>11. ASSUME NEW w \in WorkItem, CancelPending(w) PROVE CountInv'
  BY <1>11 DEF CancelPending, transition_to, window, input, history, Live, TypeOK
<1>12. CASE EndRun
  BY <1>12 DEF EndRun, Cancellable, window, input, history, Live, TypeOK
<1>13. CASE UNCHANGED vars
  BY <1>13 DEF vars, window, input, items, history, Live
<1> QED
  BY <1>1, <1>2, <1>3, <1>4, <1>5, <1>6, <1>7, <1>8, <1>9, <1>10, <1>11, <1>12,
     <1>13 DEF Next, Coordinator, Consumer, Worker, ControlStep

\* The attempts reported with an outcome are the executions that happened, and
\* no index is executed more often than max_attempts, whatever is retried,
\* times out or is resubmitted as a clone.
THEOREM AttemptsAreHonest == Spec => []AttemptsHonest
<1>1. IndInv /\ CountInv => AttemptsHonest
  BY DEF IndInv, Places, YieldedPlace, CountInv, AttemptsHonest, Live
<1>2. Init => CountInv
  BY CountInit
<1>3. IndInv /\ SlotInv /\ CountInv /\ [Next]_vars => CountInv'
  BY CountStep
<1> QED
  BY <1>1, <1>2, <1>3, SlotInvariance, PTL DEF Spec

-----------------------------------------------------------------------------
(* An outcome handed out is final. *)

LEMMA OutcomeStep ==
    ASSUME IndInv, [Next]_vars, NEW w \in yielded
    PROVE  state'[w] = state[w] /\ result'[w] = result[w] /\ attempts'[w] = attempts[w]
<1> USE DEF IndInv, Places
<1>1. /\ w \in WorkItem
      /\ w \notin in_flight \union retry_wait
      /\ state[w] \in {"SUCCESS", "FAILED", "TIMED_OUT"}
      /\ Done(w) \/ state[w] = "TIMED_OUT"
  BY DEF TypeOK, NothingLost, YieldedPlace
<1>2. CASE ControlStep
  BY <1>2, ControlFrame
<1>3. ASSUME NEW v \in WorkItem, Worker(v)
      PROVE  state'[w] = state[w] /\ result'[w] = result[w] /\ attempts'[w] = attempts[w]
  BY <1>1, <1>3 DEF Worker, Take, start_execution, FnEnds, finish_success,
       finish_failure, finish_escape, Finalize, Late, SetResult, transition_to,
       items, Done, TypeOK, FuturesAgree, FutureAgrees
<1>4. ASSUME NEW v \in WorkItem, Ask(v) \/ Resubmit(v) \/ CancelPending(v)
      PROVE  state'[w] = state[w] /\ result'[w] = result[w] /\ attempts'[w] = attempts[w]
  BY <1>1, <1>4 DEF Ask, Resubmit, CancelPending, CancelsItem, Cancellable,
       transition_to, LoopOK, TypeOK
<1>5. CASE PullItem
  <2>1. <<next_index, 0>> # w
    BY <1>1, <1>5 DEF PullItem, UnreadAbsent, TypeOK
  <2> QED
    BY <1>1, <1>5, <2>1 DEF PullItem, transition_to, TypeOK
<1>6. ASSUME NEW v \in WorkItem, DrainAbandoned(v) \/ DrainFinished(v)
      PROVE  state'[w] = state[w] /\ result'[w] = result[w] /\ attempts'[w] = attempts[w]
  BY <1>1, <1>6 DEF DrainAbandoned, DrainFinished, Unrecorded, TERMINAL_STATES,
       transition_to, items, TypeOK
<1>7. ASSUME NEW v \in WorkItem, TimeOut(v)
      PROVE  state'[w] = state[w] /\ result'[w] = result[w] /\ attempts'[w] = attempts[w]
  <2>1. v # w
    BY <1>1, <1>7, TimeOutFacts
  <2>2. CASE should_retry("timeout", attempts[v])
    <3>1. retry_clone(v) # w
      BY <1>1, <1>7, <2>2, CloneFacts
    <3> QED
      BY <1>1, <1>7, <2>1, <2>2, <3>1 DEF TimeOut, Continue, ParkClone, TypeOK
  <2>3. CASE ~should_retry("timeout", attempts[v])
    BY <1>1, <1>7, <2>1, <2>3 DEF TimeOut, GiveUp, TypeOK
  <2> QED
    BY <2>2, <2>3
<1>8. CASE EndRun
  BY <1>1, <1>8 DEF EndRun
<1>9. CASE UNCHANGED vars
  BY <1>9 DEF vars, items
<1> QED
  BY <1>2, <1>3, <1>4, <1>5, <1>6, <1>7, <1>8, <1>9
     DEF Next, Coordinator, Consumer, ControlStep

\* What the consumer was handed never changes under it, although the worker of
\* a timed out item may still be inside the function.
THEOREM OutcomesAreFixed == Spec => OutcomeFixed
<1>1. IndInv /\ [Next]_vars =>
        [\A w \in yielded :
            state'[w] = state[w] /\ result'[w] = result[w]
            /\ attempts'[w] = attempts[w]]_vars
  BY OutcomeStep
<1> QED
  BY <1>1, Invariance, PTL DEF Spec, OutcomeFixed

-----------------------------------------------------------------------------
(* A timed out execution keeps its slot. *)

LEMMA AbandonedStep == IndInv /\ AbandonedHoldsSlot /\ [Next]_vars => AbandonedHoldsSlot'
<1> SUFFICES ASSUME IndInv, AbandonedHoldsSlot, [Next]_vars,
                    NEW w \in WorkItem, pc' # "ended",
                    state'[w] = "TIMED_OUT", Busy(w)'
             PROVE  w \in abandoned'
  BY DEF AbandonedHoldsSlot
<1> USE DEF IndInv, AbandonedHoldsSlot, Busy
<1>1. CASE ControlStep
  BY <1>1, ControlFrame
<1>2. ASSUME NEW v \in WorkItem, Worker(v) PROVE w \in abandoned'
  BY <1>2 DEF Worker, Take, start_execution, FnEnds, finish_success,
       finish_failure, finish_escape, Finalize, Late, SetResult, transition_to,
       control, window, items, TypeOK, FuturesAgree, FutureAgrees
<1>3. ASSUME NEW v \in WorkItem, Ask(v) \/ Resubmit(v) \/ CancelPending(v)
      PROVE  w \in abandoned'
  BY <1>3 DEF Ask, Resubmit, CancelPending, transition_to, window, TypeOK
<1>4. CASE PullItem
  BY <1>4 DEF PullItem, Filling, transition_to, control, TypeOK
<1>5. ASSUME NEW v \in WorkItem, DrainAbandoned(v) \/ DrainFinished(v)
      PROVE  w \in abandoned'
  <2>1. Done(v) /\ pc = "drain"
    BY <1>5 DEF DrainAbandoned, DrainFinished, LoopOK
  <2>2. state'[w] = state[w] /\ fut'[w] = fut[w]
    BY <1>5 DEF DrainAbandoned, DrainFinished, Unrecorded, TERMINAL_STATES,
         items, transition_to, FuturesAgree, FutureAgrees
  <2> QED
    BY <1>5, <2>1, <2>2 DEF DrainAbandoned, DrainFinished, Done
<1>6. ASSUME NEW v \in WorkItem, TimeOut(v) PROVE w \in abandoned'
  <2>1. CASE should_retry("timeout", attempts[v])
    BY <1>6, <2>1 DEF TimeOut, Continue, ParkClone, TypeOK
  <2>2. CASE ~should_retry("timeout", attempts[v])
    BY <1>6, <2>2 DEF TimeOut, GiveUp, TypeOK
  <2> QED
    BY <2>1, <2>2
<1>7. CASE EndRun
  BY <1>7 DEF EndRun
<1>8. CASE UNCHANGED vars
  BY <1>8 DEF vars, control, window, items
<1> QED
  BY <1>1, <1>2, <1>3, <1>4, <1>5, <1>6, <1>7, <1>8
     DEF Next, Coordinator, Consumer, ControlStep

\* Until its worker returns, a timed out execution occupies the window.
THEOREM AbandonedKeepSlots == Spec => []AbandonedHoldsSlot
<1>1. Init => AbandonedHoldsSlot
  BY DEF Init, AbandonedHoldsSlot
<1> QED
  BY <1>1, AbandonedStep, Invariance, PTL DEF Spec

-----------------------------------------------------------------------------
(* Readings of the clock grow stale, not wrong.                            *)

\* What the scan has still to visit was late when it began, and if it runs at
\* all it has run ever since; what a pass has still to resubmit was due.
EarlyInv ==
    /\ pc \in {"scan", "yield_scan"} =>
          /\ TaskTimeout > 0
          /\ \A w \in todo :
                /\ fut[w] \notin {"none", "queued", "taken"}
                /\ state[w] = "RUNNING" => age[w] = TaskTimeout
    /\ pc = "submit" => \A w \in todo : due[w] = 0

LEMMA EarlyTick ==
    ASSUME IndInv, EarlyInv, Tick
    PROVE  EarlyInv'
<1>1. /\ UNCHANGED <<pc, todo, fut, state>>
      /\ \A w \in WorkItem : due[w] = 0 => due'[w] = 0
      /\ \A w \in WorkItem : age[w] = TaskTimeout => age'[w] = TaskTimeout
  BY SchedulerAssumption DEF Tick, Less, control, items, IndInv, TypeOK
<1>2. todo \subseteq WorkItem
  BY DEF IndInv, TypeOK
<1> QED
  BY <1>1, <1>2 DEF EarlyInv

\* The other steps of the loop keep the clocks, and go on with the loop they
\* are in or leave it; the scan and the pass begin by looking at the clock.
LEMMA EarlyControl ==
    ASSUME IndInv, EarlyInv, ControlStep
    PROVE  EarlyInv'
<1>1. CASE Tick
  BY <1>1, EarlyTick
<1>2. CASE ~Tick
  <2>1. UNCHANGED <<age, due, fut, state, in_flight, retry_wait>>
    BY <1>2, ControlFrame DEF ControlStep, Start, SeeCancellation, RaiseCancelled,
       SeeDeadline, StartPass, PullStop, PullRaises, Return, EnterWait, Wake,
       DrainEnds, ScanLate, ScanEnds, Resume, Close, CloseUnstarted, Interrupt,
       RequestCancellation, Terminated, vars, clock
  <2>2. pc' = "submit" =>
            \/ todo' = {w \in retry_wait : due[w] = 0}
            \/ pc = "submit" /\ todo' = todo
    BY <1>2 DEF ControlStep, Start, SeeCancellation, RaiseCancelled, SeeDeadline,
       StartPass, PullStop, Filling, PullRaises, Return, EnterWait, Wake, DrainEnds,
       ScanLate, ScanEnds, Resume, Close, CloseUnstarted, Interrupt,
       RequestCancellation, Terminated, Teardown, vars, control
  <2>3. pc' \in {"scan", "yield_scan"} =>
            \/ TaskTimeout > 0 /\ todo' = Overdue
            \/ pc \in {"scan", "yield_scan"} /\ todo' \subseteq todo
    BY <1>2 DEF ControlStep, Start, SeeCancellation, RaiseCancelled, SeeDeadline,
       StartPass, PullStop, Filling, PullRaises, Return, EnterWait, Wake, DrainEnds,
       ScanLate, ScanEnds, Resume, Suspended, Close, CloseUnstarted, Interrupt,
       RequestCancellation, Terminated, Teardown, vars, control
  <2>4. \A w \in Overdue :
            /\ fut[w] \notin {"none", "queued", "taken"}
            /\ age[w] = TaskTimeout
    BY DEF Overdue, IndInv, TypeOK, FuturesAgree, FutureAgrees
  <2> QED
    BY <2>1, <2>2, <2>3, <2>4 DEF EarlyInv
<1> QED
  BY <1>1, <1>2

LEMMA EarlyStep == IndInv /\ EarlyInv /\ [Next]_vars => EarlyInv'
<1> SUFFICES ASSUME IndInv, EarlyInv, [Next]_vars PROVE EarlyInv'
  OBVIOUS
<1> USE DEF IndInv, EarlyInv
<1>0. todo \subseteq WorkItem
  BY DEF TypeOK
<1>1. CASE ControlStep
  BY <1>1, EarlyControl
<1>2. ASSUME NEW v \in WorkItem, Worker(v) PROVE EarlyInv'
  <2>1. UNCHANGED <<pc, todo, due>>
    BY <1>2 DEF Worker, Take, start_execution, FnEnds, finish_success,
       finish_failure, finish_escape, Finalize, SetResult, control, clock
  <2>2. \A w \in WorkItem : w # v =>
            fut'[w] = fut[w] /\ state'[w] = state[w] /\ age'[w] = age[w]
    BY <1>2 DEF Worker, Take, start_execution, FnEnds, finish_success,
       finish_failure, finish_escape, Finalize, SetResult, transition_to, items,
       clock, TypeOK
  <2>3. fut[v] \notin {"none", "queued", "taken"} =>
            /\ fut'[v] \notin {"none", "queued", "taken"}
            /\ state'[v] = "RUNNING" => state[v] = "RUNNING" /\ age'[v] = age[v]
    BY <1>2 DEF Worker, Take, start_execution, FnEnds, finish_success,
       finish_failure, finish_escape, Finalize, SetResult, transition_to, items,
       clock, TypeOK
  <2> QED
    BY <1>0, <2>1, <2>2, <2>3
<1>3. ASSUME NEW v \in WorkItem, Resubmit(v) PROVE EarlyInv'
  BY <1>3 DEF Resubmit
<1>4. CASE PullItem
  BY <1>4 DEF PullItem, Filling, control
<1>5. ASSUME NEW v \in WorkItem, DrainAbandoned(v) \/ DrainFinished(v) PROVE EarlyInv'
  <2>1. pc' \in {"drain", "yield_drain"}
    BY <1>5 DEF DrainAbandoned, DrainFinished
  <2> QED
    BY <2>1
<1>6. ASSUME NEW v \in WorkItem, TimeOut(v) PROVE EarlyInv'
  <2>1. /\ pc = "scan" /\ pc' \in {"scan", "yield_scan"}
        /\ todo' = todo \ {v} /\ UNCHANGED fut
        /\ \A w \in WorkItem : w # v => age'[w] = age[w]
    BY <1>6 DEF TimeOut, Continue, GiveUp, TypeOK
  <2>2. \A w \in todo : w # v => state'[w] = state[w]
    <3>1. CASE should_retry("timeout", attempts[v])
      <4>1. fut[retry_clone(v)] = "none"
        BY <1>6, <3>1, CloneFacts
      <4>2. retry_clone(v) \notin todo
        BY <2>1, <4>1
      <4> QED
        BY <1>0, <1>6, <3>1, <4>2 DEF TimeOut, Continue, ParkClone, TypeOK
    <3>2. CASE ~should_retry("timeout", attempts[v])
      BY <1>0, <1>6, <3>2 DEF TimeOut, GiveUp, TypeOK
    <3> QED
      BY <3>1, <3>2
  <2> QED
    BY <1>0, <2>1, <2>2
<1>7. ASSUME NEW v \in WorkItem, Ask(v) \/ CancelPending(v) PROVE EarlyInv'
  BY <1>7 DEF Ask, CancelPending
<1>8. CASE EndRun
  BY <1>8 DEF EndRun
<1>9. CASE UNCHANGED vars
  BY <1>9 DEF vars, control, items, clock
<1> QED
  BY <1>1, <1>2, <1>3, <1>4, <1>5, <1>6, <1>7, <1>8, <1>9
     DEF Next, Coordinator, Consumer, ControlStep

\* Only the scan times an item out.
LEMMA OnlyLateTimeOut ==
    ASSUME IndInv, EarlyInv, [Next]_vars, NEW w \in WorkItem,
           state[w] = "RUNNING", state'[w] = "TIMED_OUT"
    PROVE  TaskTimeout > 0 /\ age[w] = TaskTimeout
<1> USE DEF IndInv
<1>1. CASE ControlStep \/ UNCHANGED vars
  BY <1>1, ControlFrame DEF vars, items
<1>2. ASSUME NEW v \in WorkItem, Worker(v) PROVE FALSE
  BY <1>2 DEF Worker, Take, start_execution, FnEnds, finish_success, finish_failure,
     finish_escape, Finalize, SetResult, transition_to, items, TypeOK
<1>3. ASSUME NEW v \in WorkItem, Ask(v) \/ Resubmit(v) \/ CancelPending(v)
      PROVE  FALSE
  BY <1>3 DEF Ask, Resubmit, CancelPending, transition_to, TypeOK
<1>4. CASE PullItem \/ EndRun
  BY <1>4 DEF PullItem, EndRun, transition_to, TypeOK
<1>5. ASSUME NEW v \in WorkItem, DrainAbandoned(v) \/ DrainFinished(v) PROVE FALSE
  BY <1>5 DEF DrainAbandoned, DrainFinished, transition_to, items, TypeOK
<1>6. ASSUME NEW v \in WorkItem, TimeOut(v)
      PROVE  TaskTimeout > 0 /\ age[w] = TaskTimeout
  <2>1. CASE v = w
    BY <1>6, <2>1 DEF TimeOut, EarlyInv
  <2>2. CASE v # w /\ should_retry("timeout", attempts[v])
    <3>1. state[retry_clone(v)] = "ABSENT"
      BY <1>6, <2>2, CloneFacts
    <3> QED
      BY <1>6, <2>2, <3>1 DEF TimeOut, Continue, ParkClone, TypeOK
  <2>3. CASE v # w /\ ~should_retry("timeout", attempts[v])
    BY <1>6, <2>3 DEF TimeOut, GiveUp, TypeOK
  <2> QED
    BY <2>1, <2>2, <2>3
<1> QED
  BY <1>1, <1>2, <1>3, <1>4, <1>5, <1>6 DEF Next, Coordinator, Consumer, ControlStep

\* Only a pass resubmits an item.
LEMMA OnlyDueResubmitted ==
    ASSUME IndInv, EarlyInv, [Next]_vars, NEW w \in retry_wait, w \in in_flight'
    PROVE  due[w] = 0
<1> USE DEF IndInv, Places
<1>1. w \notin in_flight
  BY DEF NothingLost
<1>2. CASE ControlStep \/ UNCHANGED vars
  BY <1>1, <1>2, ControlFrame DEF vars, window
<1>3. ASSUME NEW v \in WorkItem, Resubmit(v) PROVE due[w] = 0
  BY <1>1, <1>3 DEF Resubmit, EarlyInv
<1>4. CASE PullItem
  <2>1. <<next_index, 0>> \notin retry_wait
    BY <1>4, SchedulerAssumption DEF PullItem, TypeOK, UnreadAbsent, RetryPlace
  <2> QED
    BY <1>1, <1>4, <2>1 DEF PullItem
<1> QED
  BY <1>1, <1>2, <1>3, <1>4 DEF Next, Coordinator, Consumer, ControlStep, Worker, Take,
     start_execution, FnEnds, finish_success, finish_failure, finish_escape, Finalize,
     SetResult, Ask, DrainAbandoned, DrainFinished, TimeOut, CancelPending, EndRun,
     window

\* No execution is given up before it ran for task_timeout, and none is
\* resubmitted before its backoff is over, although the coordinator compares
\* with a clock it read before: what it found late or due stays so until it
\* acts on it, and what is not late any more is not RUNNING any more.
THEOREM NothingIsEarly == Spec => NothingEarly
<1>1. Init => IndInv /\ EarlyInv
  BY InitInv DEF Init, EarlyInv
<1>2. IndInv /\ EarlyInv /\ [Next]_vars => IndInv' /\ EarlyInv'
  BY StepInv, EarlyStep
<1>3. IndInv /\ EarlyInv /\ [Next]_vars =>
        [\A w \in WorkItem :
            /\ state[w] = "RUNNING" /\ state'[w] = "TIMED_OUT" =>
                  TaskTimeout > 0 /\ age[w] = TaskTimeout
            /\ w \in retry_wait /\ w \in in_flight' => due[w] = 0]_vars
  BY OnlyLateTimeOut, OnlyDueResubmitted
<1> QED
  BY <1>1, <1>2, <1>3, PTL DEF Spec, NothingEarly

===============================================================================
