----------------------- MODULE BoundedSchedulerRefinement -----------------------
(***************************************************************************)
(* Proof that a run implements CompletionStream, whatever it retries, times *)
(* out and clones on the way, and that the items it holds for its consumer  *)
(* fit the window.  Beyond IndInv this takes a count: what was consumed is  *)
(* what the window holds and what was handed out.                           *)
(***************************************************************************)
EXTENDS BoundedSchedulerProofs

\* The window is never exceeded by live items, and nothing consumed is
\* anywhere but in it or handed out.
CountOK ==
    /\ Cardinality(in_flight) + Cardinality(retry_wait) <= MaxPending
    /\ next_index = Cardinality(in_flight) + Cardinality(retry_wait) + Cardinality(yielded)

\* The end of the input and of the run, as the coordinator knows them.
EndOK ==
    /\ exhausted => next_index = N
    /\ outcome = "none" <=> pc \notin {"teardown", "ended"}

StreamInv == CountOK /\ EndOK

-----------------------------------------------------------------------------

LEMMA WorkItemsFinite == IsFiniteSet(WorkItem)
<1>1. IsFiniteSet(0 .. (N - 1)) /\ IsFiniteSet(0 .. (MaxAttempts - 1))
  BY SchedulerAssumption, RetryAssumption, FS_Interval
<1> QED
  BY <1>1, FS_Product DEF WorkItem, Index

LEMMA WindowFinite ==
    ASSUME TypeOK
    PROVE  /\ IsFiniteSet(in_flight) /\ Cardinality(in_flight) \in Nat
           /\ IsFiniteSet(retry_wait) /\ Cardinality(retry_wait) \in Nat
           /\ IsFiniteSet(abandoned) /\ Cardinality(abandoned) \in Nat
           /\ IsFiniteSet(yielded) /\ Cardinality(yielded) \in Nat
<1>1. \A S \in SUBSET WorkItem : IsFiniteSet(S) /\ Cardinality(S) \in Nat
  BY WorkItemsFinite, FS_Subset, FS_CardinalityType
<1> QED
  BY <1>1 DEF TypeOK

LEMMA CountInit == Init => CountOK
<1> SUFFICES ASSUME Init PROVE CountOK
  OBVIOUS
<1>1. in_flight = {} /\ retry_wait = {} /\ yielded = {} /\ next_index = 0
  BY DEF Init
<1> QED
  BY <1>1, FS_EmptySet, SchedulerAssumption DEF CountOK

LEMMA CountStep == IndInv /\ CountOK /\ [Next]_vars => CountOK'
<1> SUFFICES ASSUME IndInv, CountOK, [Next]_vars PROVE CountOK'
  OBVIOUS
<1> USE WindowFinite DEF IndInv
<1>1. ASSUME UNCHANGED <<in_flight, retry_wait, yielded, next_index>>
      PROVE  CountOK'
  BY <1>1 DEF CountOK
<1>2. CASE ControlStep
  BY <1>1, <1>2, ControlFrame
<1>3. ASSUME NEW w \in WorkItem, Worker(w) \/ Ask(w) \/ CancelPending(w) \/ DrainAbandoned(w)
      PROVE  CountOK'
  BY <1>1, <1>3 DEF Worker, Take, start_execution, FnEnds, finish_success,
       finish_failure, finish_escape, Finalize, SetResult, Ask, CancelPending,
       DrainAbandoned, window, input, history
<1>4. ASSUME NEW w \in WorkItem, Resubmit(w) PROVE CountOK'
  <2>1. w \in retry_wait /\ w \notin in_flight
    BY <1>4 DEF Resubmit, LoopOK, NothingLost
  <2>2. /\ in_flight' = in_flight \union {w} /\ retry_wait' = retry_wait \ {w}
        /\ UNCHANGED <<yielded, next_index>>
    BY <1>4 DEF Resubmit, input, history
  <2>3. Cardinality(in_flight') = Cardinality(in_flight) + 1
    BY <2>1, <2>2, FS_AddElement
  <2>4. Cardinality(retry_wait') = Cardinality(retry_wait) - 1
    BY <2>1, <2>2, FS_RemoveElement
  <2> QED
    BY <2>2, <2>3, <2>4, SchedulerAssumption DEF CountOK
<1>5. CASE PullItem
  <2>1. <<next_index, 0>> \notin in_flight
    BY <1>5, SchedulerAssumption, RetryAssumption
       DEF PullItem, Filling, UnreadAbsent, Places, InFlightPlace, TypeOK,
           WorkItem, Index
  <2>2. /\ in_flight' = in_flight \union {<<next_index, 0>>}
        /\ next_index' = next_index + 1
        /\ UNCHANGED <<retry_wait, yielded>>
        /\ HasRoom
    BY <1>5 DEF PullItem, Filling, history
  <2>3. Cardinality(in_flight') = Cardinality(in_flight) + 1
    BY <2>1, <2>2, FS_AddElement
  <2> QED
    BY <2>2, <2>3, SchedulerAssumption DEF CountOK, HasRoom, TypeOK
<1>6. ASSUME NEW w \in WorkItem, DrainFinished(w) PROVE CountOK'
  <2>1. w \in in_flight
    BY <1>6 DEF DrainFinished, LoopOK
  <2>2. in_flight' = in_flight \ {w} /\ UNCHANGED next_index
    BY <1>6 DEF DrainFinished, input
  <2>3. Cardinality(in_flight') = Cardinality(in_flight) - 1
    BY <2>1, <2>2, FS_RemoveElement
  <2>4. CASE retry_wait' = retry_wait \union {w} /\ UNCHANGED yielded
    <3>1. Cardinality(retry_wait') = Cardinality(retry_wait) + 1
      BY <2>1, <2>4, FS_AddElement DEF NothingLost
    <3> QED
      BY <2>2, <2>3, <2>4, <3>1, SchedulerAssumption DEF CountOK
  <2>5. CASE UNCHANGED retry_wait /\ yielded' = yielded \union {w}
    <3>1. Cardinality(yielded') = Cardinality(yielded) + 1
      BY <2>1, <2>5, FS_AddElement DEF NothingLost
    <3> QED
      BY <2>2, <2>3, <2>5, <3>1, SchedulerAssumption DEF CountOK
  <2> QED
    BY <1>6, <2>4, <2>5 DEF DrainFinished
<1>7. ASSUME NEW w \in WorkItem, TimeOut(w) PROVE CountOK'
  <2>1. w \in in_flight
    BY <1>7, TimeOutFacts
  <2>2. in_flight' = in_flight \ {w} /\ UNCHANGED next_index
    BY <1>7 DEF TimeOut, input
  <2>3. Cardinality(in_flight') = Cardinality(in_flight) - 1
    BY <2>1, <2>2, FS_RemoveElement
  <2>4. CASE should_retry("timeout", attempts[w])
    <3>1. retry_clone(w) \notin retry_wait
      BY <1>7, <2>4, CloneFacts DEF Live
    <3>2. retry_wait' = retry_wait \union {retry_clone(w)} /\ UNCHANGED yielded
      BY <1>7, <2>4 DEF TimeOut, Continue, ParkClone
    <3>3. Cardinality(retry_wait') = Cardinality(retry_wait) + 1
      BY <3>1, <3>2, FS_AddElement
    <3> QED
      BY <2>2, <2>3, <3>2, <3>3, SchedulerAssumption DEF CountOK
  <2>5. CASE ~should_retry("timeout", attempts[w])
    <3>1. UNCHANGED retry_wait /\ yielded' = yielded \union {w}
      BY <1>7, <2>5 DEF TimeOut, GiveUp
    <3>2. Cardinality(yielded') = Cardinality(yielded) + 1
      BY <2>1, <3>1, FS_AddElement DEF NothingLost
    <3> QED
      BY <2>2, <2>3, <3>1, <3>2, SchedulerAssumption DEF CountOK
  <2> QED
    BY <2>4, <2>5
<1>8. CASE EndRun
  BY <1>1, <1>8 DEF EndRun, window, input, history
<1>9. CASE UNCHANGED vars
  BY <1>1, <1>9 DEF vars, window, input, history
<1> QED
  BY <1>2, <1>3, <1>4, <1>5, <1>6, <1>7, <1>8, <1>9
     DEF Next, Coordinator, Consumer, ControlStep

\* Whether a step ends the run, and how.
LEMMA EndStep ==
    ASSUME [Next]_vars, EndOK, TypeOK
    PROVE  /\ EndOK'
           /\ \/ UNCHANGED outcome
              \/ /\ outcome = "none" /\ outcome' # "none"
                 /\ UNCHANGED <<next_index, yielded>>
                 /\ outcome' = "returned" => Return
<1> USE DEF EndOK
<1>1. CASE ControlStep
  BY <1>1 DEF ControlStep, Start, SeeCancellation, RaiseCancelled, SeeDeadline,
         StartPass, PullStop, Filling, PullRaises, Return, Filled, EnterWait, Wake,
         DrainEnds, ScanLate, ScanEnds, Resume, Suspended, Close, CloseUnstarted,
         Interrupt, RequestCancellation, Tick, PolledClock, Terminated, Teardown,
         vars, control, window, input, items, clock, history
<1>2. ASSUME NEW w \in WorkItem, Worker(w)
      PROVE  UNCHANGED <<outcome, pc, exhausted, next_index>>
  BY <1>2 DEF Worker, Take, start_execution, FnEnds, finish_success,
       finish_failure, finish_escape, Finalize, SetResult, control, input
<1>3. ASSUME NEW w \in WorkItem,
             \/ Ask(w) \/ Resubmit(w) \/ CancelPending(w)
             \/ DrainAbandoned(w) \/ DrainFinished(w) \/ TimeOut(w)
      PROVE  /\ UNCHANGED <<outcome, exhausted, next_index>>
             /\ pc \notin {"teardown", "ended"} <=> pc' \notin {"teardown", "ended"}
  BY <1>3 DEF Ask, Resubmit, CancelPending, DrainAbandoned, DrainFinished, TimeOut,
       Continue, GiveUp, input
<1>4. CASE PullItem
  BY <1>4 DEF PullItem, Filling, control
<1>5. CASE EndRun
  BY <1>5 DEF EndRun, input
<1>6. CASE UNCHANGED vars
  BY <1>6 DEF vars, control, input
<1> QED
  BY <1>1, <1>2, <1>3, <1>4, <1>5, <1>6
     DEF Next, Coordinator, Consumer, ControlStep

LEMMA StreamInvariance == Spec => [](IndInv /\ StreamInv)
<1>1. Init => IndInv /\ StreamInv
  BY InitInv, CountInit DEF Init, StreamInv, EndOK
<1>2. IndInv /\ StreamInv /\ [Next]_vars => IndInv' /\ StreamInv'
  BY StepInv, CountStep, EndStep DEF StreamInv, IndInv
<1> QED
  BY <1>1, <1>2, PTL DEF Spec

\* The items the window holds for the consumer never exceed max_pending: the
\* scheduler does not run ahead of its consumer by more, whatever times out.
THEOREM LiveItemsBounded == Spec => []LiveBound
<1>1. StreamInv => LiveBound
  BY DEF StreamInv, CountOK, LiveBound
<1> QED
  BY <1>1, StreamInvariance, PTL

-----------------------------------------------------------------------------
(* The refinement. *)

Out == {w[1] : w \in yielded}

LEMMA PromiseInit == Init => Promise!Init
  BY FS_EmptySet DEF Init, Promise!Init

\* An item that is handed out was not before, nor was its index.
LEMMA NewIndex ==
    ASSUME IndInv, NEW w \in in_flight
    PROVE  w[1] \notin Out
  BY DEF IndInv, NothingLost, Live, Out

\* Only these steps consume, hand out or end.
LEMMA Visible ==
    ASSUME IndInv, [Next]_vars
    PROVE  \/ UNCHANGED <<next_index, yielded>>
           \/ PullItem
           \/ /\ UNCHANGED <<next_index, outcome>>
              /\ pc \notin {"teardown", "ended"}
              /\ \E w \in in_flight : yielded' = yielded \union {w}
<1> USE DEF IndInv
<1>1. CASE ControlStep
  BY <1>1, ControlFrame
<1>2. ASSUME NEW w \in WorkItem,
             \/ Worker(w) \/ Ask(w) \/ Resubmit(w) \/ CancelPending(w)
             \/ DrainAbandoned(w)
      PROVE  UNCHANGED <<next_index, yielded>>
  BY <1>2 DEF Worker, Take, start_execution, FnEnds, finish_success,
       finish_failure, finish_escape, Finalize, SetResult, Ask, Resubmit,
       CancelPending, DrainAbandoned, input, history
<1>3. ASSUME NEW w \in WorkItem, DrainFinished(w) \/ TimeOut(w)
      PROVE  /\ w \in in_flight
             /\ pc \notin {"teardown", "ended"}
             /\ UNCHANGED <<next_index, outcome>>
             /\ UNCHANGED yielded \/ yielded' = yielded \union {w}
  BY <1>3 DEF DrainFinished, TimeOut, Continue, GiveUp, LoopOK, input
<1>4. CASE EndRun
  BY <1>4 DEF EndRun, input, history
<1>5. CASE UNCHANGED vars
  BY <1>5 DEF vars, input, history
<1> QED
  BY <1>1, <1>2, <1>3, <1>4, <1>5 DEF Next, Coordinator, Consumer, ControlStep

LEMMA PromiseStep ==
    IndInv /\ StreamInv /\ [Next]_vars => [Promise!Next]_(Promise!vars)
<1> SUFFICES ASSUME IndInv, StreamInv, [Next]_vars
             PROVE  [Promise!Next]_(Promise!vars)
  OBVIOUS
<1> USE WindowFinite DEF IndInv, StreamInv, CountOK, EndOK
<1>1. \/ UNCHANGED outcome
      \/ /\ outcome = "none" /\ outcome' # "none"
         /\ UNCHANGED <<next_index, yielded>>
         /\ outcome' = "returned" => Return
  BY EndStep
<1>2. CASE UNCHANGED <<next_index, yielded, outcome>>
  BY <1>2 DEF Promise!vars
<1>3. CASE PullItem
  <2>1. /\ outcome = "none"
        /\ next_index < N
        /\ next_index' = next_index + 1
        /\ UNCHANGED <<yielded, outcome>>
        /\ HasRoom
    BY <1>3 DEF PullItem, Filling, control, history
  <2>2. next_index - Cardinality(yielded) < MaxPending
    BY <2>1, SchedulerAssumption DEF HasRoom
  <2>3. Promise!Take
    BY <2>1, <2>2 DEF Promise!Take
  <2> QED
    BY <2>3 DEF Promise!Next
<1>4. CASE /\ UNCHANGED <<next_index, outcome>>
           /\ pc \notin {"teardown", "ended"}
           /\ \E w \in in_flight : yielded' = yielded \union {w}
  <2>1. PICK w \in in_flight : yielded' = yielded \union {w}
    BY <1>4
  <2>2. w[1] \notin Out
    BY NewIndex
  <2>3. w[1] \in 0 .. (next_index - 1)
    <3>1. w[1] \in Index /\ w \in Live
      BY DEF TypeOK, Live, WorkItem
    <3>2. w[1] < next_index
      BY <3>1 DEF NothingLost
    <3> QED
      BY <3>1, <3>2 DEF TypeOK, Index
  <2>4. Out' = Out \union {w[1]}
    BY <2>1 DEF Out
  <2>5. Cardinality(yielded') = Cardinality(yielded) + 1
    BY <2>1, FS_AddElement DEF NothingLost
  <2>6. Promise!Deliver(w[1])
    BY <1>4, <2>2, <2>4, <2>5 DEF Promise!Deliver, Out
  <2> QED
    BY <2>3, <2>6 DEF Promise!Next
<1>5. CASE outcome = "none" /\ outcome' # "none" /\ UNCHANGED <<next_index, yielded>>
  <2>1. CASE outcome' = "returned"
    <3>1. in_flight = {} /\ retry_wait = {} /\ next_index = N
      BY <1>1, <1>5, <2>1 DEF Return, NothingLeft
    <3>2. Out = 0 .. (N - 1)
      <4>1. \A i \in Index : \E w \in yielded : w[1] = i
        BY <3>1, SchedulerAssumption DEF NothingLost, Live, Index
      <4>2. \A w \in yielded : w[1] \in Index
        BY DEF TypeOK, WorkItem
      <4> QED
        BY <4>1, <4>2 DEF Out, Index
    <3>3. Promise!Complete
      BY <1>5, <2>1, <3>2 DEF Promise!Complete, Out
    <3> QED
      BY <3>3 DEF Promise!Next
  <2>2. CASE outcome' # "returned"
    <3>1. Promise!Abort
      BY <1>5, <2>2 DEF Promise!Abort
    <3> QED
      BY <3>1 DEF Promise!Next
  <2> QED
    BY <2>1, <2>2
<1> QED
  BY <1>1, <1>2, <1>3, <1>4, <1>5, Visible

\* A run implements the promise: it consumes in order and at most max_pending
\* ahead, hands out each completion at most once, and returns normally only
\* when it handed out all of them.
THEOREM RunKeepsPromise == Spec => KeepsPromise
<1> QED
  BY PromiseInit, PromiseStep, StreamInvariance, PTL DEF Spec, KeepsPromise, Promise!Spec

================================================================================
