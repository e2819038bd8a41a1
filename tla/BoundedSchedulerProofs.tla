------------------------ MODULE BoundedSchedulerProofs ------------------------
(***************************************************************************)
(* Proofs about BoundedScheduler, for every input length, window, pool     *)
(* size, retry policy and timeout.  The invariants of the module are not   *)
(* inductive: they say nothing of the future an item belongs to.  IndInv   *)
(* ties each item to its future, to the part of the window that holds it,  *)
(* to the loop that is about to visit it and to the clones of its index.   *)
(***************************************************************************)
EXTENDS BoundedScheduler, FiniteSetTheorems, TLAPS

-----------------------------------------------------------------------------
(* The inductive invariant. *)

\* What the future of an item says about its state.
FutureAgrees(w) ==
    /\ fut[w] = "none" => state[w] \in {"ABSENT", "RETRY_WAIT", "CANCELLED"}
    /\ fut[w] \in {"queued", "taken"} => state[w] = "PENDING"
    /\ fut[w] = "in_fn" =>
          state[w] \in {"RUNNING", "CANCELLATION_REQUESTED", "TIMED_OUT"}
    /\ fut[w] \in {"returned", "finished"} =>
          state[w] \in {"SUCCESS", "FAILED", "TIMED_OUT", "RETRY_WAIT", "CANCELLED"}
    /\ fut[w] \in {"escaped", "raised"} => state[w] \in {"FAILED", "TIMED_OUT"}
    /\ fut[w] = "cancelled" => state[w] = "CANCELLED"
    /\ state[w] = "CANCELLED" => fut[w] \in {"none", "finished", "cancelled"}

FuturesAgree == \A w \in WorkItem : FutureAgrees(w)

\* What the outcome stored on an item says about its state.
ResultsAgree ==
    \A w \in WorkItem :
        /\ state[w] = "SUCCESS" => result[w] = "value"
        /\ state[w] = "FAILED" => result[w] \in Errors \union {"fatal"}
        /\ state[w] = "TIMED_OUT" => result[w] = "timeout"

\* What each part of the window holds.
InFlightPlace ==
    \A w \in in_flight :
        /\ fut[w] # "none"
        /\ state[w] \notin {"ABSENT", "TIMED_OUT"}
        /\ state[w] = "CANCELLED" => fut[w] = "cancelled"

RetryPlace ==
    \A w \in retry_wait :
        /\ fut[w] \in {"none", "finished"}
        /\ state[w] = "RETRY_WAIT" \/ (pc = "ended" /\ state[w] = "CANCELLED")

AbandonedPlace ==
    \A w \in abandoned : state[w] = "TIMED_OUT"

YieldedPlace ==
    \A w \in yielded :
        \/ state[w] \in {"SUCCESS", "FAILED"} /\ Done(w)
        \/ state[w] = "TIMED_OUT"

Places == InFlightPlace /\ RetryPlace /\ AbandonedPlace /\ YieldedPlace

\* What the loop of the coordinator has still to visit.
LoopOK ==
    /\ pc \in {"ask", "teardown", "scan", "yield_scan"} => todo \subseteq in_flight
    /\ pc = "submit" => todo \subseteq retry_wait
    /\ pc \in {"drain", "yield_drain"} =>
          todo \subseteq in_flight \union abandoned /\ \A w \in todo : Done(w)

\* Attempts grow with clones, and an item that will run again has one left.
AttemptsOK ==
    \A w \in WorkItem :
        /\ state[w] \in {"PENDING", "RUNNING"} => attempts[w] > w[2]
        /\ state[w] = "RETRY_WAIT" => w[2] <= attempts[w] /\ attempts[w] < MaxAttempts
        /\ state[w] = "ABSENT" => attempts[w] = 1

\* The item that stands for an index is its last clone.
LiveIsLast ==
    \A w \in Live, v \in WorkItem :
        v[1] = w[1] /\ v[2] > w[2] => state[v] = "ABSENT"

UnreadAbsent == \A w \in WorkItem : w[1] >= next_index => state[w] = "ABSENT"

IndInv ==
    /\ TypeOK
    /\ FuturesAgree
    /\ ResultsAgree
    /\ Places
    /\ LoopOK
    /\ AttemptsOK
    /\ NothingLost
    /\ LiveIsLast
    /\ UnreadAbsent


-----------------------------------------------------------------------------
LEMMA PowerOfTwo == \A n \in Nat : 2^n \in Nat
<1> TAKE n \in Nat
<1>1. IsFiniteSet(1 .. n) /\ Cardinality(1 .. n) = n
  BY FS_Interval
<1>2. IsFiniteSet(SUBSET (1 .. n)) /\ Cardinality(SUBSET (1 .. n)) = 2^n
  BY <1>1, FS_SUBSET
<1> QED
  BY <1>2, FS_CardinalityType

LEMMA DelayType ==
    ASSUME NEW n \in Nat \ {0}, NEW d \in delay_for(n)
    PROVE  d \in Nat
<1>1. 2^(n - 1) \in Nat
  BY PowerOfTwo
<1>2. FullDelay(n) \in Nat
  <2>1. \A b, p \in Nat : b * p \in Nat
    OBVIOUS
  <2> QED BY <1>1, <2>1, RetryAssumption DEF FullDelay
<1> QED
  BY <1>2 DEF delay_for

LEMMA InitInv == Init => IndInv
<1> SUFFICES ASSUME Init PROVE IndInv
  OBVIOUS
<1> USE SchedulerAssumption, RetryAssumption DEF Init
<1>1. TypeOK
  <2>1. /\ state \in [WorkItem -> TaskState \union {"ABSENT"}]
        /\ result \in [WorkItem -> Result]
        /\ fut \in [WorkItem -> FutureState]
    BY DEF Result, FutureState
  <2>2. /\ attempts \in [WorkItem -> 1 .. MaxAttempts]
        /\ age \in [WorkItem -> 0 .. TaskTimeout]
        /\ due \in [WorkItem -> Nat]
        /\ executed \in [Index -> Nat]
    OBVIOUS
  <2>3. left \in Nat \union {-1} /\ wake \in 0 .. Slice /\ next_index \in 0 .. N
    OBVIOUS
  <2> QED
    BY <2>1, <2>2, <2>3 DEF TypeOK, PC, Outcome
<1>2. FuturesAgree
  BY DEF FuturesAgree, FutureAgrees
<1>3. ResultsAgree
  BY DEF ResultsAgree
<1>4. Places
  BY DEF Places, InFlightPlace, RetryPlace, AbandonedPlace, YieldedPlace
<1>5. LoopOK
  BY DEF LoopOK
<1>6. AttemptsOK
  BY DEF AttemptsOK
<1>7. NothingLost
  BY DEF NothingLost, Live, Index
<1>8. LiveIsLast
  BY DEF LiveIsLast, Live
<1>9. UnreadAbsent
  BY DEF UnreadAbsent
<1> QED
  BY <1>1, <1>2, <1>3, <1>4, <1>5, <1>6, <1>7, <1>8, <1>9 DEF IndInv

\* A worker takes a queued future: only that future changes.
LEMMA TakeInv ==
    ASSUME IndInv, NEW w \in WorkItem, Take(w)
    PROVE  IndInv'
<1> USE SchedulerAssumption, RetryAssumption DEF IndInv, Places, Take,
       control, window, input, items, clock, history
<1>1. TypeOK'
  BY DEF TypeOK, FutureState
<1>2. FuturesAgree'
  BY DEF TypeOK, FuturesAgree, FutureAgrees
<1>3. InFlightPlace' /\ RetryPlace' /\ AbandonedPlace' /\ YieldedPlace'
  BY DEF TypeOK, InFlightPlace, RetryPlace, AbandonedPlace, YieldedPlace,
     Done
<1>4. LoopOK'
  BY DEF TypeOK, LoopOK, Done
<1>5. ResultsAgree' /\ AttemptsOK' /\ NothingLost' /\ LiveIsLast' /\
     UnreadAbsent'
  BY DEF TypeOK, ResultsAgree, AttemptsOK, NothingLost, Live, LiveIsLast,
     UnreadAbsent
<1> QED
  BY <1>1, <1>2, <1>3, <1>4, <1>5 DEF IndInv, Places

\* The item of a taken future is PENDING, so it is in no other part of the
\* window than in_flight.
LEMMA start_executionInv ==
    ASSUME IndInv, NEW w \in WorkItem, start_execution(w)
    PROVE  IndInv'
<1> USE SchedulerAssumption, RetryAssumption DEF IndInv, Places,
       start_execution, transition_to, control, window, input
<1>1. TypeOK'
  <2>1. w[1] \in Index
    BY DEF WorkItem
  <2>2. executed' \in [Index -> Nat]
    BY <2>1 DEF TypeOK
  <2>3. fut' \in [WorkItem -> FutureState]
    BY DEF TypeOK, FutureState
  <2>4. state' \in [WorkItem -> TaskState \union {"ABSENT"}]
    BY DEF TypeOK, TaskState
  <2>5. age' \in [WorkItem -> 0 .. TaskTimeout]
    BY DEF TypeOK
  <2> QED
    BY <2>2, <2>3, <2>4, <2>5 DEF TypeOK
<1>2. FuturesAgree'
  BY DEF TypeOK, FuturesAgree, FutureAgrees, FutureAgrees
<1>3. ResultsAgree'
  BY DEF TypeOK, ResultsAgree
<1>4. InFlightPlace' /\ AbandonedPlace'
  BY DEF TypeOK, InFlightPlace, AbandonedPlace, FuturesAgree, FutureAgrees
<1>5. RetryPlace' /\ YieldedPlace'
  BY DEF TypeOK, RetryPlace, YieldedPlace, Done, FuturesAgree, FutureAgrees
<1>6. LoopOK'
  BY DEF TypeOK, LoopOK, Done
<1>7. AttemptsOK'
  BY DEF TypeOK, AttemptsOK, FuturesAgree, FutureAgrees
<1>8. NothingLost'
  BY DEF TypeOK, NothingLost, Live
<1>9. LiveIsLast' /\ UnreadAbsent'
  BY DEF TypeOK, LiveIsLast, Live, UnreadAbsent, FuturesAgree, FutureAgrees
<1> QED
  BY <1>1, <1>2, <1>3, <1>4, <1>5, <1>6, <1>7, <1>8, <1>9 DEF IndInv, Places

\* The function ends.  The outcome is dropped if the item timed out; else
\* the item was running or asked to stop, and is finalized or sent back for
\* a retry that the policy allows.
LEMMA FnEndsInv ==
    ASSUME IndInv, NEW w \in WorkItem, FnEnds(w)
    PROVE  IndInv'
<1> USE SchedulerAssumption, RetryAssumption DEF IndInv, Places, FnEnds,
       finish_success, finish_failure, finish_escape, Finalize, Late,
       Retryable, should_retry, transition_to, control, window, input, history
<1>1. TypeOK'
  <2>1. fut' \in [WorkItem -> FutureState]
    BY DEF TypeOK, FutureState
  <2>2. state' \in [WorkItem -> TaskState \union {"ABSENT"}]
    BY DEF TypeOK, TaskState, TERMINAL_STATES
  <2>3. result' \in [WorkItem -> Result]
    BY DEF TypeOK, Result
  <2>4. age' \in [WorkItem -> 0 .. TaskTimeout]
    BY DEF TypeOK
  <2> QED
    BY <2>1, <2>2, <2>3, <2>4 DEF TypeOK
<1>2. FuturesAgree'
  BY DEF TypeOK, FuturesAgree, FutureAgrees
<1>3. ResultsAgree'
  BY DEF TypeOK, ResultsAgree, FuturesAgree, FutureAgrees
<1>4. InFlightPlace' /\ AbandonedPlace'
  BY DEF TypeOK, InFlightPlace, AbandonedPlace, FuturesAgree, FutureAgrees
<1>5. RetryPlace' /\ YieldedPlace'
  BY DEF TypeOK, RetryPlace, YieldedPlace, Done, FuturesAgree, FutureAgrees
<1>6. LoopOK'
  BY DEF TypeOK, LoopOK, Done
<1>7. AttemptsOK'
  <2>1. attempts[w] \in Int /\ w[2] \in Int
    BY DEF TypeOK, WorkItem
  <2>2. \A v \in WorkItem : v # w => state'[v] = state[v]
    BY DEF TypeOK
  <2>3. state'[w] \notin {"ABSENT", "PENDING", "RUNNING"}
    BY DEF TypeOK, FuturesAgree, FutureAgrees
  <2>4. state'[w] = "RETRY_WAIT" => state[w] = "RUNNING" /\ attempts[w] < MaxAttempts
    BY DEF TypeOK
  <2> QED
    BY <2>1, <2>2, <2>3, <2>4 DEF AttemptsOK
<1>8. NothingLost'
  BY DEF TypeOK, NothingLost, Live
<1>9. LiveIsLast' /\ UnreadAbsent'
  BY DEF TypeOK, LiveIsLast, Live, UnreadAbsent, FuturesAgree, FutureAgrees
<1> QED
  BY <1>1, <1>2, <1>3, <1>4, <1>5, <1>6, <1>7, <1>8, <1>9 DEF IndInv, Places

\* The worker completes the future of an item that is final already.
LEMMA SetResultInv ==
    ASSUME IndInv, NEW w \in WorkItem, SetResult(w)
    PROVE  IndInv'
<1> USE SchedulerAssumption, RetryAssumption DEF IndInv, Places, SetResult,
       control, window, input, items, clock, history
<1>1. TypeOK'
  BY DEF TypeOK, FutureState
<1>2. FuturesAgree'
  BY DEF TypeOK, FuturesAgree, FutureAgrees
<1>3. InFlightPlace' /\ RetryPlace' /\ AbandonedPlace' /\ YieldedPlace'
  BY DEF TypeOK, InFlightPlace, RetryPlace, AbandonedPlace, YieldedPlace,
     Done
<1>4. LoopOK'
  BY DEF TypeOK, LoopOK, Done
<1>5. ResultsAgree' /\ AttemptsOK' /\ NothingLost' /\ LiveIsLast' /\
     UnreadAbsent'
  BY DEF TypeOK, ResultsAgree, AttemptsOK, NothingLost, Live, LiveIsLast,
     UnreadAbsent
<1> QED
  BY <1>1, <1>2, <1>3, <1>4, <1>5 DEF IndInv, Places

\* Only a running item is asked to stop.
LEMMA AskInv ==
    ASSUME IndInv, NEW w \in WorkItem, Ask(w)
    PROVE  IndInv'
<1> USE SchedulerAssumption, RetryAssumption DEF IndInv, Places, Ask,
       transition_to, window, input, history
<1>1. TypeOK'
  BY DEF TypeOK, TaskState
<1>2. FuturesAgree'
  BY DEF TypeOK, FuturesAgree, FutureAgrees
<1>3. ResultsAgree'
  BY DEF TypeOK, ResultsAgree
<1>4. InFlightPlace' /\ RetryPlace' /\ AbandonedPlace' /\ YieldedPlace'
  BY DEF TypeOK, InFlightPlace, RetryPlace, AbandonedPlace, YieldedPlace,
     Done, FuturesAgree, FutureAgrees
<1>5. LoopOK'
  BY DEF TypeOK, LoopOK, Done
<1>6. AttemptsOK'
  BY DEF TypeOK, AttemptsOK
<1>7. NothingLost' /\ LiveIsLast' /\ UnreadAbsent'
  BY DEF TypeOK, NothingLost, Live, LiveIsLast, UnreadAbsent
<1> QED
  BY <1>1, <1>2, <1>3, <1>4, <1>5, <1>6, <1>7 DEF IndInv, Places

\* An item whose backoff is over goes back to in_flight with a new future.
LEMMA ResubmitInv ==
    ASSUME IndInv, NEW w \in WorkItem, Resubmit(w)
    PROVE  IndInv'
<1> USE SchedulerAssumption, RetryAssumption DEF IndInv, Places, Resubmit,
       transition_to, input, history
<1>1. TypeOK'
  BY DEF TypeOK, LoopOK, RetryPlace, AttemptsOK, FutureState, TaskState
<1>2. FuturesAgree'
  BY DEF TypeOK, FuturesAgree, FutureAgrees
<1>3. ResultsAgree'
  BY DEF TypeOK, ResultsAgree
<1>4. InFlightPlace' /\ RetryPlace' /\ AbandonedPlace' /\ YieldedPlace'
  BY DEF TypeOK, InFlightPlace, RetryPlace, AbandonedPlace, YieldedPlace,
     Done, LoopOK, RetryPlace, NothingLost
<1>5. LoopOK'
  BY DEF TypeOK, LoopOK, Done
<1>6. AttemptsOK'
  <2>1. attempts[w] \in Int /\ w[2] \in Int
    BY DEF TypeOK, WorkItem
  <2>2. w[2] <= attempts[w]
    BY DEF LoopOK, RetryPlace, AttemptsOK
  <2>3. attempts'[w] > w[2] /\ state'[w] = "PENDING"
    BY <2>1, <2>2 DEF TypeOK
  <2>4. \A v \in WorkItem : v # w =>
           state'[v] = state[v] /\ attempts'[v] = attempts[v]
    BY DEF TypeOK
  <2> QED
    BY <2>3, <2>4 DEF AttemptsOK
<1>7. NothingLost'
  <2>1. Live' = Live
    BY DEF Live, LoopOK
  <2>2. in_flight' \intersect retry_wait' = {} /\ in_flight' \intersect yielded' = {}
    BY DEF NothingLost, LoopOK
  <2> QED
    BY <2>1, <2>2 DEF NothingLost
<1>8. LiveIsLast' /\ UnreadAbsent'
  BY DEF TypeOK, LiveIsLast, Live, UnreadAbsent, LoopOK, RetryPlace
<1> QED
  BY <1>1, <1>2, <1>3, <1>4, <1>5, <1>6, <1>7, <1>8 DEF IndInv, Places

\* The item of the next index exists in the model and was not created yet.
LEMMA NextItem ==
    ASSUME TypeOK, UnreadAbsent, next_index < N
    PROVE  /\ next_index \in Index
           /\ <<next_index, 0>> \in WorkItem
           /\ state[<<next_index, 0>>] = "ABSENT"
<1>1. next_index \in Index /\ 0 \in 0 .. (MaxAttempts - 1)
  BY SchedulerAssumption, RetryAssumption DEF TypeOK, Index
<1>2. <<next_index, 0>> \in WorkItem
  BY <1>1 DEF WorkItem
<1>3. next_index >= next_index
  BY <1>1 DEF Index
<1> QED
  BY <1>1, <1>2, <1>3 DEF UnreadAbsent

\* The next index enters the window as an item that did not exist.
LEMMA PullItemInv ==
    ASSUME IndInv, PullItem
    PROVE  IndInv'
<1> USE SchedulerAssumption, RetryAssumption DEF IndInv, Places, PullItem,
       transition_to, Filling, control, history
<1>1. TypeOK'
  <2>1. <<next_index, 0>> \in WorkItem
    BY NextItem
  <2>2. fut' \in [WorkItem -> FutureState]
    BY <2>1 DEF TypeOK, FutureState
  <2>3. state' \in [WorkItem -> TaskState \union {"ABSENT"}]
    BY <2>1 DEF TypeOK, TaskState
  <2>4. age' \in [WorkItem -> 0 .. TaskTimeout]
    BY <2>1 DEF TypeOK
  <2> QED
    BY <2>1, <2>2, <2>3, <2>4 DEF TypeOK
<1>2. FuturesAgree'
  BY DEF TypeOK, FuturesAgree, FutureAgrees
<1>3. ResultsAgree'
  BY DEF TypeOK, ResultsAgree
<1>4. InFlightPlace' /\ RetryPlace' /\ AbandonedPlace' /\ YieldedPlace'
  <2>1. <<next_index, 0>> \in WorkItem /\ state[<<next_index, 0>>] = "ABSENT"
    BY NextItem
  <2>2. InFlightPlace'
    BY <2>1 DEF TypeOK, InFlightPlace
  <2>3. RetryPlace'
    BY <2>1 DEF TypeOK, RetryPlace
  <2>4. AbandonedPlace' /\ YieldedPlace'
    BY <2>1 DEF TypeOK, AbandonedPlace, YieldedPlace, Done
  <2> QED
    BY <2>2, <2>3, <2>4
<1>5. LoopOK'
  BY DEF TypeOK, LoopOK, Done, UnreadAbsent
<1>6. AttemptsOK'
  BY DEF TypeOK, AttemptsOK, WorkItem, Index
<1>7. NothingLost'
  <2>1. <<next_index, 0>> \in WorkItem /\ state[<<next_index, 0>>] = "ABSENT"
    BY NextItem
  <2>2. <<next_index, 0>> \notin retry_wait \union yielded
    BY <2>1 DEF RetryPlace, YieldedPlace
  <2>3. Live' = Live \union {<<next_index, 0>>}
    BY DEF Live
  <2>4. \A v \in Live : v[1] # next_index
    BY DEF NothingLost, TypeOK, Live, WorkItem, Index
  <2>5. \A i \in Index : i < next_index' <=> \E v \in Live' : v[1] = i
    <3>1. \A i \in Index : i < next_index' <=> i < next_index \/ i = next_index
      BY DEF TypeOK, Index
    <3>2. \A i \in Index : i < next_index <=> \E v \in Live : v[1] = i
      BY DEF NothingLost
    <3> QED
      BY <2>3, <3>1, <3>2
  <2>6. \A u, v \in Live' : v[1] = u[1] => v = u
    BY <2>3, <2>4 DEF NothingLost
  <2> QED
    BY <2>2, <2>5, <2>6 DEF NothingLost
<1>8. LiveIsLast'
  <2>1. SUFFICES ASSUME NEW v \in Live', NEW u \in WorkItem,
                       u[1] = v[1], u[2] > v[2]
                PROVE  state'[u] = "ABSENT"
    BY DEF LiveIsLast
  <2>2. u # <<next_index, 0>>
    <3>1. v[2] \in Nat /\ u[2] > v[2]
      BY <2>1, NextItem DEF TypeOK, Live, WorkItem
    <3> QED
      BY <3>1
  <2>3. state[u] = "ABSENT"
    BY <2>1 DEF LiveIsLast, UnreadAbsent, TypeOK, Live
  <2> QED
    BY <2>2, <2>3 DEF TypeOK
<1>9. UnreadAbsent'
  <2>1. SUFFICES ASSUME NEW u \in WorkItem, u[1] >= next_index + 1
                PROVE  state'[u] = "ABSENT"
    BY DEF UnreadAbsent
  <2>2. next_index \in Nat /\ u[1] \in Nat
    BY DEF TypeOK, WorkItem, Index
  <2>3. u[1] # next_index /\ u[1] >= next_index
    BY <2>1, <2>2
  <2> QED
    BY <2>3 DEF UnreadAbsent
<1> QED
  BY <1>1, <1>2, <1>3, <1>4, <1>5, <1>6, <1>7, <1>8, <1>9 DEF IndInv, Places

\* An abandoned execution frees its slot.
LEMMA DrainAbandonedInv ==
    ASSUME IndInv, NEW w \in WorkItem, DrainAbandoned(w)
    PROVE  IndInv'
<1> USE SchedulerAssumption, RetryAssumption DEF IndInv, Places,
       DrainAbandoned, input, items, clock, history
<1>1. TypeOK'
  BY DEF TypeOK
<1>2. FuturesAgree' /\ ResultsAgree'
  BY DEF TypeOK, FuturesAgree, FutureAgrees, ResultsAgree
<1>3. InFlightPlace' /\ RetryPlace' /\ AbandonedPlace' /\ YieldedPlace'
  BY DEF TypeOK, InFlightPlace, RetryPlace, AbandonedPlace, YieldedPlace,
     Done
<1>4. LoopOK'
  BY DEF TypeOK, LoopOK, Done, AbandonedPlace, InFlightPlace
<1>5. AttemptsOK' /\ NothingLost' /\ LiveIsLast' /\ UnreadAbsent'
  BY DEF TypeOK, AttemptsOK, NothingLost, Live, LiveIsLast, UnreadAbsent
<1> QED
  BY <1>1, <1>2, <1>3, <1>4, <1>5 DEF IndInv, Places

\* A finished item leaves in_flight, for its backoff or for the consumer.
LEMMA DrainFinishedInv ==
    ASSUME IndInv, NEW w \in WorkItem, DrainFinished(w)
    PROVE  IndInv'
<1> USE SchedulerAssumption, RetryAssumption DEF IndInv, Places,
       DrainFinished, transition_to, Unrecorded, TERMINAL_STATES, input
<1>1. TypeOK'
  <2>1. attempts[w] \in Nat \ {0}
    BY DEF TypeOK
  <2>2. due' \in [WorkItem -> Nat]
    BY <2>1, DelayType DEF TypeOK
  <2>3. state' \in [WorkItem -> TaskState \union {"ABSENT"}]
    BY DEF TypeOK, TaskState
  <2>4. result' \in [WorkItem -> Result] /\ age' \in [WorkItem -> 0 .. TaskTimeout]
    BY DEF TypeOK, Result
  <2> QED
    BY <2>2, <2>3, <2>4 DEF TypeOK, PC
<1>2. FuturesAgree'
  BY DEF TypeOK, FuturesAgree, FutureAgrees
<1>3. ResultsAgree'
  BY DEF TypeOK, ResultsAgree, FuturesAgree, FutureAgrees
<1>4. InFlightPlace' /\ AbandonedPlace'
  BY DEF TypeOK, InFlightPlace, AbandonedPlace, FuturesAgree, FutureAgrees
<1>5. RetryPlace'
  BY DEF TypeOK, RetryPlace, FuturesAgree, FutureAgrees, LoopOK, Done
<1>6. YieldedPlace'
  <2>1. w \in in_flight /\ Done(w)
    BY DEF LoopOK
  <2>2. state[w] \in {"SUCCESS", "FAILED", "RETRY_WAIT"}
    BY <2>1 DEF FuturesAgree, FutureAgrees, InFlightPlace, Done
  <2> QED
    BY <2>1, <2>2 DEF TypeOK, YieldedPlace, Done
<1>7. LoopOK'
  BY DEF TypeOK, LoopOK, Done
<1>8. AttemptsOK'
  BY DEF TypeOK, AttemptsOK, FuturesAgree, FutureAgrees
<1>9. NothingLost'
  BY DEF TypeOK, NothingLost, Live, LoopOK
<1>10. LiveIsLast' /\ UnreadAbsent'
  BY DEF TypeOK, LiveIsLast, Live, UnreadAbsent, FuturesAgree, FutureAgrees,
     LoopOK
<1> QED
  BY <1>1, <1>2, <1>3, <1>4, <1>5, <1>6, <1>7, <1>8, <1>9, <1>10 DEF IndInv,
     Places

\* What is known of an item that the scan times out: its future is inside the
\* function, and it is the last item of its index.
LEMMA TimeOutFacts ==
    ASSUME IndInv, NEW w \in WorkItem, TimeOut(w)
    PROVE  /\ w \in in_flight
           /\ state[w] = "RUNNING"
           /\ fut[w] = "in_fn"
           /\ w \notin retry_wait \union yielded \union abandoned
<1> USE DEF IndInv, Places, TimeOut, StillRunning
<1>1. w \in in_flight /\ state[w] = "RUNNING"
  BY DEF LoopOK
<1>2. fut[w] = "in_fn"
  BY <1>1 DEF FuturesAgree, FutureAgrees, TypeOK, FutureState
<1> QED
  BY <1>1, <1>2 DEF NothingLost, AbandonedPlace

\* The item is given up: it goes from in_flight to the consumer.
LEMMA GiveUpInv ==
    ASSUME IndInv, NEW w \in WorkItem, TimeOut(w),
           ~should_retry("timeout", attempts[w])
    PROVE  IndInv'
<1> USE TimeOutFacts DEF IndInv, Places
<1>1. /\ state' = [state EXCEPT ![w] = "TIMED_OUT"]
      /\ result' = [result EXCEPT ![w] = "timeout"]
      /\ age' = [age EXCEPT ![w] = 0]
      /\ in_flight' = in_flight \ {w}
      /\ abandoned' = abandoned \union {w}
      /\ yielded' = yielded \union {w}
      /\ todo' = todo \ {w}
      /\ pc = "scan" /\ pc' = "yield_scan"
      /\ UNCHANGED <<outcome, retry_wait, next_index, exhausted, leaked, attempts,
                     fut, due, left, wake, requested, executed>>
  BY DEF TimeOut, GiveUp, input
<1>2. TypeOK'
  <2>1. state' \in [WorkItem -> TaskState \union {"ABSENT"}]
    BY <1>1 DEF TypeOK, TaskState, TERMINAL_STATES
  <2>2. /\ result' \in [WorkItem -> Result]
        /\ age' \in [WorkItem -> 0 .. TaskTimeout]
    BY <1>1, SchedulerAssumption DEF TypeOK, Result, ExceptionKind
  <2> QED
    BY <1>1, <2>1, <2>2 DEF TypeOK, PC
<1>3. FuturesAgree' /\ ResultsAgree'
  BY <1>1 DEF TypeOK, FuturesAgree, FutureAgrees, ResultsAgree
<1>4. InFlightPlace' /\ RetryPlace' /\ AbandonedPlace' /\ YieldedPlace'
  BY <1>1 DEF TypeOK, InFlightPlace, RetryPlace, AbandonedPlace, YieldedPlace, Done
<1>5. LoopOK'
  BY <1>1 DEF TypeOK, LoopOK
<1>6. AttemptsOK'
  BY <1>1 DEF TypeOK, AttemptsOK
<1>7. Live' = Live
  BY <1>1 DEF Live
<1>8. NothingLost'
  BY <1>1, <1>7 DEF NothingLost
<1>9. LiveIsLast' /\ UnreadAbsent'
  BY <1>1, <1>7 DEF TypeOK, LiveIsLast, UnreadAbsent
<1> QED
  BY <1>2, <1>3, <1>4, <1>5, <1>6, <1>8, <1>9 DEF IndInv, Places

\* What is known of the clone of an item that the scan times out.
LEMMA CloneFacts ==
    ASSUME IndInv, NEW w \in WorkItem, TimeOut(w),
           should_retry("timeout", attempts[w])
    PROVE  /\ retry_clone(w) \in WorkItem
           /\ retry_clone(w) # w
           /\ retry_clone(w)[1] = w[1]
           /\ retry_clone(w)[2] > w[2]
           /\ retry_clone(w)[2] <= attempts[w]
           /\ state[retry_clone(w)] = "ABSENT"
           /\ fut[retry_clone(w)] = "none"
           /\ retry_clone(w) \notin Live \union abandoned
<1> DEFINE c == retry_clone(w)
<1> USE TimeOutFacts DEF IndInv, Places
<1>1. attempts[w] < MaxAttempts /\ attempts[w] > w[2]
  BY DEF should_retry, AttemptsOK
<1>2. c \in WorkItem /\ c # w /\ c[1] = w[1] /\ c[2] > w[2] /\ c[2] <= attempts[w]
  <2>1. w[1] \in Index /\ w[2] \in Nat /\ attempts[w] \in Nat
    BY DEF TypeOK, WorkItem
  <2>2. w[2] + 1 \in 0 .. (MaxAttempts - 1)
    BY <1>1, <2>1, RetryAssumption
  <2>3. c = <<w[1], w[2] + 1>>
    BY DEF retry_clone
  <2>4. c \in WorkItem /\ c[1] = w[1] /\ c[2] = w[2] + 1
    BY <2>1, <2>2, <2>3 DEF WorkItem
  <2> QED
    BY <1>1, <2>1, <2>4
<1> HIDE DEF c
<1>3. state[c] = "ABSENT"
  BY <1>2 DEF LiveIsLast, Live
<1>4. fut[c] = "none"
  BY <1>2, <1>3 DEF FuturesAgree, FutureAgrees, TypeOK, FutureState
<1>5. c \notin Live \union abandoned
  BY <1>3 DEF Live, InFlightPlace, RetryPlace, AbandonedPlace, YieldedPlace
<1> QED
  BY <1>2, <1>3, <1>4, <1>5 DEF c

\* The item goes on as its clone, which did not exist before.
LEMMA ContinueInv ==
    ASSUME IndInv, NEW w \in WorkItem, TimeOut(w),
           should_retry("timeout", attempts[w])
    PROVE  IndInv'
<1> DEFINE c == retry_clone(w)
<1> USE TimeOutFacts DEF IndInv, Places
<1>1. attempts[w] < MaxAttempts
  BY DEF should_retry
<1>2. c \in WorkItem /\ c # w /\ c[1] = w[1] /\ c[2] > w[2] /\ c[2] <= attempts[w]
  BY CloneFacts
<1>4. state[c] = "ABSENT" /\ fut[c] = "none"
  BY CloneFacts
<1>5. c \notin Live \union abandoned
  BY CloneFacts
<1>6. /\ state' = [state EXCEPT ![w] = "TIMED_OUT", ![c] = "RETRY_WAIT"]
      /\ attempts' = [attempts EXCEPT ![c] = attempts[w]]
      /\ result' = [result EXCEPT ![w] = "timeout"]
      /\ age' = [age EXCEPT ![w] = 0]
      /\ retry_wait' = retry_wait \union {c}
      /\ in_flight' = in_flight \ {w}
      /\ abandoned' = abandoned \union {w}
      /\ todo' = todo \ {w}
      /\ UNCHANGED <<pc, outcome, next_index, exhausted, leaked, fut, left, wake,
                     requested, yielded, executed>>
  BY DEF TimeOut, Continue, ParkClone, CloneAttempts, input
<1>7. due' \in [WorkItem -> Nat]
  <2>1. attempts[w] \in Nat \ {0}
    BY RetryAssumption DEF TypeOK
  <2> QED
    BY <1>2, <2>1, DelayType
       DEF TypeOK, TimeOut, Continue, ParkClone, CloneAttempts
<1>8. pc = "scan"
  BY DEF TimeOut
<1> HIDE DEF c
<1>9. TypeOK'
  <2>1. state' \in [WorkItem -> TaskState \union {"ABSENT"}]
    BY <1>6 DEF TypeOK, TaskState, TERMINAL_STATES
  <2>2. attempts' \in [WorkItem -> 1 .. MaxAttempts]
    BY <1>6 DEF TypeOK
  <2>3. /\ result' \in [WorkItem -> Result]
        /\ age' \in [WorkItem -> 0 .. TaskTimeout]
    BY <1>6, SchedulerAssumption DEF TypeOK, Result, ExceptionKind
  <2> QED
    BY <1>2, <1>6, <1>7, <2>1, <2>2, <2>3 DEF TypeOK
<1>10. FuturesAgree' /\ ResultsAgree'
  BY <1>2, <1>4, <1>6 DEF TypeOK, FuturesAgree, FutureAgrees, ResultsAgree
<1>11. InFlightPlace' /\ RetryPlace' /\ AbandonedPlace' /\ YieldedPlace'
  BY <1>2, <1>4, <1>5, <1>6, <1>8
     DEF TypeOK, Live, InFlightPlace, RetryPlace, AbandonedPlace, YieldedPlace, Done
<1>12. LoopOK'
  BY <1>6, <1>8 DEF TypeOK, LoopOK
<1>13. AttemptsOK'
  BY <1>1, <1>2, <1>6 DEF TypeOK, AttemptsOK
<1>14. NothingLost'
  <2>1. Live' = (Live \ {w}) \union {c}
    BY <1>5, <1>6 DEF Live, NothingLost
  <2>2. \A u, v \in Live' : v[1] = u[1] => v = u
    BY <1>2, <2>1 DEF NothingLost, Live
  <2>3. \A i \in Index : i < next_index' <=> \E v \in Live' : v[1] = i
    <3>1. \A i : (\E v \in Live' : v[1] = i) <=> (\E v \in Live : v[1] = i)
      BY <1>2, <2>1 DEF Live
    <3> QED
      BY <1>6, <3>1 DEF NothingLost
  <2> QED
    BY <1>5, <1>6, <2>2, <2>3 DEF NothingLost, Live
<1>15. LiveIsLast'
  <2>1. SUFFICES ASSUME NEW v \in Live', NEW u \in WorkItem,
                       u[1] = v[1], u[2] > v[2]
                PROVE  state'[u] = "ABSENT"
    BY DEF LiveIsLast
  <2>2. Live' = (Live \ {w}) \union {c}
    BY <1>5, <1>6 DEF Live, NothingLost
  <2>3. CASE v = c
    <3>1. u[1] = w[1] /\ u[2] > w[2] /\ u # c /\ u # w
      BY <1>2, <2>1, <2>3 DEF WorkItem
    <3>2. state[u] = "ABSENT"
      BY <2>1, <3>1 DEF LiveIsLast, Live
    <3> QED
      BY <1>6, <3>1, <3>2 DEF TypeOK
  <2>4. CASE v \in Live \ {w}
    <3>1. v[1] # w[1]
      BY <2>4 DEF NothingLost, Live
    <3>2. u # w /\ u # c
      BY <1>2, <2>1, <3>1
    <3> QED
      BY <1>6, <2>1, <2>4, <3>2 DEF LiveIsLast, TypeOK
  <2> QED
    BY <2>2, <2>3, <2>4
<1>16. UnreadAbsent'
  <2>1. w[1] < next_index
    BY DEF NothingLost, Live, WorkItem
  <2> QED
    BY <1>2, <1>6, <2>1 DEF UnreadAbsent, TypeOK, WorkItem, Index
<1> QED
  BY <1>9, <1>10, <1>11, <1>12, <1>13, <1>14, <1>15, <1>16 DEF IndInv, Places

\* The teardown cancels a queued future, and its item with it.
LEMMA CancelPendingInv ==
    ASSUME IndInv, NEW w \in WorkItem, CancelPending(w)
    PROVE  IndInv'
<1> USE SchedulerAssumption, RetryAssumption DEF IndInv, Places,
       CancelPending, transition_to, CancelsItem, Cancellable, window, input,
       history
<1>1. TypeOK'
  BY DEF TypeOK, FutureState, TaskState, TERMINAL_STATES
<1>2. FuturesAgree'
  BY DEF TypeOK, FuturesAgree, FutureAgrees
<1>3. ResultsAgree'
  BY DEF TypeOK, ResultsAgree
<1>4. InFlightPlace' /\ RetryPlace' /\ AbandonedPlace' /\ YieldedPlace'
  BY DEF TypeOK, InFlightPlace, RetryPlace, AbandonedPlace, YieldedPlace,
     Done, FuturesAgree, FutureAgrees
<1>5. LoopOK'
  BY DEF TypeOK, LoopOK, Done
<1>6. AttemptsOK'
  BY DEF TypeOK, AttemptsOK
<1>7. NothingLost' /\ LiveIsLast' /\ UnreadAbsent'
  BY DEF TypeOK, NothingLost, Live, LiveIsLast, UnreadAbsent, FuturesAgree,
     FutureAgrees
<1> QED
  BY <1>1, <1>2, <1>3, <1>4, <1>5, <1>6, <1>7 DEF IndInv, Places

\* The teardown cancels the backoffs.
LEMMA EndRunInv ==
    ASSUME IndInv, EndRun
    PROVE  IndInv'
<1> USE SchedulerAssumption, RetryAssumption DEF IndInv, Places, EndRun,
       Cancellable, window, input, clock, history
<1>1. TypeOK'
  BY DEF TypeOK, PC, TaskState, TERMINAL_STATES, Leaks
<1>2. FuturesAgree'
  BY DEF TypeOK, FuturesAgree, FutureAgrees, RetryPlace
<1>3. ResultsAgree'
  BY DEF TypeOK, ResultsAgree, RetryPlace
<1>4. InFlightPlace' /\ RetryPlace' /\ AbandonedPlace' /\ YieldedPlace'
  BY DEF TypeOK, InFlightPlace, RetryPlace, AbandonedPlace, YieldedPlace,
     Done, NothingLost
<1>5. LoopOK'
  BY DEF TypeOK, LoopOK, Done
<1>6. AttemptsOK'
  BY DEF TypeOK, AttemptsOK
<1>7. NothingLost'
  BY DEF TypeOK, NothingLost, Live
<1>8. LiveIsLast' /\ UnreadAbsent'
  BY DEF TypeOK, LiveIsLast, Live, UnreadAbsent, RetryPlace
<1> QED
  BY <1>1, <1>2, <1>3, <1>4, <1>5, <1>6, <1>7, <1>8 DEF IndInv, Places

\* The steps that move only the coordinator, the clock, the token or the end
\* of the input.
ControlStep ==
    \/ Start \/ SeeCancellation \/ RaiseCancelled \/ SeeDeadline \/ StartPass
    \/ PullStop \/ PullRaises \/ Return \/ EnterWait \/ Wake \/ DrainEnds
    \/ \E w \in WorkItem : ScanLate(w)
    \/ ScanEnds \/ Resume \/ Close \/ CloseUnstarted \/ Interrupt
    \/ RequestCancellation \/ Tick \/ Terminated

\* They leave alone all that the invariant says but for the loop and the types.
LEMMA ControlFrame ==
    ASSUME ControlStep
    PROVE  /\ UNCHANGED <<in_flight, retry_wait, abandoned, next_index, state,
                          result, attempts, fut, yielded, executed, leaked>>
           /\ pc = "ended" => pc' = "ended"
  BY DEF ControlStep, Start, SeeCancellation, RaiseCancelled, SeeDeadline,
         StartPass, PullStop, Filling, PullRaises, Return, Filled, EnterWait, Wake,
         DrainEnds, ScanLate, ScanEnds, Resume, Suspended, Close, CloseUnstarted,
         Interrupt, RequestCancellation, Tick, PolledClock, Terminated, Teardown,
         vars, control, window, input, items, clock, history

LEMMA ControlInv ==
    ASSUME IndInv, ControlStep
    PROVE  IndInv'
<1> USE SchedulerAssumption, RetryAssumption DEF IndInv, Places
<1>1. TypeOK' /\ LoopOK'
  <2>1. CASE Start
    BY <2>1 DEF TypeOK, LoopOK, Done, PC, Outcome, Start, window, input,
       items, clock, history
  <2>2. CASE SeeCancellation
    BY <2>2 DEF TypeOK, LoopOK, Done, PC, Outcome, SeeCancellation,
       window, input, items, clock, history
  <2>3. CASE RaiseCancelled
    BY <2>3 DEF TypeOK, LoopOK, Done, PC, Outcome, RaiseCancelled,
       Teardown, window, input, items, clock, history
  <2>4. CASE SeeDeadline
    BY <2>4 DEF TypeOK, LoopOK, Done, PC, Outcome, SeeDeadline, Teardown,
       window, input, items, clock, history
  <2>5. CASE StartPass
    BY <2>5 DEF TypeOK, LoopOK, Done, PC, Outcome, StartPass, window,
       input, items, clock, history
  <2>6. CASE PullStop
    BY <2>6 DEF TypeOK, LoopOK, Done, PC, Outcome, PullStop, Filling,
       control, window, input, items, clock, history
  <2>7. CASE PullRaises
    BY <2>7 DEF TypeOK, LoopOK, Done, PC, Outcome, PullRaises, Teardown,
       window, input, items, clock, history
  <2>8. CASE Return
    BY <2>8 DEF TypeOK, LoopOK, Done, PC, Outcome, Return, Teardown,
       window, input, items, clock, history
  <2>9. CASE EnterWait
    <3>1. PICK t \in WaitLimits : wake' = t /\ \A u \in WaitLimits : t <= u
      BY <2>9 DEF EnterWait
    <3>2. \A u \in NextWakeup : u \in Nat
      BY DEF NextWakeup, RunningNow, TypeOK
    <3>3. t \in 0 .. Slice
      BY <3>1, <3>2 DEF WaitLimits
    <3> QED
      BY <2>9, <3>1, <3>3 DEF EnterWait, TypeOK, LoopOK, PC, Done, window, input, items, history
  <2>10. CASE Wake
    BY <2>10 DEF TypeOK, LoopOK, Done, PC, Outcome, Wake, Reported,
       window, input, items, clock, history
  <2>11. CASE DrainEnds
    BY <2>11 DEF TypeOK, LoopOK, Done, PC, Outcome, DrainEnds, Overdue,
       window, input, items, clock, history
  <2>12. CASE \E w \in WorkItem : ScanLate(w)
    BY <2>12 DEF TypeOK, LoopOK, Done, PC, Outcome, ScanLate, window,
       input, items, clock, history
  <2>13. CASE ScanEnds
    BY <2>13 DEF TypeOK, LoopOK, Done, PC, Outcome, ScanEnds, window,
       input, items, clock, history
  <2>14. CASE Resume
    BY <2>14 DEF TypeOK, LoopOK, Done, PC, Outcome, Resume, Suspended,
       window, input, items, clock, history
  <2>15. CASE Close
    BY <2>15 DEF TypeOK, LoopOK, Done, PC, Outcome, Close, Suspended,
       Teardown, window, input, items, clock, history
  <2>16. CASE CloseUnstarted
    BY <2>16 DEF TypeOK, LoopOK, Done, PC, Outcome, CloseUnstarted,
       window, input, items, clock, history
  <2>17. CASE Interrupt
    BY <2>17 DEF TypeOK, LoopOK, Done, PC, Outcome, Interrupt, Teardown,
       window, input, items, clock, history
  <2>18. CASE RequestCancellation
    BY <2>18 DEF TypeOK, LoopOK, Done, PC, Outcome, RequestCancellation,
       control, window, input, items, clock, history
  <2>19. CASE Tick
    BY <2>19 DEF TypeOK, LoopOK, Done, PC, Outcome, Tick, control, Less,
       RunningNow, window, input, items, clock, history
  <2>20. CASE Terminated
    BY <2>20 DEF TypeOK, LoopOK, Done, PC, Outcome, Terminated, vars,
       control, window, input, items, clock, history
  <2> QED
    BY <2>1, <2>2, <2>3, <2>4, <2>5, <2>6, <2>7, <2>8, <2>9, <2>10, <2>11,
       <2>12, <2>13, <2>14, <2>15, <2>16, <2>17, <2>18, <2>19, <2>20 DEF
       ControlStep
<1>2. /\ UNCHANGED <<in_flight, retry_wait, abandoned, next_index, state,
                     result, attempts, fut, yielded>>
      /\ pc = "ended" => pc' = "ended"
  BY ControlFrame
<1>3. FuturesAgree' /\ ResultsAgree' /\ AttemptsOK' /\ UnreadAbsent'
  BY <1>2 DEF FuturesAgree, FutureAgrees, ResultsAgree, AttemptsOK, UnreadAbsent
<1>4. InFlightPlace' /\ RetryPlace' /\ AbandonedPlace' /\ YieldedPlace'
  BY <1>2 DEF InFlightPlace, RetryPlace, AbandonedPlace, YieldedPlace, Done
<1>5. NothingLost' /\ LiveIsLast'
  BY <1>2 DEF NothingLost, LiveIsLast, Live
<1> QED
  BY <1>1, <1>3, <1>4, <1>5 DEF IndInv, Places

-----------------------------------------------------------------------------
(* The invariant holds of every reachable state. *)

LEMMA StepInv == IndInv /\ [Next]_vars => IndInv'
<1> SUFFICES ASSUME IndInv, [Next]_vars PROVE IndInv'
  OBVIOUS
<1>1. CASE ControlStep
  BY <1>1, ControlInv
<1>2. ASSUME NEW w \in WorkItem, Worker(w) PROVE IndInv'
  BY <1>2, TakeInv, start_executionInv, FnEndsInv, SetResultInv DEF Worker
<1>3. ASSUME NEW w \in WorkItem, Ask(w) PROVE IndInv'
  BY <1>3, AskInv
<1>4. ASSUME NEW w \in WorkItem, Resubmit(w) PROVE IndInv'
  BY <1>4, ResubmitInv
<1>5. CASE PullItem
  BY <1>5, PullItemInv
<1>6. ASSUME NEW w \in WorkItem, DrainAbandoned(w) \/ DrainFinished(w) PROVE IndInv'
  BY <1>6, DrainAbandonedInv, DrainFinishedInv
<1>7. ASSUME NEW w \in WorkItem, TimeOut(w) PROVE IndInv'
  BY <1>7, GiveUpInv, ContinueInv
<1>8. ASSUME NEW w \in WorkItem, CancelPending(w) PROVE IndInv'
  BY <1>8, CancelPendingInv
<1>9. CASE EndRun
  BY <1>9, EndRunInv
<1>10. CASE UNCHANGED vars
  BY <1>10 DEF vars, control, window, input, items, clock, history,
       IndInv, TypeOK, FuturesAgree, FutureAgrees, ResultsAgree, Places,
       InFlightPlace, RetryPlace, AbandonedPlace, YieldedPlace, Done, LoopOK,
       AttemptsOK, NothingLost, LiveIsLast, UnreadAbsent, Live
<1> QED
  BY <1>1, <1>2, <1>3, <1>4, <1>5, <1>6, <1>7, <1>8, <1>9, <1>10
     DEF Next, Coordinator, Consumer, ControlStep

\* The strengthened invariant is an invariant.
THEOREM Invariance == Spec => []IndInv
<1> QED
  BY InitInv, StepInv, PTL DEF Spec

\* Every variable keeps its type: in particular attempts never exceed
\* max_attempts and no item is cloned beyond them.
THEOREM TypeCorrect == Spec => []TypeOK
<1>1. IndInv => TypeOK
  BY DEF IndInv
<1> QED
  BY <1>1, Invariance, PTL

\* No consumed item is ever lost or doubled, over retries, timeouts, clones
\* and teardown.
THEOREM NothingIsLost == Spec => []NothingLost
<1>1. IndInv => NothingLost
  BY DEF IndInv
<1> QED
  BY <1>1, Invariance, PTL

\* Only final outcomes are handed out, and each agrees with its value or
\* exception.
THEOREM OnlyFinalYielded == Spec => []YieldedAreFinal
<1>1. IndInv => YieldedAreFinal
  BY DEF IndInv, Places, YieldedPlace, ResultsAgree, YieldedAreFinal, TypeOK
<1> QED
  BY <1>1, Invariance, PTL

\* An item in CANCELLED has no execution, running or to come.
THEOREM CancelledIsHonest == Spec => []CancelledNeverRuns
<1>1. IndInv => CancelledNeverRuns
  BY DEF IndInv, FuturesAgree, FutureAgrees, CancelledNeverRuns, Busy
<1> QED
  BY <1>1, Invariance, PTL

\* No step of the scheduler reaches check_transition with a pair it rejects.
LEMMA LegalStep ==
    ASSUME IndInv, [Next]_vars, NEW w \in WorkItem, state'[w] # state[w]
    PROVE  \/ state[w] = "ABSENT" /\ state'[w] \in {"PENDING", "RETRY_WAIT"}
           \/ check_transition(state[w], state'[w])
<1> DEFINE Legal ==
        \/ state[w] = "ABSENT" /\ state'[w] \in {"PENDING", "RETRY_WAIT"}
        \/ check_transition(state[w], state'[w])
<1> USE DEF IndInv, Places, check_transition, LEGAL_TRANSITIONS
<1>1. CASE ControlStep
  BY <1>1, ControlFrame
<1>2. ASSUME NEW v \in WorkItem, Worker(v) PROVE Legal
  BY <1>2 DEF Worker, Take, start_execution, FnEnds, finish_success,
       finish_failure, finish_escape, Finalize, Late, Retryable, SetResult,
       transition_to, items, TypeOK, FuturesAgree, FutureAgrees
<1>3. ASSUME NEW v \in WorkItem, Ask(v) PROVE Legal
  BY <1>3 DEF Ask, transition_to, TypeOK
<1>4. ASSUME NEW v \in WorkItem, Resubmit(v) PROVE Legal
  BY <1>4 DEF Resubmit, transition_to, TypeOK, LoopOK, RetryPlace
<1>5. CASE PullItem
  <2>1. <<next_index, 0>> \in WorkItem /\ state[<<next_index, 0>>] = "ABSENT"
    BY <1>5, NextItem DEF PullItem
  <2> QED
    BY <1>5, <2>1 DEF PullItem, transition_to, TypeOK
<1>6. ASSUME NEW v \in WorkItem, DrainAbandoned(v) \/ DrainFinished(v) PROVE Legal
  BY <1>6 DEF DrainAbandoned, DrainFinished, Unrecorded, TERMINAL_STATES, items,
       TypeOK, FuturesAgree, FutureAgrees
<1>7. ASSUME NEW v \in WorkItem, TimeOut(v) PROVE Legal
  <2>1. state[v] = "RUNNING"
    BY <1>7 DEF TimeOut, StillRunning
  <2>2. CASE should_retry("timeout", attempts[v])
    <3>1. state[retry_clone(v)] = "ABSENT"
      BY <1>7, <2>2, CloneFacts
    <3>2. state' = [state EXCEPT ![v] = "TIMED_OUT",
                                ![retry_clone(v)] = "RETRY_WAIT"]
      BY <1>7, <2>2 DEF TimeOut, Continue, ParkClone
    <3> QED
      BY <2>1, <3>1, <3>2 DEF TypeOK
  <2>3. CASE ~should_retry("timeout", attempts[v])
    BY <1>7, <2>1, <2>3 DEF TimeOut, GiveUp, TypeOK
  <2> QED
    BY <2>2, <2>3
<1>8. ASSUME NEW v \in WorkItem, CancelPending(v) PROVE Legal
  BY <1>8 DEF CancelPending, CancelsItem, Cancellable, transition_to, TypeOK
<1>9. CASE EndRun
  BY <1>9 DEF EndRun, Cancellable, TypeOK
<1>10. CASE UNCHANGED vars
  BY <1>10 DEF vars, items
<1> QED
  BY <1>1, <1>2, <1>3, <1>4, <1>5, <1>6, <1>7, <1>8, <1>9, <1>10
     DEF Next, Coordinator, Consumer, ControlStep

THEOREM TransitionsAreLegal == Spec => LegalTransitions
<1>1. IndInv /\ [Next]_vars =>
        [\A w \in WorkItem :
          \/ state'[w] = state[w]
          \/ state[w] = "ABSENT" /\ state'[w] \in {"PENDING", "RETRY_WAIT"}
          \/ check_transition(state[w], state'[w])]_vars
  BY LegalStep
<1> QED
  BY <1>1, Invariance, PTL DEF Spec, LegalTransitions

===============================================================================
