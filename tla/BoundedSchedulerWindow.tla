------------------------- MODULE BoundedSchedulerWindow -------------------------
(***************************************************************************)
(* Proofs of what max_pending bounds.  If no timeout is retried, the       *)
(* executions of a run fit the window (WindowBound).  If timeouts are,     *)
(* each clone may leave an abandoned execution behind, and what holds is   *)
(* max_pending executions per attempt (FuturesBound).                      *)
(*                                                                         *)
(* The second bound needs a budget: every item in the window reserves      *)
(* itself and all the clones it may still have.  A timeout that is retried *)
(* moves the item from what is reserved to what is abandoned, and only an  *)
(* item pulled into free room adds to the two.                             *)
(***************************************************************************)
EXTENDS BoundedSchedulerRefinement

\* The items of the window and the clones that may follow them.
Reserved ==
    {v \in WorkItem :
        \E w \in in_flight \union retry_wait : v[1] = w[1] /\ v[2] >= w[2]}

Budget == Reserved \union abandoned

BudgetOK == Cardinality(Budget) <= MaxPending * MaxAttempts

\* A call for which no timeout is ever retried.
NoTimeoutRetried ==
    TaskTimeout = 0 \/ "timeout" \notin RetryOn \/ MaxAttempts = 1

SlotsOK ==
    /\ Cardinality(in_flight) + Cardinality(retry_wait) + Cardinality(abandoned)
          <= MaxPending
    /\ TaskTimeout = 0 => pc \notin {"scan", "yield_scan"}

-----------------------------------------------------------------------------
(* Sets of items. *)

LEMMA Subsets ==
    ASSUME NEW S \in SUBSET WorkItem
    PROVE  IsFiniteSet(S) /\ Cardinality(S) \in Nat
  BY WorkItemsFinite, FS_Subset, FS_CardinalityType

LEMMA Apart ==
    ASSUME NEW A \in SUBSET WorkItem, NEW B \in SUBSET WorkItem,
           A \intersect B = {}
    PROVE  Cardinality(A \union B) = Cardinality(A) + Cardinality(B)
<1>1. Cardinality(A \intersect B) = 0
  BY FS_EmptySet
<1>2. /\ IsFiniteSet(A) /\ IsFiniteSet(B)
      /\ Cardinality(A) \in Nat /\ Cardinality(B) \in Nat
  BY Subsets
<1>3. Cardinality(A \union B)
        = Cardinality(A) + Cardinality(B) - Cardinality(A \intersect B)
  BY <1>2, FS_Union
<1> QED
  BY <1>1, <1>2, <1>3

\* The clones of a few items are no more than the items times max_attempts.
LEMMA ClonesBound ==
    ASSUME NEW S \in SUBSET WorkItem, NEW T \in SUBSET WorkItem,
           \A v \in T : \E w \in S : v[1] = w[1],
           Cardinality(S) <= MaxPending
    PROVE  Cardinality(T) <= MaxPending * MaxAttempts
<1> DEFINE Gen == 0 .. (MaxAttempts - 1)
           Pair == S \X Gen
           Hull == {<<p[1][1], p[2]>> : p \in Pair}
           f == [p \in Pair |-> <<p[1][1], p[2]>>]
<1> USE SchedulerAssumption, RetryAssumption
<1>1. IsFiniteSet(Gen) /\ Cardinality(Gen) = MaxAttempts
  <2>1. 0 \in Int /\ MaxAttempts - 1 \in Int /\ ~(0 > MaxAttempts - 1)
    OBVIOUS
  <2>2. /\ IsFiniteSet(0 .. (MaxAttempts - 1))
        /\ Cardinality(0 .. (MaxAttempts - 1)) = (MaxAttempts - 1) - 0 + 1
    BY <2>1, FS_Interval
  <2> QED
    BY <2>2
<1>2. IsFiniteSet(Pair) /\ Cardinality(Pair) = Cardinality(S) * MaxAttempts
  BY <1>1, Subsets, FS_Product
<1>3. f \in Surjection(Pair, Hull)
  BY DEF Surjection
<1>4. IsFiniteSet(Hull) /\ Cardinality(Hull) <= Cardinality(Pair)
  <2> HIDE DEF f, Hull, Pair
  <2> QED
    BY <1>2, <1>3, FS_Surjection
<1>5. T \subseteq Hull
  <2>1. SUFFICES ASSUME NEW v \in T PROVE v \in Hull
    OBVIOUS
  <2>2. PICK w \in S : v[1] = w[1]
    OBVIOUS
  <2>3. v[2] \in Gen /\ v = <<v[1], v[2]>>
    BY DEF WorkItem
  <2>4. <<w, v[2]>> \in Pair
    BY <2>3
  <2>5. v = << <<w, v[2]>>[1][1], <<w, v[2]>>[2] >>
    BY <2>2, <2>3
  <2> QED
    BY <2>4, <2>5
<1>6. Cardinality(T) <= Cardinality(Hull)
  BY <1>4, <1>5, FS_Subset
<1>7. Cardinality(S) * MaxAttempts <= MaxPending * MaxAttempts
  <2>1. \A a, b, c \in Nat : a <= b => a * c <= b * c
    OBVIOUS
  <2> QED
    BY <2>1, Subsets
<1>8. /\ Cardinality(T) \in Nat /\ Cardinality(Hull) \in Nat
      /\ Cardinality(Pair) \in Nat /\ MaxPending * MaxAttempts \in Nat
  <2>1. \A a, b \in Nat : a * b \in Nat
    OBVIOUS
  <2>2. Cardinality(T) \in Nat
    BY Subsets
  <2>3. Cardinality(Hull) \in Nat /\ Cardinality(Pair) \in Nat
    <3> HIDE DEF Hull, Pair
    <3> QED
      BY <1>2, <1>4, FS_CardinalityType
  <2>4. MaxPending * MaxAttempts \in Nat
    BY <2>1
  <2> QED
    BY <2>2, <2>3, <2>4
<1> QED
  <2> HIDE DEF Hull, Pair
  <2> QED
    BY <1>2, <1>4, <1>6, <1>7, <1>8

-----------------------------------------------------------------------------
(* The budget. *)

LEMMA BudgetType == ASSUME TypeOK PROVE Budget \subseteq WorkItem
  BY DEF TypeOK, Budget, Reserved

\* A step that takes nothing new into the budget keeps to it.
LEMMA BudgetShrinks ==
    ASSUME TypeOK, BudgetOK, Budget' \subseteq Budget
    PROVE  BudgetOK'
<1>1. IsFiniteSet(Budget) /\ Cardinality(Budget) \in Nat
  BY BudgetType, Subsets
<1>2. Cardinality(Budget') <= Cardinality(Budget) /\ Cardinality(Budget') \in Nat
  BY <1>1, FS_Subset, FS_CardinalityType
<1>3. MaxPending * MaxAttempts \in Nat
  <2>1. \A a, b \in Nat : a * b \in Nat
    OBVIOUS
  <2> QED
    BY <2>1, SchedulerAssumption, RetryAssumption
<1> QED
  BY <1>1, <1>2, <1>3 DEF BudgetOK

LEMMA BudgetInit == Init => BudgetOK
<1> SUFFICES ASSUME Init PROVE BudgetOK
  OBVIOUS
<1>1. Budget = {}
  BY DEF Init, Budget, Reserved
<1>2. MaxPending * MaxAttempts >= 0
  <2>1. \A a, b \in Nat : a * b >= 0
    OBVIOUS
  <2> QED
    BY <2>1, SchedulerAssumption, RetryAssumption
<1> QED
  BY <1>1, <1>2, FS_EmptySet DEF BudgetOK

LEMMA BudgetStep == IndInv /\ BudgetOK /\ [Next]_vars => BudgetOK'
<1> SUFFICES ASSUME IndInv, BudgetOK, [Next]_vars PROVE BudgetOK'
  OBVIOUS
<1>t. TypeOK /\ TypeOK'
  BY StepInv DEF IndInv
<1>1. ASSUME UNCHANGED <<in_flight, retry_wait>>, abandoned' \subseteq abandoned
      PROVE  BudgetOK'
  <2>1. Budget' \subseteq Budget
    BY <1>1 DEF Budget, Reserved
  <2> QED
    BY <2>1, <1>t, BudgetShrinks
<1>2. CASE ControlStep
  BY <1>1, <1>2, ControlFrame
<1>3. ASSUME NEW w \in WorkItem, Worker(w) \/ Ask(w) \/ CancelPending(w) \/ DrainAbandoned(w)
      PROVE  BudgetOK'
  BY <1>1, <1>3 DEF Worker, Take, start_execution, FnEnds, finish_success,
       finish_failure, finish_escape, Finalize, SetResult, Ask, CancelPending,
       DrainAbandoned, window
<1>4. ASSUME NEW w \in WorkItem, Resubmit(w) PROVE BudgetOK'
  <2>1. w \in retry_wait
    BY <1>4 DEF Resubmit, IndInv, LoopOK
  <2>2. in_flight' \union retry_wait' = in_flight \union retry_wait
    BY <1>4, <2>1 DEF Resubmit
  <2>3. UNCHANGED abandoned
    BY <1>4 DEF Resubmit
  <2>4. Budget' \subseteq Budget
    BY <2>2, <2>3 DEF Budget, Reserved
  <2> QED
    BY <2>4, <1>t, BudgetShrinks
<1>5. CASE PullItem
  <2> DEFINE w == <<next_index, 0>>
             Window == in_flight \union retry_wait \union abandoned
  <2>1. /\ in_flight' = in_flight \union {w}
        /\ UNCHANGED <<retry_wait, abandoned>>
        /\ HasRoom
    BY <1>5 DEF PullItem, Filling
  <2>2. w \in WorkItem
    BY <1>5, <1>t, NextItem DEF IndInv, PullItem, Filling
  <2>3. Window \in SUBSET WorkItem
    BY <1>t DEF TypeOK
  <2>4. Cardinality(Window) < MaxPending
    <3>1. /\ in_flight \in SUBSET WorkItem /\ retry_wait \in SUBSET WorkItem
          /\ abandoned \in SUBSET WorkItem
          /\ in_flight \union retry_wait \in SUBSET WorkItem
      BY <1>t DEF TypeOK
    <3>2. in_flight \intersect retry_wait = {}
      BY DEF IndInv, NothingLost
    <3>3. (in_flight \union retry_wait) \intersect abandoned = {}
      BY DEF IndInv, Places, InFlightPlace, RetryPlace, AbandonedPlace
    <3>4. Cardinality(Window) = Cardinality(in_flight) + Cardinality(retry_wait)
                                    + Cardinality(abandoned)
      BY <3>1, <3>2, <3>3, Apart
    <3> QED
      BY <2>1, <3>4 DEF HasRoom
  <2>5. Cardinality(Window \union {w}) <= MaxPending
    <3>1. IsFiniteSet(Window) /\ Cardinality(Window) \in Nat
      BY <2>3, Subsets
    <3>2. \/ Cardinality(Window \union {w}) = Cardinality(Window)
          \/ Cardinality(Window \union {w}) = Cardinality(Window) + 1
      <4> HIDE DEF Window, w
      <4> QED
        BY <3>1, FS_AddElement
    <3> QED
      BY <2>4, <3>1, <3>2, SchedulerAssumption
  <2>6. \A v \in Budget' : \E u \in Window \union {w} : v[1] = u[1]
    BY <2>1 DEF Budget, Reserved
  <2>7. Budget' \in SUBSET WorkItem
    BY <1>t DEF TypeOK, Budget, Reserved
  <2>8. Window \union {w} \in SUBSET WorkItem
    BY <2>2, <2>3
  <2>9. Cardinality(Budget') <= MaxPending * MaxAttempts
    <3> HIDE DEF Window, w
    <3> QED
      BY <2>5, <2>6, <2>7, <2>8, ClonesBound
  <2> QED
    BY <2>9 DEF BudgetOK
<1>6. ASSUME NEW w \in WorkItem, DrainFinished(w) PROVE BudgetOK'
  <2>1. w \in in_flight
    BY <1>6 DEF DrainFinished, IndInv, LoopOK
  <2>2. in_flight' \union retry_wait' \subseteq in_flight \union retry_wait
    BY <1>6, <2>1 DEF DrainFinished
  <2>3. UNCHANGED abandoned
    BY <1>6 DEF DrainFinished
  <2>4. Budget' \subseteq Budget
    BY <2>2, <2>3 DEF Budget, Reserved
  <2> QED
    BY <2>4, <1>t, BudgetShrinks
<1>7. ASSUME NEW w \in WorkItem, TimeOut(w) PROVE BudgetOK'
  <2>1. w \in in_flight
    BY <1>7, TimeOutFacts
  <2>2. in_flight' = in_flight \ {w} /\ abandoned' = abandoned \union {w}
    BY <1>7 DEF TimeOut
  <2>3. w[2] \in Nat
    BY RetryAssumption DEF WorkItem
  <2>4. w \in Budget
    BY <2>1, <2>3 DEF Budget, Reserved
  <2>5. Reserved' \subseteq Reserved
    <3>1. SUFFICES ASSUME NEW v \in Reserved' PROVE v \in Reserved
      OBVIOUS
    <3>2. PICK u \in in_flight' \union retry_wait' : v[1] = u[1] /\ v[2] >= u[2]
      BY DEF Reserved
    <3>3. v \in WorkItem
      BY DEF Reserved
    <3>4. CASE u \in in_flight \union retry_wait
      BY <3>2, <3>3, <3>4 DEF Reserved
    <3>5. CASE u \notin in_flight \union retry_wait
      <4>1. u = retry_clone(w)
        BY <1>7, <2>2, <3>2, <3>5 DEF TimeOut, Continue, ParkClone, GiveUp
      <4>2. u[1] = w[1] /\ u[2] = w[2] + 1
        BY <4>1 DEF retry_clone
      <4>3. v[2] \in Nat
        BY <3>3, RetryAssumption DEF WorkItem
      <4>4. v[1] = w[1] /\ v[2] >= w[2]
        BY <2>3, <3>2, <4>2, <4>3
      <4> QED
        BY <2>1, <3>3, <4>4 DEF Reserved
    <3> QED
      BY <3>4, <3>5
  <2>6. Budget' \subseteq Budget
    BY <2>2, <2>4, <2>5 DEF Budget
  <2> QED
    BY <2>6, <1>t, BudgetShrinks
<1>8. CASE EndRun
  BY <1>1, <1>8 DEF EndRun, window
<1>9. CASE UNCHANGED vars
  BY <1>1, <1>9 DEF vars, window
<1> QED
  BY <1>2, <1>3, <1>4, <1>5, <1>6, <1>7, <1>8, <1>9
     DEF Next, Coordinator, Consumer, ControlStep

LEMMA BudgetBounds ==
    ASSUME IndInv, BudgetOK
    PROVE  FuturesBound
<1> DEFINE Window == in_flight \union retry_wait \union abandoned
<1>1. /\ in_flight \in SUBSET WorkItem /\ retry_wait \in SUBSET WorkItem
      /\ abandoned \in SUBSET WorkItem
      /\ in_flight \union retry_wait \in SUBSET WorkItem
  BY DEF IndInv, TypeOK
<1>2. in_flight \intersect retry_wait = {}
  BY DEF IndInv, NothingLost
<1>3. (in_flight \union retry_wait) \intersect abandoned = {}
  BY DEF IndInv, Places, InFlightPlace, RetryPlace, AbandonedPlace
<1>4. Cardinality(Window) = Cardinality(in_flight) + Cardinality(retry_wait)
                                + Cardinality(abandoned)
  BY <1>1, <1>2, <1>3, Apart
<1>5. Window \subseteq Budget
  <2>1. \A w \in WorkItem : w[2] \in Nat
    BY RetryAssumption DEF WorkItem
  <2> QED
    BY <1>1, <2>1 DEF Budget, Reserved
<1>6. IsFiniteSet(Budget) /\ Cardinality(Budget) \in Nat
  BY BudgetType, Subsets DEF IndInv
<1>7. Cardinality(Window) <= Cardinality(Budget) /\ Cardinality(Window) \in Nat
  BY <1>5, <1>6, FS_Subset, FS_CardinalityType
<1>8. MaxPending * MaxAttempts \in Nat
  <2>1. \A a, b \in Nat : a * b \in Nat
    OBVIOUS
  <2> QED
    BY <2>1, SchedulerAssumption, RetryAssumption
<1> QED
  BY <1>4, <1>6, <1>7, <1>8 DEF BudgetOK, FuturesBound

\* However often items time out and are cloned, the executions that exist at
\* once never exceed max_pending for each execution the policy allows.
THEOREM FuturesAreBounded == Spec => []FuturesBound
<1>1. Spec => [](IndInv /\ BudgetOK)
  <2>1. Init => IndInv /\ BudgetOK
    BY InitInv, BudgetInit
  <2>2. IndInv /\ BudgetOK /\ [Next]_vars => IndInv' /\ BudgetOK'
    BY StepInv, BudgetStep
  <2> QED
    BY <2>1, <2>2, PTL DEF Spec
<1>2. IndInv /\ BudgetOK => FuturesBound
  BY BudgetBounds
<1> QED
  BY <1>1, <1>2, PTL

-----------------------------------------------------------------------------
(* The window, when no timeout is retried. *)

LEMMA SlotsStep ==
    NoTimeoutRetried /\ IndInv /\ SlotsOK /\ [Next]_vars => SlotsOK'
<1> SUFFICES ASSUME NoTimeoutRetried, IndInv, SlotsOK, [Next]_vars PROVE SlotsOK'
  OBVIOUS
<1> USE WindowFinite DEF IndInv
<1>1. ASSUME UNCHANGED <<in_flight, retry_wait, abandoned>>,
             TaskTimeout = 0 => pc' \notin {"scan", "yield_scan"}
      PROVE  SlotsOK'
  BY <1>1 DEF SlotsOK
<1>2. CASE ControlStep
  <2>1. UNCHANGED <<in_flight, retry_wait, abandoned>>
    BY <1>2, ControlFrame
  <2>2. TaskTimeout = 0 => pc' \notin {"scan", "yield_scan"}
    BY <1>2 DEF SlotsOK, ControlStep, Start, SeeCancellation, RaiseCancelled,
       SeeDeadline, StartPass, PullStop, Filling, PullRaises, Return, Filled,
       EnterWait, Wake, DrainEnds, ScanLate, ScanEnds, Resume, Suspended, Close,
       CloseUnstarted, Interrupt, RequestCancellation, Tick, Terminated, Teardown,
       vars, control
  <2> QED
    BY <1>1, <2>1, <2>2
<1>3. ASSUME NEW w \in WorkItem, Worker(w) \/ Ask(w) \/ CancelPending(w)
      PROVE  SlotsOK'
  BY <1>1, <1>3 DEF SlotsOK, Worker, Take, start_execution, FnEnds,
       finish_success, finish_failure, finish_escape, Finalize, SetResult, Ask,
       CancelPending, window, control
<1>4. ASSUME NEW w \in WorkItem, Resubmit(w) PROVE SlotsOK'
  <2>1. w \in retry_wait /\ w \notin in_flight
    BY <1>4 DEF Resubmit, LoopOK, NothingLost
  <2>2. /\ in_flight' = in_flight \union {w} /\ retry_wait' = retry_wait \ {w}
        /\ UNCHANGED <<abandoned, pc>>
    BY <1>4 DEF Resubmit
  <2>3. Cardinality(in_flight') = Cardinality(in_flight) + 1
    BY <2>1, <2>2, FS_AddElement
  <2>4. Cardinality(retry_wait') = Cardinality(retry_wait) - 1
    BY <2>1, <2>2, FS_RemoveElement
  <2> QED
    BY <2>2, <2>3, <2>4, SchedulerAssumption DEF SlotsOK
<1>5. CASE PullItem
  <2>1. /\ in_flight' = in_flight \union {<<next_index, 0>>}
        /\ UNCHANGED <<retry_wait, abandoned, pc>>
        /\ HasRoom
    BY <1>5 DEF PullItem, Filling, control
  <2>2. \/ Cardinality(in_flight') = Cardinality(in_flight)
        \/ Cardinality(in_flight') = Cardinality(in_flight) + 1
    BY <2>1, FS_AddElement
  <2> QED
    BY <2>1, <2>2, SchedulerAssumption DEF SlotsOK, HasRoom
<1>6. ASSUME NEW w \in WorkItem, DrainAbandoned(w) PROVE SlotsOK'
  <2>1. w \in abandoned /\ abandoned' = abandoned \ {w}
        /\ UNCHANGED <<in_flight, retry_wait, pc>>
    BY <1>6 DEF DrainAbandoned
  <2>2. Cardinality(abandoned') = Cardinality(abandoned) - 1
    BY <2>1, FS_RemoveElement
  <2> QED
    BY <2>1, <2>2, SchedulerAssumption DEF SlotsOK
<1>7. ASSUME NEW w \in WorkItem, DrainFinished(w) PROVE SlotsOK'
  <2>1. w \in in_flight /\ in_flight' = in_flight \ {w} /\ UNCHANGED abandoned
    BY <1>7 DEF DrainFinished, LoopOK
  <2>2. Cardinality(in_flight') = Cardinality(in_flight) - 1
    BY <2>1, FS_RemoveElement
  <2>3. \/ UNCHANGED retry_wait
        \/ w \notin retry_wait /\ retry_wait' = retry_wait \union {w}
    BY <1>7, <2>1 DEF DrainFinished, NothingLost
  <2>4. \/ Cardinality(retry_wait') = Cardinality(retry_wait)
        \/ Cardinality(retry_wait') = Cardinality(retry_wait) + 1
    BY <2>3, FS_AddElement
  <2>5. pc' \notin {"scan", "yield_scan"}
    BY <1>7 DEF DrainFinished
  <2> QED
    BY <2>1, <2>2, <2>4, <2>5, SchedulerAssumption DEF SlotsOK
<1>8. ASSUME NEW w \in WorkItem, TimeOut(w) PROVE SlotsOK'
  <2>1. w \in in_flight /\ w \notin abandoned
    BY <1>8, TimeOutFacts
  <2>2. TaskTimeout # 0
    BY <1>8 DEF TimeOut, SlotsOK
  <2>3. ~should_retry("timeout", attempts[w])
    BY <2>2, RetryAssumption DEF NoTimeoutRetried, should_retry, TypeOK
  <2>4. /\ in_flight' = in_flight \ {w} /\ abandoned' = abandoned \union {w}
        /\ UNCHANGED retry_wait
    BY <1>8, <2>3 DEF TimeOut, GiveUp
  <2>5. Cardinality(in_flight') = Cardinality(in_flight) - 1
    BY <2>1, <2>4, FS_RemoveElement
  <2>6. Cardinality(abandoned') = Cardinality(abandoned) + 1
    BY <2>1, <2>4, FS_AddElement
  <2> QED
    BY <2>2, <2>4, <2>5, <2>6, SchedulerAssumption DEF SlotsOK
<1>9. CASE EndRun
  BY <1>1, <1>9 DEF EndRun, window
<1>10. CASE UNCHANGED vars
  BY <1>1, <1>10 DEF SlotsOK, vars, window, control
<1> QED
  BY <1>2, <1>3, <1>4, <1>5, <1>6, <1>7, <1>8, <1>9, <1>10
     DEF Next, Coordinator, Consumer, ControlStep

\* "Keeping at most max_pending tasks alive at once" (_scheduler.py, 3-5) holds
\* of every call that retries no timeout; finding sched_window shows a call
\* that does.
THEOREM WindowIsKept == NoTimeoutRetried /\ Spec => []WindowBound
<1>1. Init => IndInv /\ SlotsOK
  <2>1. Init => SlotsOK
    BY FS_EmptySet, SchedulerAssumption DEF Init, SlotsOK
  <2> QED
    BY <2>1, InitInv
<1>2. NoTimeoutRetried /\ IndInv /\ SlotsOK /\ [Next]_vars => IndInv' /\ SlotsOK'
  BY StepInv, SlotsStep
<1>3. IndInv /\ SlotsOK => WindowBound
  BY WindowFinite, SchedulerAssumption DEF IndInv, SlotsOK, WindowBound
<1>4. NoTimeoutRetried => []NoTimeoutRetried
  OBVIOUS
<1> QED
  BY <1>1, <1>2, <1>3, <1>4, PTL DEF Spec

================================================================================
