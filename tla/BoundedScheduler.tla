--------------------------- MODULE BoundedScheduler ---------------------------
(***************************************************************************)
(* One call of BoundedScheduler.run (_scheduler.py): the coordinator, the  *)
(* worker threads of the executor it borrows, the code that iterates it,   *)
(* and the thread that may request its cancellation.                       *)
(*                                                                         *)
(* The coordinator is a generator.  "pc" is the place it has reached;      *)
(* "todo" holds what is left of the for loop it is in.  Each iteration of  *)
(* a loop is one step, since workers run between two iterations, and what  *)
(* a step does under one acquisition of an item's lock is atomic.          *)
(*                                                                         *)
(* A work item is a pair <<index, clones>>: the second component counts    *)
(* how many times retry_clone replaced the item of that index.  An item    *)
(* has one future at a time, so futures are named by their item.  The      *)
(* executor's queue is FIFO; here a free worker takes any queued future.   *)
(*                                                                         *)
(* Time passes in ticks.  A deadline is kept as the time left until it and *)
(* a start as the time since it; both stop at the value the code compares  *)
(* them with.                                                              *)
(***************************************************************************)
EXTENDS Integers, FiniteSets, TaskStates, RetryPolicy

CONSTANTS N,               \* number of items in the input
          Workers,         \* threads of the executor
          MaxPending,      \* max_pending
          TaskTimeout,     \* task_timeout, 0 for None
          OverallTimeouts, \* overall_timeout, one of these, 0 for None
          Slice,           \* _MAX_WAIT_SLICE
          Errors,          \* kinds of Exception the function may raise
          UsesToken,       \* whether the call has a Cancellation token
          InputMayRaise,   \* whether the input iterable may raise
          Interruptible    \* whether Ctrl+C may reach the coordinator

\* Exceptions are told apart by what retry_on and finish_failure can see.
\* "fatal" is a BaseException that is no Exception: retry_on rejects it.
ExceptionKind == {"error", "timeout", "Cancelled"}

ASSUME SchedulerAssumption ==
    /\ N \in Nat
    /\ Workers \in Nat \ {0}
    /\ MaxPending \in Nat \ {0}
    /\ TaskTimeout \in Nat
    /\ OverallTimeouts \subseteq Nat
    /\ Slice \in Nat \ {0}
    /\ Errors \subseteq ExceptionKind
    /\ RetryOn \subseteq ExceptionKind
    /\ UsesToken \in BOOLEAN
    /\ InputMayRaise \in BOOLEAN
    /\ Interruptible \in BOOLEAN

Index == 0 .. (N - 1)
WorkItem == Index \X (0 .. (MaxAttempts - 1))

VARIABLES
    pc,          \* where the coordinator is
    todo,        \* items its current loop has still to visit
    outcome,     \* how the run ended, "none" before
    in_flight, retry_wait, abandoned, next_index, exhausted,  \* locals of run
    leaked,      \* what the run passed to on_leak
    state, result, attempts,  \* per item: state, value or exception, attempts
    fut,         \* per item: its future
    age,         \* per item: time since started_at, up to TaskTimeout
    due,         \* per item: time left of its backoff
    left,        \* time left of overall_timeout, -1 without one
    wake,        \* time left of the wait the coordinator is in
    requested,   \* the Cancellation token
    yielded,     \* history: the items handed to the consumer
    executed     \* history: calls of the function, per index

control == <<pc, todo, outcome>>
window  == <<in_flight, retry_wait, abandoned>>
input   == <<next_index, exhausted>>
items   == <<state, result, attempts>>
clock   == <<age, due, left, wake>>
history == <<yielded, executed>>
vars == <<control, window, input, leaked, items, fut, clock, requested, history>>

PC == {"created", "top", "ask", "submit", "wait", "drain", "scan",
       "yield_drain", "yield_scan", "teardown", "ended"}
Outcome == {"none", "returned", "Cancelled", "OverallTimeout", "closed",
            "inputError", "KeyboardInterrupt"}
Result == ExceptionKind \union {"none", "value", "fatal"}
FutureState == {"none", "queued", "taken", "in_fn", "returned", "escaped",
                "finished", "raised", "cancelled"}

\* "Mutant" definitions are faulty variants of the definition that follows
\* them.  Nothing uses them: each shows that some property would notice.

\* A future whose worker thread is not free yet, and one wait() reports.  A
\* future that was cancelled while queued is never reported by wait().
Busy(w) == fut[w] \in {"taken", "in_fn", "returned", "escaped"}
Done(w) == fut[w] \in {"finished", "raised"}

Suspended == pc \in {"yield_drain", "yield_scan"}
PolledClock == pc \notin {"created", "ask", "teardown", "ended"}

Init ==
    /\ pc = "created"
    /\ todo = {}
    /\ outcome = "none"
    /\ in_flight = {} /\ retry_wait = {} /\ abandoned = {}
    /\ next_index = 0 /\ exhausted = FALSE
    /\ leaked = {}
    /\ state = [w \in WorkItem |-> "ABSENT"]
    /\ result = [w \in WorkItem |-> "none"]
    /\ attempts = [w \in WorkItem |-> 1]
    /\ fut = [w \in WorkItem |-> "none"]
    /\ age = [w \in WorkItem |-> 0]
    /\ due = [w \in WorkItem |-> 0]
    /\ left \in {IF t = 0 THEN -1 ELSE t : t \in OverallTimeouts}
    /\ wake = 0
    /\ requested = FALSE
    /\ yielded = {}
    /\ executed = [i \in Index |-> 0]

-----------------------------------------------------------------------------
(* Items. *)

\* transition_to.  The check it makes first is LegalTransitions below: no
\* step of the code may reach it with a pair it would reject.  The age of an
\* item counts from its last transition; it is read only while RUNNING.
transition_to(w, new) ==
    /\ state' = [state EXCEPT ![w] = new]
    /\ age' = [age EXCEPT ![w] = 0]

\* cancel: only a state in which nothing runs becomes CANCELLED.
Cancellable(w) == state[w] \in {"PENDING", "RETRY_WAIT"}

\* The clone that continues an item after its timeout.
retry_clone(w) == <<w[1], w[2] + 1>>

-----------------------------------------------------------------------------
(* Worker threads: _run_one, between two states of its future.  The time   *)
(* inside the function is the time spent in "in_fn".                       *)

\* A free worker takes a queued future; from here future.cancel() fails.
Take(w) ==
    /\ fut[w] = "queued"
    /\ Cardinality({v \in WorkItem : Busy(v)}) < Workers
    /\ fut' = [fut EXCEPT ![w] = "taken"]
    /\ UNCHANGED <<control, window, input, leaked, items, clock, requested, history>>

start_execution(w) ==
    /\ fut[w] = "taken"
    /\ transition_to(w, "RUNNING")
    /\ fut' = [fut EXCEPT ![w] = "in_fn"]
    /\ executed' = [executed EXCEPT ![w[1]] = @ + 1]
    /\ UNCHANGED <<control, window, input, leaked, result, attempts,
                   due, left, wake, requested, yielded>>

\* Mutant: the worker does not look at what the coordinator decided.
NeverLate(w) == FALSE

\* The loser of the race with the timeout scan drops its outcome.
Late(w) == state[w] = "TIMED_OUT"

Finalize(w, new, outcome_of_fn, future) ==
    /\ fut' = [fut EXCEPT ![w] = future]
    /\ IF Late(w)
       THEN UNCHANGED <<state, result, age>>
       ELSE /\ transition_to(w, new)
            /\ result' = [result EXCEPT ![w] = outcome_of_fn]
    /\ UNCHANGED <<control, window, input, leaked, attempts,
                   due, left, wake, requested, history>>

\* Mutant: an item that was asked to stop is retried.
RetryableWhenAsked(w, kind) == kind # "Cancelled" /\ should_retry(kind, attempts[w])

\* A failure goes back to the coordinator only if nobody asked the item to
\* stop, it is no Cancelled, and the policy has an execution left for it.
Retryable(w, kind) ==
    /\ state[w] = "RUNNING"
    /\ kind # "Cancelled"
    /\ should_retry(kind, attempts[w])

finish_success(w) ==
    /\ fut[w] = "in_fn"
    /\ Finalize(w, "SUCCESS", "value", "returned")

finish_failure(w) ==
    /\ fut[w] = "in_fn"
    /\ \E kind \in Errors :
          Finalize(w, IF Retryable(w, kind) THEN "RETRY_WAIT" ELSE "FAILED",
                   kind, "returned")

finish_escape(w) ==
    /\ fut[w] = "in_fn"
    /\ Finalize(w, "FAILED", "fatal", "escaped")

FnEnds(w) == finish_success(w) \/ finish_failure(w) \/ finish_escape(w)

\* _run_one returned or raised; the worker completes the future.
SetResult(w) ==
    /\ \/ fut[w] = "returned" /\ fut' = [fut EXCEPT ![w] = "finished"]
       \/ fut[w] = "escaped"  /\ fut' = [fut EXCEPT ![w] = "raised"]
    /\ UNCHANGED <<control, window, input, leaked, items, clock, requested, history>>

Worker(w) == Take(w) \/ start_execution(w) \/ FnEnds(w) \/ SetResult(w)

-----------------------------------------------------------------------------
(* The coordinator: the loop of run, one pass from "top" to "top". *)

\* Every way out of the loop runs the finally block over in_flight.
Teardown(how) ==
    /\ pc' = "teardown"
    /\ todo' = in_flight
    /\ outcome' = how

\* The first next() of the consumer: the deadline is fixed here.
Start ==
    /\ pc = "created"
    /\ pc' = "top"
    /\ UNCHANGED <<todo, outcome, window, input, leaked, items, fut, clock,
                   requested, history>>

\* Mutant: the deadline counts only once the input is exhausted.
ExpiredWhenExhausted == left = 0 /\ exhausted

OverallExpired == left = 0

\* An explicit request wins over a deadline that expired with it.
SeeCancellation ==
    /\ pc = "top"
    /\ requested
    /\ pc' = "ask"
    /\ todo' = in_flight
    /\ UNCHANGED <<outcome, window, input, leaked, items, fut, clock,
                   requested, history>>

\* request_cancellation: only a running item is asked.
Ask(w) ==
    /\ pc = "ask"
    /\ w \in todo
    /\ todo' = todo \ {w}
    /\ IF state[w] = "RUNNING"
       THEN transition_to(w, "CANCELLATION_REQUESTED")
       ELSE UNCHANGED <<state, age>>
    /\ UNCHANGED <<pc, outcome, window, input, leaked, result, attempts, fut,
                   due, left, wake, requested, history>>

RaiseCancelled ==
    /\ pc = "ask"
    /\ todo = {}
    /\ Teardown("Cancelled")
    /\ UNCHANGED <<window, input, leaked, items, fut, clock, requested, history>>

SeeDeadline ==
    /\ pc = "top"
    /\ ~requested
    /\ OverallExpired
    /\ Teardown("OverallTimeout")
    /\ UNCHANGED <<window, input, leaked, items, fut, clock, requested, history>>

\* The items whose backoff is over are listed once, then resubmitted.
StartPass ==
    /\ pc = "top"
    /\ ~requested
    /\ ~OverallExpired
    /\ pc' = "submit"
    /\ todo' = {w \in retry_wait : due[w] = 0}
    /\ UNCHANGED <<outcome, window, input, leaked, items, fut, clock,
                   requested, history>>

\* Mutant: the resubmission stays in retry_wait as well.
ResubmitAndKeep(w) ==
    /\ pc = "submit"
    /\ w \in todo
    /\ todo' = todo \ {w}
    /\ attempts' = [attempts EXCEPT ![w] = @ + 1]
    /\ transition_to(w, "PENDING")
    /\ in_flight' = in_flight \union {w}
    /\ fut' = [fut EXCEPT ![w] = "queued"]
    /\ UNCHANGED <<pc, outcome, retry_wait, abandoned, input, leaked, result,
                   due, left, wake, requested, history>>

Resubmit(w) ==
    /\ pc = "submit"
    /\ w \in todo
    /\ todo' = todo \ {w}
    /\ retry_wait' = retry_wait \ {w}
    /\ attempts' = [attempts EXCEPT ![w] = @ + 1]
    /\ transition_to(w, "PENDING")
    /\ in_flight' = in_flight \union {w}
    /\ fut' = [fut EXCEPT ![w] = "queued"]
    /\ UNCHANGED <<pc, outcome, abandoned, input, leaked, result,
                   due, left, wake, requested, history>>

\* Mutants: the fill loop lets one more in, or forgets a part of the window.
HasRoomForOneMore ==
    Cardinality(in_flight) + Cardinality(retry_wait) + Cardinality(abandoned)
        <= MaxPending
HasRoomBesidesRetries == Cardinality(in_flight) + Cardinality(abandoned) < MaxPending
HasRoomBesidesAbandoned == Cardinality(in_flight) + Cardinality(retry_wait) < MaxPending

\* Abandoned executions keep their slot until their worker returns.
HasRoom ==
    Cardinality(in_flight) + Cardinality(retry_wait) + Cardinality(abandoned)
        < MaxPending

Filling == pc = "submit" /\ todo = {} /\ ~exhausted /\ HasRoom

\* next(iterator) gives an item ...
PullItem ==
    /\ Filling
    /\ next_index < N
    /\ LET w == <<next_index, 0>>
       IN /\ transition_to(w, "PENDING")
          /\ in_flight' = in_flight \union {w}
          /\ fut' = [fut EXCEPT ![w] = "queued"]
    /\ next_index' = next_index + 1
    /\ UNCHANGED <<control, retry_wait, abandoned, exhausted, leaked, result,
                   attempts, due, left, wake, requested, history>>

\* ... or StopIteration ...
PullStop ==
    /\ Filling
    /\ next_index = N
    /\ exhausted' = TRUE
    /\ UNCHANGED <<control, window, next_index, leaked, items, fut, clock,
                   requested, history>>

\* ... or the input breaks, and its exception goes to the caller.
PullRaises ==
    /\ Filling
    /\ InputMayRaise
    /\ Teardown("inputError")
    /\ UNCHANGED <<window, input, leaked, items, fut, clock, requested, history>>

Filled == pc = "submit" /\ todo = {} /\ (exhausted \/ ~HasRoom)

\* Mutant: the loop returns over a backoff.
NothingInFlight == in_flight = {} /\ exhausted

NothingLeft == in_flight = {} /\ retry_wait = {} /\ exhausted

Return ==
    /\ Filled
    /\ NothingLeft
    /\ Teardown("returned")
    /\ UNCHANGED <<window, input, leaked, items, fut, clock, requested, history>>

\* _next_wakeup: the moments at which the coordinator has something to do.
\* While nothing runs, a queued item may start any moment and time out one
\* task_timeout later.
RunningNow == {w \in in_flight : state[w] = "RUNNING"}

NextWakeup ==
    {due[w] : w \in retry_wait}
    \union ({left} \ {-1})
    \union (IF TaskTimeout = 0 \/ in_flight = {}
            THEN {}
            ELSE IF RunningNow = {}
                 THEN {TaskTimeout}
                 ELSE {TaskTimeout - age[w] : w \in RunningNow})

\* Mutant: no upper bound on a single wait.
UncappedWaitLimits == NextWakeup

\* The wait ends at the earliest of them, and after one slice at the latest.
WaitLimits == NextWakeup \union {Slice}

EnterWait ==
    /\ Filled
    /\ ~NothingLeft
    /\ \E t \in WaitLimits :
          /\ \A u \in WaitLimits : t <= u
          /\ wake' = t
    /\ pc' = "wait"
    /\ UNCHANGED <<todo, outcome, window, input, leaked, items, fut,
                   age, due, left, requested, history>>

\* Mutants: only the futures in flight are waited on, or every future that
\* was waited on is taken for done.
ReportedInFlight == {w \in in_flight : Done(w)}
Watched == in_flight \union abandoned

\* wait() returns when a future it watches is done, or on its timeout; with
\* nothing to watch the coordinator sleeps that long.
Reported == {w \in in_flight \union abandoned : Done(w)}

Wake ==
    /\ pc = "wait"
    /\ Reported # {} \/ wake = 0
    /\ pc' = "drain"
    /\ todo' = Reported
    /\ wake' = 0
    /\ UNCHANGED <<outcome, window, input, leaked, items, fut,
                   age, due, left, requested, history>>

\* Mutant: one abandoned execution that returns frees the slots of all.
DrainAllAbandoned(w) ==
    /\ pc = "drain"
    /\ w \in todo \intersect abandoned
    /\ todo' = todo \ {w}
    /\ abandoned' = {}
    /\ UNCHANGED <<pc, outcome, in_flight, retry_wait, input, leaked, items,
                   fut, clock, requested, history>>

\* An abandoned execution returned: its slot is free, its outcome is gone.
DrainAbandoned(w) ==
    /\ pc = "drain"
    /\ w \in todo \intersect abandoned
    /\ todo' = todo \ {w}
    /\ abandoned' = abandoned \ {w}
    /\ UNCHANGED <<pc, outcome, in_flight, retry_wait, input, leaked, items,
                   fut, clock, requested, history>>

\* _record_escaped_exception: an exception that reached the future but is
\* not on the item yet.
Unrecorded(w) == fut[w] = "raised" /\ state[w] \notin TERMINAL_STATES

\* A finished execution leaves in_flight, for a backoff or for the consumer.
DrainFinished(w) ==
    /\ pc = "drain"
    /\ w \in todo \ abandoned
    /\ todo' = todo \ {w}
    /\ in_flight' = in_flight \ {w}
    /\ IF Unrecorded(w)
       THEN transition_to(w, "FAILED") /\ result' = [result EXCEPT ![w] = "fatal"]
       ELSE UNCHANGED <<state, age, result>>
    /\ IF ~Unrecorded(w) /\ state[w] = "RETRY_WAIT"
       THEN /\ retry_wait' = retry_wait \union {w}
            /\ \E delay \in delay_for(attempts[w]) :
                  due' = [due EXCEPT ![w] = delay]
            /\ UNCHANGED <<pc, yielded>>
       ELSE /\ pc' = "yield_drain"
            /\ yielded' = yielded \union {w}
            /\ UNCHANGED <<retry_wait, due>>
    /\ UNCHANGED <<outcome, abandoned, input, leaked, attempts, fut,
                   left, wake, requested, executed>>

\* Mutant: whatever runs when the scan comes by is late.
OverdueUnchecked == RunningNow

\* The items past their deadline when the scan reads the clock.  An item
\* that starts later is compared with that same reading, and is not late.
Overdue == {w \in in_flight : state[w] = "RUNNING" /\ age[w] = TaskTimeout}

DrainEnds ==
    /\ pc = "drain"
    /\ todo = {}
    /\ IF TaskTimeout > 0
       THEN pc' = "scan" /\ todo' = Overdue
       ELSE pc' = "top" /\ UNCHANGED todo
    /\ UNCHANGED <<outcome, window, input, leaked, items, fut, clock,
                   requested, history>>

\* Mutant: the state is not looked at again under the lock.
RunningUnchecked(w) == TRUE

\* time_out_if_expired decides under the item's lock: a worker may have
\* finalized the item since the scan read the clock.
StillRunning(w) == state[w] = "RUNNING"

ScanLate(w) ==
    /\ pc = "scan"
    /\ w \in todo
    /\ ~StillRunning(w)
    /\ todo' = todo \ {w}
    /\ UNCHANGED <<pc, outcome, window, input, leaked, items, fut, clock,
                   requested, history>>

\* Mutant: the clone counts an execution that the resubmission counts again.
CountedTwice(w) == attempts[w] + 1

CloneAttempts(w) == attempts[w]

ParkClone(w) ==
    LET clone == retry_clone(w)
    IN /\ state' = [state EXCEPT ![w] = "TIMED_OUT", ![clone] = "RETRY_WAIT"]
       /\ attempts' = [attempts EXCEPT ![clone] = CloneAttempts(w)]
       /\ retry_wait' = retry_wait \union {clone}
       /\ \E delay \in delay_for(CloneAttempts(w)) :
             due' = [due EXCEPT ![clone] = delay]

\* Mutant: the timed out item is handed out besides its clone.
HandOutAndPark(w) == ParkClone(w) /\ pc' = "yield_scan" /\ yielded' = yielded \union {w}

\* The execution goes on without its item, which a clone parked for its
\* backoff continues ...
Continue(w) == ParkClone(w) /\ UNCHANGED <<pc, yielded>>

\* ... or which is handed out.
GiveUp(w) ==
    /\ state' = [state EXCEPT ![w] = "TIMED_OUT"]
    /\ pc' = "yield_scan"
    /\ yielded' = yielded \union {w}
    /\ UNCHANGED <<retry_wait, attempts, due>>

TimeOut(w) ==
    /\ pc = "scan"
    /\ w \in todo
    /\ StillRunning(w)
    /\ todo' = todo \ {w}
    /\ in_flight' = in_flight \ {w}
    /\ abandoned' = abandoned \union {w}
    /\ result' = [result EXCEPT ![w] = "timeout"]
    /\ age' = [age EXCEPT ![w] = 0]
    /\ IF should_retry("timeout", attempts[w]) THEN Continue(w) ELSE GiveUp(w)
    /\ UNCHANGED <<outcome, input, leaked, fut, left, wake, requested, executed>>

ScanEnds ==
    /\ pc = "scan"
    /\ todo = {}
    /\ pc' = "top"
    /\ UNCHANGED <<todo, outcome, window, input, leaked, items, fut, clock,
                   requested, history>>

-----------------------------------------------------------------------------
(* The consumer: it resumes the generator at a yield, or closes it there. *)

Resume ==
    /\ Suspended
    /\ pc' = IF pc = "yield_drain" THEN "drain" ELSE "scan"
    /\ UNCHANGED <<todo, outcome, window, input, leaked, items, fut, clock,
                   requested, history>>

Close ==
    /\ Suspended
    /\ Teardown("closed")
    /\ UNCHANGED <<window, input, leaked, items, fut, clock, requested, history>>

\* A generator closed before its first next() never runs its body.
CloseUnstarted ==
    /\ pc = "created"
    /\ pc' = "ended"
    /\ outcome' = "closed"
    /\ UNCHANGED <<todo, window, input, leaked, items, fut, clock, requested,
                   history>>

\* Ctrl+C, where it finds a coordinator that waits.
Interrupt ==
    /\ Interruptible
    /\ pc = "wait"
    /\ Teardown("KeyboardInterrupt")
    /\ wake' = 0
    /\ UNCHANGED <<window, input, leaked, items, fut, age, due, left,
                   requested, history>>

-----------------------------------------------------------------------------
(* The finally block. *)

\* Mutant: the item is cancelled whatever future.cancel() said.
CancelsAnyway(w) == Cancellable(w)

\* _cancel_pending: the item is cancelled only if its future was.
CancelsItem(w) == fut[w] = "queued" /\ Cancellable(w)

CancelPending(w) ==
    /\ pc = "teardown"
    /\ w \in todo
    /\ todo' = todo \ {w}
    /\ fut' = IF fut[w] = "queued" THEN [fut EXCEPT ![w] = "cancelled"] ELSE fut
    /\ IF CancelsItem(w)
       THEN transition_to(w, "CANCELLED")
       ELSE UNCHANGED <<state, age>>
    /\ UNCHANGED <<pc, outcome, window, input, leaked, result, attempts,
                   due, left, wake, requested, history>>

\* Mutant: the abandoned executions are not told.
LeaksInFlight == {w \in in_flight : fut[w] # "cancelled"}

\* What on_leak is told: every execution a worker may still be inside.
Leaks == {w \in in_flight : fut[w] # "cancelled"} \union abandoned

EndRun ==
    /\ pc = "teardown"
    /\ todo = {}
    /\ state' = [w \in WorkItem |->
                    IF w \in retry_wait /\ Cancellable(w)
                    THEN "CANCELLED" ELSE state[w]]
    /\ leaked' = Leaks
    /\ pc' = "ended"
    /\ UNCHANGED <<todo, outcome, window, input, result, attempts, fut, clock,
                   requested, history>>

-----------------------------------------------------------------------------
(* Everything else that happens. *)

RequestCancellation ==
    /\ UsesToken
    /\ ~requested
    /\ pc # "ended"
    /\ requested' = TRUE
    /\ UNCHANGED <<control, window, input, leaked, items, fut, clock, history>>

Less(t) == IF t > 0 THEN t - 1 ELSE t

\* Time passes while the loop has a clock to compare; a tick that would move
\* nothing is left out.
Tick ==
    /\ PolledClock
    /\ \/ left > 0
       \/ wake > 0
       \/ \E w \in retry_wait : due[w] > 0
       \/ \E w \in RunningNow : age[w] < TaskTimeout
    /\ left' = Less(left)
    /\ wake' = Less(wake)
    /\ due' = [w \in WorkItem |-> Less(due[w])]
    /\ age' = [w \in WorkItem |->
                  IF w \in RunningNow /\ age[w] < TaskTimeout
                  THEN age[w] + 1 ELSE age[w]]
    /\ UNCHANGED <<control, window, input, leaked, items, fut, requested, history>>

\* The run is over and so are the executions it left behind.
Terminated ==
    /\ pc = "ended"
    /\ \A w \in WorkItem : ~Busy(w)
    /\ UNCHANGED vars

Coordinator ==
    \/ Start
    \/ SeeCancellation
    \/ \E w \in WorkItem : Ask(w)
    \/ RaiseCancelled
    \/ SeeDeadline
    \/ StartPass
    \/ \E w \in WorkItem : Resubmit(w)
    \/ PullItem
    \/ PullStop
    \/ PullRaises
    \/ Return
    \/ EnterWait
    \/ Wake
    \/ \E w \in WorkItem : DrainAbandoned(w)
    \/ \E w \in WorkItem : DrainFinished(w)
    \/ DrainEnds
    \/ \E w \in WorkItem : ScanLate(w)
    \/ \E w \in WorkItem : TimeOut(w)
    \/ ScanEnds
    \/ \E w \in WorkItem : CancelPending(w)
    \/ EndRun

Consumer == Resume \/ Close

Next ==
    \/ Coordinator
    \/ Consumer
    \/ CloseUnstarted
    \/ Interrupt
    \/ \E w \in WorkItem : Worker(w)
    \/ RequestCancellation
    \/ Tick
    \/ Terminated

Spec == Init /\ [][Next]_vars

-----------------------------------------------------------------------------
(* Fairness.  Threads are scheduled and the clock runs; the consumer comes  *)
(* back to a stream it iterates.  One formula serves all the workers, since  *)
(* they have finitely many steps to make.  A function need not return, and  *)
(* nobody has to request a cancellation.                                    *)

Fairness ==
    /\ WF_vars(Coordinator)
    /\ WF_vars(Consumer)
    /\ WF_vars(Tick)
    /\ WF_vars(\E w \in WorkItem : Take(w) \/ start_execution(w) \/ SetResult(w))

FairSpec == Spec /\ Fairness

-----------------------------------------------------------------------------
(* Safety. *)

\* Every variable has its type.
TypeOK ==
    /\ pc \in PC
    /\ todo \subseteq WorkItem
    /\ outcome \in Outcome
    /\ in_flight \subseteq WorkItem
    /\ retry_wait \subseteq WorkItem
    /\ abandoned \subseteq WorkItem
    /\ next_index \in 0 .. N
    /\ exhausted \in BOOLEAN
    /\ leaked \subseteq WorkItem
    /\ state \in [WorkItem -> TaskState \union {"ABSENT"}]
    /\ result \in [WorkItem -> Result]
    /\ attempts \in [WorkItem -> 1 .. MaxAttempts]
    /\ fut \in [WorkItem -> FutureState]
    /\ age \in [WorkItem -> 0 .. TaskTimeout]
    /\ due \in [WorkItem -> Nat]
    /\ left \in Nat \union {-1}
    /\ wake \in 0 .. Slice
    /\ requested \in BOOLEAN
    /\ yielded \subseteq WorkItem
    /\ executed \in [Index -> Nat]

\* The items that stand for an index: in the window or handed out.
Live == in_flight \union retry_wait \union yielded

\* No input item is ever lost or doubled: each consumed index is, at every
\* moment, in exactly one of in_flight, retry_wait and the completions handed
\* out, as exactly one item.  Retries resubmit it, timeouts replace it by a
\* clone and teardown leaves it where it is (run, 287-305 and 339-369).
NothingLost ==
    /\ in_flight \intersect retry_wait = {}
    /\ in_flight \intersect yielded = {}
    /\ retry_wait \intersect yielded = {}
    /\ \A i \in Index :
          i < next_index <=> \E w \in Live : w[1] = i
    /\ \A v, w \in Live : v[1] = w[1] => v = w

\* Only finished outcomes leave the scheduler: an item handed out is in a
\* terminal state that agrees with its value or exception, and CANCELLED is
\* never handed out (run, docstring: "Only terminal items are yielded").
YieldedAreFinal ==
    \A w \in yielded :
        \/ state[w] = "SUCCESS" /\ result[w] = "value"
        \/ state[w] = "FAILED" /\ result[w] \in Errors \union {"fatal"}
        \/ state[w] = "TIMED_OUT" /\ result[w] = "timeout"

\* The attempts reported with an outcome are the calls of the function that
\* were made for that index, over resubmissions and clones, and no index is
\* executed more often than the policy allows (retry.py, 23-25).
AttemptsHonest ==
    /\ \A i \in Index : executed[i] <= MaxAttempts
    /\ \A w \in yielded : attempts[w] = executed[w[1]]

\* CANCELLED is no euphemism: when an item says so, no worker is inside or
\* on its way into its function (_states.py, 9-11; _cancel_pending).
CancelledNeverRuns ==
    \A w \in WorkItem :
        state[w] = "CANCELLED" => ~Busy(w) /\ fut[w] # "queued"

\* After the run nothing of it can start, and every worker still inside the
\* function is among the futures passed to on_leak, which is all that a
\* bounded close() can wait for (run, 374-381).
TeardownComplete ==
    pc = "ended" =>
        \A w \in WorkItem :
            /\ fut[w] # "queued"
            /\ Busy(w) => w \in leaked

\* The items the window holds for the caller never exceed it, whatever times
\* out or is retried: the scheduler does not run ahead of its consumer.
LiveBound == Cardinality(in_flight) + Cardinality(retry_wait) <= MaxPending

\* The executions that exist at once, the abandoned ones included, are
\* bounded: by the window for each attempt a timeout may clone.
FuturesBound ==
    Cardinality(in_flight) + Cardinality(retry_wait) + Cardinality(abandoned)
        <= MaxPending * MaxAttempts

\* "Keeping at most max_pending tasks alive at once" (_scheduler.py, 3-5):
\* the futures the executor holds for the run fit the window.
WindowBound == Cardinality(in_flight) + Cardinality(abandoned) <= MaxPending

\* An execution that times out is not killed: until its worker returns it is
\* among the abandoned, and so keeps a slot of the window.
AbandonedHoldsSlot ==
    pc # "ended" =>
        \A w \in WorkItem :
            state[w] = "TIMED_OUT" /\ Busy(w) => w \in abandoned

-----------------------------------------------------------------------------
(* Action properties. *)

\* No step reaches transition_to with a pair that check_transition rejects:
\* InvalidStateTransition is never raised, whoever wins each race between
\* worker, timeout scan and cancellation.  An item is created PENDING, and a
\* clone in RETRY_WAIT.
LegalTransitions ==
    [][\A w \in WorkItem :
          \/ state'[w] = state[w]
          \/ state[w] = "ABSENT" /\ state'[w] \in {"PENDING", "RETRY_WAIT"}
          \/ check_transition(state[w], state'[w])]_vars

\* An outcome handed to the consumer never changes afterwards, although a
\* worker may still be inside the function that produced it.
OutcomeFixed ==
    [][\A w \in yielded :
          state'[w] = state[w] /\ result'[w] = result[w]
          /\ attempts'[w] = attempts[w]]_vars

\* The clock is read once per scan and once per pass, and used later, between
\* yields and while workers run: still no execution is given up before it ran
\* for task_timeout, and none is resubmitted before its backoff is over
\* (time_out_if_expired, 146-158; run, 287 and 353-356).
NothingEarly ==
    [][\A w \in WorkItem :
          /\ state[w] = "RUNNING" /\ state'[w] = "TIMED_OUT" =>
                TaskTimeout > 0 /\ age[w] = TaskTimeout
          /\ w \in retry_wait /\ w \in in_flight' => due[w] = 0]_vars

-----------------------------------------------------------------------------
(* Refinement: the run keeps the promise of CompletionStream. *)

Promise == INSTANCE CompletionStream WITH
    taken <- next_index,
    out <- {w[1] : w \in yielded},
    given <- Cardinality(yielded),
    status <- CASE outcome = "none" -> "open"
                [] outcome = "returned" -> "complete"
                [] OTHER -> "aborted"

\* The input is taken in order and at most max_pending ahead of the
\* completions, every completion is handed out at most once, and the run
\* returns normally only after all of them.
KeepsPromise == Promise!Spec

-----------------------------------------------------------------------------
(* Liveness. *)

\* A batch whose functions return, each time they are called, is finished.
FunctionsReturn == WF_vars(\E w \in WorkItem : FnEnds(w))
BatchEnds == FunctionsReturn => <>(pc = "ended")

\* A requested cancellation ends the run even while a task never returns: no
\* wait of the coordinator outlasts a slice.
CancellationEnds == requested ~> (pc = "ended")

\* So does the overall deadline.
DeadlineEnds == (pc # "created" /\ left # -1) ~> (pc = "ended")
=============================================================================
