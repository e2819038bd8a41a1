# A verification of tanda

tanda is a bounded thread pool for I/O-bound batch work: `Pool.map`, `imap` and
`imap_unordered` run a function over an input of any length with at most
`max_pending` tasks in flight, with retries, timeouts, cancellation and progress.
This directory holds TLA+ models of its core, the TLC runs that check them on
small instances, and TLAPS proofs for every value of the constants.
`PROJECT.json` is the index: it maps each definition to the lines it models and
lists the runs, the mutants, the findings, the hazards and the theorems.
Line numbers below are those of `src/src/tanda/`.

## 1. Inventory

| Part | State | Operations | Module |
|---|---|---|---|
| Work item (`_scheduler.py` 49-185, `_states.py`) | state, value or exception, attempts, start of the execution; a lock per item | `transition_to`, `start_execution`, `finish_*`, `time_out_if_expired`, `cancel`, `request_cancellation`, `retry_clone` | `TaskStates`, `BoundedScheduler` |
| Bounded scheduler (`_scheduler.py` 188-417) | locals of the generator `run`: `in_flight`, `retry_wait`, `abandoned`, the input iterator, the deadline | one call of `run`: fill, wait, drain, scan for timeouts, yield, tear down | `BoundedScheduler`; its promise is `CompletionStream` |
| Worker side (`_scheduler.py` 420-464) | the future of each execution | `_run_one`, `_record_escaped_exception` | `BoundedScheduler` |
| Retry policy (`retry.py`) | none (frozen dataclass) | `should_retry`, `delay_for` | `RetryPolicy` |
| Cancellation (`cancellation.py`) | one event | `request`, `requested` | `BoundedScheduler` |
| Pool, ownership and shutdown (`pool.py` 168-253, 557-610) | `_executor`, `_scheduler`, `_run_owner`, `_run_depth`, `_leaked` | `_active_run`, `_record_leaks`, `close`, the checks of `map` and of the streams | `Pool` |
| Pool, results (`pool.py` 43-126, 283-555, 627-685) | reorder buffer, result lists, `next_index` | `map`, `_collect`, `_stream_ordered`, `_stream_unordered` | `PoolStreams`; its promise is `ResultStream` |
| Progress (`progress.py`, `tqdm_progress.py`) | counts, last delivery, bar | `start`, `advance`, `finish` | `Progress`, driven by `PoolStreams` |
| Results and exceptions (`results.py`, `exceptions.py`) | none (immutable records) | which category reaches the caller | `PoolStreams` (`Raised`, `Fails`) |
| Executor and futures | queue, worker threads, state of a future | standard library | external, modelled from its use |

**How they interact.** The caller's thread runs `Pool.map` or iterates a stream; that
thread is the *coordinator*. It drives the generator `run`, which submits
`_run_one` to the executor and waits on futures. Worker threads run the function
and change work items under the item's lock. The coordinator changes the same
items when it times them out, asks them to stop, withdraws or retries them.
Teardown calls back into the pool (`on_leak`), and `close()` may come from any
thread.

**What is hard here.** The worker that returns races with the timeout scan and with
`future.cancel()`. A timed out execution goes on running while a clone of its
item is retried. The generator can be closed at any yield. `wait()` never reports
a future that was cancelled while queued, so whoever waits on one hangs. The pool
is protected by a rule on threads (one coordinator) whose check and use are in
different critical sections. Tasks may never return. Nothing is persisted and no
process crashes, so there is no recovery to model.

**What makes each part correct.**

- *Work item*: every transition is a legal one whoever wins a race; an outcome never
  changes once it was handed out; CANCELLED means that nothing runs.
- *Scheduler*: no input item is lost, doubled or handed out before it is final; the
  window is kept; attempts are the executions that happened; after a run nothing
  of it can start and what still runs is reported; the run ends, at the latest
  after a cancellation or the overall deadline.
- *Pool*: one coordinator; no thread waits on drained futures; leaked executions
  are never forgotten; `close()` waits for what runs and for nothing else.
- *Results*: input order without gap or duplicate; the first definitive failure ends the
  call, in completion order; nothing after `close()`; no call that lost a result
  ends without an error.
- *Progress*: one `finish` on every exit of a run; the last tally is right, and is not told
  twice, over any reuse of the reporter.

## 2. Modules

**`TaskStates`** is the table of legal transitions, **`RetryPolicy`** the decisions
and delays of a policy; the ASSUME is what `__post_init__` accepts.

**`BoundedScheduler`** models one call of `run` with everything that happens around it.
`pc` is the place the generator has reached and `todo` what the `for` loop it is in
has still to visit: each iteration is a step of its own, because workers run
between two iterations. A step under one acquisition of an item's lock is atomic.
The correspondence, in the order of the code:

- `Start` (263), `SeeCancellation`/`Ask`/`RaiseCancelled` (271-282),
  `SeeDeadline` (283-286), `StartPass`/`Resubmit` (287-292),
  `PullItem`/`PullStop`/`PullRaises` (293-305), `Return` (306-313),
  `EnterWait`/`Wake` (315-339, with `_next_wakeup` as the set `NextWakeup`),
  `DrainAbandoned`/`DrainFinished` (339-351), `TimeOut`/`ScanLate` (353-369),
  `CancelPending`/`EndRun` (the `finally`, 370-388).
- `Take`, `start_execution`, `finish_success`, `finish_failure`, `finish_escape`,
  `SetResult` are a worker inside `_run_one` and around it.
- `Resume`, `Close`, `CloseUnstarted` are the consumer, `Interrupt` is Ctrl+C,
  `RequestCancellation` is any other thread, `Tick` is time.

An item is a pair of its index and the number of clones before it. An item has
one future at a time, so futures are named by items. Time is counted in ticks: a
deadline is kept as the time left, a start as the time since, both saturated at
the value the code compares them with, which makes the state space finite
without a bound of its own. Results are told apart as far as `retry_on` and
`finish_failure` do: value, error, timeout, `Cancelled`, and an exception outside
`Exception`.

**`CompletionStream`** says what `run` promises to its consumer without mentioning
futures, retries or clocks. `BoundedScheduler` is shown to implement it:
`Promise == INSTANCE CompletionStream WITH taken <- next_index, ...`, and
`KeepsPromise == Promise!Spec` is both checked and proved.

**`Pool`** models the pool's own fields, its client threads and its workers. Of the
scheduler it keeps what the pool depends on: the executions of each run, its window, the
leaks of the teardown. The constant `Future` is the set of executions that may happen,
each named by its run, the index of its item and its number: items are submitted in
input order (`Fresh`), and an item whose next execution is in `Future` may be retried
after a failure or a timeout (`Park`), beside the execution that timed out, as in
`_scheduler.py` 361-367 and 287-292. Steps are the critical sections of `_lock` and the
reads and writes outside it, since that is where other threads interfere: `EnterMap`
reads `_scheduler` and `Claim` is the section that follows; `close()` is `CloseCheck`
(the only part under the lock), `CloseTest`, `CloseSwap`, `CloseForget`, `CloseDrain`,
and then `CloseJoin` (no timeout) or `CloseCollect` and `CloseAwait` (bounded). A run is
where its thread is: see `RunState`, and `coord`, the thread that is inside it until it
has ended. A task function may do what a client may, except close the pool: start
batches, iterate streams, keep one suspended and return, which leaves the claim with its
worker thread. `TasksReenter` and `CallbacksClose` say which calls user code makes,
`FinalizesElsewhere` whether an abandoned stream may be closed by another thread
(`FinalizeStream`) while its coordinator is in user code, in another run or in
`close()`. `_active_run` takes `ident` on entry, so such a stream gives up the claim of
the thread that entered it. `report` collects how calls of `close()` ended: `joined` (it
waited for the threads), `closed` (a bounded one that returned), `ShutdownTimeout`, or
`gone` (the early return of 589-590, which waits for nothing).

**`PoolStreams`** models what the methods of the pool make of the completions, on top of
`Progress`. The scheduler run of the current call is an instance of `CompletionStream`
(`Stream == INSTANCE CompletionStream`): the module that `BoundedScheduler` is proved to
implement is the environment of this one, so that what is shown of the streams
rests on nothing the scheduler does not promise. One coordinator makes call after
call, with one reporter for all of them. The correspondence:

- `Call` is `map`, `imap` or `imap_unordered` up to its return or the creation of the
  scheduler run (332-358, 408-417, 500-511, 635-642), the reporter's `start` included;
  `Enter` is the first `next()` of a stream (434-447, 528-538), and `DropStream` a
  stream that is never iterated.
- `Refuse`, `Serve`, `Take`, `Receive` (with `Unwrap`), `Exhaust`, `Stop` are the loop:
  the check of `_scheduler`, the reorder buffer, one completion with the `advance` and
  `_successful_value` that follow it (or the branches of `_collect`), and the ends.
- `Resume`, `CloseStream`, `ClosePool` are the consumer at a yield; `Cleanup` is the
  `finally` block and what follows it (364-375, 463-473, 550-555, 679-685).

The values of items are left out; an item is its index and how it ended (`Result`).
`size` is the length of the input, or None; `served` is what the caller has got,
`outcome` how the call ended.

**`Progress`** holds the reporters as operators on one object: `CallbackProgress`,
`DefaultProgress` (live or not), `TqdmProgress`, and none. What a reporter shows is
`told`, a tally; lines, rates and bars of characters are left out. An `Exception` of a
reporter is swallowed by `_report` (43-50) and so changes nothing but what the
reporter noted; Ctrl+C inside it is an outcome of `Call`, `Receive` and `Cleanup`.

**`ResultStream`** is what a caller may rely on: `imap` gives each result in input order,
`imap_unordered` each once, `map` all or nothing, and a call without an error gave
every result. `KeepsOrder == Results!Spec` with
`Results == INSTANCE ResultStream WITH got <- served, ending <- Ending` is checked
and proved.

So the specifications form a chain: the scheduler implements `CompletionStream`, and
the pool's methods, over any `CompletionStream`, implement `ResultStream`.

Definitions whose comment says "Mutant" are faulty variants of the definition after
them. No action uses them; `PROJECT.json` names, for each property, the mutant
that breaks it.

## 3. Runs

| Run | Instance | Result |
|---|---|---|
| `sched_retry` | 3 items, 2 workers, window 2, up to 3 executions each, exponential backoff with jitter, cancellation, broken input, Ctrl+C; no task timeout; 1.54M states | 7 properties hold |
| `sched_timeout` | 2 items, 2 workers, window 2, a task timeout that is retried once after a backoff, cancellation; 617k states | 7 hold |
| `sched_live` | 2 items, 2 workers, window 1, a task timeout that is retried once, with and without an overall timeout, a token; 44k states, fair | 6 hold: the batch ends if its functions return, and a cancellation or the deadline ends it if they do not |
| `pool_owner` | 2 clients, 2 workers whose tasks start batches too, 2 runs of 2 items, window 2, streams that any thread may finalize; 2.46M states up to symmetry | 6 hold |
| `pool_live` | 1 client, 1 worker, a run of 3 items and one of 1, whose first items are retried once, window 2; 291k states, fair | 4 hold: every run that was entered ends, nested batches keep a window of items each, and in a program of one thread nobody waits on drained futures and `close()` is idempotent |
| `streams` | any number of calls over 3 items, window 3, every method, reporter, order and kind of completion, inputs with and without a length, `close()`, Ctrl+C in the reporter; 81k states | 10 hold |
| `sched_window` | 1 item, window 1, one retried timeout | violation, finding 1 |
| `pool_race`, `pool_callback`, `pool_leak`, `pool_reentry`, `pool_nested` | 1 or 2 clients, 1 worker, 1 or 2 runs | violations, findings 2 to 6 |

**Why the bounds are enough.** With a window of two, one more item than slots and two
workers, every pair of executions overlaps, an item waits for a slot held by a backoff
or an abandoned execution, and several futures are done in one `wait()`. One retry gives
a clone and a resubmission, in `sched_timeout` and `sched_live`; `sched_retry` has three
executions, for the second backoff of the exponential strategy and for limits that are
met late. Counts over any number of clones are proved (section 4). Timeouts of one tick
are enough because only the order of deadlines matters and `Tick` is free to happen
between any two steps. In `pool_owner` two runs give nesting, overlap and one run after
another; two items give one running and one queued future when the queue is drained; and
two workers let a late task leave a stream suspended on its thread while the tasks of
that stream run there and on the other. Streams are finalized by any thread there: one
that a late task dropped would otherwise keep the pool owned for ever, as it does in the
program until the garbage collector gets to it. `pool_live` has a run whose items
outnumber its window, so that items wait for a slot held by an execution that timed out
while its clone runs. Without a task timeout `WindowBound` holds (`sched_retry`); with a
retried one it does not (`sched_window`), and what does hold then is `LiveBound` and
`FuturesBound` (`sched_live`). `AttemptsHonest`, `NothingLost` and `LegalTransitions`
are checked twice, with a task timeout and without, because failures and timeouts reach
them on different paths. `NothingEarly` is checked in `sched_timeout`, where the window
of two lets a scan and a pass over the backoffs visit two items with ticks of the clock
between them, and in the scan a yield. In `streams` three items in any order of
completion fill the reorder buffer with two results ahead of their turn, leave a gap
before and after a held one, and let a failure overtake both; the window admits all of
them at once, and a smaller one only removes orders. Its calls follow one another
without a bound, so a reporter is reused with whatever an earlier call, ended in any
way, left in it. `streams`, the scheduler runs and the two fair runs have no symmetry.
It is used in the other pool runs, which check invariants and one action property: no
formula tells clients, workers or runs apart there, and no liveness is asked.
`pool_live` has one client and so asks what one thread can rely on; that two threads can
break it is what `pool_race` shows.

**Fairness.** Threads are scheduled by the system, and a free executor thread takes
queued work. In `BoundedScheduler`, `FairSpec` assumes weak fairness of the
coordinator, of the consumer at a yield (it iterates or closes the stream), of the
clock, and of the steps a worker makes outside the function; one formula serves all
workers, since each future has finitely many such steps. That functions return is not
part of it: `BatchEnds == FunctionsReturn => <>(pc = "ended")` has it as its premise, and
`CancellationEnds` and `DeadlineEnds` hold without it, with every worker hung. All
three assume that `next(iterator)` (298) returns: it is part of the steps `PullItem`,
`PullStop` and `PullRaises`, and so of the coordinator's fairness. An input that blocks
is beyond the reach of a cancellation and of the overall deadline, since `run` looks at neither
while it is inside it. Nobody
has to request a cancellation or press Ctrl+C. Weak fairness suffices: a queued
future stays queued until a worker is free, and the coordinator is the only one that
disables its own steps.

In `Pool`, the coordinator of a run goes on, leaving the loop of itself only when it
handed out every item; workers take tasks and return; a `close()` that began goes on.
The consumer's return to a suspended stream needs strong fairness: the same thread
may call `close()` again and again, or nest another run, and while it is inside one
it cannot resume. Nobody has to close the pool or let anything time out. A program that
drops a stream without closing it relies on the garbage collector for `CloseStream`;
`pool_live` leaves finalization by other threads out.

## 4. Proofs

All proofs are about `Spec`, for any constants that satisfy the ASSUMEs
(`RetryAssumption`, `SchedulerAssumption`, `PoolAssumption`, `StreamsAssumption`,
`ProgressAssumption`: positive window, workers and attempts, finitely many runs and executions,
clients are not workers, None is not a number or a tally).

*Scheduler* (`BoundedSchedulerProofs`, `BoundedSchedulerHistory`,
`BoundedSchedulerRefinement`). No property of section 3 is inductive: each speaks of items, while
the reason it holds is the item's future. `IndInv` adds four links: what a future
says about its item (`FuturesAgree`), what each part of the window holds
(`Places`), what the current loop has still to visit (`LoopOK`), and that the item
which stands for an index is its last clone (`LiveIsLast`). One step lemma per action
shows that it is preserved. From it follow `TypeCorrect`, `NothingIsLost`,
`OnlyFinalYielded`, `CancelledIsHonest` and `TransitionsAreLegal`. The history module
adds `SlotInv` (which part of the run accounts for each worker) for
`TeardownIsComplete`, and `CountInv` (what the execution counter counts) for
`AttemptsAreHonest`; `OutcomesAreFixed` and `AbandonedKeepSlots` are there as well.
`NothingIsEarly` is about a clock that is read once and used later: `run` decides before
a loop which executions are late and which backoffs are over, and acts on them one by
one, between yields, while workers finish. `EarlyInv` says what makes that safe: what
the scan has still to visit has run for the whole timeout if it still runs, because no
execution starts anew on the same item, and what the pass has still to resubmit is due.
The refinement module adds a count, consumed = in flight + in backoff + handed
out, which gives `LiveItemsBounded` and, step by step, `RunKeepsPromise`:
`Spec => KeepsPromise`.

*Window* (`BoundedSchedulerWindow`). `WindowIsKept` proves `WindowBound` for every call that
retries no timeout (`NoTimeoutRetried`), by counting all three parts of the window;
`sched_window` shows that the assumption is needed. `FuturesAreBounded` proves
`FuturesBound` for every call. Its invariant is a budget: each item in the window reserves
itself and the clones it may still have, and the reserved items together with the
abandoned ones number at most `MaxPending * MaxAttempts`. A retried timeout only moves
an item from reserved to abandoned; an item is only pulled when the three parts of
the window leave room, and then the clones of fewer than `MaxPending` indices, and
those of the new one, bound the budget (`ClonesBound`, by a surjection from pairs).

*Pool* (`PoolProofs`). `FutureRun` takes a future apart. `IndInv` says that an entered
run knows its thread, that nothing is submitted before the claim, that what is queued or
running is in its run's window until the run reports it, that abandoned and leaked
executions were started, and that one `close()` gets the executor and takes the leaks
once. From it follow `TypeCorrect`, `ClaimIsExclusive`, `LeaksAreKnown`,
`AwaitedFinish`. `OwnStreamsAreSafe` proves `NoSelfDrain` on the assumption
`~CallbacksClose`: a thread inside `close()` has only suspended streams, and ones that
another thread finalizes (`NoOwnBatch`, `FinalizedOK`), `_scheduler` is forgotten before
the queue is drained (`Forgotten`), and a stream looks at it before it goes on. The run
`pool_callback` shows that the assumption is needed. `DrainInvariance` states that
argument by itself, for use below.

*Shutdown* (`PoolShutdown`). These are the positive counterparts of findings 2 to 6: what
remains true where a document promises too much.

- `CloseLeavesNothingUnknown` proves `CloseAccounts`, for any number of threads inside
  `close()`: after the one that took the executor returned nothing runs if it was unbounded; if it
  was bounded, whatever runs belongs to a run that is not over or is in `_leaked`. One that
  found the executor gone (589-590) waited for nothing and promises no more than the other:
  something may run while that is still shutting down, or was bounded, as
  `test_lifecycle.py` 96-105 has it after a `ShutdownTimeout`. `ShutInv`: the
  executor is taken once and by one thread (`OneShutdown`), nothing is queued once it is
  shut down (`NothingQueued`), what runs has a worker (`HasWorker`), and what `close()`
  reported stays true (`Taken`, `Settled`), since what is not queued cannot start.
- `OnlyLateTasks` proves `OnlyLateTasksCoordinate`: a worker thread comes to the claim only in
  a task whose own batch is over. `EntersInTask` says that a worker which asks for a
  claim is inside a task: while the batch of that task lasts, the claim is taken,
  and the task is refused. It is a property of the step that takes the claim. A
  late task that keeps a stream suspended leaves the claim with its thread, and `_run_owner`
  cannot tell the tasks of one thread apart: what that thread executes next, a task of the
  suspended stream included, may then start batches as if nested.
- `NestedWindows` proves `NestedWindow`: at any depth the executor holds executions of at most
  a window of items per run on the stack. It counts items: a timeout that is retried puts
  a second execution of its item there, beyond the window (finding 1, `FuturesBound`).
  `WindowOK` bounds the items of each run and says that a run that gave up its claim holds
  nothing; a resubmission adds no item (`FewerItems`); `Numbered` adds the runs up, by
  an injection that numbers each item within its run, and `_run_depth` is the number
  of claimed runs.
- `OneThreadNeverWaits` proves `NoDrainedWait` for one client whose tasks start no batch and whose
  callbacks do not close the pool. `ClientsOnly`: then every coordinator and every
  drainer is that client, and `DrainInv` says that they differ where somebody waits on a
  drained future. `pool_race` (two clients) and `pool_callback` refute it without the assumptions;
  a late task that starts a batch is a second thread like any other.
- `CloseIsIdempotent` proves `CloseNeverFails` for one client: between the test of `_executor`
  and the use of it nobody else can take it (`NoneOutruns`). Two threads can both pass
  the test (589), and the second one then fails on `None`; see the hazards.

*Streams* (`PoolStreamsProofs`). First the reporters by themselves: what `start`, `advance`
and `finish` do to the tally, whatever the reporter went through before (`Started`,
`Advanced`, `Finished`). Then an inductive invariant in five parts: the scheduler run and the
recorded results agree (`RunOK`), where a call is and how it will end (`PhaseOK`), where
each completed item is (`PlacesOK`: while nothing went wrong, `imap` has served
exactly the indices below `next_index` and holds all others that completed), what
collect mode collected (`CollectOK`), and what the reporter counted, was told
of as the total, and delivered (`TallyOK`): `FinalTally` and `ToldOnce` compare it with the
completions of the call and the length of its input. From it
follow the eight invariants of the run `streams`, `ClosedStreamsAreSilent`, and
`CallsKeepOrder`: `Spec => KeepsOrder`, step by step, for every length of the input,
every window and every reporter. `NeverInternal` is the heart of it: when the run is
complete and `next_index` is not held, nothing is, since the first gap among the
completed indices would be an index that never completed.

**Only model-checked**: the liveness properties (`BatchEnds`, `CancellationEnds`,
`DeadlineEnds`, `RunsEnd`), since they rest on fairness and so on ENABLED, which the
prover does not handle, and the six violations. Every other property of a passing run,
invariant or action property, is proved as well.

## 5. Findings

Each is a place where a comment or a document says more than the code does. What does
hold in its place is proved: `FuturesAreBounded` and `WindowIsKept` (1),
`OneThreadNeverWaits` and `OwnStreamsAreSafe` (2, 3), `CloseLeavesNothingUnknown` (4),
`OnlyLateTasks` (5), `NestedWindows` (6).

1. `sched_window`: a retried timeout puts the abandoned execution and its clone into
   the executor together, beyond `max_pending` (`_scheduler.py` 287).
2. `pool_race`: `close()` checks the owner under the lock and shuts down outside it;
   a batch that starts in between waits on drained futures (`pool.py` 589).
3. `pool_callback`: a progress callback inside `map()` that closes the pool lets its
   own `map()` wait on drained futures; the streams re-check, `map()` does not.
4. `pool_leak`: a bounded `close()` under a suspended stream does not see the tasks of
   that stream and returns normally while they run.
5. `pool_reentry`: a task that outlives its run may start a batch of its own when no
   other batch runs; if it leaves a stream suspended, its thread stays the coordinator.
6. `pool_nested`: nested runs of one thread have a window each.

## 6. What is not modelled

- `elapsed`, formatting, logging, the text of progress lines, their rate and ETA: nothing
  decides on them. Whether a live line is due (`min_interval`) is a free choice.
- The FIFO order of the executor's queue: a free worker takes any queued future, which allows
  every order FIFO allows.
- Ctrl+C between two bytecodes: it is delivered where the coordinator waits, and inside
  the reporter.
- An input that blocks or calls the pool: `next(iterator)` returns and changes nothing of the
  pool. `DeadlineEnds` and `CancellationEnds` rest on the first, `NoSelfDrain` and
  `NoDrainedWait` on the second: an input that closes the pool and then ends would leave
  its own `run`, of `map()` or of a stream, waiting for drained futures, as in finding 3.
- In `Pool`: a stream that another thread resumes, a finalization that the garbage collector starts in a
  thread that holds `_lock`, `close()` from a task function, batches
  started from a reporter callback, a reporter callback that closes the pool inside a stream,
  `__exit__` (which chooses between two
  exceptions), and `finish` callbacks, which run after the scheduler is closed.
- In `PoolStreams`: calls that overlap (a call between two yields of a stream, two streams
  that share a reporter), callbacks that call the pool (both are in `Pool`, without
  results), and a reporter that raises before it has noted the completion.
- Checks of arguments (`_validate_timeouts`, `error_policy`, `__post_init__`), which raise
  before anything changes. `wait` and `raise_if_requested` of `Cancellation`, which task functions
  call.
- `finish` where no run was entered: a stream whose first `next()` is refused, or that is
  never iterated, has started its reporter and never finishes it (`pool.py` 414, 435 and
  497-498), although `tqdm_progress.py` 55 speaks of every exit path. Such calls are in the
  model; `CleanExit` and `FinalTally` are about calls that got a run.
- `__init__.py` (re-exports), benchmarks and examples.
- Memory effects below the level of Python statements: the interpreter's lock makes reads and
  writes of attributes atomic.

## 7. Plan

Done: `TaskStates`, `RetryPolicy`, `BoundedScheduler`, `CompletionStream`, then `Pool`, then
`Progress`, `PoolStreams`, `ResultStream`, each with its proofs, and `PoolShutdown`. In order of
importance, the rest:

1. Overlapping calls that share one reporter.
2. A refinement from `BoundedScheduler` to the run that `Pool` assumes, so that the two
   are one model.
3. `close()`: an unbounded one returns once the tasks do, a bounded one always.
