--------------------------------- MODULE Pool ---------------------------------
(***************************************************************************)
(* Pool (pool.py): who may run a batch, what close() may shut down, and    *)
(* which executions it waits for.  Client threads and the worker threads   *)
(* of the executor share one pool.                                         *)
(*                                                                         *)
(* A run is one call of map, or one stream made by imap or imap_unordered. *)
(* Of BoundedScheduler.run, which has a module of its own, a run keeps     *)
(* what the pool depends on: its futures, its window, and the leaks its    *)
(* teardown reports.  A future is named by its run, the index of its item  *)
(* and the number of the execution; an item whose failures are not retried *)
(* has the first one only.                                                 *)
(*                                                                         *)
(* A step is what a thread does between two points where another thread    *)
(* may interfere: one critical section of the pool's lock, or one read or  *)
(* write of the pool's fields outside it.                                  *)
(***************************************************************************)
EXTENDS Integers, FiniteSets

CONSTANTS Client,          \* threads of the program
          Worker,          \* threads of the executor
          Run,             \* calls of map and streams, each used once
          Future,          \* the executions that their items may come to
          MaxPending,      \* max_pending
          TasksReenter,    \* whether a task function may start a batch
          CallbacksClose,  \* whether a callback inside map() may call close()
          FinalizesElsewhere,  \* whether other threads finalize a stream
          Nothing          \* None

Thread == Client \union Worker

ASSUME PoolAssumption ==
    /\ IsFiniteSet(Run)
    /\ IsFiniteSet(Future)
    /\ Future \subseteq Run \X (Nat \ {0}) \X (Nat \ {0})
    /\ Client \intersect Worker = {}
    /\ MaxPending \in Nat \ {0}
    /\ TasksReenter \in BOOLEAN
    /\ CallbacksClose \in BOOLEAN
    /\ FinalizesElsewhere \in BOOLEAN
    /\ Nothing \notin Thread \union Future

VARIABLES
    executor, scheduler,   \* whether _executor and _scheduler are not None
    open,                  \* the executor accepts submissions
    run_owner, run_depth,  \* _run_owner, _run_depth
    leaked,                \* _leaked
    run,                   \* where each run is
    kind,                  \* what it is, or that another thread ends it
    coord,                 \* the thread that is inside the run
    in_flight, retry_wait, abandoned,  \* of all runs that were not torn down
    fut,                   \* state of each future
    at,                    \* the future each worker is inside
    closing,               \* where each thread is in close()
    awaited,               \* the leaked futures that close() took
    drainer,               \* the thread that shut the executor down
    report                 \* the ways in which calls of close() ended

fields == <<executor, scheduler, open>>
claim == <<run_owner, run_depth>>
runs == <<run, kind, coord>>
window == <<in_flight, retry_wait, abandoned>>
tasks == <<fut, at>>
shutdown == <<closing, awaited, drainer, report>>
vars == <<fields, claim, leaked, runs, window, tasks, shutdown>>

\* A run is "entering" once it read _scheduler and before it has the lock.
\* From there to "release" it is in _active_run.  In "suspended" the stream
\* is at a yield; in "callback" map() is in its reporter.
RunState == {"unused", "opened", "entering", "resume", "loop", "callback",
             "suspended", "cleanup", "report", "release", "ended"}
Claimed == {r \in Run : run[r] \in {"resume", "loop", "callback", "suspended",
                                     "cleanup", "report", "release"}}

FutureState == {"none", "queued", "running", "done", "cancelled", "drained"}
Of(r) == {f \in Future : f[1] = r}

\* The thread is inside no batch: it may have left streams at a yield.
Outside(t) ==
    \A r \in Run :
        coord[r] = t => run[r] = "suspended" \/ kind[r] = "finalized"

\* Code of the caller: the thread is inside no call of the pool.  A worker
\* runs such code only inside a task function.
UserCode(t) ==
    /\ closing[t] = "no"
    /\ Outside(t)
    /\ t \in Worker => TasksReenter /\ at[t] # Nothing

Init ==
    /\ executor = TRUE /\ scheduler = TRUE /\ open = TRUE
    /\ run_owner = Nothing /\ run_depth = 0
    /\ leaked = {}
    /\ run = [r \in Run |-> "unused"]
    /\ kind = [r \in Run |-> "map"]
    /\ coord = [r \in Run |-> Nothing]
    /\ in_flight = {} /\ retry_wait = {} /\ abandoned = {}
    /\ fut = [f \in Future |-> "none"]
    /\ at = [w \in Worker |-> Nothing]
    /\ closing = [t \in Thread |-> "no"]
    /\ awaited = [t \in Thread |-> {}]
    /\ drainer = Nothing
    /\ report = {}

-----------------------------------------------------------------------------
(* Entering a run. *)

\* map() refuses a closed pool, then enters _active_run.
EnterMap(t, r) ==
    /\ UserCode(t)
    /\ run[r] = "unused"
    /\ scheduler
    /\ run' = [run EXCEPT ![r] = "entering"]
    /\ coord' = [coord EXCEPT ![r] = t]
    /\ UNCHANGED <<fields, claim, leaked, kind, window, tasks, shutdown>>

\* imap() and imap_unordered() refuse a closed pool and make a generator.
OpenStream(t, r) ==
    /\ UserCode(t)
    /\ run[r] = "unused"
    /\ scheduler
    /\ run' = [run EXCEPT ![r] = "opened"]
    /\ kind' = [kind EXCEPT ![r] = "stream"]
    /\ UNCHANGED <<fields, claim, leaked, coord, window, tasks, shutdown>>

\* The first next() of a stream looks at the pool again.
EnterStream(t, r) ==
    /\ UserCode(t)
    /\ run[r] = "opened"
    /\ run' = [run EXCEPT ![r] = IF scheduler THEN "entering" ELSE "ended"]
    /\ coord' = [coord EXCEPT ![r] = IF scheduler THEN t ELSE Nothing]
    /\ UNCHANGED <<fields, claim, leaked, kind, window, tasks, shutdown>>

\* Mutant: the owner is compared for the threads of the program only.
MayClaimFromTasks(t) == run_owner \in {Nothing, t} \/ t \in Worker

\* _active_run and close() refuse a thread while another one has the claim.
MayClaim(t) == run_owner \in {Nothing, t}

\* _active_run, first critical section.
Claim(r) ==
    /\ run[r] = "entering"
    /\ IF MayClaim(coord[r])
       THEN /\ run_owner' = coord[r]
            /\ run_depth' = run_depth + 1
            /\ run' = [run EXCEPT ![r] = IF kind[r] = "map" THEN "loop" ELSE "resume"]
            /\ UNCHANGED coord
       ELSE /\ run' = [run EXCEPT ![r] = "ended"]
            /\ coord' = [coord EXCEPT ![r] = Nothing]
            /\ UNCHANGED claim
    /\ UNCHANGED <<fields, leaked, kind, window, tasks, shutdown>>

\* Mutant: only the first next() looks whether the pool is closed.
StillOpenUnlessStarted(r) == scheduler \/ \E f \in Of(r) : fut[f] # "none"

StillOpen(r) == scheduler

\* A stream looks whether the pool is closed before every resumption.  A
\* scheduler run that was never started has nothing to clean up.
Check(r) ==
    /\ run[r] = "resume"
    /\ run' = [run EXCEPT ![r] =
                 IF StillOpen(r) THEN "loop"
                 ELSE IF \E f \in Of(r) : fut[f] # "none" THEN "cleanup"
                 ELSE "release"]
    /\ UNCHANGED <<fields, claim, leaked, kind, coord, window, tasks, shutdown>>

-----------------------------------------------------------------------------
(* The scheduler run, as far as the pool depends on it. *)

Window(r) == (in_flight \union retry_wait \union abandoned) \intersect Of(r)

\* Mutant: an abandoned execution does not take room.
HasRoomBesidesAbandoned(r) == Cardinality(Window(r) \ abandoned) < MaxPending

HasRoom(r) == Cardinality(Window(r)) < MaxPending

\* The first execution of the next item of the input.
Fresh(f) ==
    /\ f[3] = 1
    /\ \A g \in Of(f[1]) : g[3] = 1 /\ g[2] < f[2] => fut[g] # "none"

\* A new item needs room in the window.  One whose backoff is over does not: it
\* is resubmitted, even beside an execution that timed out.
Submittable(f) == (Fresh(f) /\ HasRoom(f[1])) \/ f \in retry_wait

\* executor.submit() raises once the executor is shut down.
Submit(f) ==
    /\ run[f[1]] = "loop"
    /\ fut[f] = "none"
    /\ Submittable(f)
    /\ retry_wait' = retry_wait \ {f}
    /\ IF open
       THEN /\ fut' = [fut EXCEPT ![f] = "queued"]
            /\ in_flight' = in_flight \union {f}
            /\ UNCHANGED run
       ELSE /\ run' = [run EXCEPT ![f[1]] = "cleanup"]
            /\ UNCHANGED <<fut, in_flight>>
    /\ UNCHANGED <<fields, claim, leaked, kind, coord, abandoned, at, shutdown>>

\* The caller gets a completion: map() calls its reporter, a stream yields.
\* Without a reporter, and in a stream, a failure ends the batch right away.
HandOver(r) ==
    \/ run' = [run EXCEPT ![r] = IF kind[r] = "map" THEN "callback" ELSE "suspended"]
    \/ run' = [run EXCEPT ![r] = "cleanup"]

\* The item waits for its next execution, if its policy allows one.
Park(f) ==
    LET next == <<f[1], f[2], f[3] + 1>>
    IN  next \in Future /\ retry_wait' = retry_wait \union {next}

\* A completion is handed over, or was a failure that is retried.
Completes(f) ==
    \/ HandOver(f[1]) /\ UNCHANGED retry_wait
    \/ Park(f) /\ UNCHANGED run

Deliver(f) ==
    /\ run[f[1]] = "loop"
    /\ f \in in_flight
    /\ fut[f] = "done"
    /\ in_flight' = in_flight \ {f}
    /\ Completes(f)
    /\ UNCHANGED <<fields, claim, leaked, kind, coord, abandoned, tasks, shutdown>>

\* The execution goes on, whether the item is handed over or retried.
TimeOut(f) ==
    /\ run[f[1]] = "loop"
    /\ f \in in_flight
    /\ fut[f] = "running"
    /\ in_flight' = in_flight \ {f}
    /\ abandoned' = abandoned \union {f}
    /\ Completes(f)
    /\ UNCHANGED <<fields, claim, leaked, kind, coord, tasks, shutdown>>

FreeSlot(f) ==
    /\ run[f[1]] = "loop"
    /\ f \in abandoned
    /\ fut[f] = "done"
    /\ abandoned' = abandoned \ {f}
    /\ UNCHANGED <<fields, claim, leaked, runs, in_flight, retry_wait, tasks, shutdown>>

\* The input is used up and nothing is in flight; or a cancellation, the
\* overall deadline, the input or Ctrl+C ends the run at any other moment.
Leave(r) ==
    /\ run[r] = "loop"
    /\ run' = [run EXCEPT ![r] = "cleanup"]
    /\ UNCHANGED <<fields, claim, leaked, kind, coord, window, tasks, shutdown>>

\* The outcome is looked at after the callback, and may fail the batch.
CallbackReturns(r) ==
    /\ run[r] = "callback"
    /\ closing[coord[r]] = "no"
    /\ \E next \in {"loop", "cleanup"} : run' = [run EXCEPT ![r] = next]
    /\ UNCHANGED <<fields, claim, leaked, kind, coord, window, tasks, shutdown>>

\* The consumer goes on with a stream or closes it; one that was never
\* iterated has nothing to clean up.
Resume(r) ==
    /\ run[r] = "suspended"
    /\ UserCode(coord[r])
    /\ run' = [run EXCEPT ![r] = "resume"]
    /\ UNCHANGED <<fields, claim, leaked, kind, coord, window, tasks, shutdown>>

CloseStream(r) ==
    /\ run[r] = "suspended"
    /\ UserCode(coord[r])
    /\ run' = [run EXCEPT ![r] = "cleanup"]
    /\ UNCHANGED <<fields, claim, leaked, kind, coord, window, tasks, shutdown>>

\* A stream that was abandoned is closed by whatever thread finalizes it, while
\* its coordinator goes on elsewhere: in user code, in another run, in close().
FinalizeStream(r) ==
    /\ FinalizesElsewhere
    /\ run[r] = "suspended"
    /\ run' = [run EXCEPT ![r] = "cleanup"]
    /\ kind' = [kind EXCEPT ![r] = "finalized"]
    /\ UNCHANGED <<fields, claim, leaked, coord, window, tasks, shutdown>>

DropStream(r) ==
    /\ run[r] = "opened"
    /\ run' = [run EXCEPT ![r] = "ended"]
    /\ UNCHANGED <<fields, claim, leaked, kind, coord, window, tasks, shutdown>>

-----------------------------------------------------------------------------
(* Leaving a run. *)

\* The scheduler's teardown withdraws what is queued ...
Withdraw(r) ==
    /\ run[r] = "cleanup"
    /\ fut' = [f \in Future |->
                 IF f \in in_flight \intersect Of(r) /\ fut[f] = "queued"
                 THEN "cancelled" ELSE fut[f]]
    /\ run' = [run EXCEPT ![r] = "report"]
    /\ UNCHANGED <<fields, claim, leaked, kind, coord, window, at, shutdown>>

\* Mutant: futures drained by a shutdown are reported too.
LeaksWithDrained(r) == {f \in in_flight \intersect Of(r) : fut[f] # "cancelled"}
                       \union (abandoned \intersect Of(r))

\* Mutant: an execution that timed out is nobody's business any more.
LeaksWithoutAbandoned(r) ==
    {f \in in_flight \intersect Of(r) : fut[f] \notin {"cancelled", "drained"}}

Leaks(r) == {f \in in_flight \intersect Of(r) : fut[f] \notin {"cancelled", "drained"}}
            \union (abandoned \intersect Of(r))

\* Mutant: the leaks of earlier runs are forgotten.
NoLeaksBefore == {}

LeaksBefore == {f \in leaked : fut[f] # "done"}

\* ... and passes the rest to _record_leaks.
RecordLeaks(r) ==
    /\ run[r] = "report"
    /\ leaked' = LeaksBefore \union Leaks(r)
    /\ in_flight' = in_flight \ Of(r)
    /\ retry_wait' = retry_wait \ Of(r)
    /\ abandoned' = abandoned \ Of(r)
    /\ run' = [run EXCEPT ![r] = "release"]
    /\ UNCHANGED <<fields, claim, kind, coord, tasks, shutdown>>

\* Mutant: the first run to end gives the claim up for those around it.
OutermostAlways == TRUE

Outermost == run_depth = 1

\* _active_run, second critical section.  It compares the owner with the
\* thread that entered the run, whichever thread finalizes it.
Release(r) ==
    /\ run[r] = "release"
    /\ IF run_owner = coord[r]
       THEN /\ run_depth' = run_depth - 1
            /\ run_owner' = IF Outermost THEN Nothing ELSE run_owner
       ELSE UNCHANGED claim
    /\ run' = [run EXCEPT ![r] = "ended"]
    /\ kind' = [kind EXCEPT ![r] = "map"]
    /\ coord' = [coord EXCEPT ![r] = Nothing]
    /\ UNCHANGED <<fields, leaked, window, tasks, shutdown>>

-----------------------------------------------------------------------------
(* Worker threads. *)

StartTask(w, f) ==
    /\ at[w] = Nothing
    /\ fut[f] = "queued"
    /\ at' = [at EXCEPT ![w] = f]
    /\ fut' = [fut EXCEPT ![f] = "running"]
    /\ UNCHANGED <<fields, claim, leaked, runs, window, shutdown>>

\* The function returns.  A stream that it started and kept stays suspended,
\* and its thread stays the coordinator.
EndTask(w) ==
    /\ at[w] # Nothing
    /\ Outside(w)
    /\ fut' = [fut EXCEPT ![at[w]] = "done"]
    /\ at' = [at EXCEPT ![w] = Nothing]
    /\ UNCHANGED <<fields, claim, leaked, runs, window, shutdown>>

-----------------------------------------------------------------------------
(* close(timeout).  Task functions do not call it here. *)

InCallback(t) ==
    /\ CallbacksClose
    /\ closing[t] = "no"
    /\ \E r \in Run : coord[r] = t /\ run[r] = "callback"

At(t, here, there) ==
    /\ closing[t] = here
    /\ closing' = [closing EXCEPT ![t] = there]

\* The ownership check, the only part under the lock: a batch of another
\* thread raises.
CloseCheck(t) ==
    /\ UserCode(t) \/ InCallback(t)
    /\ MayClaim(t)
    /\ At(t, "no", "test")
    /\ UNCHANGED <<fields, claim, leaked, runs, window, tasks, awaited, drainer, report>>

\* Mutant: the executor is taken without a look whether it is still there.
CloseUntested(t) ==
    /\ At(t, "test", "swap")
    /\ UNCHANGED <<fields, claim, leaked, runs, window, tasks, awaited, drainer, report>>

\* A close() that finds the executor gone returns at once, whoever took it
\* and however far that shutdown is.
CloseTest(t) ==
    /\ IF executor
       THEN At(t, "test", "swap") /\ UNCHANGED report
       ELSE At(t, "test", "no") /\ report' = report \union {"gone"}
    /\ UNCHANGED <<fields, claim, leaked, runs, window, tasks, awaited, drainer>>

\* A thread whose test another close() outran takes None, and fails on it.
CloseSwap(t) ==
    /\ At(t, "swap", IF executor THEN "shut" ELSE "crash")
    /\ executor' = FALSE
    /\ UNCHANGED <<scheduler, open, claim, leaked, runs, window, tasks,
                   awaited, drainer, report>>

CloseCrash(t) ==
    /\ At(t, "crash", "no")
    /\ scheduler' = FALSE
    /\ UNCHANGED <<executor, open, claim, leaked, runs, window, tasks,
                   awaited, drainer, report>>

\* Mutant: the scheduler is still there when the queue is drained.
CloseKeepsScheduler(t) ==
    /\ At(t, "shut", "drain")
    /\ UNCHANGED <<fields, claim, leaked, runs, window, tasks, awaited, drainer, report>>

CloseForget(t) ==
    /\ At(t, "shut", "drain")
    /\ scheduler' = FALSE
    /\ UNCHANGED <<executor, open, claim, leaked, runs, window, tasks,
                   awaited, drainer, report>>

\* executor.shutdown(cancel_futures=True): what is queued is cancelled, and
\* no wait() will ever report it.  With a timeout close() goes on to collect the
\* leaks, without one it joins the threads.
CloseDrain(t) ==
    /\ At(t, "drain", "collect") \/ At(t, "drain", "join")
    /\ open' = FALSE
    /\ drainer' = t
    /\ fut' = [f \in Future |-> IF fut[f] = "queued" THEN "drained" ELSE fut[f]]
    /\ UNCHANGED <<executor, scheduler, claim, leaked, runs, window, at, awaited,
                   report>>

CloseJoin(t) ==
    /\ \A w \in Worker : at[w] = Nothing
    /\ At(t, "join", "no")
    /\ report' = report \union {"joined"}
    /\ UNCHANGED <<fields, claim, leaked, runs, window, tasks, awaited, drainer>>

CloseCollect(t) ==
    /\ At(t, "collect", "await")
    /\ awaited' = [awaited EXCEPT ![t] = {f \in leaked : fut[f] # "done"}]
    /\ leaked' = {}
    /\ UNCHANGED <<fields, claim, runs, window, tasks, drainer, report>>

\* The bounded wait ends, with ShutdownTimeout if something still runs.
CloseAwait(t) ==
    /\ At(t, "await", "no")
    /\ report' = report \union {IF \A f \in awaited[t] : fut[f] = "done" THEN "closed"
                                ELSE "ShutdownTimeout"}
    /\ UNCHANGED <<fields, claim, leaked, runs, window, tasks, awaited, drainer>>

\* The thread took the executor and is not through with it.
ShuttingDown(t) == closing[t] \in {"shut", "drain", "join", "collect", "await"}

Close(t) ==
    \/ CloseCheck(t) \/ CloseTest(t) \/ CloseSwap(t) \/ CloseCrash(t)
    \/ CloseForget(t) \/ CloseDrain(t) \/ CloseJoin(t) \/ CloseCollect(t)
    \/ CloseAwait(t)

-----------------------------------------------------------------------------
RunStep(r) ==
    \/ Claim(r) \/ Check(r) \/ Leave(r) \/ CallbackReturns(r) \/ Resume(r)
    \/ CloseStream(r) \/ FinalizeStream(r) \/ DropStream(r) \/ Withdraw(r) \/ RecordLeaks(r)
    \/ Release(r)

FutureStep(f) == Submit(f) \/ Deliver(f) \/ TimeOut(f) \/ FreeSlot(f)

Next ==
    \/ \E t \in Thread, r \in Run : EnterMap(t, r) \/ OpenStream(t, r) \/ EnterStream(t, r)
    \/ \E r \in Run : RunStep(r)
    \/ \E f \in Future : FutureStep(f)
    \/ \E w \in Worker, f \in Future : StartTask(w, f)
    \/ \E w \in Worker : EndTask(w)
    \/ \E t \in Client : Close(t)

Spec == Init /\ [][Next]_vars

-----------------------------------------------------------------------------
(* Fairness.  Threads are scheduled: each goes on with what it is inside of, *)
(* and a free worker takes queued work.  Task functions return.  A consumer  *)
(* comes back to its stream, and closes it if not.  A run leaves its loop of *)
(* itself only when it has handed out every item; nobody has to close the    *)
(* pool, cancel, or let anything time out.                                   *)

Exhausted(r) ==
    \A f \in Of(r) : /\ f[3] = 1 => fut[f] # "none"
                     /\ f \notin in_flight \union retry_wait

Coordinates(r) ==
    \/ Claim(r) \/ Check(r) \/ CallbackReturns(r) \/ Withdraw(r)
    \/ RecordLeaks(r) \/ Release(r)
    \/ \E f \in Of(r) : Submit(f) \/ Deliver(f) \/ FreeSlot(f)
    \/ Exhausted(r) /\ Leave(r)

Fairness ==
    /\ \A r \in Run : WF_vars(Coordinates(r)) /\ SF_vars(Resume(r) \/ CloseStream(r))
    /\ \A w \in Worker : WF_vars(EndTask(w) \/ \E f \in Future : StartTask(w, f))
    /\ \A t \in Client : WF_vars(Close(t) /\ closing[t] # "no")

FairSpec == Spec /\ Fairness

-----------------------------------------------------------------------------
(* Properties. *)

\* Every variable has its type.
TypeOK ==
    /\ executor \in BOOLEAN /\ scheduler \in BOOLEAN /\ open \in BOOLEAN
    /\ run_owner \in Thread \union {Nothing}
    /\ run_depth \in Int
    /\ leaked \subseteq Future
    /\ run \in [Run -> RunState]
    /\ kind \in [Run -> {"map", "stream", "finalized"}]
    /\ coord \in [Run -> Thread \union {Nothing}]
    /\ in_flight \subseteq Future /\ retry_wait \subseteq Future /\ abandoned \subseteq Future
    /\ fut \in [Future -> FutureState]
    /\ at \in [Worker -> Future \union {Nothing}]
    /\ closing \in [Thread -> {"no", "test", "swap", "crash", "shut", "drain",
                               "join", "collect", "await"}]
    /\ awaited \in [Thread -> SUBSET Future]
    /\ drainer \in Thread \union {Nothing}
    /\ report \subseteq {"gone", "joined", "closed", "ShutdownTimeout"}

\* The runs inside _active_run all belong to one thread, the recorded owner,
\* and the depth counts them: neither a nested run that ends, a refused
\* claim, an uniterated stream nor a suspended one confuses the claim.
OneCoordinator ==
    /\ run_depth = Cardinality(Claimed)
    /\ run_owner = Nothing <=> Claimed = {}
    /\ \A r \in Claimed : coord[r] = run_owner

\* A thread that closes the pool under its own suspended stream never waits
\* on the futures it drained: no resumption goes back into the scheduler
\* (_stream_unordered and _stream_ordered, "would hang forever").
NoSelfDrain ==
    \A f \in in_flight :
        run[f[1]] = "loop" /\ fut[f] = "drained" => coord[f[1]] # drainer

\* An execution that outlives its run is never lost sight of: it is in
\* _leaked, over any number of later runs, until a close() takes it to wait
\* for it (_record_leaks; close, 603-606).
LeaksKnown ==
    \A f \in Future :
        fut[f] = "running" /\ run[f[1]] \in {"release", "ended"} =>
            f \in leaked \/ \E t \in Thread : f \in awaited[t]

\* close() waits only for futures that a worker will complete: a cancelled
\* or drained one would never be reported done, and turn every bounded
\* shutdown into a ShutdownTimeout (pool.py, 599-601).
AwaitedCanFinish ==
    \A t \in Thread : \A f \in awaited[t] : fut[f] \in {"running", "done"}

\* What a close() that returned left behind, for any number of callers.  The one
\* that took the executor leaves nothing running if it was unbounded; if it
\* was bounded, executions of batches that were not over when it looked.  One
\* that found the executor gone waited for nothing (589-590): then something
\* runs only while another thread shuts the pool down, or if a bounded
\* shutdown left it (593-610).
CloseAccounts ==
    \A f \in Future :
        fut[f] = "running" =>
            /\ "joined" \notin report
            /\ "closed" \in report => f[1] \in Claimed \/ f \in leaked
            /\ "gone" \in report =>
                  \/ \E t \in Thread : ShuttingDown(t)
                  \/ report \intersect {"closed", "ShutdownTimeout"} # {}

\* A worker thread becomes the coordinator only inside a task whose own batch
\* is over: while that lasts the task is refused, whoever asks first
\* (_active_run, 229-233).  From then on the check knows the thread, not the
\* task: what runs there later shares the claim, like a nested batch.
OnlyLateTasksCoordinate ==
    [][\A w \in Worker :
          run_owner # w /\ run_owner' = w =>
              at[w] # Nothing /\ run[at[w][1]] = "ended"]_vars

\* Nested batches share the executor, each with a window of its own
\* (_active_run, 226-227): at any depth it holds executions of at most
\* max_pending items for each.  Items are counted, not futures: a timeout that
\* is retried puts several executions of one item there (_scheduler.py, 361-367).
NestedWindow ==
    Cardinality({<<f[1], f[2]>> : f \in in_flight \union abandoned}) <=
        run_depth * MaxPending

\* close() is idempotent (pool.py, 558): called by one thread, however often
\* and with whatever suspended, it never trips over an earlier call.
CloseNeverFails == \A t \in Thread : closing[t] # "crash"

\* "No run() loop can be waiting on the futures this drains" (pool.py,
\* 594-596): no coordinator is in the scheduler with a drained future.
NoDrainedWait ==
    \A f \in in_flight : run[f[1]] = "loop" => fut[f] # "drained"

\* close() "waits for running tasks", or raises ShutdownTimeout (pool.py,
\* 161-165): when the one that took the executor returned, nothing runs.
CloseHonest ==
    report \intersect {"joined", "closed"} # {} =>
        \A f \in Future : fut[f] # "running"

\* A task function that calls back into its pool "fails loudly" (pool.py,
\* 150-152): no worker thread ever becomes the coordinator.
TasksNeverCoordinate == run_owner \notin Worker

\* Same-thread nesting "is bounded by the same window" (pool.py, 226-227).
OneWindow == Cardinality(in_flight \union abandoned) <= MaxPending

\* A run that was entered comes to its end, although its thread may close the
\* pool under it while it is suspended, nest another run in it, or be refused
\* the claim: the resumption raises instead of waiting on the drained futures
\* (_stream_unordered, 523-527), and an unbounded close() returns.
RunsEnd == \A r \in Run : run[r] = "entering" ~> run[r] = "ended"
===============================================================================
