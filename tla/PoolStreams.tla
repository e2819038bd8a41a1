----------------------------- MODULE PoolStreams -----------------------------
(***************************************************************************)
(* What Pool.map, imap and imap_unordered (pool.py) make of the            *)
(* completions that a scheduler run hands them: the reorder buffer, the    *)
(* results and failures, the reporter, and the cleanup on every way out.   *)
(*                                                                         *)
(* One coordinator makes any number of calls, one after the other, with    *)
(* one reporter.  The scheduler run of the current call is the             *)
(* CompletionStream that BoundedScheduler implements.  Only the consumer   *)
(* of a stream closes the pool here, when it is not inside a call; Pool    *)
(* has the threads that do not keep to this.                               *)
(***************************************************************************)
EXTENDS Progress, FiniteSets

CONSTANTS N,          \* number of items of the input, indices 0 .. N-1
          MaxPending  \* max_pending

ASSUME StreamsAssumption == N \in Nat /\ MaxPending \in Nat \ {0}

VARIABLES
    closed,                    \* _scheduler is None
    pc,                        \* where the current call is
    mode,                      \* the method that was called
    size,                      \* the length of its input, None if it has none
    entered,                   \* the call has a scheduler run
    taken, out, given, status, \* that run: see CompletionStream
    result,                    \* how each item ended, by index
    held,                      \* map: completed_values; imap: held; collect: successful
    failed,                    \* collect: failed
    next_index,                \* imap: next_index
    served,                    \* indices whose result the caller got
    outcome,                   \* how the call ended or is about to end
    finishes                   \* calls of reporter.finish

stream == <<taken, out, given, status>>
results == <<result, held, failed, next_index, served>>
call == <<pc, mode, size, entered, outcome, finishes>>
vars == <<progress, closed, call, stream, results>>

Index == 0 .. (N - 1)
Whole == {"map", "collect"}
Streaming == {"imap", "imap_unordered"}

Stream == INSTANCE CompletionStream

\* What ended an item.  "fatal" is an exception outside Exception.
Result == {"none", "value", "error", "timed_out", "Cancelled", "fatal"}

\* What the caller gets for a failure, from its state and its category.
Raised == [error |-> "TaskError", timed_out |-> "TaskTimeout",
           Cancelled |-> "Cancelled", fatal |-> "fatal"]

Init ==
    /\ ProgressInit
    /\ closed = FALSE
    /\ pc = "idle" /\ mode = "map" /\ size = Nothing /\ entered = FALSE
    /\ Stream!Init
    /\ result = [i \in Index |-> "none"]
    /\ held = {} /\ failed = {} /\ next_index = 0 /\ served = {}
    /\ outcome = "none" /\ finishes = 0

-----------------------------------------------------------------------------
(* Starting a call. *)

Fresh ==
    /\ taken' = 0 /\ out' = {} /\ given' = 0 /\ status' = "open"
    /\ result' = [i \in Index |-> "none"]
    /\ held' = {} /\ failed' = {} /\ next_index' = 0 /\ served' = {}
    /\ finishes' = 0

\* A closed pool refuses the call.  The reporter starts before the
\* generator of a stream or the scheduler run of map() exist, so that Ctrl+C
\* inside it ends the call with nothing to clean up.  _total_of gives None
\* for an input without a length.
Call(m) ==
    /\ pc = "idle"
    /\ ~closed
    /\ mode' = m
    /\ Fresh
    /\ size' \in {N, Nothing}
    /\ start(size')
    /\ \/ m \in Whole /\ pc' = "loop" /\ entered' = TRUE /\ outcome' = "none"
       \/ m \in Streaming /\ pc' = "created" /\ entered' = FALSE /\ outcome' = "none"
       \/ /\ reporter # "none"
          /\ pc' = "idle" /\ entered' = FALSE /\ outcome' = "KeyboardInterrupt"
    /\ UNCHANGED closed

\* The first next() refuses a pool that was closed meanwhile or, at the
\* claim, one that another thread runs a batch on.
Enter ==
    /\ pc = "created"
    /\ \/ ~closed /\ pc' = "loop" /\ entered' = TRUE /\ UNCHANGED outcome
       \/ pc' = "idle" /\ outcome' = "RuntimeError" /\ UNCHANGED entered
    /\ UNCHANGED <<progress, closed, mode, size, finishes, stream, results>>

\* A generator that never ran has no cleanup.
DropStream ==
    /\ pc = "created"
    /\ pc' = "idle"
    /\ outcome' = "GeneratorExit"
    /\ UNCHANGED <<progress, closed, mode, size, entered, finishes, stream, results>>

-----------------------------------------------------------------------------
(* The loop. *)

\* Mutant: what the buffer holds is served in any case.
StillOpenOrHeld == closed => mode = "imap" /\ next_index \in held

\* The streams look at the pool before every resumption.
StillOpen == mode \in Streaming => ~closed

Refuse ==
    /\ pc = "loop"
    /\ ~StillOpen
    /\ pc' = "cleanup"
    /\ outcome' = "RuntimeError"
    /\ UNCHANGED <<progress, closed, mode, size, entered, finishes, stream, results>>

\* Mutant: whatever is held goes out first.
FirstHeld(i) == i \in held /\ \A j \in held : i <= j

Turn(i) == i \in held /\ i = next_index

Serve ==
    /\ pc = "loop" /\ mode = "imap"
    /\ StillOpen
    /\ \E i \in Index :
          /\ Turn(i)
          /\ held' = held \ {i}
          /\ served' = served \union {i}
    /\ pc' = "suspended"
    /\ UNCHANGED <<progress, closed, mode, size, entered, finishes, outcome, stream,
                   result, failed, next_index>>

\* Mutant: imap() pulls whether or not the next result is held.
PullsAlways == TRUE

Buffered == ~(mode = "imap" /\ next_index \in held)

\* The coordinator is inside next(completion_stream).
Pulling == pc = "loop" /\ StillOpen /\ Buffered

Take ==
    /\ Pulling
    /\ Stream!Take
    /\ UNCHANGED <<progress, closed, call, results>>

\* Mutant: failures wait in the buffer for their turn.
FailsInTurn(res) == res # "value" /\ mode # "imap"

\* Mutant: a cancellation is collected like any failure.
FailsUnlessCollect(res) == res # "value" /\ mode # "collect"

\* The failures that end the call: all of them, unless they are collected.
\* Cancelled and what is outside Exception are never collected.
Fails(res) ==
    /\ res # "value"
    /\ mode = "collect" => res \notin {"error", "timed_out"}

Unwrap(i, res) ==
    \/ /\ Fails(res)
       /\ pc' = "cleanup"
       /\ outcome' = Raised[res]
       /\ UNCHANGED <<held, failed, served>>
    \/ /\ ~Fails(res) /\ mode = "imap_unordered"
       /\ pc' = "suspended"
       /\ served' = served \union {i}
       /\ UNCHANGED <<held, failed, outcome>>
    \/ /\ ~Fails(res) /\ mode # "imap_unordered"
       /\ IF mode = "collect" /\ res # "value"
          THEN failed' = failed \union {i} /\ UNCHANGED held
          ELSE held' = held \union {i} /\ UNCHANGED failed
       /\ UNCHANGED <<pc, served, outcome>>

\* A completion arrives.  Ctrl+C inside the reporter comes before its result
\* is looked at.
Receive(i, res) ==
    /\ Pulling
    /\ Stream!Deliver(i)
    /\ advance
    /\ result' = [result EXCEPT ![i] = res]
    /\ \/ Unwrap(i, res)
       \/ /\ reporter # "none"
          /\ pc' = "cleanup"
          /\ outcome' = "KeyboardInterrupt"
          /\ UNCHANGED <<held, failed, served>>
    /\ UNCHANGED <<closed, mode, size, entered, finishes, next_index>>

\* StopIteration.
Exhaust ==
    /\ Pulling
    /\ Stream!Complete
    /\ pc' = "cleanup"
    /\ UNCHANGED <<progress, closed, mode, size, entered, finishes, outcome, results>>

\* The run raises: Cancelled, OverallTimeout, an error of the input, Ctrl+C.
Stop ==
    /\ Pulling
    /\ Stream!Abort
    /\ pc' = "cleanup"
    /\ outcome' = "stopped"
    /\ UNCHANGED <<progress, closed, mode, size, entered, finishes, results>>

-----------------------------------------------------------------------------
(* The consumer of a stream, at a yield. *)

Resume ==
    /\ pc = "suspended"
    /\ pc' = "loop"
    /\ next_index' = IF mode = "imap" THEN next_index + 1 ELSE next_index
    /\ UNCHANGED <<progress, closed, mode, size, entered, finishes, outcome, stream,
                   result, held, failed, served>>

CloseStream ==
    /\ pc = "suspended"
    /\ pc' = "cleanup"
    /\ outcome' = "GeneratorExit"
    /\ UNCHANGED <<progress, closed, mode, size, entered, finishes, stream, results>>

ClosePool ==
    /\ pc \in {"idle", "created", "suspended"}
    /\ ~closed
    /\ closed' = TRUE
    /\ UNCHANGED <<progress, call, stream, results>>

-----------------------------------------------------------------------------
(* Cleanup. *)

\* Mutant: the run is left to the garbage collector.
LeftOpen == status

ClosedRun == IF status = "open" THEN "aborted" ELSE status

\* map() reads its results by position; imap() must have served all it held.
NoGap ==
    /\ mode = "map" => held = 0 .. (Cardinality(held) - 1)
    /\ mode = "imap" => held = {}

\* The finally block closes the run and finishes the reporter, where Ctrl+C
\* takes the place of what the call would have returned or raised.
Cleanup ==
    /\ pc = "cleanup"
    /\ status' = ClosedRun
    /\ finish
    /\ finishes' = finishes + 1
    /\ pc' = "idle"
    /\ \/ outcome' = IF outcome # "none" THEN outcome
                     ELSE IF NoGap THEN "returned" ELSE "internal"
       \/ outcome' = "KeyboardInterrupt" /\ reporter # "none"
    /\ served' = IF outcome' = "returned" /\ mode \in Whole
                 THEN held \union failed ELSE served
    /\ UNCHANGED <<closed, mode, size, entered, taken, out, given, result, held,
                   failed, next_index>>

Next ==
    \/ \E m \in Whole \union Streaming : Call(m)
    \/ Enter \/ DropStream
    \/ Refuse \/ Serve \/ Take
    \/ \E i \in 0 .. (taken - 1), res \in Result \ {"none"} : Receive(i, res)
    \/ Exhaust \/ Stop
    \/ Resume \/ CloseStream \/ ClosePool
    \/ Cleanup

Spec == Init /\ [][Next]_vars

-----------------------------------------------------------------------------
(* Properties. *)

\* Every variable has its type.
TypeOK ==
    /\ ProgressType
    /\ completed <= N
    /\ closed \in BOOLEAN
    /\ pc \in {"idle", "created", "loop", "suspended", "cleanup"}
    /\ mode \in Whole \union Streaming /\ size \in {N, Nothing}
    /\ entered \in BOOLEAN
    /\ taken \in 0 .. N /\ given \in 0 .. N
    /\ out \subseteq Index
    /\ status \in {"open", "complete", "aborted"}
    /\ result \in [Index -> Result]
    /\ held \subseteq Index /\ failed \subseteq Index /\ served \subseteq Index
    /\ next_index \in 0 .. N
    /\ outcome \in {"none", "returned", "TaskError", "TaskTimeout", "Cancelled",
                    "fatal", "stopped", "RuntimeError", "KeyboardInterrupt",
                    "GeneratorExit", "internal"}
    /\ finishes \in Nat

\* The calls implement ResultStream: whatever the order of completions, imap
\* gives the results in input order without gap or duplicate, map and collect
\* all or nothing, and no call that lost a result ends without an error.
Ending ==
    IF pc # "idle" THEN "open"
    ELSE IF outcome = "none" THEN "none"
    ELSE IF outcome = "returned" THEN "complete"
    ELSE "failed"
Results == INSTANCE ResultStream WITH got <- served, ending <- Ending
KeepsOrder == Results!Spec

\* The "internal invariant violated" errors of map() and imap() are never
\* raised (pool.py, 371-375 and 469-473).
NoInternalError == outcome # "internal"

\* What no call may go on after, as the docstrings of map() and imap() have it.
Definitive(res) ==
    res \in {"Cancelled", "fatal"} \/ (mode # "collect" /\ res \in {"error", "timed_out"})

\* The first definitive failure raises immediately, in completion order,
\* even if earlier results are still held: it is the only one received, the
\* call is over, and its error says how the item ended (unless Ctrl+C
\* overtook it).  Nothing but a result ends a call with a task's error.
FirstFailureRaises ==
    LET fatal == {i \in out : Definitive(result[i])}
    IN  /\ \A i \in fatal :
              /\ pc \in {"cleanup", "idle"}
              /\ outcome \in {Raised[result[i]], "KeyboardInterrupt"}
              /\ \A j \in fatal : i = j
        /\ outcome \in {"TaskError", "TaskTimeout", "Cancelled", "fatal"} =>
              \E i \in fatal : outcome = Raised[result[i]]

\* Collect mode puts every completion into the list that says how it ended
\* and drops none; a cancellation and what is outside Exception are in neither
\* (_collect).
CollectHonest ==
    mode = "collect" =>
        /\ \A i \in failed : result[i] \in {"error", "timed_out"}
        /\ \A i \in held : result[i] = "value"
        /\ outcome \in {"none", "returned"} => held \union failed = out

\* After close() a stream gives nothing more, not even what it holds: "a
\* deterministic error wins" (_stream_ordered).
NothingAfterClose == [][closed => served' \subseteq served]_vars

\* However a call that got a scheduler run ends (exhausted, failed, stopped,
\* closed at a yield, refused after close(), interrupted in the reporter), the
\* run is closed and the reporter finished, once.
CleanExit ==
    pc = "idle" /\ entered => status # "open" /\ finishes = 1

\* When a call is over, the tally shown last is the number of items that
\* completed in it and the length of its input, for every reporter and
\* whatever count, total or tally an earlier batch left in it (start).
FinalTally ==
    pc = "idle" /\ entered /\ reporter # "none" => told = <<given, size>>

\* CallbackProgress calls back once for every completed item, and at the end
\* only if none completed: "consumers never see the same (completed, total)
\* twice in a row", and never miss one, even one the batch before ended with.
ToldOnce ==
    reporter = "callback" /\ entered =>
        calls = IF given = 0 THEN finishes ELSE given

\* Reusing one TqdmProgress never leaves a second bar open, and no bar is
\* open after a call that got a scheduler run.
OneBar ==
    /\ bars <= 1
    /\ pc = "idle" /\ entered => bars = 0
===============================================================================
