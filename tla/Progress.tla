------------------------------- MODULE Progress -------------------------------
(***************************************************************************)
(* The reporters of progress.py and tqdm_progress.py, as the calls of a    *)
(* pool use them: start, advance and finish on one object that successive  *)
(* calls may share.  What a reporter shows is a tally, the items completed *)
(* and the total; how a line of it looks is left out.                      *)
(*                                                                         *)
(* The module has no specification of its own: PoolStreams takes its       *)
(* operators as parts of its actions.                                      *)
(***************************************************************************)
EXTENDS Naturals

CONSTANT Nothing      \* None

Total == Nat \union {Nothing}
Tally == Nat \X Total

ASSUME ProgressAssumption == Nothing \notin Nat /\ Nothing \notin Tally

VARIABLES
    reporter,         \* which one: see Reporter
    completed,        \* _completed, or the count of the current bar
    total,            \* _total, or the total of the current bar
    told,             \* the tally that was shown last
    calls,            \* calls of the callback since start
    bar,              \* whether _bar is not None
    bars              \* how many bars are open

progress == <<reporter, completed, total, told, calls, bar, bars>>

\* "none" is no reporter or a NullProgress; "line" is a DefaultProgress that
\* writes its last line only, "live" one that also rewrites the line.
Reporter == {"none", "callback", "line", "live", "tqdm"}

ProgressInit ==
    /\ reporter \in Reporter
    /\ completed = 0
    /\ total = Nothing
    /\ told = Nothing
    /\ calls = 0
    /\ bar = FALSE
    /\ bars = 0

-----------------------------------------------------------------------------
(* CallbackProgress. *)

\* Mutant: the total of the batch before stays.
CallbackKeepsTotal(t) ==
    /\ completed' = 0
    /\ UNCHANGED total
    /\ told' = Nothing
    /\ calls' = 0

\* Mutant: the last delivery of the batch before stays.
CallbackKeepsLast(t) ==
    /\ completed' = 0
    /\ total' = t
    /\ UNCHANGED told
    /\ calls' = 0

CallbackStart(t) ==
    /\ completed' = 0
    /\ total' = t
    /\ told' = Nothing
    /\ calls' = 0

News(tally) == told # tally

deliver(tally) ==
    IF News(tally)
    THEN told' = tally /\ calls' = calls + 1
    ELSE UNCHANGED <<told, calls>>

CallbackAdvance ==
    /\ completed' = completed + 1
    /\ deliver(<<completed + 1, total>>)
    /\ UNCHANGED total

CallbackFinish ==
    /\ deliver(<<completed, total>>)
    /\ UNCHANGED <<completed, total>>

-----------------------------------------------------------------------------
(* DefaultProgress. *)

render == told' = <<completed', total'>>

\* Mutant: a reused reporter counts on.
KeepCount == completed

NoCount == 0

DefaultStart(t) ==
    /\ completed' = NoCount
    /\ total' = t
    /\ IF reporter = "live" THEN render ELSE UNCHANGED told

\* A live line is rewritten if the last time was long enough ago.
DefaultAdvance ==
    /\ completed' = completed + 1
    /\ UNCHANGED total
    /\ (reporter = "live" /\ render) \/ UNCHANGED told

DefaultFinish ==
    /\ UNCHANGED <<completed, total>>
    /\ render

-----------------------------------------------------------------------------
(* TqdmProgress. *)

\* Closing a bar leaves its count on the screen.
TqdmFinish ==
    /\ bar' = FALSE
    /\ IF bar
       THEN told' = <<completed, total>> /\ bars' = bars - 1
       ELSE UNCHANGED <<told, bars>>
    /\ UNCHANGED <<completed, total>>

\* Mutant: the bar of the batch before is dropped, not closed.
OnlyNew == bars + 1

\* start() finishes the bar that an earlier batch may have left.
InsteadOfLast == IF bar THEN bars ELSE bars + 1

TqdmStart(t) ==
    /\ told' = IF bar THEN <<completed, total>> ELSE told
    /\ bars' = InsteadOfLast
    /\ bar' = TRUE
    /\ completed' = 0
    /\ total' = t

TqdmAdvance ==
    /\ completed' = IF bar THEN completed + 1 ELSE completed
    /\ UNCHANGED <<total, told, bar, bars>>

-----------------------------------------------------------------------------
(* A reporter's own Exception is swallowed by _report; what the reporter had *)
(* noted by then stays.                                                      *)

start(t) ==
    /\ UNCHANGED reporter
    /\ \/ reporter = "none" /\ UNCHANGED progress
       \/ reporter = "callback" /\ CallbackStart(t) /\ UNCHANGED <<bar, bars>>
       \/ reporter \in {"line", "live"} /\ DefaultStart(t) /\ UNCHANGED <<calls, bar, bars>>
       \/ reporter = "tqdm" /\ TqdmStart(t) /\ UNCHANGED calls

advance ==
    /\ UNCHANGED reporter
    /\ \/ reporter = "none" /\ UNCHANGED progress
       \/ reporter = "callback" /\ CallbackAdvance /\ UNCHANGED <<bar, bars>>
       \/ reporter \in {"line", "live"} /\ DefaultAdvance /\ UNCHANGED <<calls, bar, bars>>
       \/ reporter = "tqdm" /\ TqdmAdvance /\ UNCHANGED calls

finish ==
    /\ UNCHANGED reporter
    /\ \/ reporter = "none" /\ UNCHANGED progress
       \/ reporter = "callback" /\ CallbackFinish /\ UNCHANGED <<bar, bars>>
       \/ reporter \in {"line", "live"} /\ DefaultFinish /\ UNCHANGED <<calls, bar, bars>>
       \/ reporter = "tqdm" /\ TqdmFinish /\ UNCHANGED calls

ProgressType ==
    /\ reporter \in Reporter
    /\ completed \in Nat
    /\ total \in Total
    /\ told \in Tally \union {Nothing}
    /\ calls \in Nat
    /\ bar \in BOOLEAN
    /\ bars \in Nat
===============================================================================
