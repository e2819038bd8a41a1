--------------------------- MODULE CompletionStream ---------------------------
(***************************************************************************)
(* What BoundedScheduler.run promises to the code that iterates it, said   *)
(* without futures, workers, retries or clocks:                            *)
(*                                                                         *)
(*   - the input is consumed in order, one item at a time, and never more  *)
(*     than MaxPending items ahead of the completions handed out;          *)
(*   - the completion of an item is handed out at most once, in any order, *)
(*     and only for an item that was consumed;                             *)
(*   - the stream says it is complete only when every item was handed out; *)
(*     otherwise it is aborted (cancelled, out of time, closed, broken     *)
(*     input), and after either nothing more is consumed or handed out.    *)
(***************************************************************************)
EXTENDS Naturals

CONSTANTS N,          \* number of items of the input, indices 0 .. N-1
          MaxPending  \* the window

VARIABLES taken,      \* how many items were consumed
          out,        \* indices whose completion was handed out
          given,      \* how many completions were handed out
          status      \* "open", "complete" or "aborted"

vars == <<taken, out, given, status>>

Init ==
    /\ taken = 0
    /\ out = {}
    /\ given = 0
    /\ status = "open"

Take ==
    /\ status = "open"
    /\ taken < N
    /\ taken - given < MaxPending
    /\ taken' = taken + 1
    /\ UNCHANGED <<out, given, status>>

Deliver(i) ==
    /\ status = "open"
    /\ i \notin out
    /\ out' = out \union {i}
    /\ given' = given + 1
    /\ UNCHANGED <<taken, status>>

Complete ==
    /\ status = "open"
    /\ out = 0 .. (N - 1)
    /\ status' = "complete"
    /\ UNCHANGED <<taken, out, given>>

Abort ==
    /\ status = "open"
    /\ status' = "aborted"
    /\ UNCHANGED <<taken, out, given>>

Next ==
    \/ Take
    \/ \E i \in 0 .. (taken - 1) : Deliver(i)
    \/ Complete
    \/ Abort

Spec == Init /\ [][Next]_vars
===============================================================================
