----------------------------- MODULE ResultStream -----------------------------
(***************************************************************************)
(* What the caller of a pool may rely on, call after call, said without    *)
(* completions, buffers or reporters:                                      *)
(*                                                                         *)
(*   - imap() gives the items' results one by one in input order;          *)
(*   - imap_unordered() gives them one by one, each once;                  *)
(*   - map() gives nothing, or all of them at the end;                     *)
(*   - a call that ends without an error gave every result, and after the  *)
(*     end of a call it gives nothing more.                                *)
(***************************************************************************)
EXTENDS Naturals

CONSTANT N            \* number of items of the input, indices 0 .. N-1

VARIABLES mode,       \* the method that was called
          got,        \* indices of the results that the caller got
          ending      \* "none" (no call yet), "open", "complete" or "failed"

vars == <<mode, got, ending>>

Init ==
    /\ mode = "map"
    /\ got = {}
    /\ ending = "none"

Begin ==
    /\ ending # "open"
    /\ mode' \in {"map", "collect", "imap", "imap_unordered"}
    /\ got' = {}
    /\ ending' \in {"open", "failed"}

Give(i) ==
    /\ ending = "open"
    /\ i \notin got
    /\ \/ mode = "imap" /\ got = 0 .. (i - 1)
       \/ mode = "imap_unordered"
    /\ got' = got \union {i}
    /\ UNCHANGED <<mode, ending>>

Return ==
    /\ ending = "open"
    /\ mode \in {"map", "collect"} \/ got = 0 .. (N - 1)
    /\ got' = 0 .. (N - 1)
    /\ ending' = "complete"
    /\ UNCHANGED mode

Fail ==
    /\ ending = "open"
    /\ ending' = "failed"
    /\ UNCHANGED <<mode, got>>

Next ==
    \/ Begin
    \/ \E i \in 0 .. (N - 1) : Give(i)
    \/ Return
    \/ Fail

Spec == Init /\ [][Next]_vars
===============================================================================
