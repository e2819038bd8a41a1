-------------------------------- MODULE MCPool --------------------------------
(* Instances of Pool for TLC. *)
EXTENDS Pool, TLC

\* Client threads, worker threads and runs are interchangeable.
Symmetry == Permutations(Client) \union Permutations(Worker) \union Permutations(Run)

\* Two items in every run, none of them retried.
TwoEach == Run \X (1 .. 2) \X {1}

\* Three items in one run and one in the others.  The failures of every first
\* item are retried once.
ThreeAndOne ==
    LET long == CHOOSE r \in Run : TRUE
    IN  ({long} \X (1 .. 3) \X {1}) \union (Run \X {1} \X (1 .. 2))
===============================================================================
