------------------------------ MODULE PoolProofs ------------------------------
(***************************************************************************)
(* Proofs about Pool, for any threads, workers, runs and window: the claim *)
(* on the pool has one owner, no execution that outlives its run is lost   *)
(* sight of, and close() waits for nothing that cannot finish.             *)
(***************************************************************************)
EXTENDS Pool, FiniteSetTheorems, TLAPS

LEMMA FutureRun == \A f \in Future : f[1] \in Run
BY PoolAssumption

\* A run that was entered knows its thread.
CoordKnown ==
    \A r \in Run :
        run[r] \notin {"unused", "opened", "ended"} => coord[r] \in Thread

\* Before a run is claimed nothing of it was submitted.
NothingBefore ==
    \A f \in Future :
        run[f[1]] \in {"unused", "opened", "entering"} => fut[f] = "none"

\* What is queued is in flight, and its run was not torn down yet.
QueuedPlace ==
    \A f \in Future :
        fut[f] = "queued" =>
            /\ f \in in_flight
            /\ run[f[1]] \in {"resume", "loop", "callback", "suspended", "cleanup"}

\* What runs is known to its run until that reports it.
RunningPlace ==
    \A f \in Future :
        fut[f] = "running" /\ run[f[1]] \notin {"release", "ended"} =>
            f \in in_flight \union abandoned

InFlightOK == \A f \in in_flight : fut[f] # "none"

\* Abandoned and leaked executions were started.
StartedOK ==
    /\ \A f \in abandoned : fut[f] \in {"running", "done"}
    /\ \A f \in leaked : fut[f] \in {"running", "done"}
    /\ \A w \in Worker : at[w] # Nothing => fut[at[w]] \notin {"none", "queued"}

\* One close() gets the executor, and takes the leaks once.
CloseOnce ==
    /\ executor => \A t \in Thread :
                       closing[t] \notin {"shut", "drain", "join", "collect", "await"}
    /\ \A t \in Thread :
           executor \/ closing[t] \in {"shut", "drain", "join", "collect"} =>
               awaited[t] = {}

Places == NothingBefore /\ QueuedPlace /\ RunningPlace /\ InFlightOK /\ StartedOK

IndInv ==
    /\ TypeOK
    /\ CoordKnown
    /\ OneCoordinator
    /\ Places
    /\ CloseOnce
    /\ LeaksKnown
    /\ AwaitedCanFinish

LEMMA InitInv == Init => IndInv
<1> SUFFICES ASSUME Init PROVE IndInv
  OBVIOUS
<1> USE PoolAssumption DEF Init
<1>1. TypeOK
  BY DEF TypeOK, RunState, FutureState
<1>2. Claimed = {}
  BY DEF Claimed
<1>3. OneCoordinator
  BY <1>2, FS_EmptySet DEF OneCoordinator
<1>4. CoordKnown /\ Places /\ CloseOnce
  BY DEF CoordKnown, Places, NothingBefore, QueuedPlace, RunningPlace, InFlightOK,
         StartedOK, CloseOnce
<1>5. LeaksKnown /\ AwaitedCanFinish
  BY DEF LeaksKnown, AwaitedCanFinish
<1> QED
  BY <1>1, <1>3, <1>4, <1>5 DEF IndInv

-----------------------------------------------------------------------------
(* Steps that only move runs. *)

Moves(r) == \/ Claim(r) \/ Check(r) \/ Leave(r) \/ CallbackReturns(r) \/ Resume(r)
            \/ CloseStream(r) \/ FinalizeStream(r) \/ DropStream(r) \/ Release(r)

\* What such a step changes.
LEMMA MovesFrame ==
    ASSUME TypeOK, NEW r \in Run, Moves(r)
    PROVE  /\ UNCHANGED <<fields, leaked, window, tasks, shutdown>>
           /\ \E s \in RunState : run' = [run EXCEPT ![r] = s]
           /\ \/ UNCHANGED coord
              \/ run'[r] = "ended" /\ coord' = [coord EXCEPT ![r] = Nothing]
           /\ \E k \in {"map", "stream", "finalized"} : kind' = [kind EXCEPT ![r] = k]
           /\ run[r] \notin {"unused", "report", "ended", "cleanup"}
<1> USE DEF TypeOK, RunState
<1>1. CASE Claim(r)
  BY <1>1 DEF Claim
<1>2. CASE Check(r)
  BY <1>2 DEF Check
<1>3. CASE Leave(r) \/ CallbackReturns(r)
  BY <1>3 DEF Leave, CallbackReturns
<1>4. CASE Resume(r) \/ CloseStream(r) \/ FinalizeStream(r) \/ DropStream(r)
  BY <1>4 DEF Resume, CloseStream, FinalizeStream, DropStream
<1>5. CASE Release(r)
  BY <1>5 DEF Release
<1> QED
  BY <1>1, <1>2, <1>3, <1>4, <1>5 DEF Moves

\* The claim and the set of runs inside it move together.
LEMMA ClaimMoves ==
    ASSUME IndInv, NEW r \in Run, Moves(r)
    PROVE  OneCoordinator'
<1> USE DEF IndInv, TypeOK
<1>1. IsFiniteSet(Claimed)
  BY FS_Subset, PoolAssumption DEF Claimed
<1>2. \A q \in Run : q # r \/ run'[r] # "ended" => coord'[q] = coord[q]
  BY MovesFrame
<1>3. CASE Claim(r) /\ MayClaim(coord[r])
  <2>1. r \notin Claimed /\ Claimed' = Claimed \union {r}
    BY <1>3 DEF Claim, Claimed
  <2>2. Cardinality(Claimed') = Cardinality(Claimed) + 1
    BY <1>1, <2>1, FS_AddElement
  <2>3. run_owner' = coord[r] /\ run_depth' = run_depth + 1
    BY <1>3 DEF Claim
  <2>4. coord[r] \in Thread /\ coord[r] # Nothing
    BY <1>3, PoolAssumption DEF Claim, CoordKnown
  <2>5. run_depth' = Cardinality(Claimed')
    BY <2>2, <2>3 DEF OneCoordinator
  <2>6. \A q \in Claimed : coord[q] = coord[r]
    BY <1>3 DEF MayClaim, OneCoordinator
  <2>7. \A q \in Claimed' : coord'[q] = coord[q]
    BY <1>3, <2>1 DEF Claim, Claimed
  <2> QED
    BY <2>7, <2>1, <2>3, <2>4, <2>5, <2>6 DEF OneCoordinator
<1>4. CASE Release(r)
  <2>1. r \in Claimed /\ Claimed' = Claimed \ {r}
    BY <1>4 DEF Release, Claimed
  <2>2. Cardinality(Claimed') = Cardinality(Claimed) - 1
    BY <1>1, <2>1, FS_RemoveElement
  <2>3. run_owner = coord[r]
    BY <2>1 DEF OneCoordinator
  <2>4. /\ run_depth' = run_depth - 1
        /\ run_owner' = IF run_depth = 1 THEN Nothing ELSE run_owner
    BY <1>4, <2>3 DEF Release, Outermost
  <2>5. run_depth' = Cardinality(Claimed')
    BY <2>2, <2>4 DEF OneCoordinator
  <2>6. run_depth = 1 <=> Claimed' = {}
    <3>1. IsFiniteSet(Claimed')
      BY <1>1, <2>1, FS_RemoveElement
    <3>2. Cardinality(Claimed') = 0 <=> Claimed' = {}
      BY <3>1, FS_EmptySet
    <3> QED
      BY <2>4, <2>5, <3>2
  <2>7. run_owner # Nothing
    BY <2>1 DEF OneCoordinator
  <2>8. \A q \in Claimed' : coord'[q] = coord[q]
    BY <1>2, <2>1 DEF Claimed
  <2> QED
    BY <2>8, <2>1, <2>3, <2>4, <2>5, <2>6, <2>7 DEF OneCoordinator
<1>5. CASE ~Release(r) /\ ~(Claim(r) /\ MayClaim(coord[r]))
  <2>1. UNCHANGED claim
    BY <1>5 DEF Moves, Claim, Check, Leave, CallbackReturns, Resume, CloseStream,
           FinalizeStream, DropStream
  <2>2. Claimed' = Claimed
    <3>1. CASE Claim(r)
      BY <1>5, <3>1 DEF Claim, Claimed
    <3>2. CASE Check(r)
      BY <3>2 DEF Check, Claimed
    <3>3. CASE Leave(r) \/ CallbackReturns(r)
      BY <3>3 DEF Leave, CallbackReturns, Claimed
    <3>4. CASE Resume(r) \/ CloseStream(r) \/ FinalizeStream(r) \/ DropStream(r)
      BY <3>4 DEF Resume, CloseStream, FinalizeStream, DropStream, Claimed
    <3> QED
      BY <1>5, <3>1, <3>2, <3>3, <3>4 DEF Moves
  <2>3. \A q \in Claimed' : coord'[q] = coord[q]
    BY <1>2 DEF Claimed
  <2> QED
    BY <2>3, <2>1, <2>2 DEF claim, OneCoordinator
<1> QED
  BY <1>3, <1>4, <1>5

\* Nothing of the futures depends on such a step.
LEMMA MovesInv ==
    ASSUME IndInv, NEW r \in Run, Moves(r)
    PROVE  IndInv'
<1> USE DEF IndInv
<1>1. TypeOK'
  <2>1. run_owner' \in Thread \union {Nothing} /\ run_depth' \in Int
    BY DEF Moves, Claim, Check, Leave, CallbackReturns, Resume, CloseStream,
           FinalizeStream, DropStream, Release, TypeOK, claim
  <2>2. coord' \in [Run -> Thread \union {Nothing}]
    BY MovesFrame DEF TypeOK
  <2>3. run' \in [Run -> RunState] /\ kind' \in [Run -> {"map", "stream", "finalized"}]
    BY MovesFrame DEF TypeOK
  <2>4. UNCHANGED <<fields, leaked, window, tasks, shutdown>>
    BY MovesFrame
  <2> QED
    BY <2>1, <2>2, <2>3, <2>4 DEF TypeOK, fields, window, tasks, shutdown
<1>2. CoordKnown'
  <2>1. CASE run[r] # "opened"
    BY <2>1, MovesFrame DEF CoordKnown, TypeOK
  <2>2. CASE run[r] = "opened"
    BY <2>2 DEF Moves, Claim, Check, Leave, CallbackReturns, Resume, CloseStream,
           FinalizeStream, DropStream, Release, CoordKnown, TypeOK
  <2> QED
    BY <2>1, <2>2
<1>3. OneCoordinator'
  BY ClaimMoves
<1>4. run'[r] \notin {"unused", "opened", "entering", "report"}
  BY DEF Moves, Claim, Check, Leave, CallbackReturns, Resume, CloseStream,
         FinalizeStream, DropStream, Release, TypeOK
<1>5. \A f \in Future : fut[f] # "none" /\ f[1] = r =>
          run[r] \notin {"opened", "entering"}
  BY DEF Places, NothingBefore
<1>6. \A f \in Future : fut[f] \in {"queued", "running"} /\ f[1] = r =>
          \/ run[r] = "release" /\ run'[r] = "ended"
          \/ /\ run[r] # "release"
             /\ run'[r] \in {"resume", "loop", "callback", "suspended", "cleanup"}
  <2> SUFFICES ASSUME NEW f \in Future, fut[f] \in {"queued", "running"}, f[1] = r
               PROVE  \/ run[r] = "release" /\ run'[r] = "ended"
                      \/ /\ run[r] # "release"
                         /\ run'[r] \in {"resume", "loop", "callback", "suspended",
                                         "cleanup"}
    OBVIOUS
  <2>1. run[r] \notin {"opened", "entering"}
    BY <1>5
  <2>2. f \in Of(r)
    BY DEF Of
  <2> QED
    BY <2>1, <2>2 DEF Moves, Claim, Check, Leave, CallbackReturns, Resume,
       CloseStream, FinalizeStream, DropStream, Release, TypeOK
<1>7. Places'
  <2>1. UNCHANGED <<fut, at, in_flight, abandoned, leaked>>
    BY MovesFrame DEF tasks, window
  <2>2. \A f \in Future : f[1] \in Run
    BY FutureRun
  <2>3. \A q \in Run : q # r => run'[q] = run[q]
    BY MovesFrame DEF TypeOK
  <2>4. NothingBefore'
    BY <1>4, <2>1, <2>2, <2>3 DEF Places, NothingBefore
  <2>5. QueuedPlace'
    BY <1>6, <2>1, <2>2, <2>3 DEF Places, QueuedPlace
  <2>6. RunningPlace'
    BY <1>6, <2>1, <2>2, <2>3, MovesFrame DEF Places, RunningPlace
  <2> QED
    BY <2>1, <2>4, <2>5, <2>6 DEF Places, InFlightOK, StartedOK
<1>8. CloseOnce' /\ AwaitedCanFinish'
  BY MovesFrame DEF CloseOnce, AwaitedCanFinish, fields, tasks, shutdown
<1>9. LeaksKnown'
  <2>1. UNCHANGED <<fut, leaked, awaited>>
    BY MovesFrame DEF tasks, shutdown
  <2>2. \A q \in Run : q # r => run'[q] = run[q]
    BY MovesFrame DEF TypeOK
  <2> SUFFICES ASSUME NEW f \in Future, fut[f] = "running",
                      run'[f[1]] \in {"release", "ended"}
               PROVE  f \in leaked \/ \E t \in Thread : f \in awaited[t]
    BY <2>1 DEF LeaksKnown
  <2>3. run[f[1]] \in {"release", "ended"}
    BY <1>6, <2>2, FutureRun
  <2> QED
    BY <2>3 DEF LeaksKnown
<1> QED
  BY <1>1, <1>2, <1>3, <1>7, <1>8, <1>9
-----------------------------------------------------------------------------
(* Entering a run. *)

Enters(t, r) == EnterMap(t, r) \/ OpenStream(t, r) \/ EnterStream(t, r)

LEMMA EntersInv ==
    ASSUME IndInv, NEW t \in Thread, NEW r \in Run, Enters(t, r)
    PROVE  IndInv'
<1> USE DEF IndInv
<1>1. /\ UNCHANGED <<fields, claim, leaked, window, tasks, shutdown>>
      /\ run[r] \in {"unused", "opened"}
      /\ \E s \in {"opened", "entering", "ended"} : run' = [run EXCEPT ![r] = s]
      /\ \/ coord' = coord /\ run' = [run EXCEPT ![r] = "opened"]
         \/ coord' = [coord EXCEPT ![r] = t]
         \/ coord' = [coord EXCEPT ![r] = Nothing] /\ run' = [run EXCEPT ![r] = "ended"]
      /\ kind' \in [Run -> {"map", "stream", "finalized"}]
  BY DEF Enters, EnterMap, OpenStream, EnterStream, TypeOK
<1>2. TypeOK'
  <2>1. run' \in [Run -> RunState]
    BY <1>1 DEF TypeOK, RunState
  <2>2. coord' \in [Run -> Thread \union {Nothing}]
    BY <1>1 DEF TypeOK
  <2> QED
    BY <1>1, <2>1, <2>2 DEF TypeOK, fields, claim, window, tasks, shutdown
<1>3. CoordKnown'
  BY <1>1 DEF CoordKnown, TypeOK
<1>4. OneCoordinator'
  <2>1. r \notin Claimed /\ Claimed' = Claimed
    BY <1>1 DEF Claimed, TypeOK
  <2>2. \A q \in Run : q # r => coord'[q] = coord[q]
    BY <1>1 DEF TypeOK
  <2>3. Claimed \subseteq Run
    BY DEF Claimed
  <2> QED
    BY <1>1, <2>1, <2>2, <2>3 DEF OneCoordinator, claim
<1>5. \A f \in Future : f[1] \in Run /\ (f[1] = r => fut[f] = "none")
  BY <1>1, FutureRun DEF Places, NothingBefore
<1>6. \A q \in Run : q # r => run'[q] = run[q]
  BY <1>1 DEF TypeOK
<1>7. Places'
  BY <1>1, <1>5, <1>6 DEF Places, NothingBefore, QueuedPlace, RunningPlace,
     InFlightOK, StartedOK, window, tasks
<1>8. CloseOnce' /\ AwaitedCanFinish'
  BY <1>1 DEF CloseOnce, AwaitedCanFinish, fields, tasks, shutdown
<1>9. LeaksKnown'
  BY <1>1, <1>5, <1>6 DEF LeaksKnown, tasks, shutdown
<1> QED
  BY <1>2, <1>3, <1>4, <1>7, <1>8, <1>9

-----------------------------------------------------------------------------
(* Steps of a run on its futures, inside the scheduler. *)

LEMMA FutureFrame ==
    ASSUME TypeOK, NEW f \in Future, FutureStep(f)
    PROVE  /\ UNCHANGED <<fields, claim, leaked, kind, coord, at, shutdown>>
           /\ f[1] \in Run /\ run[f[1]] = "loop"
           /\ \E s \in {"loop", "callback", "suspended", "cleanup"} :
                 run' = [run EXCEPT ![f[1]] = s]
<1>1. f[1] \in Run
  BY FutureRun
<1> QED
  BY <1>1 DEF FutureStep, Submit, Deliver, TimeOut, FreeSlot, Completes, HandOver,
     TypeOK, runs, window, tasks

LEMMA FutureInv ==
    ASSUME IndInv, NEW f \in Future, FutureStep(f)
    PROVE  IndInv'
<1> USE DEF IndInv
<1> DEFINE r == f[1]
<1>1. /\ UNCHANGED <<fields, claim, leaked, kind, coord, at, shutdown>>
      /\ r \in Run /\ run[r] = "loop"
      /\ run'[r] \in {"loop", "callback", "suspended", "cleanup"}
      /\ \A q \in Run : q # r => run'[q] = run[q]
      /\ run' \in [Run -> RunState]
  BY FutureFrame DEF TypeOK, RunState
<1>2. \/ /\ fut[f] = "none" /\ fut' = [fut EXCEPT ![f] = "queued"]
         /\ in_flight' = in_flight \union {f} /\ UNCHANGED abandoned
      \/ UNCHANGED <<fut, in_flight, abandoned>>
      \/ /\ fut[f] = "done" /\ UNCHANGED fut
         /\ in_flight' = in_flight \ {f} /\ UNCHANGED abandoned
      \/ /\ fut[f] = "running" /\ UNCHANGED fut
         /\ in_flight' = in_flight \ {f} /\ abandoned' = abandoned \union {f}
      \/ /\ fut[f] = "done" /\ UNCHANGED <<fut, in_flight>>
         /\ abandoned' = abandoned \ {f}
  BY DEF FutureStep, Submit, Deliver, TimeOut, FreeSlot, tasks
<1> HIDE DEF r
<1>3. TypeOK'
  <2>1. retry_wait' \subseteq Future
    BY DEF FutureStep, Submit, Deliver, TimeOut, FreeSlot, Completes, Park, TypeOK
  <2> QED
    BY <1>1, <1>2, <2>1 DEF TypeOK, FutureState, fields, claim, shutdown
<1>4. CoordKnown'
  BY <1>1 DEF CoordKnown
<1>5. OneCoordinator'
  <2>1. Claimed' = Claimed
    BY <1>1 DEF Claimed
  <2> QED
    BY <1>1, <2>1 DEF OneCoordinator, claim
<1>6. \A g \in Future : g[1] \in Run
  BY FutureRun
<1>7. \A g \in Future : \/ fut'[g] = fut[g]
                        \/ g = f /\ fut[g] = "none" /\ fut'[g] = "queued"
  BY <1>2 DEF TypeOK
<1>8. NothingBefore'
  BY <1>1, <1>6, <1>7 DEF Places, NothingBefore, r
<1>9. QueuedPlace'
  BY <1>1, <1>2, <1>6, <1>7 DEF Places, QueuedPlace, r
<1>10. RunningPlace'
  BY <1>1, <1>2, <1>6, <1>7 DEF Places, RunningPlace, r
<1>11. InFlightOK' /\ StartedOK'
  <2>1. \A g \in Future : fut[g] # "none" => fut'[g] = fut[g]
    BY <1>7
  <2>2. \A w \in Worker : at[w] # Nothing => at[w] \in Future
    BY DEF TypeOK
  <2>3. in_flight \subseteq Future /\ abandoned \subseteq Future /\ leaked \subseteq Future
    BY DEF TypeOK
  <2>4. InFlightOK'
    BY <1>2, <2>1, <2>3 DEF Places, InFlightOK, TypeOK
  <2> QED
    BY <1>1, <1>2, <2>1, <2>2, <2>3, <2>4 DEF Places, StartedOK
<1>12. CloseOnce'
  BY <1>1 DEF CloseOnce, fields, shutdown
<1>13. LeaksKnown'
  BY <1>1, <1>6, <1>7 DEF LeaksKnown, shutdown
<1>14. AwaitedCanFinish'
  BY <1>1, <1>7 DEF AwaitedCanFinish, TypeOK, shutdown
<1> QED
  BY <1>3, <1>4, <1>5, <1>8, <1>9, <1>10, <1>11, <1>12, <1>13, <1>14 DEF Places

-----------------------------------------------------------------------------
(* Leaving a run. *)

LEMMA WithdrawInv ==
    ASSUME IndInv, NEW r \in Run, Withdraw(r)
    PROVE  IndInv'
<1> USE DEF IndInv
<1>1. /\ UNCHANGED <<fields, claim, leaked, kind, coord, window, at, shutdown>>
      /\ run[r] = "cleanup" /\ run'[r] = "report"
      /\ \A q \in Run : q # r => run'[q] = run[q]
      /\ run' \in [Run -> RunState]
  BY DEF Withdraw, TypeOK, RunState
<1>2. /\ fut' \in [Future -> FutureState]
      /\ \A f \in Future :
            \/ fut[f] # "queued" /\ fut'[f] = fut[f]
            \/ fut[f] = "queued" /\ f[1] # r /\ fut'[f] = fut[f]
            \/ fut[f] = "queued" /\ f[1] = r /\ fut'[f] = "cancelled"
  BY DEF Withdraw, TypeOK, FutureState, Of, Places, QueuedPlace
<1>3. TypeOK'
  BY <1>1, <1>2 DEF TypeOK, fields, claim, window, shutdown
<1>4. CoordKnown'
  BY <1>1 DEF CoordKnown
<1>5. OneCoordinator'
  <2>1. Claimed' = Claimed
    BY <1>1 DEF Claimed
  <2> QED
    BY <1>1, <2>1 DEF OneCoordinator, claim
<1>6. \A f \in Future : f[1] \in Run
  BY FutureRun
<1>7. NothingBefore' /\ QueuedPlace'
  BY <1>1, <1>2, <1>6 DEF Places, NothingBefore, QueuedPlace, window
<1>8. RunningPlace'
  BY <1>1, <1>2, <1>6 DEF Places, RunningPlace, window
<1>9. InFlightOK' /\ StartedOK'
  BY <1>1, <1>2 DEF Places, InFlightOK, StartedOK, TypeOK, window
<1>10. CloseOnce'
  BY <1>1 DEF CloseOnce, fields, shutdown
<1>11. LeaksKnown' /\ AwaitedCanFinish'
  BY <1>1, <1>2, <1>6 DEF LeaksKnown, AwaitedCanFinish, TypeOK, shutdown
<1> QED
  BY <1>3, <1>4, <1>5, <1>7, <1>8, <1>9, <1>10, <1>11 DEF Places

\* What a run reports was started and has not been withdrawn.
LEMMA LeaksStarted ==
    ASSUME IndInv, NEW r \in Run, run[r] = "report", NEW f \in Leaks(r)
    PROVE  f \in Future /\ fut[f] \in {"running", "done"}
<1>1. f \in Future
  BY DEF Leaks, Of
<1>2. CASE f \in abandoned
  BY <1>1, <1>2 DEF IndInv, Places, StartedOK
<1>3. CASE f \in in_flight /\ f[1] = r /\ fut[f] \notin {"cancelled", "drained"}
  <2>1. fut[f] # "none" /\ fut[f] # "queued"
    BY <1>1, <1>3 DEF IndInv, Places, InFlightOK, QueuedPlace
  <2> QED
    BY <1>1, <1>3, <2>1 DEF IndInv, TypeOK, FutureState
<1> QED
  BY <1>1, <1>2, <1>3 DEF Leaks, Of

LEMMA RecordLeaksInv ==
    ASSUME IndInv, NEW r \in Run, RecordLeaks(r)
    PROVE  IndInv'
<1> USE DEF IndInv
<1>1. /\ UNCHANGED <<fields, claim, kind, coord, fut, at, shutdown>>
      /\ run[r] = "report" /\ run'[r] = "release"
      /\ \A q \in Run : q # r => run'[q] = run[q]
      /\ run' \in [Run -> RunState]
  BY DEF RecordLeaks, TypeOK, RunState, tasks
<1>2. /\ leaked' = LeaksBefore \union Leaks(r)
      /\ in_flight' = {f \in in_flight : f[1] # r}
      /\ abandoned' = {f \in abandoned : f[1] # r}
      /\ retry_wait' \subseteq retry_wait
  BY DEF RecordLeaks, Of, TypeOK
<1>3. \A f \in Leaks(r) : f \in Future /\ fut[f] \in {"running", "done"}
  BY <1>1, LeaksStarted
<1>4. TypeOK'
  <2>1. leaked' \subseteq Future
    BY <1>2, <1>3 DEF LeaksBefore, TypeOK
  <2> QED
    BY <1>1, <1>2, <2>1 DEF TypeOK, fields, claim, shutdown
<1>5. CoordKnown'
  BY <1>1 DEF CoordKnown
<1>6. OneCoordinator'
  <2>1. Claimed' = Claimed
    BY <1>1 DEF Claimed
  <2> QED
    BY <1>1, <2>1 DEF OneCoordinator, claim
<1>7. \A f \in Future : f[1] \in Run
  BY FutureRun
<1>8. NothingBefore' /\ QueuedPlace' /\ RunningPlace'
  BY <1>1, <1>2, <1>7 DEF Places, NothingBefore, QueuedPlace, RunningPlace
<1>9. InFlightOK' /\ StartedOK'
  BY <1>1, <1>2, <1>3 DEF Places, InFlightOK, StartedOK, LeaksBefore
<1>10. CloseOnce' /\ AwaitedCanFinish'
  BY <1>1 DEF CloseOnce, AwaitedCanFinish, fields, shutdown
<1>11. LeaksKnown'
  <2> SUFFICES ASSUME NEW f \in Future, fut[f] = "running",
                      run'[f[1]] \in {"release", "ended"}
               PROVE  f \in leaked' \/ \E t \in Thread : f \in awaited[t]
    BY <1>1 DEF LeaksKnown, shutdown
  <2>1. CASE f[1] = r
    <3>1. f \in in_flight \union abandoned
      BY <1>1, <1>7, <2>1 DEF Places, RunningPlace
    <3> QED
      BY <1>2, <2>1, <3>1 DEF Leaks, Of
  <2>2. CASE f[1] # r
    <3>1. f \in leaked \/ \E t \in Thread : f \in awaited[t]
      BY <1>1, <1>7, <2>2 DEF LeaksKnown
    <3> QED
      BY <1>2, <3>1 DEF LeaksBefore
  <2> QED
    BY <2>1, <2>2
<1> QED
  BY <1>4, <1>5, <1>6, <1>8, <1>9, <1>10, <1>11 DEF Places

-----------------------------------------------------------------------------
(* Worker threads. *)

\* A step of a worker leaves the runs, the claim and close() alone, and moves
\* one future on.
LEMMA TaskInv ==
    ASSUME IndInv, NEW w \in Worker,
           (\E f \in Future : StartTask(w, f)) \/ EndTask(w)
    PROVE  IndInv'
<1> USE DEF IndInv
<1>1. UNCHANGED <<fields, claim, leaked, runs, window, shutdown>>
  BY DEF StartTask, EndTask
<1>2. PICK f \in Future :
         /\ \/ fut[f] = "queued" /\ fut' = [fut EXCEPT ![f] = "running"]
            \/ fut[f] \notin {"none", "queued"} /\ fut' = [fut EXCEPT ![f] = "done"]
         /\ at' = [at EXCEPT ![w] = f] \/ at' = [at EXCEPT ![w] = Nothing]
         /\ at' = [at EXCEPT ![w] = f] => fut' = [fut EXCEPT ![f] = "running"]
  <2>1. CASE \E g \in Future : StartTask(w, g)
    BY <2>1 DEF StartTask
  <2>2. CASE EndTask(w)
    <3>1. at[w] \in Future /\ fut[at[w]] \notin {"none", "queued"}
      BY <2>2 DEF EndTask, TypeOK, Places, StartedOK
    <3>2. at' # [at EXCEPT ![w] = at[w]]
      BY <2>2, <3>1, PoolAssumption DEF EndTask, TypeOK
    <3> QED
      BY <2>2, <3>1, <3>2 DEF EndTask
  <2> QED
    BY <2>1, <2>2
<1>3. \A g \in Future :
          \/ fut'[g] = fut[g]
          \/ g = f /\ fut[g] = "queued" /\ fut'[g] = "running"
          \/ g = f /\ fut[g] \notin {"none", "queued"} /\ fut'[g] = "done"
  BY <1>2 DEF TypeOK
<1>4. TypeOK'
  <2>1. fut' \in [Future -> FutureState]
    BY <1>2 DEF TypeOK, FutureState
  <2>2. at' \in [Worker -> Future \union {Nothing}]
    BY <1>2 DEF TypeOK
  <2> QED
    BY <1>1, <2>1, <2>2 DEF TypeOK, fields, claim, runs, window, shutdown
<1>5. CoordKnown' /\ OneCoordinator'
  BY <1>1 DEF CoordKnown, OneCoordinator, Claimed, claim, runs
<1>6. NothingBefore' /\ QueuedPlace'
  BY <1>1, <1>3 DEF Places, NothingBefore, QueuedPlace, runs, window
<1>7. RunningPlace'
  BY <1>1, <1>3 DEF Places, RunningPlace, QueuedPlace, runs, window
<1>8. InFlightOK' /\ StartedOK'
  <2>1. \A v \in Worker : at'[v] # Nothing => fut'[at'[v]] \notin {"none", "queued"}
    <3> SUFFICES ASSUME NEW v \in Worker, at'[v] # Nothing
                 PROVE  fut'[at'[v]] \notin {"none", "queued"}
      OBVIOUS
    <3>1. CASE at'[v] = at[v]
      <4>1. at[v] \in Future /\ fut[at[v]] \notin {"none", "queued"}
        BY <3>1 DEF TypeOK, Places, StartedOK
      <4> QED
        BY <1>3, <3>1, <4>1
    <3>2. CASE at'[v] # at[v]
      <4>1. v = w /\ at' = [at EXCEPT ![w] = f] /\ at'[v] = f
        BY <1>2, <3>2 DEF TypeOK
      <4> QED
        BY <1>2, <4>1 DEF TypeOK
    <3> QED
      BY <3>1, <3>2
  <2>2. in_flight \subseteq Future /\ abandoned \subseteq Future /\ leaked \subseteq Future
    BY DEF TypeOK
  <2> QED
    BY <1>1, <1>3, <2>1, <2>2 DEF Places, InFlightOK, StartedOK, window
<1>9. CloseOnce'
  BY <1>1 DEF CloseOnce, fields, shutdown
<1>10. LeaksKnown'
  BY <1>1, <1>3 DEF LeaksKnown, Places, QueuedPlace, runs, shutdown
<1>11. AwaitedCanFinish'
  BY <1>1, <1>3 DEF AwaitedCanFinish, TypeOK, shutdown
<1> QED
  BY <1>4, <1>5, <1>6, <1>7, <1>8, <1>9, <1>10, <1>11 DEF Places

-----------------------------------------------------------------------------
(* close(). *)

\* A step of close() leaves the runs and the claim alone; only the shutdown
\* of the executor touches a future, and only one that is queued.
LEMMA CloseFrame ==
    ASSUME TypeOK, NEW t \in Thread, Close(t)
    PROVE  /\ UNCHANGED <<claim, runs, window, at>>
           /\ fut' \in [Future -> FutureState]
           /\ \A f \in Future : \/ fut'[f] = fut[f]
                                \/ fut[f] = "queued" /\ fut'[f] = "drained"
           /\ leaked' \in {leaked, {}}
<1> USE DEF TypeOK, tasks, shutdown
<1>1. CASE CloseCheck(t) \/ CloseTest(t)
  BY <1>1 DEF CloseCheck, CloseTest
<1>2. CASE CloseSwap(t) \/ CloseCrash(t) \/ CloseForget(t)
  BY <1>2 DEF CloseSwap, CloseCrash, CloseForget
<1>3. CASE CloseDrain(t)
  BY <1>3 DEF CloseDrain, FutureState
<1>4. CASE CloseJoin(t) \/ CloseAwait(t)
  BY <1>4 DEF CloseJoin, CloseAwait
<1>5. CASE CloseCollect(t)
  BY <1>5 DEF CloseCollect
<1> QED
  BY <1>1, <1>2, <1>3, <1>4, <1>5 DEF Close

\* Its own fields keep their types.
LEMMA CloseTypes ==
    ASSUME TypeOK, NEW t \in Thread, Close(t)
    PROVE  TypeOK'
<1>1. run_owner' = run_owner /\ run_depth' = run_depth /\ run' = run /\ kind' = kind
      /\ coord' = coord /\ in_flight' = in_flight /\ retry_wait' = retry_wait
      /\ abandoned' = abandoned /\ at' = at
      /\ fut' \in [Future -> FutureState] /\ leaked' \in {leaked, {}}
  BY CloseFrame DEF claim, runs, window
<1>2. executor' \in BOOLEAN /\ scheduler' \in BOOLEAN /\ open' \in BOOLEAN
  BY DEF TypeOK, Close, CloseCheck, CloseTest, CloseSwap, CloseCrash, CloseForget,
     CloseDrain, CloseJoin, CloseCollect, CloseAwait, fields
<1>3. closing' \in [Thread -> {"no", "test", "swap", "crash", "shut", "drain",
                               "join", "collect", "await"}]
  BY DEF TypeOK, Close, CloseCheck, CloseTest, CloseSwap, CloseCrash, CloseForget,
     CloseDrain, CloseJoin, CloseCollect, CloseAwait, At
<1>4. awaited' \in [Thread -> SUBSET Future]
  BY DEF TypeOK, Close, CloseCheck, CloseTest, CloseSwap, CloseCrash, CloseForget,
     CloseDrain, CloseJoin, CloseCollect, CloseAwait
<1>5. /\ drainer' \in Thread \union {Nothing}
      /\ report' \subseteq {"gone", "joined", "closed", "ShutdownTimeout"}
  BY DEF TypeOK, Close, CloseCheck, CloseTest, CloseSwap, CloseCrash, CloseForget,
     CloseDrain, CloseJoin, CloseCollect, CloseAwait
<1> QED
  BY <1>1, <1>2, <1>3, <1>4, <1>5 DEF TypeOK

\* One close() gets the executor; it starts with nothing to await, and takes
\* what is leaked once.
LEMMA CloseAwaited ==
    ASSUME IndInv, NEW t \in Thread, Close(t)
    PROVE  /\ CloseOnce'
           /\ \/ UNCHANGED <<leaked, awaited>>
              \/ /\ leaked' = {} /\ awaited[t] = {} /\ UNCHANGED fut
                 /\ awaited' = [awaited EXCEPT ![t] = {f \in leaked : fut[f] # "done"}]
<1> USE DEF IndInv, TypeOK
<1>1. CASE CloseCheck(t) \/ CloseTest(t)
  BY <1>1 DEF CloseCheck, CloseTest, At, CloseOnce, fields
<1>2. CASE CloseSwap(t)
  BY <1>2 DEF CloseSwap, At, CloseOnce
<1>3. CASE CloseCrash(t) \/ CloseForget(t)
  BY <1>3 DEF CloseCrash, CloseForget, At, CloseOnce
<1>4. CASE CloseDrain(t)
  BY <1>4 DEF CloseDrain, At, CloseOnce
<1>5. CASE CloseJoin(t) \/ CloseAwait(t)
  BY <1>5 DEF CloseJoin, CloseAwait, At, CloseOnce, fields
<1>6. CASE CloseCollect(t)
  <2>1. closing[t] = "collect" /\ closing' = [closing EXCEPT ![t] = "await"]
    BY <1>6 DEF CloseCollect, At
  <2>2. executor = FALSE /\ executor' = executor /\ awaited[t] = {}
    BY <1>6, <2>1 DEF CloseOnce, CloseCollect, fields
  <2>3. \A u \in Thread : u # t => awaited'[u] = awaited[u] /\ closing'[u] = closing[u]
    BY <1>6, <2>1 DEF CloseCollect
  <2>4. CloseOnce'
    BY <2>1, <2>2, <2>3 DEF CloseOnce
  <2> QED
    BY <1>6, <2>2, <2>4 DEF CloseCollect, tasks
<1> QED
  BY <1>1, <1>2, <1>3, <1>4, <1>5, <1>6 DEF Close

LEMMA CloseInv ==
    ASSUME IndInv, NEW t \in Thread, Close(t)
    PROVE  IndInv'
<1> USE DEF IndInv
<1>1. TypeOK'
  BY CloseTypes
<1>2. /\ run' = run /\ coord' = coord /\ run_owner' = run_owner
      /\ run_depth' = run_depth /\ in_flight' = in_flight
      /\ abandoned' = abandoned /\ at' = at
      /\ leaked' \in {leaked, {}}
  BY CloseFrame DEF runs, claim, window
<1>3. \A f \in Future : fut'[f] = fut[f] \/ (fut[f] = "queued" /\ fut'[f] = "drained")
  BY CloseFrame
<1>4. CoordKnown' /\ OneCoordinator'
  BY <1>2 DEF CoordKnown, OneCoordinator, Claimed
<1>5. NothingBefore' /\ QueuedPlace' /\ RunningPlace'
  BY <1>2, <1>3 DEF Places, NothingBefore, QueuedPlace, RunningPlace
<1>6. InFlightOK' /\ StartedOK'
  <2>1. \A w \in Worker : at[w] # Nothing => at[w] \in Future
    BY DEF TypeOK
  <2>2. in_flight \subseteq Future /\ abandoned \subseteq Future /\ leaked \subseteq Future
    BY DEF TypeOK
  <2>3. \A f \in Future : fut[f] # "none" => fut'[f] # "none"
    BY <1>3
  <2>4. \A f \in Future : fut[f] \in {"running", "done"} => fut'[f] = fut[f]
    BY <1>3
  <2>5. \A f \in Future : fut[f] \notin {"none", "queued"} => fut'[f] = fut[f]
    BY <1>3
  <2> QED
    BY <1>2, <2>1, <2>2, <2>3, <2>4, <2>5 DEF Places, InFlightOK, StartedOK
<1>7. CloseOnce'
  BY CloseAwaited
<1>8. LeaksKnown'
  <2> SUFFICES ASSUME NEW f \in Future, fut'[f] = "running",
                      run[f[1]] \in {"release", "ended"}
               PROVE  f \in leaked' \/ \E u \in Thread : f \in awaited'[u]
    BY <1>2 DEF LeaksKnown
  <2>1. fut[f] = "running"
    BY <1>3
  <2>2. f \in leaked \/ \E u \in Thread : f \in awaited[u]
    BY <2>1 DEF LeaksKnown
  <2>3. CASE UNCHANGED <<leaked, awaited>>
    BY <2>2, <2>3
  <2>4. CASE /\ awaited[t] = {}
             /\ awaited' = [awaited EXCEPT ![t] = {g \in leaked : fut[g] # "done"}]
    <3>1. CASE f \in leaked
      BY <2>1, <2>4, <3>1 DEF TypeOK
    <3>2. CASE \E u \in Thread : f \in awaited[u]
      <4>1. PICK u \in Thread : f \in awaited[u]
        BY <3>2
      <4>2. u # t
        BY <2>4, <4>1
      <4> QED
        BY <2>4, <4>1, <4>2 DEF TypeOK
    <3> QED
      BY <2>2, <3>1, <3>2
  <2> QED
    BY <2>3, <2>4, CloseAwaited
<1>9. AwaitedCanFinish'
  <2> SUFFICES ASSUME NEW u \in Thread, NEW f \in awaited'[u]
               PROVE  fut'[f] \in {"running", "done"}
    BY DEF AwaitedCanFinish
  <2>1. CASE f \in awaited[u]
    <3>1. f \in Future /\ fut[f] \in {"running", "done"}
      BY <2>1 DEF AwaitedCanFinish, TypeOK
    <3> QED
      BY <1>3, <3>1
  <2>2. CASE f \in leaked
    <3>1. f \in Future /\ fut[f] \in {"running", "done"}
      BY <2>2 DEF Places, StartedOK, TypeOK
    <3> QED
      BY <1>3, <3>1
  <2>3. f \in awaited[u] \/ f \in leaked
    <3>1. CASE awaited' = awaited
      BY <3>1
    <3>2. CASE awaited' = [awaited EXCEPT ![t] = {g \in leaked : fut[g] # "done"}]
      BY <3>2 DEF TypeOK
    <3> QED
      BY <3>1, <3>2, CloseAwaited
  <2> QED
    BY <2>1, <2>2, <2>3
<1> QED
  BY <1>1, <1>4, <1>5, <1>6, <1>7, <1>8, <1>9 DEF Places

-----------------------------------------------------------------------------
(* Every step. *)

LEMMA StutterInv == IndInv /\ UNCHANGED vars => IndInv'
<1> SUFFICES ASSUME IndInv, UNCHANGED vars PROVE IndInv'
  OBVIOUS
<1> USE DEF IndInv, vars, fields, claim, runs, window, tasks, shutdown
<1>1. TypeOK' /\ CoordKnown' /\ OneCoordinator'
  BY DEF TypeOK, CoordKnown, OneCoordinator, Claimed
<1>2. Places'
  BY DEF Places, NothingBefore, QueuedPlace, RunningPlace, InFlightOK, StartedOK
<1>3. CloseOnce' /\ LeaksKnown' /\ AwaitedCanFinish'
  BY DEF CloseOnce, LeaksKnown, AwaitedCanFinish
<1> QED
  BY <1>1, <1>2, <1>3

LEMMA StepInv == IndInv /\ [Next]_vars => IndInv'
<1> SUFFICES ASSUME IndInv, [Next]_vars PROVE IndInv'
  OBVIOUS
<1>1. CASE \E t \in Thread, r \in Run : Enters(t, r)
  BY <1>1, EntersInv
<1>2. CASE \E r \in Run : RunStep(r)
  <2>1. PICK r \in Run : RunStep(r)
    BY <1>2
  <2>2. Moves(r) \/ Withdraw(r) \/ RecordLeaks(r)
    BY <2>1 DEF RunStep, Moves
  <2> QED
    BY <2>2, MovesInv, WithdrawInv, RecordLeaksInv
<1>3. CASE \E f \in Future : FutureStep(f)
  BY <1>3, FutureInv
<1>4. CASE \E w \in Worker : (\E f \in Future : StartTask(w, f)) \/ EndTask(w)
  BY <1>4, TaskInv
<1>5. CASE \E t \in Thread : Close(t)
  BY <1>5, CloseInv
<1>6. CASE UNCHANGED vars
  BY <1>6, StutterInv
<1>7. Client \subseteq Thread
  BY DEF Thread
<1> QED
  BY <1>1, <1>2, <1>3, <1>4, <1>5, <1>6, <1>7 DEF Next, Enters

\* Every behaviour of the pool keeps the inductive invariant.
THEOREM Invariance == Spec => []IndInv
<1>1. Init => IndInv
  BY InitInv
<1>2. IndInv /\ [Next]_vars => IndInv'
  BY StepInv
<1> QED
  BY <1>1, <1>2, PTL DEF Spec

\* Every variable of the pool keeps its type.
THEOREM TypeCorrect == Spec => []TypeOK
<1>1. IndInv => TypeOK
  BY DEF IndInv
<1> QED
  BY <1>1, Invariance, PTL

\* All runs inside _active_run belong to the recorded owner, and the depth
\* counts them, for any number of threads, runs and nested runs.
THEOREM ClaimIsExclusive == Spec => []OneCoordinator
<1>1. IndInv => OneCoordinator
  BY DEF IndInv
<1> QED
  BY <1>1, Invariance, PTL

\* No execution that outlives its run is lost sight of (_record_leaks).
THEOREM LeaksAreKnown == Spec => []LeaksKnown
<1>1. IndInv => LeaksKnown
  BY DEF IndInv
<1> QED
  BY <1>1, Invariance, PTL

\* close() waits only for futures that a worker will complete.
THEOREM AwaitedFinish == Spec => []AwaitedCanFinish
<1>1. IndInv => AwaitedCanFinish
  BY DEF IndInv
<1> QED
  BY <1>1, Invariance, PTL

-----------------------------------------------------------------------------
(* A thread never waits on what it drained itself, unless a callback of    *)
(* map() closes the pool.                                                  *)

\* A thread in close() is in no batch but suspended streams, and streams that
\* another thread finalizes.
NoOwnBatch == \A t \in Thread : closing[t] # "no" => Outside(t)

\* A stream that is finalized only goes on to its end.
FinalizedOK ==
    \A r \in Run :
        kind[r] = "finalized" => run[r] \in {"cleanup", "report", "release"}

\* The scheduler is forgotten before the executor is drained.
Forgotten ==
    /\ drainer # Nothing => ~scheduler
    /\ \A t \in Thread : closing[t] = "drain" => ~scheduler

NotInside ==
    \A f \in Future :
        run[f[1]] \in {"loop", "callback"} /\ fut[f] = "drained" =>
            coord[f[1]] # drainer

DrainInv == NoOwnBatch /\ FinalizedOK /\ Forgotten /\ NotInside

LEMMA DrainInit == Init => DrainInv
  BY PoolAssumption DEF Init, DrainInv, NoOwnBatch, Outside, FinalizedOK, Forgotten, NotInside

\* The scheduler is never remembered, and only close() changes its fields.
LEMMA ForgottenStep ==
    ASSUME IndInv, Forgotten, Next
    PROVE  Forgotten'
<1> USE DEF IndInv
<1>1. CASE UNCHANGED <<fields, shutdown>>
  BY <1>1 DEF Forgotten, fields, shutdown
<1>2. CASE \E t \in Client : Close(t)
  <2>1. PICK t \in Thread : Close(t)
    BY <1>2 DEF Thread
  <2>2. CASE CloseCheck(t) \/ CloseTest(t)
    BY <2>2 DEF CloseCheck, CloseTest, At, Forgotten, TypeOK, fields
  <2>3. CASE CloseSwap(t) \/ CloseCrash(t) \/ CloseForget(t)
    BY <2>3 DEF CloseSwap, CloseCrash, CloseForget, At, Forgotten, TypeOK
  <2>4. CASE CloseDrain(t)
    BY <2>4 DEF CloseDrain, At, Forgotten, TypeOK
  <2>5. CASE CloseJoin(t) \/ CloseCollect(t) \/ CloseAwait(t)
    BY <2>5 DEF CloseJoin, CloseCollect, CloseAwait, At, Forgotten, TypeOK, fields
  <2> QED
    BY <2>1, <2>2, <2>3, <2>4, <2>5 DEF Close
<1>3. CASE \E r \in Run : RunStep(r)
  <2>1. PICK r \in Run : Moves(r) \/ Withdraw(r) \/ RecordLeaks(r)
    BY <1>3 DEF RunStep, Moves
  <2>2. UNCHANGED <<fields, shutdown>>
    BY <2>1, MovesFrame DEF Withdraw, RecordLeaks
  <2> QED
    BY <1>1, <2>2
<1>4. CASE \E f \in Future : FutureStep(f)
  BY <1>1, <1>4, FutureFrame
<1> QED
  BY <1>1, <1>2, <1>3, <1>4 DEF Next, EnterMap, OpenStream, EnterStream, StartTask,
     EndTask

\* Nothing but its teardown moves a stream that another thread finalizes.
LEMMA FinalizedStep ==
    ASSUME IndInv, FinalizedOK, Next
    PROVE  FinalizedOK'
<1> USE DEF IndInv, TypeOK
<1>1. CASE \E t \in Thread, r \in Run : Enters(t, r)
  BY <1>1 DEF Enters, EnterMap, OpenStream, EnterStream, FinalizedOK
<1>2. CASE \E r \in Run : Moves(r)
  <2>1. PICK r \in Run : Moves(r)
    BY <1>2
  <2>2. \A q \in Run : q # r => run'[q] = run[q] /\ kind'[q] = kind[q]
    BY <2>1, MovesFrame
  <2>3. kind'[r] = "finalized" => run'[r] \in {"cleanup", "report", "release"}
    BY <2>1 DEF Moves, Claim, Check, Leave, CallbackReturns, Resume, CloseStream,
       FinalizeStream, DropStream, Release, FinalizedOK
  <2> QED
    BY <2>2, <2>3 DEF FinalizedOK
<1>3. CASE \E r \in Run : Withdraw(r) \/ RecordLeaks(r)
  BY <1>3 DEF Withdraw, RecordLeaks, FinalizedOK
<1>4. CASE \E f \in Future : FutureStep(f)
  <2>1. PICK f \in Future : FutureStep(f)
    BY <1>4
  <2> QED
    BY <2>1, FutureFrame DEF FinalizedOK
<1>5. CASE \E w \in Worker : (\E f \in Future : StartTask(w, f)) \/ EndTask(w)
  BY <1>5 DEF StartTask, EndTask, FinalizedOK, runs
<1>6. CASE \E t \in Client : Close(t)
  <2>1. PICK t \in Thread : Close(t)
    BY <1>6 DEF Thread
  <2> QED
    BY <2>1, CloseFrame DEF FinalizedOK, runs
<1>7. Client \subseteq Thread
  BY DEF Thread
<1> QED
  BY <1>1, <1>2, <1>3, <1>4, <1>5, <1>6, <1>7 DEF Next, Enters, RunStep, Moves

\* A step of a thread that is in close() moves none of its runs, unless
\* another thread finalizes one.
LEMMA NoOwnBatchStep ==
    ASSUME IndInv, NoOwnBatch, FinalizedOK, ~CallbacksClose, Next
    PROVE  NoOwnBatch'
<1> USE DEF IndInv
<1>1. CASE \E t \in Thread, r \in Run : Enters(t, r)
  <2>1. PICK t \in Thread, r \in Run : Enters(t, r)
    BY <1>1
  <2>2. /\ closing[t] = "no" /\ closing' = closing
        /\ \A q \in Run : q # r => /\ run'[q] = run[q] /\ coord'[q] = coord[q]
                                  /\ kind'[q] = kind[q]
        /\ \/ coord'[r] \in {t, Nothing}
           \/ coord'[r] = coord[r] /\ run[r] = "unused"
    BY <2>1 DEF Enters, EnterMap, OpenStream, EnterStream, UserCode, TypeOK, shutdown
  <2>3. CASE coord'[r] \in {t, Nothing}
    BY <2>2, <2>3, PoolAssumption DEF NoOwnBatch, Outside
  <2>4. CASE coord'[r] = coord[r] /\ run[r] = "unused"
    BY <2>2, <2>4 DEF NoOwnBatch, Outside, FinalizedOK
  <2> QED
    BY <2>2, <2>3, <2>4
<1>2. CASE \E r \in Run : RunStep(r)
  <2>1. PICK r \in Run : RunStep(r)
    BY <1>2
  <2>2. /\ closing' = closing
        /\ \A q \in Run : q # r => /\ run'[q] = run[q] /\ kind'[q] = kind[q]
                                  /\ coord'[q] = coord[q]
        /\ coord'[r] \in {coord[r], Nothing}
    <3>1. CASE Moves(r)
      BY <3>1, MovesFrame DEF TypeOK, shutdown
    <3>2. CASE Withdraw(r) \/ RecordLeaks(r)
      BY <3>2 DEF Withdraw, RecordLeaks, TypeOK, shutdown
    <3> QED
      BY <2>1, <3>1, <3>2 DEF RunStep, Moves
  <2>3. CASE run[r] # "suspended" /\ kind[r] # "finalized"
    BY <2>2, <2>3, PoolAssumption DEF NoOwnBatch, Outside
  <2>4. CASE kind[r] = "finalized"
    <3>1. Withdraw(r) \/ RecordLeaks(r) \/ Release(r)
      BY <2>1, <2>4 DEF FinalizedOK, RunStep, Claim, Check, Leave, CallbackReturns,
         Resume, CloseStream, FinalizeStream, DropStream
    <3>2. kind'[r] = "finalized" \/ coord'[r] = Nothing
      BY <2>4, <3>1 DEF Withdraw, RecordLeaks, Release, TypeOK
    <3> QED
      BY <2>2, <3>2, PoolAssumption DEF NoOwnBatch, Outside
  <2>5. CASE run[r] = "suspended" /\ ~FinalizeStream(r)
    <3>1. UserCode(coord[r])
      BY <2>1, <2>5 DEF RunStep, Claim, Check, Leave, CallbackReturns, Resume,
         CloseStream, DropStream, Withdraw, RecordLeaks, Release
    <3>2. closing[coord[r]] = "no"
      BY <3>1 DEF UserCode
    <3> QED
      BY <2>2, <3>2, PoolAssumption DEF NoOwnBatch, Outside
  <2>6. CASE FinalizeStream(r)
    <3>1. kind'[r] = "finalized"
      BY <2>6 DEF FinalizeStream, TypeOK
    <3> QED
      BY <2>2, <3>1, PoolAssumption DEF NoOwnBatch, Outside
  <2> QED
    BY <2>3, <2>4, <2>5, <2>6
<1>3. CASE \E f \in Future : FutureStep(f)
  <2>1. PICK f \in Future : FutureStep(f)
    BY <1>3
  <2>2. /\ closing' = closing /\ coord' = coord /\ kind' = kind /\ run[f[1]] = "loop"
        /\ f[1] \in Run /\ kind[f[1]] # "finalized"
        /\ \A q \in Run : q # f[1] => run'[q] = run[q]
    BY <2>1, FutureFrame DEF TypeOK, FinalizedOK, shutdown
  <2> QED
    BY <2>2 DEF NoOwnBatch, Outside
<1>4. CASE \E w \in Worker : (\E f \in Future : StartTask(w, f)) \/ EndTask(w)
  BY <1>4 DEF StartTask, EndTask, NoOwnBatch, Outside, runs, shutdown
<1>5. CASE \E t \in Client : Close(t)
  <2>1. PICK t \in Thread : Close(t)
    BY <1>5 DEF Thread
  <2>2. run' = run /\ coord' = coord /\ kind' = kind
    BY <2>1, CloseFrame DEF runs
  <2>3. \A u \in Thread : u # t => closing'[u] = closing[u]
    BY <2>1 DEF Close, CloseCheck, CloseTest, CloseSwap, CloseCrash, CloseForget,
       CloseDrain, CloseJoin, CloseCollect, CloseAwait, At, TypeOK
  <2>4. closing[t] # "no" \/ UserCode(t)
    BY <2>1 DEF Close, CloseCheck, CloseTest, CloseSwap, CloseCrash, CloseForget,
       CloseDrain, CloseJoin, CloseCollect, CloseAwait, At, InCallback
  <2>5. Outside(t)
    BY <2>4 DEF NoOwnBatch, UserCode
  <2> QED
    BY <2>2, <2>3, <2>5 DEF NoOwnBatch, Outside
<1>6. Client \subseteq Thread
  BY DEF Thread
<1> QED
  BY <1>1, <1>2, <1>3, <1>4, <1>5, <1>6 DEF Next, Enters

\* A run gets into the scheduler with no drained future: a new one has none,
\* and a stream looks at _scheduler first.
LEMMA NotInsideStep ==
    ASSUME IndInv, DrainInv, Next
    PROVE  NotInside'
<1> USE DEF IndInv
<1>1. \A f \in Future : f[1] \in Run
  BY FutureRun
<1>2. CASE \E t \in Thread, r \in Run : Enters(t, r)
  <2>1. PICK t \in Thread, r \in Run : Enters(t, r)
    BY <1>2
  <2>2. /\ fut' = fut /\ drainer' = drainer
        /\ \A q \in Run : q # r => run'[q] = run[q] /\ coord'[q] = coord[q]
        /\ run'[r] \notin {"loop", "callback"}
    BY <2>1 DEF Enters, EnterMap, OpenStream, EnterStream, TypeOK, shutdown, tasks
  <2> QED
    BY <1>1, <2>2 DEF DrainInv, NotInside
<1>3. CASE \E r \in Run : Moves(r)
  <2>1. PICK r \in Run : Moves(r)
    BY <1>3
  <2>2. /\ fut' = fut /\ drainer' = drainer
        /\ \A q \in Run : q # r => run'[q] = run[q] /\ coord'[q] = coord[q]
        /\ run'[r] # "ended" => coord' = coord
    BY <2>1, MovesFrame DEF TypeOK, shutdown, tasks
  <2>3. run'[r] \in {"loop", "callback"} =>
          \/ run[r] \in {"entering", "callback"}
          \/ run[r] = "resume" /\ scheduler
    BY <2>1 DEF Moves, Claim, Check, Leave, CallbackReturns, Resume, CloseStream,
       FinalizeStream, DropStream, Release, StillOpen, TypeOK
  <2> SUFFICES ASSUME NEW f \in Future, run'[f[1]] \in {"loop", "callback"},
                      fut[f] = "drained"
               PROVE  coord[f[1]] # drainer
    BY <1>1, <2>2 DEF NotInside
  <2>4. CASE run[f[1]] \in {"loop", "callback"}
    BY <2>4 DEF DrainInv, NotInside
  <2>5. CASE run[f[1]] = "entering"
    BY <2>5 DEF Places, NothingBefore
  <2>6. CASE run[f[1]] = "resume" /\ scheduler
    <3>1. drainer = Nothing
      BY <2>6 DEF DrainInv, Forgotten
    <3>2. coord[f[1]] \in Thread
      BY <1>1, <2>6 DEF CoordKnown
    <3> QED
      BY <3>1, <3>2, PoolAssumption
  <2>7. CASE f[1] # r
    BY <1>1, <2>2, <2>7 DEF DrainInv, NotInside
  <2> QED
    BY <2>3, <2>4, <2>5, <2>6, <2>7
<1>4. CASE \E r \in Run : Withdraw(r) \/ RecordLeaks(r)
  <2>1. PICK r \in Run : Withdraw(r) \/ RecordLeaks(r)
    BY <1>4
  <2>2. /\ drainer' = drainer /\ coord' = coord
        /\ \A f \in Future : fut'[f] = "drained" => fut[f] = "drained"
        /\ \A q \in Run : q # r => run'[q] = run[q]
        /\ run'[r] \notin {"loop", "callback"}
    BY <2>1 DEF Withdraw, RecordLeaks, TypeOK, shutdown, tasks
  <2> QED
    BY <1>1, <2>2 DEF DrainInv, NotInside
<1>5. CASE \E f \in Future : FutureStep(f)
  <2>1. PICK f \in Future : FutureStep(f)
    BY <1>5
  <2>2. /\ drainer' = drainer /\ coord' = coord /\ run[f[1]] = "loop"
        /\ \A q \in Run : q # f[1] => run'[q] = run[q]
    BY <2>1, FutureFrame DEF TypeOK, shutdown
  <2>3. \A g \in Future : fut'[g] = "drained" => fut[g] = "drained"
    BY <2>1 DEF FutureStep, Submit, Deliver, TimeOut, FreeSlot, TypeOK, tasks
  <2> QED
    BY <1>1, <2>2, <2>3 DEF DrainInv, NotInside
<1>6. CASE \E w \in Worker : (\E f \in Future : StartTask(w, f)) \/ EndTask(w)
  <2>1. \A f \in Future : fut'[f] = "drained" => fut[f] = "drained"
    BY <1>6 DEF StartTask, EndTask, TypeOK
  <2>2. UNCHANGED <<run, coord, drainer>>
    BY <1>6 DEF StartTask, EndTask, runs, shutdown
  <2> QED
    BY <2>1, <2>2 DEF DrainInv, NotInside
<1>7. CASE \E t \in Client : Close(t)
  <2>1. PICK t \in Thread : Close(t)
    BY <1>7 DEF Thread
  <2>2. run' = run /\ coord' = coord
    BY <2>1, CloseFrame DEF runs
  <2>3. CASE CloseDrain(t)
    <3>1. closing[t] # "no" /\ drainer' = t
      BY <2>3 DEF CloseDrain, At
    <3>2. \A r \in Run : run[r] \in {"loop", "callback"} => coord[r] # t
      BY <3>1 DEF DrainInv, NoOwnBatch, Outside, FinalizedOK
    <3> QED
      BY <1>1, <2>2, <3>1, <3>2 DEF NotInside
  <2>4. CASE ~CloseDrain(t)
    <3>1. fut' = fut /\ drainer' = drainer
      BY <2>1, <2>4 DEF Close, CloseCheck, CloseTest, CloseSwap, CloseCrash,
         CloseForget, CloseJoin, CloseCollect, CloseAwait, tasks
    <3> QED
      BY <2>2, <3>1 DEF DrainInv, NotInside
  <2> QED
    BY <2>3, <2>4
<1>8. Client \subseteq Thread
  BY DEF Thread
<1> QED
  BY <1>2, <1>3, <1>4, <1>5, <1>6, <1>7, <1>8 DEF Next, Enters, RunStep, Moves

LEMMA DrainInvariance ==
    ASSUME ~CallbacksClose
    PROVE  Spec => [](IndInv /\ DrainInv)
<1>1. Init => IndInv /\ DrainInv
  BY InitInv, DrainInit
<1>2. IndInv /\ DrainInv /\ [Next]_vars => IndInv' /\ DrainInv'
  <2> SUFFICES ASSUME IndInv, DrainInv, [Next]_vars PROVE IndInv' /\ DrainInv'
    OBVIOUS
  <2>1. IndInv'
    BY StepInv
  <2>2. CASE Next
    BY <2>1, <2>2, ForgottenStep, FinalizedStep, NoOwnBatchStep,
       NotInsideStep DEF DrainInv
  <2>3. CASE UNCHANGED vars
    BY <2>1, <2>3 DEF DrainInv, NoOwnBatch, Outside, FinalizedOK, Forgotten, NotInside,
       vars, fields, runs, tasks, shutdown
  <2> QED
    BY <2>2, <2>3
<1> QED
  BY <1>1, <1>2, PTL DEF Spec

\* If no callback of map() calls close(), a thread never goes back into the
\* scheduler with futures it drained itself: the check of _scheduler before
\* every resumption of a stream is enough (_stream_ordered, _stream_unordered).
THEOREM OwnStreamsAreSafe ==
    ASSUME ~CallbacksClose
    PROVE  Spec => []NoSelfDrain
<1>1. IndInv /\ DrainInv => NoSelfDrain
  BY DEF IndInv, TypeOK, DrainInv, NotInside, NoSelfDrain
<1> QED
  BY <1>1, DrainInvariance, PTL
===============================================================================
