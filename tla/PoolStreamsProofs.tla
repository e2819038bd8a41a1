--------------------------- MODULE PoolStreamsProofs ---------------------------
(***************************************************************************)
(* Proofs about PoolStreams, for inputs and windows of any size: the calls *)
(* implement ResultStream, the first failure ends a call, every call that  *)
(* got a run is cleaned up once, and the reporters end with the true tally.*)
(***************************************************************************)
EXTENDS PoolStreams, FiniteSetTheorems, TLAPS

-----------------------------------------------------------------------------
(* The reporters by themselves. *)

\* The one bar that may be open is the one TqdmProgress knows.
BarKnown ==
    /\ bars = IF bar THEN 1 ELSE 0
    /\ reporter # "tqdm" => ~bar

\* The reporter counts: a TqdmProgress does only with a bar.
Counts == reporter # "none" /\ (reporter = "tqdm" => bar)

\* Whatever the reporter did before, start() makes it count from zero.
LEMMA Started ==
    ASSUME ProgressType, BarKnown, NEW t \in Total, start(t)
    PROVE  /\ ProgressType' /\ BarKnown' /\ reporter' = reporter
           /\ reporter = "none" => UNCHANGED progress
           /\ reporter # "none" => Counts' /\ completed' = 0 /\ total' = t
           /\ reporter = "callback" => calls' = 0 /\ told' = Nothing
<1> USE DEF ProgressType, BarKnown, Counts, Total, Tally, Reporter, start, progress
<1>1. CASE reporter = "none"
  BY <1>1
<1>2. CASE reporter = "callback"
  BY <1>2 DEF CallbackStart
<1>3. CASE reporter \in {"line", "live"}
  BY <1>3 DEF DefaultStart, NoCount, render
<1>4. CASE reporter = "tqdm"
  BY <1>4 DEF TqdmStart, InsteadOfLast
<1> QED
  BY <1>1, <1>2, <1>3, <1>4

\* advance() counts one, and a callback hears of it once.
LEMMA Advanced ==
    ASSUME ProgressType, BarKnown, advance
    PROVE  /\ ProgressType' /\ BarKnown' /\ reporter' = reporter
           /\ reporter = "none" => UNCHANGED progress
           /\ Counts => Counts' /\ completed' = completed + 1 /\ total' = total
           /\ reporter = "callback" =>
                 /\ told' = <<completed', total'>>
                 /\ told \in {Nothing, <<completed, total>>} => calls' = calls + 1
<1> USE DEF ProgressType, BarKnown, Counts, Total, Tally, Reporter, advance, progress
<1>1. CASE reporter = "none"
  BY <1>1
<1>2. CASE reporter = "callback"
  <2>1. told \in {Nothing, <<completed, total>>} => told # <<completed + 1, total>>
    BY ProgressAssumption
  <2> QED
    BY <1>2, <2>1 DEF CallbackAdvance, deliver, News
<1>3. CASE reporter \in {"line", "live"}
  BY <1>3 DEF DefaultAdvance, render
<1>4. CASE reporter = "tqdm"
  BY <1>4 DEF TqdmAdvance
<1> QED
  BY <1>1, <1>2, <1>3, <1>4

\* finish() shows the tally, closes the bar, and tells a callback what it was
\* not told before.
LEMMA Finished ==
    ASSUME ProgressType, BarKnown, finish
    PROVE  /\ ProgressType' /\ BarKnown' /\ reporter' = reporter /\ ~bar'
           /\ completed' = completed /\ total' = total
           /\ Counts => told' = <<completed, total>>
           /\ reporter = "callback" =>
                 /\ told = Nothing => calls' = calls + 1
                 /\ told = <<completed, total>> => calls' = calls
<1> USE DEF ProgressType, BarKnown, Counts, Total, Tally, Reporter, finish, progress
<1>1. CASE reporter = "none"
  BY <1>1
<1>2. CASE reporter = "callback"
  <2>1. told = Nothing => told # <<completed, total>>
    BY ProgressAssumption
  <2> QED
    BY <1>2, <2>1 DEF CallbackFinish, deliver, News
<1>3. CASE reporter \in {"line", "live"}
  BY <1>3 DEF DefaultFinish, render
<1>4. CASE reporter = "tqdm" /\ bar
  <2>1. bars = 1 /\ bars' = 0 /\ told' = <<completed, total>> /\ bar' = FALSE
    BY <1>4 DEF TqdmFinish
  <2> QED
    BY <1>4, <2>1 DEF TqdmFinish
<1>5. CASE reporter = "tqdm" /\ ~bar
  BY <1>5 DEF TqdmFinish
<1> QED
  BY <1>1, <1>2, <1>3, <1>4, <1>5

-----------------------------------------------------------------------------
(* The invariant. *)

\* What the scheduler run handed out.
RunOK ==
    /\ given = Cardinality(out)
    /\ status = "complete" => out = Index
    /\ \A i \in Index : i \in out <=> result[i] # "none"

\* Where a call is, what it has and how it will end.
PhaseOK ==
    /\ pc \in {"loop", "suspended"} => outcome = "none" /\ status = "open"
    /\ pc = "created" => /\ outcome = "none" /\ status = "open"
                         /\ mode \in Streaming /\ out = {} /\ ~entered
    /\ pc = "suspended" => mode \in Streaming
    /\ pc \in {"loop", "suspended", "cleanup"} => entered
    /\ pc = "cleanup" /\ outcome = "none" => status = "complete"
    /\ pc # "idle" => outcome # "returned" /\ finishes = 0
    /\ finishes \in {0, 1}
    /\ pc = "idle" /\ entered => outcome # "none"
    /\ mode \in Whole /\ pc # "idle" => ~closed

\* Where each result is, unless the call is ending without them.
PlacesOK ==
    /\ held \subseteq out /\ failed \subseteq out /\ served \subseteq out
    /\ mode # "collect" => failed = {}
    /\ outcome = "none" =>
          /\ mode = "map" => held = out
          /\ mode \in Whole => served = {}
          /\ mode = "imap" =>
                /\ held = out \ served
                /\ served = 0 .. (IF pc = "suspended" THEN next_index
                                  ELSE next_index - 1)
                /\ pc = "cleanup" => next_index \notin held
          /\ mode = "imap_unordered" => served = out

CollectOK ==
    mode = "collect" =>
        /\ \A i \in failed : result[i] \in {"error", "timed_out"}
        /\ \A i \in held : result[i] = "value"
        /\ outcome \in {"none", "returned"} => held \union failed = out

\* The reporter counts the completions of the call.
TallyOK ==
    /\ BarKnown
    /\ reporter # "none" /\ pc # "idle" =>
          Counts /\ completed = given /\ total = size
    /\ reporter = "none" => completed = 0
    /\ reporter = "callback" /\ pc # "idle" =>
          calls = given /\ told = IF given = 0 THEN Nothing ELSE <<completed, total>>

IndInv ==
    /\ TypeOK /\ RunOK /\ PhaseOK /\ PlacesOK /\ CollectOK /\ TallyOK
    /\ NoInternalError /\ FirstFailureRaises /\ CleanExit /\ FinalTally
    /\ ToldOnce /\ OneBar

LEMMA InitInv == Init => IndInv
<1> SUFFICES ASSUME Init PROVE IndInv
  OBVIOUS
<1> USE StreamsAssumption DEF Init, Stream!Init, ProgressInit
<1>1. TypeOK
  <2>1. ProgressType
    BY DEF ProgressType, Total, Tally
  <2>2. result \in [Index -> Result]
    BY DEF Result
  <2>3. /\ mode \in Whole \union Streaming
        /\ taken \in 0 .. N /\ given \in 0 .. N /\ next_index \in 0 .. N
        /\ completed <= N
    BY DEF Whole
  <2>4. /\ out \subseteq Index
        /\ held \subseteq Index /\ failed \subseteq Index /\ served \subseteq Index
    OBVIOUS
  <2> QED
    BY <2>1, <2>2, <2>3, <2>4 DEF TypeOK
<1>2. RunOK
  BY FS_EmptySet DEF RunOK
<1>3. PhaseOK /\ PlacesOK /\ CollectOK
  BY DEF PhaseOK, PlacesOK, CollectOK, Whole
<1>4. TallyOK
  BY DEF TallyOK, BarKnown
<1>5. /\ NoInternalError /\ FirstFailureRaises /\ CleanExit /\ FinalTally
      /\ ToldOnce /\ OneBar
  BY DEF NoInternalError, FirstFailureRaises, CleanExit, FinalTally, ToldOnce, OneBar
<1> QED
  BY <1>1, <1>2, <1>3, <1>4, <1>5 DEF IndInv

\* A call has at most N completions.
LEMMA GivenBound ==
    ASSUME NEW S \in SUBSET Index
    PROVE  IsFiniteSet(S) /\ Cardinality(S) \in 0 .. N
<1>1. IsFiniteSet(Index) /\ Cardinality(Index) = N
  BY StreamsAssumption, FS_Interval DEF Index
<1> QED
  BY <1>1, FS_Subset, FS_CardinalityType, StreamsAssumption

-----------------------------------------------------------------------------
(* Starting a call. *)

LEMMA CallInv == IndInv /\ (\E m \in Whole \union Streaming : Call(m)) => IndInv'
<1> SUFFICES ASSUME IndInv, NEW m \in Whole \union Streaming, Call(m) PROVE IndInv'
  OBVIOUS
<1> USE StreamsAssumption
<1>1. size' \in {N, Nothing} /\ start(size')
  BY DEF Call
<1>2. /\ ProgressType' /\ BarKnown' /\ reporter' = reporter
      /\ reporter = "none" => UNCHANGED progress
      /\ reporter # "none" => Counts' /\ completed' = 0 /\ total' = size'
      /\ reporter = "callback" => calls' = 0 /\ told' = Nothing
  BY <1>1, Started DEF IndInv, TypeOK, TallyOK, Total
<1>3. TypeOK'
  <2>1. result' \in [Index -> Result]
    BY DEF Call, Fresh, Result
  <2>2. completed' <= N
    BY <1>2 DEF IndInv, TypeOK, progress
  <2>3. taken' \in 0 .. N /\ given' \in 0 .. N /\ next_index' \in 0 .. N
    BY DEF Call, Fresh
  <2>4. /\ pc' \in {"idle", "created", "loop"}
        /\ outcome' \in {"none", "KeyboardInterrupt"}
        /\ entered' \in BOOLEAN /\ closed' \in BOOLEAN
    BY DEF Call, IndInv, TypeOK
  <2>5. /\ mode' \in Whole \union Streaming /\ status' = "open" /\ finishes' = 0
        /\ out' = {} /\ held' = {} /\ failed' = {} /\ served' = {}
    BY DEF Call, Fresh
  <2> QED
    BY <1>1, <1>2, <2>1, <2>2, <2>3, <2>4, <2>5 DEF TypeOK
<1>4. RunOK'
  BY FS_EmptySet DEF Call, Fresh, RunOK
<1>5. PhaseOK'
  BY DEF Call, Fresh, PhaseOK, Whole, Streaming
<1>p. PlacesOK' /\ CollectOK'
  BY DEF Call, Fresh, PlacesOK, CollectOK, Whole, Streaming
<1>6. TallyOK'
  BY <1>2 DEF IndInv, TypeOK, TallyOK, Call, Fresh, progress
<1>7. NoInternalError' /\ FirstFailureRaises'
  BY DEF Call, Fresh, NoInternalError, FirstFailureRaises
<1>8. CleanExit' /\ FinalTally'
  BY DEF Call, CleanExit, FinalTally
<1>9. ToldOnce' /\ OneBar'
  BY <1>2 DEF Call, Fresh, ToldOnce, OneBar, BarKnown
<1> QED
  BY <1>3, <1>4, <1>5, <1>p, <1>6, <1>7, <1>8, <1>9 DEF IndInv

LEMMA EnterInv == IndInv /\ Enter => IndInv'
<1> SUFFICES ASSUME IndInv, Enter PROVE IndInv'
  OBVIOUS
<1> USE DEF Enter
<1>1. TypeOK'
  BY StreamsAssumption DEF IndInv, TypeOK, progress, stream, results, call, ProgressType
<1>2. RunOK' /\ PhaseOK'
  BY DEF IndInv, TypeOK, RunOK, PhaseOK, progress, stream, results, call, Streaming, Whole
<1>3. PlacesOK' /\ CollectOK'
  BY StreamsAssumption DEF IndInv, TypeOK, RunOK, PhaseOK, PlacesOK, CollectOK, progress, stream, results, call,
         Streaming, Whole
<1>4. TallyOK'
  BY DEF IndInv, PhaseOK, TallyOK, BarKnown, Counts, progress, stream, results, call
<1>5. NoInternalError' /\ FirstFailureRaises'
  BY DEF IndInv, PhaseOK, NoInternalError, FirstFailureRaises, Definitive, progress, stream,
         results, call
<1>6. CleanExit' /\ FinalTally' /\ ToldOnce' /\ OneBar'
  BY DEF IndInv, PhaseOK, TallyOK, CleanExit, FinalTally, ToldOnce, OneBar, progress, stream,
         results, call
<1> QED
  BY <1>1, <1>2, <1>3, <1>4, <1>5, <1>6 DEF IndInv

LEMMA DropStreamInv == IndInv /\ DropStream => IndInv'
<1> SUFFICES ASSUME IndInv, DropStream PROVE IndInv'
  OBVIOUS
<1> USE DEF DropStream
<1>1. TypeOK'
  BY StreamsAssumption DEF IndInv, TypeOK, progress, stream, results, call, ProgressType
<1>2. RunOK' /\ PhaseOK'
  BY DEF IndInv, TypeOK, RunOK, PhaseOK, progress, stream, results, call, Streaming, Whole
<1>3. PlacesOK' /\ CollectOK'
  BY StreamsAssumption DEF IndInv, TypeOK, RunOK, PhaseOK, PlacesOK, CollectOK, progress, stream, results, call,
         Streaming, Whole
<1>4. TallyOK'
  BY DEF IndInv, PhaseOK, TallyOK, BarKnown, Counts, progress, stream, results, call
<1>5. NoInternalError' /\ FirstFailureRaises'
  BY DEF IndInv, PhaseOK, NoInternalError, FirstFailureRaises, Definitive, progress, stream,
         results, call
<1>6. CleanExit' /\ FinalTally' /\ ToldOnce' /\ OneBar'
  BY DEF IndInv, PhaseOK, CleanExit, FinalTally, ToldOnce, OneBar, progress, stream,
         results, call
<1> QED
  BY <1>1, <1>2, <1>3, <1>4, <1>5, <1>6 DEF IndInv

LEMMA RefuseInv == IndInv /\ Refuse => IndInv'
<1> SUFFICES ASSUME IndInv, Refuse PROVE IndInv'
  OBVIOUS
<1> USE DEF Refuse
<1>1. TypeOK'
  BY StreamsAssumption DEF IndInv, TypeOK, progress, stream, results, call, ProgressType
<1>2. RunOK' /\ PhaseOK'
  BY DEF IndInv, TypeOK, RunOK, PhaseOK, progress, stream, results, call, Streaming, Whole
<1>3. PlacesOK' /\ CollectOK'
  BY StreamsAssumption DEF IndInv, TypeOK, RunOK, PhaseOK, PlacesOK, CollectOK, progress, stream, results, call,
         Streaming, Whole
<1>4. TallyOK'
  BY DEF IndInv, PhaseOK, TallyOK, BarKnown, Counts, progress, stream, results, call
<1>5. NoInternalError' /\ FirstFailureRaises'
  BY DEF IndInv, PhaseOK, NoInternalError, FirstFailureRaises, Definitive, progress, stream,
         results, call
<1>6. CleanExit' /\ FinalTally' /\ ToldOnce' /\ OneBar'
  BY DEF IndInv, PhaseOK, CleanExit, FinalTally, ToldOnce, OneBar, progress, stream,
         results, call
<1> QED
  BY <1>1, <1>2, <1>3, <1>4, <1>5, <1>6 DEF IndInv

LEMMA TakeInv == IndInv /\ Take => IndInv'
<1> SUFFICES ASSUME IndInv, Take PROVE IndInv'
  OBVIOUS
<1> USE DEF Take, Pulling, Stream!Take
<1>1. TypeOK'
  BY StreamsAssumption DEF IndInv, TypeOK, progress, stream, results, call, ProgressType
<1>2. RunOK' /\ PhaseOK'
  BY DEF IndInv, TypeOK, RunOK, PhaseOK, progress, stream, results, call, Streaming, Whole
<1>3. PlacesOK' /\ CollectOK'
  BY StreamsAssumption DEF IndInv, TypeOK, RunOK, PhaseOK, PlacesOK, CollectOK, progress, stream, results, call,
         Streaming, Whole
<1>4. TallyOK'
  BY DEF IndInv, PhaseOK, TallyOK, BarKnown, Counts, progress, stream, results, call
<1>5. NoInternalError' /\ FirstFailureRaises'
  BY DEF IndInv, PhaseOK, NoInternalError, FirstFailureRaises, Definitive, progress, stream,
         results, call
<1>6. CleanExit' /\ FinalTally' /\ ToldOnce' /\ OneBar'
  BY DEF IndInv, PhaseOK, CleanExit, FinalTally, ToldOnce, OneBar, progress, stream,
         results, call
<1> QED
  BY <1>1, <1>2, <1>3, <1>4, <1>5, <1>6 DEF IndInv

LEMMA ExhaustInv == IndInv /\ Exhaust => IndInv'
<1> SUFFICES ASSUME IndInv, Exhaust PROVE IndInv'
  OBVIOUS
<1> USE DEF Exhaust, Pulling, Stream!Complete
<1>1. TypeOK'
  BY StreamsAssumption DEF IndInv, TypeOK, progress, stream, results, call, ProgressType
<1>2. RunOK' /\ PhaseOK'
  BY DEF IndInv, TypeOK, RunOK, PhaseOK, progress, stream, results, call, Streaming, Whole, Index, Buffered
<1>3. PlacesOK' /\ CollectOK'
  BY StreamsAssumption DEF IndInv, TypeOK, RunOK, PhaseOK, PlacesOK, CollectOK, progress, stream, results, call,
         Streaming, Whole, Index, Buffered
<1>4. TallyOK'
  BY DEF IndInv, PhaseOK, TallyOK, BarKnown, Counts, progress, stream, results, call
<1>5. NoInternalError' /\ FirstFailureRaises'
  BY DEF IndInv, PhaseOK, NoInternalError, FirstFailureRaises, Definitive, progress, stream,
         results, call
<1>6. CleanExit' /\ FinalTally' /\ ToldOnce' /\ OneBar'
  BY DEF IndInv, PhaseOK, CleanExit, FinalTally, ToldOnce, OneBar, progress, stream,
         results, call
<1> QED
  BY <1>1, <1>2, <1>3, <1>4, <1>5, <1>6 DEF IndInv

LEMMA StopInv == IndInv /\ Stop => IndInv'
<1> SUFFICES ASSUME IndInv, Stop PROVE IndInv'
  OBVIOUS
<1> USE DEF Stop, Pulling, Stream!Abort
<1>1. TypeOK'
  BY StreamsAssumption DEF IndInv, TypeOK, progress, stream, results, call, ProgressType
<1>2. RunOK' /\ PhaseOK'
  BY DEF IndInv, TypeOK, RunOK, PhaseOK, progress, stream, results, call, Streaming, Whole
<1>3. PlacesOK' /\ CollectOK'
  BY StreamsAssumption DEF IndInv, TypeOK, RunOK, PhaseOK, PlacesOK, CollectOK, progress, stream, results, call,
         Streaming, Whole
<1>4. TallyOK'
  BY DEF IndInv, PhaseOK, TallyOK, BarKnown, Counts, progress, stream, results, call
<1>5. NoInternalError' /\ FirstFailureRaises'
  BY DEF IndInv, PhaseOK, NoInternalError, FirstFailureRaises, Definitive, progress, stream,
         results, call
<1>6. CleanExit' /\ FinalTally' /\ ToldOnce' /\ OneBar'
  BY DEF IndInv, PhaseOK, CleanExit, FinalTally, ToldOnce, OneBar, progress, stream,
         results, call
<1> QED
  BY <1>1, <1>2, <1>3, <1>4, <1>5, <1>6 DEF IndInv

LEMMA ResumeInv == IndInv /\ Resume => IndInv'
<1> SUFFICES ASSUME IndInv, Resume PROVE IndInv'
  OBVIOUS
<1> USE DEF Resume
<1>1. TypeOK'
  BY StreamsAssumption DEF IndInv, TypeOK, progress, stream, results, call, ProgressType, PlacesOK, PhaseOK, Index, Streaming
<1>2. RunOK' /\ PhaseOK'
  BY DEF IndInv, TypeOK, RunOK, PhaseOK, progress, stream, results, call, Streaming, Whole
<1>3. PlacesOK' /\ CollectOK'
  BY StreamsAssumption DEF IndInv, TypeOK, RunOK, PhaseOK, PlacesOK, CollectOK, progress, stream, results, call,
         Streaming, Whole
<1>4. TallyOK'
  BY DEF IndInv, PhaseOK, TallyOK, BarKnown, Counts, progress, stream, results, call
<1>5. NoInternalError' /\ FirstFailureRaises'
  BY DEF IndInv, PhaseOK, NoInternalError, FirstFailureRaises, Definitive, progress, stream,
         results, call
<1>6. CleanExit' /\ FinalTally' /\ ToldOnce' /\ OneBar'
  BY DEF IndInv, PhaseOK, CleanExit, FinalTally, ToldOnce, OneBar, progress, stream,
         results, call
<1> QED
  BY <1>1, <1>2, <1>3, <1>4, <1>5, <1>6 DEF IndInv

LEMMA CloseStreamInv == IndInv /\ CloseStream => IndInv'
<1> SUFFICES ASSUME IndInv, CloseStream PROVE IndInv'
  OBVIOUS
<1> USE DEF CloseStream
<1>1. TypeOK'
  BY StreamsAssumption DEF IndInv, TypeOK, progress, stream, results, call, ProgressType
<1>2. RunOK' /\ PhaseOK'
  BY DEF IndInv, TypeOK, RunOK, PhaseOK, progress, stream, results, call, Streaming, Whole
<1>3. PlacesOK' /\ CollectOK'
  BY StreamsAssumption DEF IndInv, TypeOK, RunOK, PhaseOK, PlacesOK, CollectOK, progress, stream, results, call,
         Streaming, Whole
<1>4. TallyOK'
  BY DEF IndInv, PhaseOK, TallyOK, BarKnown, Counts, progress, stream, results, call
<1>5. NoInternalError' /\ FirstFailureRaises'
  BY DEF IndInv, PhaseOK, NoInternalError, FirstFailureRaises, Definitive, progress, stream,
         results, call
<1>6. CleanExit' /\ FinalTally' /\ ToldOnce' /\ OneBar'
  BY DEF IndInv, PhaseOK, CleanExit, FinalTally, ToldOnce, OneBar, progress, stream,
         results, call
<1> QED
  BY <1>1, <1>2, <1>3, <1>4, <1>5, <1>6 DEF IndInv

LEMMA ClosePoolInv == IndInv /\ ClosePool => IndInv'
<1> SUFFICES ASSUME IndInv, ClosePool PROVE IndInv'
  OBVIOUS
<1> USE DEF ClosePool
<1>1. TypeOK'
  BY StreamsAssumption DEF IndInv, TypeOK, progress, stream, results, call, ProgressType
<1>2. RunOK' /\ PhaseOK'
  BY DEF IndInv, TypeOK, RunOK, PhaseOK, progress, stream, results, call, Streaming, Whole
<1>3. PlacesOK' /\ CollectOK'
  BY StreamsAssumption DEF IndInv, TypeOK, RunOK, PhaseOK, PlacesOK, CollectOK, progress, stream, results, call,
         Streaming, Whole
<1>4. TallyOK'
  BY DEF IndInv, PhaseOK, TallyOK, BarKnown, Counts, progress, stream, results, call
<1>5. NoInternalError' /\ FirstFailureRaises'
  BY DEF IndInv, PhaseOK, NoInternalError, FirstFailureRaises, Definitive, progress, stream,
         results, call
<1>6. CleanExit' /\ FinalTally' /\ ToldOnce' /\ OneBar'
  BY DEF IndInv, PhaseOK, CleanExit, FinalTally, ToldOnce, OneBar, progress, stream,
         results, call
<1> QED
  BY <1>1, <1>2, <1>3, <1>4, <1>5, <1>6 DEF IndInv

-----------------------------------------------------------------------------
(* Serving from the buffer. *)

LEMMA ServeInv == IndInv /\ Serve => IndInv'
<1> SUFFICES ASSUME IndInv, Serve PROVE IndInv'
  OBVIOUS
<1>1. /\ next_index \in held /\ mode = "imap" /\ pc = "loop" /\ outcome = "none"
      /\ held' = held \ {next_index}
      /\ served' = served \union {next_index}
  BY DEF Serve, Turn, IndInv, PhaseOK
<1>2. next_index \in out /\ next_index \in Index
  BY <1>1 DEF IndInv, PlacesOK, TypeOK
<1>3. TypeOK'
  BY <1>1, <1>2 DEF Serve, IndInv, TypeOK, ProgressType, progress, stream
<1>4. RunOK' /\ PhaseOK'
  BY <1>1 DEF Serve, IndInv, RunOK, PhaseOK, stream, Streaming, Whole
<1>5. served = 0 .. (next_index - 1) /\ held = out \ served
  BY <1>1 DEF IndInv, PlacesOK
<1>6. served' = 0 .. next_index
  BY <1>1, <1>2, <1>5, StreamsAssumption DEF Index
<1>7. PlacesOK' /\ CollectOK'
  BY <1>1, <1>2, <1>5, <1>6 DEF Serve, IndInv, PlacesOK, CollectOK, stream, Whole
<1>8. TallyOK'
  BY DEF Serve, IndInv, PhaseOK, TallyOK, BarKnown, Counts, progress, stream
<1>9. NoInternalError' /\ FirstFailureRaises'
  BY <1>1 DEF Serve, IndInv, NoInternalError, FirstFailureRaises, Definitive, stream
<1>10. CleanExit' /\ FinalTally' /\ ToldOnce' /\ OneBar'
  BY DEF Serve, IndInv, CleanExit, FinalTally, ToldOnce, OneBar, progress, stream
<1> QED
  BY <1>3, <1>4, <1>7, <1>8, <1>9, <1>10 DEF IndInv

-----------------------------------------------------------------------------
(* A completion. *)

LEMMA ReceiveInv ==
    ASSUME IndInv, NEW i \in 0 .. (taken - 1), NEW res \in Result \ {"none"},
           Receive(i, res)
    PROVE  IndInv'
<1>1. /\ pc = "loop" /\ outcome = "none" /\ status = "open" /\ status' = "open"
      /\ i \in Index /\ i \notin out /\ out' = out \union {i} /\ given' = given + 1
      /\ result' = [result EXCEPT ![i] = res]
      /\ entered /\ finishes = 0
      /\ UNCHANGED <<taken, closed, mode, size, entered, finishes, next_index>>
      /\ mode = "imap" => next_index \notin held
  BY StreamsAssumption DEF Receive, Pulling, Buffered, Stream!Deliver, IndInv, PhaseOK,
     TypeOK, Index
<1>2. /\ ProgressType' /\ BarKnown' /\ reporter' = reporter
      /\ reporter = "none" => UNCHANGED progress
      /\ Counts => Counts' /\ completed' = completed + 1 /\ total' = total
      /\ reporter = "callback" =>
            /\ told' = <<completed', total'>>
            /\ told \in {Nothing, <<completed, total>>} => calls' = calls + 1
  BY Advanced DEF Receive, IndInv, TypeOK, TallyOK
<1>3. out' \subseteq Index /\ given' = Cardinality(out') /\ given' \in 0 .. N
  <2>1. out \subseteq Index /\ given = Cardinality(out)
    BY DEF IndInv, TypeOK, RunOK
  <2>2. IsFiniteSet(out)
    BY <2>1, GivenBound
  <2>3. Cardinality(out') = Cardinality(out) + 1
    BY <1>1, <2>2, FS_AddElement
  <2> QED
    BY <1>1, <2>1, <2>3, GivenBound
<1>4. \/ /\ pc' = "cleanup"
         /\ outcome' \in {Raised[res], "KeyboardInterrupt"}
         /\ outcome' = "KeyboardInterrupt" \/ Fails(res)
         /\ UNCHANGED <<held, failed, served>>
      \/ /\ ~Fails(res) /\ mode = "imap_unordered" /\ pc' = "suspended"
         /\ served' = served \union {i}
         /\ UNCHANGED <<held, failed, outcome>>
      \/ /\ ~Fails(res) /\ mode = "collect" /\ res # "value"
         /\ failed' = failed \union {i}
         /\ UNCHANGED <<pc, held, served, outcome>>
      \/ /\ ~Fails(res) /\ mode # "imap_unordered" /\ res = "value"
         /\ held' = held \union {i}
         /\ UNCHANGED <<pc, failed, served, outcome>>
  BY DEF Receive, Unwrap, Fails
<1>5. Fails(res) => Raised[res] \in {"TaskError", "TaskTimeout", "Cancelled", "fatal"}
  BY DEF Fails, Raised, Result
<1>6. TypeOK'
  <2>1. /\ result' \in [Index -> Result]
        /\ held' \subseteq Index /\ failed' \subseteq Index /\ served' \subseteq Index
    BY <1>1, <1>4 DEF IndInv, TypeOK
  <2>2. completed' <= N
    BY <1>1, <1>2, <1>3 DEF IndInv, TypeOK, ProgressType, TallyOK, Counts, progress
  <2>3. /\ outcome' \in {"none", "TaskError", "TaskTimeout", "Cancelled", "fatal",
                         "KeyboardInterrupt"}
        /\ pc' \in {"loop", "suspended", "cleanup"}
    BY <1>1, <1>4, <1>5
  <2> QED
    BY <1>1, <1>2, <1>3, <2>1, <2>2, <2>3 DEF IndInv, TypeOK
<1>7. RunOK'
  BY <1>1, <1>3 DEF IndInv, TypeOK, RunOK
<1>8. PhaseOK'
  BY <1>1, <1>4, <1>5 DEF IndInv, PhaseOK, Streaming, Whole
<1>9. PlacesOK'
  BY <1>1, <1>4, <1>5 DEF IndInv, PlacesOK, Whole, Fails
<1>10. CollectOK'
  <2> SUFFICES ASSUME mode = "collect" PROVE CollectOK'
    BY <1>1 DEF CollectOK
  <2>1. held \subseteq Index /\ failed \subseteq Index
    BY DEF IndInv, TypeOK
  <2>2. result'[i] = res /\ \A j \in Index : j # i => result'[j] = result[j]
    BY <1>1 DEF IndInv, TypeOK
  <2>3. i \notin held /\ i \notin failed /\ held \union failed = out
    BY <1>1 DEF IndInv, PlacesOK, CollectOK
  <2>4. ~Fails(res) => res \in {"value", "error", "timed_out"}
    BY DEF Fails, Result
  <2> QED
    BY <1>1, <1>4, <1>5, <2>1, <2>2, <2>3, <2>4 DEF IndInv, CollectOK
<1>11. TallyOK'
  BY <1>1, <1>2, <1>3 DEF IndInv, TypeOK, ProgressType, TallyOK, Counts, progress
<1>12. NoInternalError'
  BY <1>1, <1>4, <1>5 DEF NoInternalError
<1>13. FirstFailureRaises'
  <2>1. \A j \in out : ~Definitive(result[j])
    BY <1>1 DEF IndInv, FirstFailureRaises
  <2>2. \A j \in out : result'[j] = result[j]
    BY <1>1, <1>3 DEF IndInv, TypeOK
  <2>3. result'[i] = res
    BY <1>1 DEF IndInv, TypeOK
  <2>4. Fails(res) <=> Definitive(res)
    BY DEF Fails, Definitive, Result
  <2>5. \A j \in out' : Definitive(result[j])' => j = i /\ Fails(res)
    BY <1>1, <2>1, <2>2, <2>3, <2>4 DEF Definitive
  <2>6. Fails(res) => Definitive(result[i])'
    BY <1>1, <2>3, <2>4 DEF Definitive
  <2> QED
    BY <1>1, <1>4, <1>5, <2>3, <2>5, <2>6 DEF FirstFailureRaises
<1>14. CleanExit' /\ FinalTally' /\ ToldOnce' /\ OneBar'
  BY <1>1, <1>2, <1>3, <1>4 DEF IndInv, CleanExit, FinalTally, ToldOnce, OneBar, BarKnown,
     TallyOK, TypeOK, ProgressType
<1> QED
  BY <1>6, <1>7, <1>8, <1>9, <1>10, <1>11, <1>12, <1>13, <1>14 DEF IndInv

-----------------------------------------------------------------------------
(* The end of a call. *)

\* A call that was not stopped has every completion, and no gap.
LEMMA AllThere ==
    ASSUME IndInv, pc = "cleanup", outcome = "none"
    PROVE  /\ out = Index /\ NoGap
           /\ mode \in Whole => held \union failed = Index
           /\ mode \in Streaming => served = Index
<1>1. out = Index
  BY DEF IndInv, PhaseOK, RunOK
<1>2. CASE mode = "map"
  <2>1. held = Index /\ failed = {}
    BY <1>1, <1>2 DEF IndInv, PlacesOK
  <2>2. Cardinality(held) = N
    BY <2>1, FS_Interval, StreamsAssumption DEF Index
  <2> QED
    BY <1>1, <1>2, <2>1, <2>2 DEF NoGap, Index, Whole, Streaming
<1>3. CASE mode = "imap"
  <2>1. /\ held = Index \ served /\ served = 0 .. (next_index - 1)
        /\ next_index \notin held /\ next_index \in 0 .. N
    BY <1>1, <1>3 DEF IndInv, PlacesOK, TypeOK
  <2>2. next_index = N
    BY <2>1, StreamsAssumption DEF Index
  <2> QED
    BY <1>1, <1>3, <2>1, <2>2 DEF NoGap, Index, Whole, Streaming
<1>4. CASE mode = "collect"
  BY <1>1, <1>4 DEF IndInv, CollectOK, NoGap, Whole, Streaming
<1>5. CASE mode = "imap_unordered"
  BY <1>1, <1>5 DEF IndInv, PlacesOK, NoGap, Whole, Streaming
<1> QED
  BY <1>2, <1>3, <1>4, <1>5 DEF IndInv, TypeOK, Whole, Streaming

LEMMA CleanupInv == IndInv /\ Cleanup => IndInv'
<1> SUFFICES ASSUME IndInv, Cleanup PROVE IndInv'
  OBVIOUS
<1>1. /\ pc = "cleanup" /\ pc' = "idle" /\ finishes = 0 /\ finishes' = 1 /\ entered
      /\ status' = IF status = "open" THEN "aborted" ELSE status
      /\ outcome # "internal" /\ outcome # "returned"
      /\ UNCHANGED <<closed, mode, size, entered, taken, out, given, result, held,
                     failed, next_index>>
  BY DEF Cleanup, ClosedRun, IndInv, PhaseOK, NoInternalError
<1>2. /\ ProgressType' /\ BarKnown' /\ reporter' = reporter /\ ~bar'
      /\ completed' = completed /\ total' = total
      /\ Counts => told' = <<completed, total>>
      /\ reporter = "callback" =>
            /\ told = Nothing => calls' = calls + 1
            /\ told = <<completed, total>> => calls' = calls
  BY Finished DEF Cleanup, IndInv, TypeOK, TallyOK
<1>3. \/ outcome = "none" /\ outcome' = "returned"
      \/ outcome # "none" /\ outcome' = outcome
      \/ outcome' = "KeyboardInterrupt"
  BY <1>1, AllThere DEF Cleanup
<1>4. /\ outcome' = "returned" => outcome = "none"
      /\ served' = IF outcome' = "returned" /\ mode \in Whole
                   THEN held \union failed ELSE served
  BY <1>1, <1>3 DEF Cleanup
<1>5. TypeOK'
  BY <1>1, <1>2, <1>3, <1>4 DEF IndInv, TypeOK
<1>6. RunOK' /\ PhaseOK'
  BY <1>1, <1>3 DEF IndInv, RunOK, PhaseOK, Streaming
<1>7. PlacesOK' /\ CollectOK'
  BY <1>1, <1>3, <1>4 DEF IndInv, PlacesOK, CollectOK
<1>8. TallyOK'
  BY <1>1, <1>2 DEF IndInv, TallyOK
<1>9. NoInternalError' /\ FirstFailureRaises'
  <2>1. \A i \in Index : Definitive(result[i])' <=> Definitive(result[i])
    BY <1>1 DEF Definitive
  <2>2. \A i \in out : Definitive(result[i]) => Raised[result[i]] # "none"
    BY DEF IndInv, RunOK, TypeOK, Definitive, Raised, Result
  <2>3. \A i \in out : Definitive(result[i]) => outcome # "none"
    BY <2>2 DEF IndInv, FirstFailureRaises
  <2> QED
    BY <1>1, <1>3, <2>1, <2>3 DEF IndInv, TypeOK, NoInternalError, FirstFailureRaises
<1>10. CleanExit' /\ FinalTally'
  BY <1>1, <1>2 DEF IndInv, RunOK, TypeOK, TallyOK, CleanExit, FinalTally
<1>11. ToldOnce' /\ OneBar'
  BY <1>1, <1>2 DEF IndInv, TypeOK, ProgressType, TallyOK, ToldOnce, OneBar, BarKnown, Counts
<1> QED
  BY <1>5, <1>6, <1>7, <1>8, <1>9, <1>10, <1>11 DEF IndInv

-----------------------------------------------------------------------------
(* All together. *)

LEMMA StutterInv == IndInv /\ UNCHANGED vars => IndInv'
<1> SUFFICES ASSUME IndInv, UNCHANGED vars PROVE IndInv'
  OBVIOUS
<1> USE DEF vars, progress, call, stream, results
<1>1. TypeOK' /\ RunOK' /\ PhaseOK' /\ PlacesOK' /\ CollectOK' /\ TallyOK'
  BY DEF IndInv, TypeOK, ProgressType, RunOK, PhaseOK, PlacesOK, CollectOK, TallyOK,
         BarKnown, Counts
<1>2. /\ NoInternalError' /\ FirstFailureRaises' /\ CleanExit' /\ FinalTally'
      /\ ToldOnce' /\ OneBar'
  BY DEF IndInv, NoInternalError, FirstFailureRaises, Definitive, CleanExit, FinalTally,
         ToldOnce, OneBar
<1> QED
  BY <1>1, <1>2 DEF IndInv

THEOREM Invariance == Spec => []IndInv
<1>1. IndInv /\ [Next]_vars => IndInv'
  BY CallInv, EnterInv, DropStreamInv, RefuseInv, ServeInv, TakeInv, ReceiveInv,
     ExhaustInv, StopInv, ResumeInv, CloseStreamInv, ClosePoolInv, CleanupInv,
     StutterInv DEF Next
<1> QED
  BY InitInv, <1>1, PTL DEF Spec

\* Every variable of PoolStreams has its type.
THEOREM TypeCorrect == Spec => []TypeOK
BY Invariance, PTL DEF IndInv

\* map() and imap() never run into their "internal invariant violated".
THEOREM NeverInternal == Spec => []NoInternalError
BY Invariance, PTL DEF IndInv

\* The first failure of a call is the only one it sees, and the one it raises.
THEOREM FailsFast == Spec => []FirstFailureRaises
BY Invariance, PTL DEF IndInv

\* Collect mode lists every completion once, by how it ended.
THEOREM CollectIsHonest == Spec => []CollectHonest
<1>1. IndInv => CollectHonest
  BY DEF IndInv, CollectOK, CollectHonest
<1> QED
  BY Invariance, <1>1, PTL

\* Every way out of a call that got a run closes it and finishes the reporter.
THEOREM CleansUp == Spec => []CleanExit
BY Invariance, PTL DEF IndInv

\* The tally a reporter shows last is that of its batch: the completions of
\* this call and the length of its input, whatever it was used for before.
THEOREM TallyIsFinal == Spec => []FinalTally
BY Invariance, PTL DEF IndInv

\* A callback hears of each completion of a batch once, and of an empty batch
\* once.
THEOREM CallbackToldOnce == Spec => []ToldOnce
BY Invariance, PTL DEF IndInv

\* A reused TqdmProgress never has a second bar.
THEOREM BarIsOne == Spec => []OneBar
BY Invariance, PTL DEF IndInv

\* Nothing is given after close(): map() cannot be closed while it runs, and
\* the streams look at the pool before they go on.
THEOREM ClosedStreamsAreSilent == Spec => NothingAfterClose
<1>1. IndInv /\ Next => (closed => served' \subseteq served)
  <2> SUFFICES ASSUME IndInv, Next, closed PROVE served' \subseteq served
    OBVIOUS
  <2>1. CASE \E m \in Whole \union Streaming : Call(m)
    BY <2>1 DEF Call
  <2>2. CASE Enter \/ DropStream \/ Refuse \/ Take \/ Exhaust \/ Stop \/ Resume
             \/ CloseStream \/ ClosePool
    BY <2>2 DEF Enter, DropStream, Refuse, Take, Exhaust, Stop, Resume, CloseStream,
       ClosePool, results
  <2>3. CASE Serve
    BY <2>3 DEF Serve, StillOpen, Streaming
  <2>4. CASE \E i \in 0 .. (taken - 1), res \in Result \ {"none"} : Receive(i, res)
    BY <2>4 DEF Receive, Pulling, StillOpen, Streaming, Unwrap
  <2>5. CASE Cleanup
    BY <2>5 DEF Cleanup, IndInv, PhaseOK
  <2> QED
    BY <2>1, <2>2, <2>3, <2>4, <2>5 DEF Next
<1>2. IndInv /\ [Next]_vars => [closed => served' \subseteq served]_vars
  BY <1>1
<1> QED
  BY Invariance, <1>2, PTL DEF Spec, NothingAfterClose

-----------------------------------------------------------------------------
(* The calls implement ResultStream. *)

LEMMA CallBegins ==
    ASSUME NEW m \in Whole \union Streaming, Call(m)
    PROVE  Results!Begin
BY DEF Call, Fresh, Results!Begin, Ending, Whole, Streaming

LEMMA QuietSteps ==
    ASSUME IndInv, Enter \/ DropStream \/ Refuse \/ Take \/ Exhaust \/ Stop
                   \/ Resume \/ CloseStream \/ ClosePool
    PROVE  Results!Fail \/ UNCHANGED Results!vars
BY DEF Enter, DropStream, Refuse, Take, Exhaust, Stop, Resume, CloseStream, ClosePool,
       results, call, Ending, Results!Fail, Results!vars, Pulling

LEMMA ServeGives ==
    ASSUME IndInv, Serve
    PROVE  \E i \in Index : Results!Give(i)
<1>1. /\ mode = "imap" /\ next_index \in Index /\ served = 0 .. (next_index - 1)
      /\ served' = served \union {next_index}
  BY DEF Serve, Turn, IndInv, PhaseOK, PlacesOK, TypeOK
<1>2. next_index \notin served
  BY <1>1 DEF Index
<1>3. Results!Give(next_index)
  BY <1>1, <1>2 DEF Serve, Results!Give, Ending
<1> QED
  BY <1>1, <1>3

LEMMA ReceiveGives ==
    ASSUME IndInv, NEW i \in 0 .. (taken - 1), NEW res \in Result \ {"none"},
           Receive(i, res)
    PROVE  Results!Give(i) \/ UNCHANGED Results!vars
<1>1. i \notin served
  BY DEF Receive, Stream!Deliver, IndInv, PlacesOK
<1>2. CASE served' = served
  BY <1>2 DEF Receive, Pulling, Unwrap, Results!vars, Ending
<1>3. CASE served' # served
  BY <1>1, <1>3 DEF Receive, Pulling, Unwrap, Results!Give, Ending
<1> QED
  BY <1>2, <1>3

LEMMA CleanupEnds ==
    ASSUME IndInv, Cleanup
    PROVE  Results!Return \/ Results!Fail
<1>1. /\ pc = "cleanup" /\ pc' = "idle" /\ outcome # "returned" /\ mode' = mode
      /\ mode \in Whole \union Streaming
  BY DEF Cleanup, IndInv, PhaseOK, TypeOK
<1>2. CASE outcome' = "returned"
  <2>1. outcome = "none"
    BY <1>1, <1>2 DEF Cleanup
  <2>2. served' = Index /\ (mode \in Streaming => served = Index)
    BY <1>1, <1>2, <2>1, AllThere DEF Cleanup, Whole, Streaming
  <2> QED
    BY <1>1, <1>2, <2>2 DEF Results!Return, Ending, Whole, Streaming, Index
<1>3. CASE outcome' # "returned"
  BY <1>1, <1>3 DEF Cleanup, Results!Fail, Ending
<1> QED
  BY <1>2, <1>3

LEMMA StepImplements == IndInv /\ [Next]_vars => [Results!Next]_(Results!vars)
<1> SUFFICES ASSUME IndInv, [Next]_vars PROVE [Results!Next]_(Results!vars)
  OBVIOUS
<1>1. CASE \E m \in Whole \union Streaming : Call(m)
  BY <1>1, CallBegins DEF Results!Next
<1>2. CASE Enter \/ DropStream \/ Refuse \/ Take \/ Exhaust \/ Stop \/ Resume
           \/ CloseStream \/ ClosePool
  BY <1>2, QuietSteps DEF Results!Next
<1>3. CASE Serve
  BY <1>3, ServeGives DEF Results!Next, Index
<1>4. CASE \E i \in 0 .. (taken - 1), res \in Result \ {"none"} : Receive(i, res)
  <2>1. PICK i \in 0 .. (taken - 1), res \in Result \ {"none"} : Receive(i, res)
    BY <1>4
  <2>2. i \in 0 .. (N - 1)
    BY <2>1, StreamsAssumption DEF IndInv, TypeOK
  <2> QED
    BY <2>1, <2>2, ReceiveGives DEF Results!Next
<1>5. CASE Cleanup
  BY <1>5, CleanupEnds DEF Results!Next
<1>6. CASE UNCHANGED vars
  BY <1>6 DEF vars, call, results, Results!vars, Ending
<1> QED
  BY <1>1, <1>2, <1>3, <1>4, <1>5, <1>6 DEF Next

\* Whatever the order of completions, imap() gives the results in the order
\* of the input, imap_unordered() each once, map() all or nothing, and a
\* call that gave less than everything ends with an error.
THEOREM CallsKeepOrder == Spec => KeepsOrder
<1>1. Init => Results!Init
  BY DEF Init, Results!Init, Ending
<1> QED
  BY Invariance, <1>1, StepImplements, PTL DEF Spec, KeepsOrder, Results!Spec
===============================================================================
