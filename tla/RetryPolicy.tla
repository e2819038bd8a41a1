----------------------------- MODULE RetryPolicy -----------------------------
(***************************************************************************)
(* RetryPolicy (retry.py).  A call without a policy is MaxAttempts = 1:    *)
(* nothing is ever retried.  Delays are counted in ticks of the clock of   *)
(* the module that waits for them.                                         *)
(***************************************************************************)
EXTENDS Integers

CONSTANTS MaxAttempts,  \* max_attempts: executions, the first one included
          RetryOn,      \* the kinds of exception that retry_on matches
          Backoff,      \* base delay between two executions
          Exponential,  \* backoff_strategy = "exponential"
          Jitter        \* full jitter

\* What __post_init__ accepts.
ASSUME RetryAssumption ==
    /\ MaxAttempts \in Nat \ {0}
    /\ Backoff \in Nat
    /\ Exponential \in BOOLEAN
    /\ Jitter \in BOOLEAN

\* Mutant of should_retry: retries are counted instead of executions.
should_retry_once_more(kind, attempts) ==
    attempts <= MaxAttempts /\ kind \in RetryOn

should_retry(kind, attempts) == attempts < MaxAttempts /\ kind \in RetryOn

\* The delay before jitter.  Without a base the strategy does not matter.
FullDelay(attempts) ==
    IF Exponential THEN Backoff * 2^(attempts - 1) ELSE Backoff

\* The delays the policy may return after that many executions.
delay_for(attempts) ==
    IF Jitter THEN 0 .. FullDelay(attempts) ELSE {FullDelay(attempts)}
===============================================================================
