------------------------------ MODULE TaskStates ------------------------------
(***************************************************************************)
(* The life cycle of one work item (_states.py).  The scheduler moves an   *)
(* item only through check_transition, so a pair outside LEGAL_TRANSITIONS *)
(* raises InvalidStateTransition instead of being stored.                  *)
(***************************************************************************)

TERMINAL_STATES == {"SUCCESS", "FAILED", "TIMED_OUT", "CANCELLED"}

TaskState == TERMINAL_STATES \union
             {"PENDING", "RUNNING", "RETRY_WAIT", "CANCELLATION_REQUESTED"}

\* The table of edges, as a relation.  Terminal states have no outgoing edge.
LEGAL_TRANSITIONS ==
    ({"PENDING"} \X {"RUNNING", "CANCELLED"})
    \union
    ({"RUNNING"} \X {"SUCCESS", "RETRY_WAIT", "FAILED", "TIMED_OUT",
                     "CANCELLATION_REQUESTED"})
    \union
    ({"RETRY_WAIT"} \X {"PENDING", "CANCELLED"})
    \union
    ({"CANCELLATION_REQUESTED"} \X {"SUCCESS", "FAILED", "TIMED_OUT", "CANCELLED"})

\* TRUE where check_transition returns, FALSE where it raises.
check_transition(current, new) == <<current, new>> \in LEGAL_TRANSITIONS
===============================================================================
