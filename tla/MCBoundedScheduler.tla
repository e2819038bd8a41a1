-------------------------- MODULE MCBoundedScheduler --------------------------
(* Instances of BoundedScheduler for TLC. *)
EXTENDS BoundedScheduler
===============================================================================
