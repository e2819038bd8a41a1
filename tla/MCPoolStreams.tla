----------------------------- MODULE MCPoolStreams -----------------------------
(* An instance of PoolStreams for TLC: any number of calls, one after the   *)
(* other, over an input of N items with one of the reporters.               *)
EXTENDS PoolStreams
===============================================================================
