--------------------------- MODULE MCLocalExecution ---------------------------
(* Model-checking instance of LocalExecution: threads are interchangeable. *)
EXTENDS LocalExecution, TLC

Threads == Permutations(Workers) \union Permutations(Handlers)
===============================================================================
