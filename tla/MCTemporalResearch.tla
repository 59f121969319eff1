------------------------- MODULE MCTemporalResearch -------------------------
(* Model-checking instance of TemporalResearch: the threads of each process  *)
(* are interchangeable.                                                      *)
EXTENDS TemporalResearch, TLC

Interchangeable == Permutations(Threads) \union Permutations(Handlers)
=============================================================================
