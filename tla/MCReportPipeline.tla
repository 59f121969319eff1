-------------------------- MODULE MCReportPipeline --------------------------
(* Model-checking instance of ReportPipeline: threads are interchangeable,   *)
(* and so are claims.                                                        *)
EXTENDS ReportPipeline, TLC

Interchangeable == Permutations(Threads) \union Permutations(Claims)
=============================================================================
