------------------------ MODULE MCReportPublication ------------------------
(* Model-checking instance of ReportPublication: handlers and change events  *)
(* are interchangeable.                                                      *)
EXTENDS ReportPublication, TLC

Interchangeable == Permutations(Handlers) \union Permutations(Events)
=============================================================================
