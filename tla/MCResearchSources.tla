--------------------------- MODULE MCResearchSources ---------------------------
(* Model-checking instance of ResearchSources: three sources that may serve   *)
(* the same page, the same file, a page and a file that differ in punctuation *)
(* only, and pages that redirect to one another.                              *)
EXTENDS ResearchSources, TLC

Web(x) == [kind |-> "page", text |-> x, file |-> "none", lands |-> 0]
Moved(x, s) == [Web(x) EXCEPT !.lands = s]
Pdf(c) == [kind |-> "file", text |-> "none", file |-> c, lands |-> 0]
Nothing == [kind |-> "none", text |-> "none", file |-> "none", lands |-> 0]

WhatTheyServe == <<{Web("x"), Web("y"), Pdf("f")}, {Web("x"), Moved("x.", 1), Pdf("f"), Nothing},
                   {Web("y"), Moved("y", 2), Nothing}>>
Normalized2 == [t \in {"x", "x.", "y"} |-> IF t = "y" THEN "y" ELSE "x"]
TextOf == [c \in {"f"} |-> "x."]

Interchangeable == Permutations(Facts) \union Permutations(Threads)
=============================================================================
