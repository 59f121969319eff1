--------------------------- MODULE MCDeltaAnalysis ---------------------------
(* Model-checking instance of DeltaAnalysis: the report says "old", a page    *)
(* may say "new" now.                                                         *)
EXTENDS DeltaAnalysis, TLC

WhatTheySay == [old |-> [type |-> "fact", word |-> "none", conf |-> "high"],
                new |-> [type |-> "price", word |-> "none", conf |-> "medium"]]

ThePasts == {[value |-> "old", files |-> {1}], [value |-> "new", files |-> {2}]}

TheClaims == {[id |-> "C-001", type |-> "product_comparison", conf |-> "high", cites |-> {1}]}
TheConclusions == {[id |-> "C-002", type |-> "market_position", conf |-> "medium", cites |-> {2}]}

Interchangeable == Permutations(Threads)
=============================================================================
