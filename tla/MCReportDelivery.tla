--------------------------- MODULE MCReportDelivery ---------------------------
(* Model-checking instance of ReportDelivery: two tools next to one skill, or   *)
(* one tool and no skill; the PDF alone, or the PDF and the workbook.  Two     *)
(* attempts for all but the registration and the failure, which have one.     *)
EXTENDS ReportDelivery

MaximumAttempts ==
    [a \in Kinds \union Closing
             \union {"select", "tools", "skills", "validate", "complete", "deliver", "fail"} |->
        IF a \in {"register", "fail"} THEN 1 ELSE 2]

SomePlans == {[tools |-> {"quality", "pricing"}, skills |-> {"competitors"}],
              [tools |-> {"quality"}, skills |-> {}]}

PdfOrBoth == {{"pdf"}, {"pdf", "xlsx"}}
=============================================================================
