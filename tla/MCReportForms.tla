---------------------------- MODULE MCReportForms ----------------------------
(* Small instances of ReportForms. *)
EXTENDS ReportForms, TLC

Holds(inserts, f) == [inserts |-> inserts, form |-> f]

(* An expense with its receipt; a form and no expense any more. *)
SomeContents == {Holds(<<"expense", "receipt">>, FALSE), Holds(<<>>, TRUE)}

RequestSymmetry == Permutations(Requests)
=============================================================================
