----------------------- MODULE MCApprovalAttachments -----------------------
(* Small instances of ApprovalAttachments. *)
EXTENDS ApprovalAttachments, TLC

CONSTANTS f1, f2, f3

Nothing == [document |-> {}, signature |-> {}, budgets |-> <<>>,
            clothing |-> <<>>, transport |-> <<>>]

(* Documents that come, go and come back, and a signature that may be the
   file of a document. *)
DocumentBodies == {[Nothing EXCEPT !.document = {f1}],
                   [Nothing EXCEPT !.document = {f2}, !.signature = {f1}],
                   [Nothing EXCEPT !.budgets = <<{f2}>>]}
TwoDocuments == DocumentBodies \cup {[Nothing EXCEPT !.document = {f1, f3}]}

(* Two clothing expenses, a file each. *)
ClothingBodies == {[Nothing EXCEPT !.clothing = <<{f1}, {f2}>>]}

NoFault == {}
SomeFault == {"find", "insert", "purge", "commit"}

RequestSymmetry == Permutations(Requests)
=============================================================================
