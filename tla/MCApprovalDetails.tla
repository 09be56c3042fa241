------------------------- MODULE MCApprovalDetails -------------------------
(* Small instances of ApprovalDetails. *)
EXTENDS ApprovalDetails, TLC

NoFault == {}
SomeFault == {"reading", "write", "invalidate"}

SomeEdits == {{"staff", "signer"}, {"trips", "signer"}}
AllEdits == SomeEdits \cup {{"contents", "budgets"}, {"staff", "reference"}}

RequestSymmetry == Permutations(Requests)
=============================================================================
