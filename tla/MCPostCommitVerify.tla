------------------------- MODULE MCPostCommitVerify -------------------------
(* PostCommitVerify for TLC: payloads that set a scalar, add a list member, *)
(* do both, drop a list member, or hold nothing that can be verified.       *)
EXTENDS PostCommitVerify

MCPayloads == {[enabled |-> "new"],
               [step |-> "present"],
               [enabled |-> "old", step |-> "present"],
               [step |-> "absent"],
               [f \in {} |-> "absent"]}
=============================================================================
