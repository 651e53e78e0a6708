---------------------------- MODULE MCAiRequests ----------------------------
(* A small instance of AiRequests for TLC. *)
EXTENDS AiRequests, TLC

CONSTANTS p1, p2, r1, r2

SwitchOffs ==
  [ai |-> {[draft |-> FALSE], [providers |-> {"mock"}]},
   retention |-> {[output |-> "none"]},
   connector |-> {[killSwitch |-> TRUE]}]

AnyAndChat == [r \in Requests |-> IF r = r1 THEN Features ELSE {"chat"}]

AdminSymmetry == Permutations({p1, p2})

=============================================================================
