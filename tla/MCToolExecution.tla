---------------------------- MODULE MCToolExecution ----------------------------
(* Small instances of ToolExecution for TLC. *)
EXTENDS ToolExecution, TLC

CONSTANTS i1, i2, d1, u1, u2, r1, r2

\* A low-risk remediation and an elevated one.
ApprovalAndElevated == (i1 :> "approval") @@ (i2 :> "elevated")

AllApproval == [i \in Invocations |-> "approval"]

AllAllowed == [i \in Invocations |-> "allowed"]

Crashes == {"crash"}

CrashesAndLostReplies == {"crash", "lostReply"}

NoFaults == {}

UserSymmetry == Permutations(Users)

RunSymmetry == Permutations(Runs)

=============================================================================
