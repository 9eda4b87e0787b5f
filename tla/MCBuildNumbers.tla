--------------------------- MODULE MCBuildNumbers ---------------------------
(* Instances of BuildNumbers for TLC: three builds of the branch a/x and   *)
(* one of the branch a-x, which is also the valid name of the other.       *)
EXTENDS BuildNumbers

CONSTANTS b1, b2, b3, b4, slash, dash

MCBranchOf == [b \in Builds |-> IF b = b4 THEN dash ELSE slash]
MCValidName == [br \in Branches |-> dash]
=============================================================================
