---------------------------- MODULE BuildSequence ---------------------------
(***************************************************************************)
(* What a pipeline expects of its build number: the numbers of a branch    *)
(* are handed out in increasing order, one to every build, for good.       *)
(***************************************************************************)
EXTENDS Integers

CONSTANTS Builds, Branches, BranchOf, MaxBuild

VARIABLE issued            \* the numbers given to every build: none or one

Init == issued = [b \in Builds |-> {}]

(* The numbers of the branch of b that are taken.                          *)
Taken(b) == UNION {issued[a] : a \in {x \in Builds : BranchOf[x] = BranchOf[b]}}

Issue(b) ==
  /\ issued[b] = {}
  /\ \E n \in 1 .. MaxBuild :
       /\ \A m \in Taken(b) : m < n
       /\ issued' = [issued EXCEPT ![b] = {n}]

Next == \E b \in Builds : Issue(b)

Spec == Init /\ [][Next]_issued
=============================================================================
