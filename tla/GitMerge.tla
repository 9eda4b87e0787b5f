------------------------------ MODULE GitMerge ------------------------------
(***************************************************************************)
(* `jx gitops git merge` (pkg/cmd/git/merge): prepares the workspace of a  *)
(* pull request pipeline.  It merges the commits that $PULL_REFS names, or *)
(* those commits of the pull request that pass the --include-comment and   *)
(* --exclude-comment filters, into the local base branch.                  *)
(*                                                                         *)
(* $PULL_REFS is fixed when the pipeline is triggered; the workspace is    *)
(* cloned later, and people push to the base branch and to pull requests   *)
(* meanwhile.  Fetching can fail, merges can conflict, and the command can *)
(* be run again in the same workspace.  A local branch is the set of the   *)
(* commits that are reachable from it.                                     *)
(***************************************************************************)
EXTENDS Integers, FiniteSets, Sequences, SequencesExt

CONSTANTS
  PullRequests,
  Base,                 \* the base branch
  Filtered,             \* the numbers of the commits of a pull request the filters reject
  MaxCommits,           \* bound of the commits on every branch
  MaxReruns,
  None

ASSUME GitMergeAssumption ==
  /\ Base \notin PullRequests /\ IsFiniteSet(PullRequests)
  /\ MaxCommits \in Nat \ {0} /\ MaxReruns \in Nat
  /\ Filtered \subseteq 1 .. MaxCommits

VARIABLES
  length,      \* how many commits the base branch and each pull request have
  fork,        \* the length of the base branch when a pull request was opened
  refs,        \* $PULL_REFS: the base commit and the sequence of commits to merge;
               \* filtering: the pipeline has --include-comment or --exclude-comment
  ws           \* the workspace

vars == <<length, fork, refs, ws>>

-----------------------------------------------------------------------------
(* Commits are pairs of a branch and a number.                             *)

Commits == ({Base} \cup PullRequests) \X (1 .. MaxCommits)

(* The commits reachable from c.                                           *)
Reach(c) ==
  {d \in Commits : \/ d[1] = c[1] /\ d[2] <= c[2]
                   \/ c[1] # Base /\ d[1] = Base /\ d[2] <= fork[c[1]]}

(* The head of a branch on the remote.                                     *)
Remote(b) == <<b, length[b]>>

(* pc; branch: the local base branch, which is checked out; cloned: what   *)
(* it was at first; objects: the commits the workspace has; todo: o.SHAs.  *)
NoWorkspace ==
  [pc |-> "none", branch |-> {}, cloned |-> {}, objects |-> {}, todo |-> <<>>, reruns |-> 0]

Init ==
  /\ length = [b \in {Base} \cup PullRequests |-> IF b = Base THEN 1 ELSE 0]
  /\ fork = [p \in PullRequests |-> 0]
  /\ refs = [base |-> None, heads |-> <<>>, filtering |-> FALSE]
  /\ ws = NoWorkspace

(* People push to a branch; the first push opens a pull request.           *)
Push(b) ==
  /\ length[b] < MaxCommits
  /\ length' = [length EXCEPT ![b] = @ + 1]
  /\ fork' = IF b # Base /\ length[b] = 0 THEN [fork EXCEPT ![b] = length[Base]] ELSE fork
  /\ UNCHANGED <<refs, ws>>

(* A pipeline is triggered for a batch of pull requests.                   *)
Trigger ==
  /\ refs.base = None
  /\ \E batch \in SUBSET {p \in PullRequests : length[p] > 0} :
       /\ batch # {}
       /\ \E order \in SetToSeqs(batch), filtering \in {FALSE, Cardinality(batch) = 1} :
            refs' = [base |-> Remote(Base), heads |-> [i \in DOMAIN order |-> Remote(order[i])],
                     filtering |-> filtering]
  /\ UNCHANGED <<length, fork, ws>>

(* Its workspace is cloned, with the base branch checked out.              *)
Clone ==
  /\ refs.base # None /\ ws.pc = "none"
  /\ ws' = [ws EXCEPT !.pc = "start", !.branch = Reach(Remote(Base)),
                      !.cloned = Reach(Remote(Base)), !.objects = Reach(Remote(Base))]
  /\ UNCHANGED <<length, fork, refs>>

-----------------------------------------------------------------------------
(* The command.                                                            *)

(* Without filters: the commits in $PULL_REFS.                             *)
UseRefs ==
  /\ ws.pc = "start" /\ ~ refs.filtering
  /\ ws' = [ws EXCEPT !.pc = "fetch", !.todo = refs.heads]
  /\ UNCHANGED <<length, fork, refs>>

(* git log --reverse: the oldest commit first.                             *)
OldestFirst(S) == {s \in SetToSeqs(S) : \A i, j \in DOMAIN s : i < j => s[i][2] <= s[j][2]}

(* FindCommitsToMerge: fetches the pull request as it is now; of its       *)
(* commits that are not in the base branch, the filters choose.  That none *)
(* is left is an error, and so is a failing fetch.                         *)
FindCommitsToMerge ==
  /\ ws.pc = "start" /\ refs.filtering
  /\ LET head == Remote(refs.heads[1][1])
         accepted == {c \in Reach(head) \ ws.branch : c[2] \notin Filtered}
     IN  \/ /\ accepted # {}
            /\ \E todo \in OldestFirst(accepted) :
                 ws' = [ws EXCEPT !.pc = "fetch", !.todo = todo, !.objects = @ \cup Reach(head)]
         \/ ws' = [ws EXCEPT !.pc = "failed"]
  /\ UNCHANGED <<length, fork, refs>>

(* FetchAndMergeSHAs: a failing fetch is only logged.                      *)
Fetch ==
  /\ ws.pc = "fetch"
  /\ \E objects \in {{}, UNION {Reach(c) : c \in Range(ws.todo) \cup {refs.base}}} :
       ws' = [ws EXCEPT !.pc = "merge", !.objects = @ \cup objects]
  /\ UNCHANGED <<length, fork, refs>>

(* Mutant of Merge: a merge that fails is only logged, too.                *)
MergeOrSkip ==
  /\ ws.pc = "merge"
  /\ IF ws.todo = <<>> THEN ws' = [ws EXCEPT !.pc = "done"]
     ELSE \/ /\ Head(ws.todo) \in ws.objects
             /\ ws' = [ws EXCEPT !.branch = @ \cup Reach(Head(ws.todo)), !.todo = Tail(@)]
          \/ ws' = [ws EXCEPT !.todo = Tail(@)]
  /\ UNCHANGED <<length, fork, refs>>

(* After checkout and reset, which leave the local branch where it is, the *)
(* commits are merged one by one.  One that conflicts, or that could not   *)
(* be fetched, ends the command; what was merged stays on the branch.  A   *)
(* conflict also leaves its merge unfinished in the workspace.             *)
Merge ==
  /\ ws.pc = "merge"
  /\ IF ws.todo = <<>> THEN ws' = [ws EXCEPT !.pc = "done"]
     ELSE \/ /\ Head(ws.todo) \in ws.objects
             /\ ws' = [ws EXCEPT !.branch = @ \cup Reach(Head(ws.todo)), !.todo = Tail(@)]
          \/ ws' = [ws EXCEPT !.pc = "failed"]
          \/ Head(ws.todo) \in ws.objects /\ ws' = [ws EXCEPT !.pc = "conflict"]
  /\ UNCHANGED <<length, fork, refs>>

(* The step is run again in the same workspace.  After a conflict that is  *)
(* in vain: the checkout fails as long as the merge is not resolved.       *)
Rerun ==
  /\ ws.pc = "failed"
  /\ ws.reruns < MaxReruns
  /\ ws' = [ws EXCEPT !.pc = "start", !.reruns = @ + 1]
  /\ UNCHANGED <<length, fork, refs>>

Next ==
  \/ \E b \in {Base} \cup PullRequests : Push(b)
  \/ Trigger \/ Clone
  \/ UseRefs \/ FindCommitsToMerge \/ Fetch \/ Merge \/ Rerun

Spec == Init /\ [][Next]_vars

-----------------------------------------------------------------------------
(* Properties.                                                             *)

(* The state is well formed: branches, $PULL_REFS and the workspace.       *)
TypeOK ==
  /\ length \in [{Base} \cup PullRequests -> 0 .. MaxCommits]
  /\ fork \in [PullRequests -> 0 .. MaxCommits]
  /\ refs.base \in Commits \cup {None} /\ refs.filtering \in BOOLEAN
  /\ Range(refs.heads) \subseteq Commits
  /\ ws.pc \in {"none", "start", "fetch", "merge", "failed", "conflict", "done"}
  /\ ws.branch \subseteq ws.objects /\ ws.objects \subseteq Commits
  /\ Range(ws.todo) \subseteq Commits

(* Fetches that fail, conflicts, reruns on top of what an earlier run left *)
(* and pushes in between notwithstanding: the command succeeds only with   *)
(* a branch that has the triggered commits and what was cloned, no more.   *)
ExactlyTriggered ==
  ws.pc = "done" /\ ~ refs.filtering =>
    ws.branch = ws.cloned \cup UNION {Reach(c) : c \in Range(refs.heads)}

(* With filters, and the same things going wrong: what the filters accept  *)
(* of the pull request, as it was triggered or later, is merged.           *)
AcceptedMerged ==
  ws.pc = "done" /\ refs.filtering =>
    \A c \in Reach(refs.heads[1]) : c[1] = Base \/ c[2] \in Filtered \/ c \in ws.branch

=============================================================================
