-------------------------- MODULE ApplyRegeneration --------------------------
(***************************************************************************)
(* `jx gitops apply` (pkg/cmd/apply/apply.go): decides from the history of *)
(* a cluster git repository whether its kubernetes resources have to be    *)
(* generated again.  It runs in the pipeline of the main branch, and with  *)
(* --pull-request in those of pull requests.                               *)
(*                                                                         *)
(* A commit holds sources and what was generated from them; both are sets  *)
(* of changes here, and merging takes the union.  A commit made by the     *)
(* make targets that generate has "/pipeline cancel" in its message: it is *)
(* marked.  The make targets, git and the people who push are external.    *)
(***************************************************************************)
EXTENDS Integers, Sequences

CONSTANTS
  Changes,         \* what people change in the sources
  Secrets,         \* the changes that generate an ExternalSecret
  PullRequests,
  MergeMethods,    \* subset of {"merge", "squash"}
  Window,          \* 20 minutes
  Failing,         \* make targets may fail
  MaxCommits, MaxTime

ASSUME ApplyRegenerationAssumption ==
  /\ Secrets \subseteq Changes
  /\ MergeMethods \subseteq {"merge", "squash"}
  /\ Failing \in BOOLEAN
  /\ Window \in Nat /\ MaxTime \in Nat
  /\ MaxCommits \in Nat \ {0}

VARIABLES
  now,
  commits,      \* the sequence of all commits
  main,         \* the head of the main branch
  branch,       \* the head of the branch of every pull request, 0 without one
  newCluster,   \* the namespace jx does not have the label team=jx yet
  triggered,    \* a push to main has no pipeline yet
  run,          \* the pipeline of the main branch
  skipped       \* history: the heads for which nothing was generated

vars == <<now, commits, main, branch, newCluster, triggered, run, skipped>>

-----------------------------------------------------------------------------
(* The history.                                                            *)

Commits == DOMAIN commits

Commit(parents, marked, sources, generated) ==
  [parents |-> parents, marked |-> marked, time |-> now,
   sources |-> sources, generated |-> generated]

Parents(c) == {commits[c].parents[i] : i \in DOMAIN commits[c].parents}

(* The commits reachable from c, itself included; none from 0, the empty   *)
(* commit.  Parents come before their children.                            *)
Ancestors(c) ==
  LET reach[n \in 0 .. Len(commits)] ==
        IF n = 0 THEN {} ELSE {n} \cup UNION {reach[p] : p \in Parents(n)}
  IN  reach[c]

NumParents(c) == IF c = 0 THEN 0 ELSE Len(commits[c].parents)

(* Mutant of Verification: only the first parent of a merge is looked at.  *)
FirstParentVerification(head) ==
  LET verify[c \in Commits, latest \in 0 .. Len(commits)] ==
        IF commits[c].marked THEN [ok |-> TRUE, latest |-> latest]
        ELSE IF NumParents(c) < 2 THEN [ok |-> FALSE, latest |-> latest]
        ELSE verify[commits[c].parents[1], latest]
  IN  verify[head, 0]

(* verifyRegenerated, with the value it leaves in latestRegen: the first   *)
(* marked commit it comes upon, 0 before.  Anything below a marked commit  *)
(* is taken to be generated, and so is what is old compared to the latest  *)
(* marked commit, or what that commit contains.  verify is what the        *)
(* recursive calls return.                                                 *)
verifyRegenerated(verify, c, latest) ==
  LET found == NumParents(latest) = 1
      parents == commits[c].parents
  IN  IF commits[c].marked
      THEN [ok |-> TRUE, latest |-> IF found THEN latest ELSE c]
      ELSE IF found /\ commits[c].time + Window < commits[latest].time
      THEN [ok |-> TRUE, latest |-> latest]
      ELSE IF NumParents(c) < 2
      THEN [ok |-> /\ NumParents(c) = 1
                   /\ {c, parents[1]} \subseteq Ancestors(latest),
            latest |-> latest]
      ELSE LET first == verify[parents[1]][latest]
           IN  IF first.ok THEN verify[parents[2]][first.latest] ELSE first

(* The call in Run, which starts with the empty commit.                    *)
Verification(head) ==
  LET verify[c \in Commits] ==
        [latest \in 0 .. Len(commits) |-> verifyRegenerated(verify, c, latest)]
  IN  verify[head][0]

(* CheckLastCommitChangedExternalSecret: the files that differ from the    *)
(* first parent.                                                           *)
ChangedExternalSecret(c) ==
  (commits[c].generated \ commits[commits[c].parents[1]].generated) \cap Secrets # {}

(* The first part of Run.                                                  *)
Regen(c) ==
  \/ NumParents(c) > 1 /\ ChangedExternalSecret(c)
  \/ newCluster
  \/ ~ Verification(c).ok

-----------------------------------------------------------------------------
(* People and git (external).                                              *)

(* People stop after MaxCommits commits; pipelines do not, and only commit *)
(* when there is something to generate.                                    *)
Room == Len(commits) < MaxCommits

Used == UNION {commits[c].sources : c \in Commits}

Idle == [pc |-> "idle", head |-> 0, local |-> <<>>]

Init ==
  /\ now = 0
  /\ commits = <<[parents |-> <<>>, marked |-> FALSE, time |-> 0,
                  sources |-> {}, generated |-> {}]>>
  /\ main = 1
  /\ branch = [p \in PullRequests |-> 0]
  /\ newCluster = TRUE
  /\ triggered = TRUE
  /\ run = Idle
  /\ skipped = {}

Tick ==
  /\ now < MaxTime
  /\ now' = now + 1
  /\ UNCHANGED <<commits, main, branch, newCluster, triggered, run, skipped>>

(* A change is pushed to main.                                             *)
Push(ch) ==
  /\ Room /\ ch \notin Used
  /\ commits' = Append(commits, Commit(<<main>>, FALSE, commits[main].sources \cup {ch},
                                       commits[main].generated))
  /\ main' = Len(commits) + 1
  /\ triggered' = TRUE
  /\ UNCHANGED <<now, branch, newCluster, run, skipped>>

(* A change is pushed to a pull request, which may be new.                 *)
PushToPullRequest(p, ch) ==
  LET parent == IF branch[p] = 0 THEN main ELSE branch[p]
  IN  /\ Room /\ ch \notin Used
      /\ commits' = Append(commits, Commit(<<parent>>, FALSE, commits[parent].sources \cup {ch},
                                           commits[parent].generated))
      /\ branch' = [branch EXCEPT ![p] = Len(commits) + 1]
      /\ UNCHANGED <<now, main, newCluster, triggered, run, skipped>>

(* Main is merged into the branch of a pull request.                       *)
UpdateBranch(p) ==
  /\ Room /\ branch[p] # 0 /\ main \notin Ancestors(branch[p])
  /\ commits' = Append(commits, Commit(<<branch[p], main>>, FALSE,
                                       commits[branch[p]].sources \cup commits[main].sources,
                                       commits[branch[p]].generated \cup commits[main].generated))
  /\ branch' = [branch EXCEPT ![p] = Len(commits) + 1]
  /\ UNCHANGED <<now, main, newCluster, triggered, run, skipped>>

(* A pull request is merged.  The message of a squashed commit has those   *)
(* of all the commits in it.                                               *)
Merge(p) ==
  /\ Room /\ branch[p] # 0
  /\ \E method \in MergeMethods :
       commits' = Append(commits,
         Commit(IF method = "merge" THEN <<main, branch[p]>> ELSE <<main>>,
                /\ method = "squash"
                /\ \E c \in Ancestors(branch[p]) \ Ancestors(main) : commits[c].marked,
                commits[branch[p]].sources \cup commits[main].sources,
                commits[branch[p]].generated \cup commits[main].generated))
  /\ main' = Len(commits) + 1
  /\ branch' = [branch EXCEPT ![p] = 0]
  /\ triggered' = TRUE
  /\ UNCHANGED <<now, newCluster, run, skipped>>

-----------------------------------------------------------------------------
(* The pipelines.                                                          *)

Generated(c) == Commit(<<c>>, TRUE, commits[c].sources, commits[c].sources)

(* apply --pull-request: pr-regen pushes what it generated to the branch.  *)
ApplyToPullRequest(p) ==
  /\ branch[p] # 0
  /\ Regen(branch[p])
  /\ commits[branch[p]].generated # commits[branch[p]].sources
  /\ commits' = Append(commits, Generated(branch[p]))
  /\ branch' = [branch EXCEPT ![p] = Len(commits) + 1]
  /\ UNCHANGED <<now, main, newCluster, triggered, run, skipped>>

(* apply in a clone of main; a merge that is skipped has regen-none run,   *)
(* which generates nothing.                                                *)
Apply ==
  /\ triggered /\ run.pc \in {"idle", "failed"}
  /\ triggered' = FALSE
  /\ \/ /\ Regen(main)
        /\ run' = [pc |-> "phase-1", head |-> main, local |-> <<>>]
        /\ UNCHANGED skipped
     \/ /\ ~ Regen(main)
        /\ skipped' = skipped \cup {main}
        /\ run' = Idle
  /\ UNCHANGED <<now, commits, main, branch, newCluster>>

(* regen-phase-1 generates and commits, if there is anything to commit;    *)
(* phase 2 is left out when there was not and the head is marked.          *)
Phase1 ==
  /\ run.pc = "phase-1"
  /\ LET c == commits[run.head]
         changed == c.generated # c.sources
     IN  run' = [run EXCEPT
           !.pc = IF ~ changed /\ c.marked THEN "phase-3" ELSE "phase-2",
           !.local = IF changed THEN <<Generated(run.head)>> ELSE <<>>]
  /\ UNCHANGED <<now, commits, main, branch, newCluster, triggered, skipped>>

(* regen-phase-2 does it again, since applying may have changed what is    *)
(* generated; what is in the sources was generated before.                 *)
Phase2 ==
  /\ run.pc = "phase-2"
  /\ run' = [run EXCEPT !.pc = "phase-3"]
  /\ UNCHANGED <<now, commits, main, branch, newCluster, triggered, skipped>>

(* regen-phase-3 pushes, unless main has moved: then the pipeline fails.   *)
(* After the first boot the cluster is not new any more.                   *)
Phase3 ==
  /\ run.pc = "phase-3"
  /\ run' = Idle
  /\ newCluster' = FALSE
  /\ IF main = run.head /\ run.local # <<>>
     THEN /\ commits' = commits \o run.local
          /\ main' = Len(commits) + 1
          /\ triggered' = TRUE
     ELSE UNCHANGED <<commits, main, triggered>>
  /\ UNCHANGED <<now, branch, skipped>>

(* A make target fails, and the pipeline with it: nothing runs it again.   *)
Abort ==
  /\ Failing /\ ~ run.pc \in {"idle", "failed"}
  /\ run' = [run EXCEPT !.pc = "failed", !.local = <<>>]
  /\ UNCHANGED <<now, commits, main, branch, newCluster, triggered, skipped>>

MainPipeline == Apply \/ Phase1 \/ Phase2 \/ Phase3

Next ==
  \/ Tick \/ Abort
  \/ \E ch \in Changes : Push(ch) \/ \E p \in PullRequests : PushToPullRequest(p, ch)
  \/ \E p \in PullRequests : UpdateBranch(p) \/ Merge(p) \/ ApplyToPullRequest(p)
  \/ MainPipeline

Spec == Init /\ [][Next]_vars

(* A pipeline that was triggered runs, and ends.                           *)
FairSpec == Spec /\ WF_vars(MainPipeline)

-----------------------------------------------------------------------------
(* Properties.                                                             *)

(* The state is well formed: the history, the branches and the pipeline.   *)
TypeOK ==
  /\ now \in 0 .. MaxTime
  /\ \A c \in Commits :
       /\ \A i \in DOMAIN commits[c].parents : commits[c].parents[i] \in 1 .. c - 1
       /\ commits[c].marked \in BOOLEAN
       /\ commits[c].time \in 0 .. now
       /\ commits[c].generated \subseteq commits[c].sources
       /\ commits[c].sources \subseteq Changes
  /\ main \in Commits
  /\ branch \in [PullRequests -> Commits \cup {0}]
  /\ newCluster \in BOOLEAN /\ triggered \in BOOLEAN
  /\ run.pc \in {"idle", "failed", "phase-1", "phase-2", "phase-3"}
  /\ run.head \in Commits \cup {0}
  /\ skipped \subseteq Commits

(* A change is stale once its commit is older than a marked commit by more *)
(* than the 20 minutes.                                                    *)
Stale(ch) ==
  \E c, r \in Commits :
    /\ ch \in commits[c].sources
    /\ commits[r].marked
    /\ commits[c].time + Window < commits[r].time

(* However pull requests are updated, generated, merged and overtaken by   *)
(* other pushes: the heads that apply skips have everything generated,     *)
(* except for changes that were left to go stale.                          *)
OnlyStaleMissed ==
  \A c \in skipped : \A ch \in commits[c].sources \ commits[c].generated : Stale(ch)

(* What arrives on main is in the end generated on main, although every    *)
(* push may overtake the pipeline of the one before, unless it is stale or *)
(* the last pipeline failed.                                               *)
EventuallyGenerated ==
  <>[](\A ch \in commits[main].sources \ commits[main].generated :
         Stale(ch) \/ run.pc = "failed")

(* The log says "all changes are already regenerated".                     *)
AllChangesRegenerated ==
  \A c \in skipped : commits[c].generated = commits[c].sources

=============================================================================
