------------------------------ MODULE HelmRelease ------------------------------
(***************************************************************************)
(* jx gitops helm release (pkg/cmd/helm/release, pkg/ghpages): the charts  *)
(* of a repository are packaged and published, one after the other, to a   *)
(* branch of git with an index (chart pages), to an OCI registry or to a   *)
(* chart repository.                                                       *)
(*                                                                         *)
(* Several release pipelines run at the same time.  A command of one may   *)
(* fail, also after it took effect, and the pipeline is then run again.    *)
(***************************************************************************)
EXTENDS Naturals, Sequences, SequencesExt

CONSTANTS
  Nil,
  Releasers,   \* the pipelines, each of which releases a version of its own
  Charts,      \* the directories with a chart, in their order
  Setups,      \* the options and the configuration of all pipelines
  Overwrites,  \* whether the chart repository accepts a version again
  MaxFailures  \* bound on the commands that fail

Packages == [chart : Range(Charts), by : Releasers]

(* The first commit of a branch, and one for each package.                 *)
Commits == [failures : 0 .. MaxFailures, by : Releasers] \cup Packages

Branch == [log : Seq(Commits), packages : SUBSET Packages, index : SUBSET Packages]

(* What is assumed of the constants.                                       *)
HelmReleaseAssumption ==
  /\ Charts \in Seq(Range(Charts))
  /\ MaxFailures \in Nat
  /\ Nil \notin Branch

VARIABLES
  setup,    \* the options of each pipeline
  pages,    \* the branch: its history, packages and index.  Nil: not there
  registry, \* the packages in the registry
  run,      \* what each pipeline does, with which chart and which clone
  failures  \* the commands that may still fail

vars == <<setup, pages, registry, run, failures>>

OrElse(x, default) == IF x = Nil THEN default ELSE x

-----------------------------------------------------------------------------
(* Validate and Run: where the charts go.  The flags win over the cluster, *)
(* and OCI over pages, unless there are no requirements.                   *)
Mode(o) ==
  IF o.cluster = Nil THEN IF o.pages THEN "pages" ELSE IF o.oci THEN "oci" ELSE "basic"
  ELSE IF o.oci THEN "oci" ELSE IF o.pages THEN "pages" ELSE o.cluster

Version(o) == OrElse(o.version, OrElse(o.versionFile, o.versionEnv))

(* findChartRepositoryUserPassword                                         *)
Password(o) == OrElse(o.password, IF o.secret = Nil THEN Nil ELSE o.secret.password)
User(o) ==
  OrElse(o.user, IF o.secret = Nil THEN Nil ELSE OrElse(o.secret.user, IF Password(o) = Nil THEN Nil ELSE "admin"))

(* createPublishCommand                                                    *)
MayPublish(o) ==
  \/ o.url \in {"gs", "s3"}
  \/ IF o.artifactory THEN Password(o) # Nil ELSE Password(o) # Nil /\ User(o) # Nil

(* The places of the charts to release.                                    *)
ChartsOf(o) == {i \in DOMAIN Charts : Charts[i] \notin o.ignored}

Package(r) == [chart |-> Charts[run[r].at], by |-> r]

Ready == [pc |-> "ready", at |-> 0, clone |-> Nil]

Init ==
  /\ setup \in Setups
  /\ pages = Nil /\ registry = {}
  /\ run = [r \in Releasers |-> Ready]
  /\ failures = MaxFailures

Goto(r, pc) == run' = [run EXCEPT ![r].pc = pc]

(* The next chart, or the end of the command.                              *)
NextChart(r, clone) ==
  LET later == {i \in ChartsOf(setup[r]) : i > run[r].at}
  IN \/ /\ later = {}
        /\ run' = [run EXCEPT ![r] = [pc |-> "released", at |-> @.at, clone |-> Nil]]
     \/ \E i \in later :
          /\ \A j \in later : i <= j
          /\ run' = [run EXCEPT ![r] = [pc |-> "package", at |-> i, clone |-> clone]]

Failed(r) == failures > 0 /\ failures' = failures - 1 /\ Goto(r, "failed")

(* Everything up to the first chart                                        *)
Begin(r) ==
  /\ run[r].pc = "ready"
  /\ \/ (IF Version(setup[r]) = Nil THEN Goto(r, "failed") ELSE NextChart(r, Nil)) /\ UNCHANGED failures
     \/ Failed(r)
  /\ UNCHANGED <<setup, pages, registry>>

(* BuildAndPackage.  Nothing more is done with --no-release.  The pages    *)
(* are cloned for the first chart only.                                    *)
BuildAndPackage(r) ==
  /\ run[r].pc = "package"
  /\ \/ /\ UNCHANGED failures
        /\ IF setup[r].noRelease THEN NextChart(r, run[r].clone)
           ELSE Goto(r, IF Mode(setup[r]) # "pages" THEN "publish"
                        ELSE IF run[r].clone = Nil THEN "clone" ELSE "commit")
     \/ Failed(r)
  /\ UNCHANGED <<setup, pages, registry>>

(* Mutant of Orphan: there is no branch to begin with.                     *)
OrphanNever(r) == Nil

(* The history of a branch of its own: nobody else has the same.           *)
Orphan(r) == [log |-> <<[failures |-> failures, by |-> r]>>, packages |-> {}, index |-> {}]

(* CloneGitHubPagesToDir: when the branch cannot be cloned, for whatever   *)
(* reason, it is taken to be missing.  Without the URL, a user and a       *)
(* password, given or discovered from git, nothing is cloned.              *)
CloneGitHubPagesToDir(r) ==
  /\ run[r].pc = "clone"
  /\ \/ ~ setup[r].access /\ Goto(r, "failed") /\ UNCHANGED failures
     \/ /\ setup[r].access /\ pages # Nil
        /\ run' = [run EXCEPT ![r].clone = pages, ![r].pc = "commit"]
        /\ UNCHANGED failures
     \/ /\ setup[r].access
        /\ IF pages = Nil THEN UNCHANGED failures ELSE failures > 0 /\ failures' = failures - 1
        /\ run' = [run EXCEPT ![r].clone = Orphan(r), ![r].pc = IF Orphan(r) = Nil THEN "failed" ELSE "commit"]
     \/ Failed(r)
  /\ UNCHANGED <<setup, pages, registry>>

(* Mutant of Indexed: the index is made before the package is copied.      *)
IndexedFirst(clone, package) ==
  [log |-> Append(clone.log, package), packages |-> clone.packages \cup {package}, index |-> clone.packages]

Indexed(clone, package) ==
  [log |-> Append(clone.log, package), packages |-> clone.packages \cup {package},
   index |-> clone.packages \cup {package}]

Commit(r) ==
  /\ run[r].pc = "commit"
  /\ \/ run' = [run EXCEPT ![r].clone = Indexed(@, Package(r)), ![r].pc = "push"] /\ UNCHANGED failures
     \/ Failed(r)
  /\ UNCHANGED <<setup, pages, registry>>

(* A push is accepted when the branch has not moved.                       *)
Accepts(clone) == pages = Nil \/ IsPrefix(pages.log, clone.log)

Push(r) ==
  /\ run[r].pc = "push"
  /\ IF Accepts(run[r].clone)
     THEN \/ pages' = run[r].clone /\ NextChart(r, run[r].clone) /\ UNCHANGED failures
          \/ pages' \in {pages, run[r].clone} /\ Failed(r)
     ELSE Goto(r, "failed") /\ UNCHANGED <<pages, failures>>
  /\ UNCHANGED <<setup, registry>>

Upload(r) ==
  \/ registry' = registry \cup {Package(r)} /\ NextChart(r, Nil) /\ UNCHANGED failures
  \/ registry' \in {registry, registry \cup {Package(r)}} /\ Failed(r)

(* The charts of a registry can be pushed again.                           *)
oCIRegistry(r) ==
  /\ run[r].pc = "publish" /\ Mode(setup[r]) = "oci"
  /\ Upload(r)
  /\ UNCHANGED <<setup, pages>>

BasicRegistry(r) ==
  /\ run[r].pc = "publish" /\ Mode(setup[r]) = "basic"
  /\ IF MayPublish(setup[r]) /\ (Overwrites \/ Package(r) \notin registry) THEN Upload(r)
     ELSE Goto(r, "failed") /\ UNCHANGED <<registry, failures>>
  /\ UNCHANGED <<setup, pages>>

(* The pipeline is run again.                                              *)
Retry(r) ==
  /\ run[r].pc = "failed"
  /\ run' = [run EXCEPT ![r] = Ready]
  /\ UNCHANGED <<setup, pages, registry, failures>>

Step(r) ==
  Begin(r) \/ BuildAndPackage(r) \/ CloneGitHubPagesToDir(r) \/ Commit(r) \/ Push(r)
    \/ oCIRegistry(r) \/ BasicRegistry(r) \/ Retry(r)

Next == \E r \in Releasers : Step(r)

(* Every pipeline goes on, and one that failed is run again.               *)
Spec == Init /\ [][Next]_vars /\ \A r \in Releasers : WF_vars(Step(r))

-----------------------------------------------------------------------------
Published(r) ==
  LET o == setup[r]
      own == {[chart |-> Charts[i], by |-> r] : i \in ChartsOf(o)}
  IN o.noRelease \/ own \subseteq IF Mode(o) = "pages" THEN (IF pages = Nil THEN {} ELSE pages.index) ELSE registry

(* Whatever runs at the same time and fails on the way: a release that     *)
(* succeeded has published all its charts, and they stay; the index of the *)
(* pages lists the packages that are there and no others.                  *)
ReleasedIsPublished ==
  /\ \A r \in Releasers : run[r].pc = "released" => Published(r)
  /\ pages # Nil => pages.index = pages.packages

(* Releases that have what they need come through when they are tried      *)
(* again, although they are in each other's way; of two that push several  *)
(* charts to the pages each, both may fail for ever.                       *)
Releasable(r) ==
  /\ Version(setup[r]) # Nil
  /\ Mode(setup[r]) = "pages" => setup[r].access
  /\ Mode(setup[r]) = "basic" => MayPublish(setup[r]) /\ Overwrites

EventuallyReleased == \A r \in Releasers : <>(Releasable(r) => run[r].pc = "released")
=============================================================================
