-------------------------- MODULE DeploymentStatus --------------------------
(***************************************************************************)
(* How the deployments shown on the git server follow the releases of a    *)
(* cluster: `jx gitops helmfile report` (pkg/cmd/helmfile/report/report.go)*)
(* writes docs/releases.yaml from the helmfiles and the previous report,   *)
(* and `jx gitops helmfile status` (pkg/cmd/helmfile/status/status.go)     *)
(* creates a deployment, and a status for it, for every release in the     *)
(* report that was deployed recently and has no deployment.                *)
(*                                                                         *)
(* The pipeline of the cluster repository runs one command after the other,*)
(* and one pipeline runs at a time.  Every call to the git server can fail *)
(* and the pipeline can be killed between two of them; it is run again     *)
(* later; the report of one that did not end may be lost.  People change   *)
(* the helmfiles meanwhile.                                                *)
(***************************************************************************)
EXTENDS Integers, FiniteSets

CONSTANTS
  Environments, Repos,   \* a release: the chart of a repository in an environment
  Production,            \* the environments with "prod" in their names
  Versions,              \* the versions of a chart, in order of release
  Unpinned,              \* environments whose helmfiles may leave out the version
  Oci,                   \* repositories whose charts come from an OCI registry
  Local,                 \* those whose charts are relative paths: no deployment time
  Grouped,               \* .jx/gitops/source-config.yaml has groups
  FailOnError,
  AutoInactive,
  Offset,                \* --deploy-offset as a duration in the past, Nil if empty
  Rollbacks,             \* people also go back to earlier versions
  Slow,                  \* time passes while the pipeline runs
  PageSize,              \* deployments on a page of a list
  FaultKinds,            \* subset of {"list", "missing", "create", "status", "kill"}
  MaxFaults, MaxTime,
  MaxChanges,            \* bound on the changes of the helmfiles
  MaxDeployments,        \* bound on what is created because a list was incomplete
  Any,                   \* the version requested of a release that names none
  Nil

ASSUME DeploymentStatusAssumption ==
  /\ Versions \subseteq Nat
  /\ Production \subseteq Environments /\ Unpinned \subseteq Environments
  /\ Oci \subseteq Repos /\ Local \subseteq Repos /\ Oci \cap Local = {}
  /\ {Grouped, FailOnError, AutoInactive, Rollbacks, Slow} \subseteq BOOLEAN
  /\ Offset = Nil \/ Offset \in Nat
  /\ FaultKinds \subseteq {"list", "missing", "create", "status", "kill"}
  /\ PageSize \in Nat /\ MaxDeployments \in Nat
  /\ MaxFaults \in Nat /\ MaxTime \in Nat /\ MaxChanges \in Nat
  /\ Nil \notin Nat /\ Any \notin Nat /\ Any # Nil

Releases == Environments \X Repos

VARIABLES
  now,
  helmfile,      \* the version of every release in the helmfiles, or Nil
  report,        \* its entry in docs/releases.yaml, or Nil
  saved,         \* that file in the repository, where the next pipeline finds it
  deployments,   \* on the git server
  missed,        \* history: what was created although it was there, not on the page
  run,           \* the pipeline
  changes, faults

vars == <<now, helmfile, report, saved, deployments, missed, run, changes, faults>>

-----------------------------------------------------------------------------

Time == 0 .. MaxTime

Requests == Versions \cup {Any}

Entry == [version : Requests, last : Time \cup {Nil}]

(* A deployment is shown as active when its last status is "success".      *)
Deployment == [id : Nat, release : Releases, ref : Versions,
               status : {"none", "success", "inactive"}]

Idle == [pc |-> "idle", todo |-> {}, release |-> Nil]

Init ==
  /\ now = 0
  /\ helmfile = [x \in Releases |-> Nil]
  /\ report = [x \in Releases |-> Nil]
  /\ saved = report
  /\ deployments = {}
  /\ missed = {}
  /\ run = Idle
  /\ changes = 0
  /\ faults = 0

Tick ==
  /\ now < MaxTime
  /\ Slow \/ run.pc = "idle"
  /\ now' = now + 1
  /\ UNCHANGED <<helmfile, report, saved, deployments, missed, run, changes, faults>>

(* A release is installed, upgraded, rolled back or removed.               *)
Upgrades(x) == {v \in Versions : helmfile[x] = Nil \/ (helmfile[x] # Any /\ v > helmfile[x])}

Change(x) ==
  /\ changes < MaxChanges
  /\ changes' = changes + 1
  /\ \E v \in (IF Rollbacks THEN Versions \cup {Nil} ELSE Upgrades(x))
               \cup (IF x[1] \in Unpinned THEN {Any} ELSE {}) :
       helmfile' = [helmfile EXCEPT ![x] = v]
  /\ UNCHANGED <<now, report, saved, deployments, missed, run, faults>>

-----------------------------------------------------------------------------
(* report.                                                                 *)

(* createReleaseInfo and enrichChartMetadata, with the latest versions in  *)
(* the indices of the chart repositories: what the report says is compared *)
(* with what is requested.  OCI charts have no previous entry and are not  *)
(* looked up, relative ones have no times.                                 *)
ReleaseInfo(x, latest) ==
  LET v == helmfile[x]
      kept == report[x] # Nil /\ report[x].version = v
  IN  CASE v = Nil -> Nil
        [] v # Nil /\ x[2] \in Local -> [version |-> v, last |-> Nil]
        [] v # Nil /\ x[2] \in Oci -> [version |-> v, last |-> now]
        [] OTHER -> IF kept THEN report[x]
                    ELSE [version |-> IF v = Any THEN latest[x[2]] ELSE v, last |-> now]

Report ==
  /\ run.pc = "idle"
  /\ \E latest \in [Repos -> Versions] :
       report' = [x \in Releases |-> ReleaseInfo(x, latest)]
  /\ run' = [run EXCEPT !.pc = "reported"]
  /\ UNCHANGED <<now, helmfile, saved, deployments, missed, changes, faults>>

-----------------------------------------------------------------------------
(* status.                                                                 *)

(* The releases deployed after the cutoff.  Without a time of deployment a *)
(* release is left out unless the source config has groups.                *)
Recent(x) ==
  /\ report[x] # Nil
  /\ IF report[x].last = Nil THEN Grouped
     ELSE Offset = Nil \/ now - Offset < report[x].last

(* The pipeline ends; if it failed, its report may be lost.                *)
End(left) ==
  /\ run' = Idle
  /\ report' \in left
  /\ saved' = report'

(* The loops of Run and updateStatuses take the next release, or end.      *)
Continue(todo) ==
  \/ todo = {} /\ End({report})
  \/ /\ \E x \in todo : run' = [pc |-> "list", todo |-> todo \ {x}, release |-> x]
     /\ UNCHANGED <<report, saved>>

Start ==
  /\ run.pc = "reported"
  /\ Continue({x \in Releases : Recent(x)})
  /\ UNCHANGED <<now, helmfile, deployments, missed, changes, faults>>

(* After an error: the command ends with --fail; if it goes on, grouped    *)
(* repositories are done with.                                             *)
Failed ==
  \/ FailOnError /\ End({report, saved})
  \/ /\ ~ FailOnError
     /\ Continue(IF Grouped THEN {x \in run.todo : x[2] # run.release[2]} ELSE run.todo)

Fails(kind) ==
  /\ kind \in FaultKinds
  /\ faults < MaxFaults
  /\ faults' = faults + 1

Ref == report[run.release].version

(* Mutant of Matches: whatever the environment.                            *)
MatchesAnywhere(d) == d.release[2] = run.release[2] /\ d.ref = Ref

(* Mutant of Matches: only one with a status counts.                       *)
MatchesActive(d) == d.release = run.release /\ d.ref = Ref /\ d.status # "none"

(* The comparison of FindExistingDeploymentInEnvironment.                  *)
Matches(d) == d.release = run.release /\ d.ref = Ref

(* The deployments of the repository on one page, whatever the environment.*)
Listings ==
  LET all == {d \in deployments : d.release[2] = run.release[2]}
  IN  IF Cardinality(all) <= PageSize THEN {all}
      ELSE {page \in SUBSET all : Cardinality(page) = PageSize}

(* What comes of a list in which the release is not found.                 *)
NotFound(page) ==
  /\ run' = [run EXCEPT !.pc = "create"]
  /\ IF \E d \in deployments \ page : d.release = run.release /\ d.ref = Ref
     THEN /\ Cardinality(deployments) < MaxDeployments
          /\ missed' = missed \cup {<<run.release, Ref>>}
     ELSE UNCHANGED missed
  /\ UNCHANGED <<report, saved>>

(* updateStatus up to there.  A release without a version is skipped; "not *)
(* found" is taken for an empty list.                                      *)
List ==
  /\ run.pc = "list"
  /\ \/ /\ Ref = Any
        /\ Continue(run.todo)
        /\ UNCHANGED <<missed, faults>>
     \/ /\ Ref # Any
        /\ \E page \in Listings :
             \/ /\ \E d \in page : Matches(d)
                /\ Continue(run.todo)
                /\ UNCHANGED missed
             \/ /\ \A d \in page : ~ Matches(d)
                /\ NotFound(page)
        /\ UNCHANGED faults
     \/ Ref # Any /\ Fails("missing") /\ NotFound({})
     \/ Ref # Any /\ Fails("list") /\ Failed /\ UNCHANGED missed
  /\ UNCHANGED <<now, helmfile, deployments, changes>>

(* CreateNewDeployment.                                                    *)
Create ==
  /\ run.pc = "create"
  /\ \/ /\ deployments' = deployments \cup
             {[id |-> Cardinality(deployments), release |-> run.release, ref |-> Ref,
               status |-> "none"]}
        /\ run' = [run EXCEPT !.pc = "status"]
        /\ UNCHANGED <<report, saved, faults>>
     \/ /\ Fails("create") /\ Failed
        /\ UNCHANGED deployments
  /\ UNCHANGED <<now, helmfile, missed, changes>>

(* What the git server does when d is reported to be successful: those     *)
(* before it become inactive, but not in production environments.          *)
Succeeded(d) ==
  {IF e = d THEN [d EXCEPT !.status = "success"]
   ELSE IF /\ AutoInactive /\ d.release[1] \notin Production
           /\ e.release = d.release /\ e.status = "success"
        THEN [e EXCEPT !.status = "inactive"]
   ELSE e : e \in deployments}

(* The end of updateStatus, on the deployment just created.                *)
CreateStatus ==
  /\ run.pc = "status"
  /\ \/ /\ deployments' = Succeeded(CHOOSE d \in deployments :
                                      \A e \in deployments : e.id <= d.id)
        /\ Continue(run.todo)
        /\ UNCHANGED faults
     \/ /\ Fails("status") /\ Failed
        /\ UNCHANGED deployments
  /\ UNCHANGED <<now, helmfile, missed, changes>>

(* The pipeline is killed.                                                 *)
Kill ==
  /\ run.pc # "idle"
  /\ Fails("kill")
  /\ End({report, saved})
  /\ UNCHANGED <<now, helmfile, deployments, missed, changes>>

Pipeline == Report \/ Start \/ List \/ Create \/ CreateStatus

Next ==
  \/ Tick
  \/ \E x \in Releases : Change(x)
  \/ Pipeline
  \/ Kill

Spec == Init /\ [][Next]_vars

(* The pipeline is run again and again, and makes progress when it runs.   *)
FairSpec == Spec /\ WF_vars(Pipeline)

-----------------------------------------------------------------------------
(* Properties.                                                             *)

(* The state is well formed: the report, the deployments and the pipeline. *)
TypeOK ==
  /\ now \in Time
  /\ helmfile \in [Releases -> Requests \cup {Nil}]
  /\ {report, saved} \subseteq [Releases -> Entry \cup {Nil}]
  /\ deployments \subseteq Deployment
  /\ missed \subseteq Releases \X Versions
  /\ run \in [pc : {"idle", "reported", "list", "create", "status"},
              todo : SUBSET Releases, release : Releases \cup {Nil}]
  /\ changes \in 0 .. MaxChanges /\ faults \in 0 .. MaxFaults

(* However often the pipeline fails half way and runs again: a version of  *)
(* a release has one deployment in an environment.  The exception: one     *)
(* page of the deployments is looked at (and none of a repository that     *)
(* could not be found), so what is not on it is deployed again.            *)
DeployedOnce ==
  \A d, e \in deployments :
    d.release = e.release /\ d.ref = e.ref /\ d.id # e.id => <<d.release, d.ref>> \in missed

Active(x) == {d.ref : d \in {e \in deployments : e.release = x /\ e.status = "success"}}

(* The versions of a release only went up, as far as deployments show.     *)
OnlyUpgraded(x) ==
  LET ofx == {d \in deployments : d.release = x}
  IN  /\ \A d, e \in ofx : d.id < e.id => d.ref <= e.ref
      /\ \A d \in ofx : d.ref <= report[x].version

(* The version of a release that the report names, if it is deployed.      *)
Reported(x) == report[x] # Nil /\ report[x].version # Any

(* "Updates the git deployment status after a release", and "We should     *)
(* ignore releases that are the same as the current deployment": as long   *)
(* as the versions of a release only go up and nothing fails, the version  *)
(* shown in its environment is the one reported, whatever happens in the   *)
(* other environments and whatever part of the deployments a list shows.   *)
(* In production earlier versions stay active as well.                     *)
LatestShown ==
  faults = 0 /\ run.pc = "idle" =>
    \A x \in Releases :
      Reported(x) /\ OnlyUpgraded(x) =>
        IF x[1] \in Production THEN report[x].version \in Active(x)
        ELSE Active(x) = {report[x].version}

(* Another version was deployed after this one: the release went back.     *)
RolledBack(x, v) ==
  \E d, e \in deployments :
    d.release = x /\ d.ref = v /\ e.release = x /\ e.ref # v /\ d.id < e.id

(* A release that keeps its version is shown from some time on: pipelines  *)
(* that fail on the way are made up for by later ones.  The exceptions: a  *)
(* deployment whose status could not be created, a version that comes back *)
(* after another one was deployed, and, when --deploy-offset has passed    *)
(* since the report, whatever was not deployed by then.                    *)
EventuallyShown ==
  \A x \in Releases : \A v \in Versions :
    <>[](helmfile[x] = v) =>
      \/ <>[](v \in Active(x))
      \/ <>[](\E d \in deployments : d.release = x /\ d.ref = v /\ d.status = "none")
      \/ <>[]RolledBack(x, v)
      \/ <>[](Offset # Nil /\ ~ Recent(x))

(* The same, after rollbacks: the version that is reported is shown.       *)
ReportedShown ==
  run.pc = "idle" => \A x \in Releases : Reported(x) => report[x].version \in Active(x)
=============================================================================
