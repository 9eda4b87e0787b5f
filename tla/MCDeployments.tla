----------------------------- MODULE MCDeployments -----------------------------
(* The deployments of a cluster and the releases of charts: one part of    *)
(* the run each.                                                           *)
EXTENDS DeploymentStatus, Sequences

CONSTANTS Releasers, Charts, Setups, Overwrites, MaxFailures   \* of the releases of charts
VARIABLES part, setup, pages, registry, runs, failures

Base == [cluster |-> Nil, oci |-> FALSE, pages |-> FALSE, version |-> Nil, versionFile |-> "1", versionEnv |-> Nil,
         access |-> TRUE, user |-> Nil, password |-> Nil, secret |-> Nil, url |-> "https", artifactory |-> FALSE,
         noRelease |-> FALSE, ignored |-> {}]
Pages == [Base EXCEPT !.cluster = "pages"]
One(o) == [o EXCEPT !.ignored = {"web"}]
Configured ==
  {<<Pages, One([Base EXCEPT !.pages = TRUE])>>,
   <<Pages, One([Base EXCEPT !.pages = TRUE, !.access = FALSE])>>,
   <<[Base EXCEPT !.cluster = "pages", !.oci = TRUE], [Base EXCEPT !.password = "p", !.secret = [user |-> Nil, password |-> Nil]]>>,
   <<[Base EXCEPT !.url = "gs"], [Base EXCEPT !.artifactory = TRUE]>>,
   <<[Base EXCEPT !.version = "2", !.noRelease = TRUE, !.cluster = "basic"], [Base EXCEPT !.versionFile = Nil]>>}

MCCharts == <<"app", "web">>

R == INSTANCE HelmRelease WITH run <- runs

ASSUME MCAssumption == R!HelmReleaseAssumption

release == <<setup, pages, registry, runs, failures>>
mcvars == <<part, now, helmfile, report, saved, deployments, missed, run, changes, faults, setup, pages, registry, runs, failures>>

MCInit ==
  /\ part \in {"status", "release"}
  /\ Init /\ R!Init
  /\ part = "status" => setup = <<Pages, One([Base EXCEPT !.pages = TRUE])>>

MCNext ==
  /\ UNCHANGED part
  /\ \/ part = "status" /\ Next /\ UNCHANGED release
     \/ part = "release" /\ R!Next /\ UNCHANGED vars

MCSpec ==
  /\ MCInit /\ [][MCNext]_mcvars
  /\ WF_mcvars(part = "status" /\ Pipeline /\ UNCHANGED <<part, setup, pages, registry, runs, failures>>)
  /\ \A r \in Releasers : WF_mcvars(part = "release" /\ R!Step(r) /\ UNCHANGED <<part, now, helmfile, report, saved, deployments, missed, run, changes, faults>>)

(* A release that succeeded has published its charts                       *)
(* (pkg/cmd/helm/release).                                                 *)
ReleasedIsPublished == part = "release" => R!ReleasedIsPublished

(* A release that is tried again ends with its charts published            *)
(* (pkg/cmd/helm/release).                                                 *)
EventuallyReleased == part = "release" => R!EventuallyReleased
=============================================================================
