------------------------------- MODULE Variables -------------------------------
(***************************************************************************)
(* `jx gitops variables` (pkg/cmd/variables) with its finders              *)
(* (pkg/variablefinders): generates the variables of a pipeline from the   *)
(* settings of the repository, of its group and of the cluster, and puts   *)
(* them in front of what .jx/variables.sh has.                             *)
(*                                                                         *)
(* The steps of a pipeline source the file; the command can run again in   *)
(* the same workspace, in the same pipeline, after the settings, the       *)
(* ConfigMap or VERSION changed.  Nil is the empty string, and an absent   *)
(* file or resource.                                                       *)
(***************************************************************************)
EXTENDS Naturals, Sequences, TLC

CONSTANTS
  Nil,
  Lower(_), ValidName(_),  \* strings.ToLower, naming.ToValidName
  Dashed(_),    \* the name of a repository of a nested group with dashes for slashes
  PrBranches,   \* the branches whose names start with PR-
  Worlds,       \* what the command finds: see the operators below
  Local,        \* blocks that the repository has in .jx/variables.sh
  Extra,        \* names of the variables that the ConfigMap has values for
  MaxSteps

VARIABLES world, file, steps
vars == <<world, file, steps>>

OrElse(a, b) == IF a = Nil THEN b ELSE a

-----------------------------------------------------------------------------
(* Settings                                                                *)

(* Of the settings of the repository and of its group, in the source       *)
(* configuration of the cluster repository: an empty one takes no part.    *)
mergeSettings(local, group) ==
  IF local = Nil THEN group ELSE IF group = Nil THEN local
  ELSE [k \in DOMAIN local |-> OrElse(local[k], group[k])]

(* GetSettings: without settings and without a dev environment, no cluster *)
(* repository is found.                                                    *)
Found(w) == (w.local # Nil /\ w.local.gitURL # Nil) \/ w.dev # Nil

GetSettings(w) == mergeSettings(OrElse(w.local, w.none), w.group)

(* The promotion environments, a function from keys to what is said of     *)
(* them: the settings over those that the cluster shares.                  *)
Environments(shared, settings) ==
  IF settings.ignoreDev # Nil \/ shared = Nil THEN settings.envs
  ELSE IF settings.envs = Nil THEN shared
  ELSE [k \in DOMAIN settings.envs |-> IF k \in DOMAIN shared THEN OrElse(settings.envs[k], shared[k]) ELSE settings.envs[k]] @@ shared

(* FindRequirements: those of the cluster repository with the destination  *)
(* of the settings over them; requirements that do not load are empty.     *)
FindRequirements(w) ==
  LET req == OrElse(w.cluster, w.none)
      settings == GetSettings(w)
  IN [k \in DOMAIN req |->
        IF k = "envs" THEN Environments(req.envs, settings)
        ELSE IF k \in {"registry", "org", "charts", "kind"} THEN OrElse(settings[k], req[k]) ELSE req[k]]

-----------------------------------------------------------------------------
(* Finders                                                                 *)

(* Mutant of FindPipelineKind: looks at the branch and at the job only.    *)
FindPipelineKindOfJob(w) ==
  IF w.branch \in PrBranches \/ w.jobType = "presubmit" THEN "pullrequest" ELSE "release"

FindPipelineKind(w) ==
  IF w.branch \in PrBranches \/ w.jobType = "presubmit" \/ w.pull # Nil THEN "pullrequest" ELSE "release"

FindVersion(w) ==
  LET version == OrElse(w.versionFile, w.versionEnv)
  IN IF version # Nil THEN version
     ELSE IF w.pull # Nil THEN <<"snapshot", w.pull, w.build>>
     ELSE IF w.branch \in PrBranches THEN <<"snapshot", w.branch, w.build>>
     ELSE Nil

FindDockerfilePath(w) ==
  IF FindPipelineKind(w) = "pullrequest" /\ w.preview THEN "Dockerfile-preview" ELSE "Dockerfile"

DockerRegistryOrg(req, owner) ==
  OrElse(OrElse(req.org, IF req.provider = "gke" THEN req.project ELSE Nil), ValidName(owner))

dockerRegistry(w) == LET r == OrElse(FindRequirements(w).registry, w.config.registry) IN IF r = Nil THEN Nil ELSE Lower(r)

dockerRegistryOrg(w) == OrElse(w.config.org, DockerRegistryOrg(FindRequirements(w), w.owner))

pushContainerRegistry(w) == OrElse(w.config.push, dockerRegistry(w))

FindRepositoryURL(w) ==
  LET req == FindRequirements(w)
      given == OrElse(req.charts, w.chartsEnv)
  IN IF given # Nil THEN given
     ELSE IF req.kind = "oci"
     THEN IF req.registry = Nil \/ dockerRegistryOrg(w) = Nil THEN Nil ELSE <<req.registry, dockerRegistryOrg(w), w.repo>>
     ELSE IF req.kind = "pages" THEN Nil ELSE "chartmuseum"

minkImage(w) == <<dockerRegistry(w), dockerRegistryOrg(w), Dashed(w.repo), FindVersion(w)>>

(* The dashboard is that of the service jx-pipelines-visualizer.           *)
GetJenkinsXURL(w) ==
  IF Nil \in {w.dashboard, w.owner, w.branch, w.build} THEN Nil
  ELSE <<w.dashboard, w.owner, Dashed(w.repo), w.branch, w.build>>

getRepoName(w) == Dashed(Lower(w.repo))

-----------------------------------------------------------------------------
(* The command                                                             *)

(* Validate: the variables with what finds them.                           *)
Functions(w) ==
  [APP_NAME |-> w.repo, BRANCH_NAME |-> w.branch, BUILD_NUMBER |-> w.build,
   DOCKERFILE_PATH |-> FindDockerfilePath(w),
   DOCKER_REGISTRY |-> dockerRegistry(w), DOCKER_REGISTRY_ORG |-> dockerRegistryOrg(w),
   PUSH_CONTAINER_REGISTRY |-> pushContainerRegistry(w),
   DOMAIN_NAME |-> FindRequirements(w).domain, NAMESPACE_SUB_DOMAIN |-> FindRequirements(w).subDomain,
   GIT_BRANCH |-> w.branch, JENKINS_X_URL |-> GetJenkinsXURL(w), JX_CHART_REPOSITORY |-> FindRepositoryURL(w),
   MINK_AS |-> OrElse(w.config.minkAs, "tekton-bot"), MINK_IMAGE |-> minkImage(w),
   PIPELINE_KIND |-> FindPipelineKind(w), REPO_NAME |-> getRepoName(w), REPO_OWNER |-> w.owner,
   VERSION |-> FindVersion(w)]

(* and, for the other names of the ConfigMap, its values.                  *)
Factories(w) ==
  LET given == Functions(w)
  IN [n \in DOMAIN given \cup Extra |-> IF n \in DOMAIN given THEN given[n] ELSE w.config[n]]

Init == world \in Worlds /\ file \in {<<>>} \cup {<<b>> : b \in Local} /\ steps = 0

(* What tells pipelines apart: a workspace is that of one.                 *)
Pipeline(w) == <<w.owner, w.repo, w.branch, w.build, w.pull, w.jobType>>

(* People and other commands change what the command finds.                *)
Change ==
  /\ steps < MaxSteps /\ steps' = steps + 1
  /\ world' \in {w \in Worlds : Pipeline(w) = Pipeline(world)}
  /\ UNCHANGED file

(* Mutant of Generated: at the end of the file.                            *)
GeneratedLast(w, f) == Append(f, Factories(w))

(* The values that are not empty, before what the file has.  What the file *)
(* sets already is not recognised (its lines do not end with "export "),   *)
(* so every one is written.                                                *)
Generated(w, f) == <<Factories(w)>> \o f

(* Run: a cluster repository that is not found is an error.                *)
Run ==
  /\ steps < MaxSteps /\ steps' = steps + 1
  /\ file' = IF Found(world) THEN Generated(world, file) ELSE file
  /\ UNCHANGED world

Next == Change \/ Run

Spec == Init /\ [][Next]_vars

-----------------------------------------------------------------------------
(* Properties.                                                             *)

(* The value of a variable in a shell that sources the file: the last one. *)
Sourced(f, n) ==
  LET setting == {k \in DOMAIN f : n \in DOMAIN f[k] /\ f[k][n] # Nil}
  IN IF setting = {} THEN Nil ELSE f[CHOOSE k \in setting : \A j \in setting : j <= k][n]

Names == DOMAIN Factories(CHOOSE w \in Worlds : TRUE)

(* Whatever changes and however often the command runs again, a variable   *)
(* that the steps of the pipeline have keeps its value: that of the        *)
(* repository or the one generated first.                                  *)
KeepsValues == \A n \in Names : Sourced(file, n) # Nil => Sourced(file', n) = Sourced(file, n)

ValuesStay == [][KeepsValues]_vars

(* None of the names is set by the repository itself.                      *)
NotOwn(names) == \A k \in DOMAIN file : file[k] \in Local => names \cap DOMAIN file[k] = {}

(* The place of what was generated first.                                  *)
FirstRun ==
  {k \in DOMAIN file : file[k] \notin Local /\ \A j \in DOMAIN file : file[j] \notin Local => j <= k}

ImageNames == {"MINK_IMAGE", "DOCKER_REGISTRY", "DOCKER_REGISTRY_ORG", "APP_NAME", "VERSION"}
KindNames == {"PIPELINE_KIND", "VERSION", "DOCKERFILE_PATH"}

(* The values that a step has agree with each other, whatever changed      *)
(* between the runs of the command: the image is the one of the registry,  *)
(* organisation, application and version that the other steps use (with    *)
(* dashes for the slashes of nested groups, so there APP_NAME itself gives *)
(* another one), if the first run found them all: a value that was empty   *)
(* then is filled in by a later run, which changes no other.  A release    *)
(* has no version of a snapshot and does not build the preview image.  The *)
(* exceptions are names that the repository sets itself.                   *)
Coherent ==
  LET value(n) == Sourced(file, n)
  IN \A k \in FirstRun :
       /\ NotOwn(ImageNames) /\ (\A n \in ImageNames : file[k][n] # Nil) =>
            value("MINK_IMAGE") =
              <<value("DOCKER_REGISTRY"), value("DOCKER_REGISTRY_ORG"), Dashed(value("APP_NAME")), value("VERSION")>>
       /\ NotOwn(KindNames) /\ value("PIPELINE_KIND") = "release" =>
            /\ value("VERSION") \notin {<<"snapshot", x, v.build>> : x \in PrBranches \cup {w.pull : w \in Worlds}, v \in Worlds}
            /\ value("DOCKERFILE_PATH") = "Dockerfile"
=============================================================================
