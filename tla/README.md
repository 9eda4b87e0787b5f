# jx-gitops: models, checks and proofs

TLA+ modules for the parts of `jx-gitops` that decide and change something over
time: what they list, delete, number, mark, merge, resolve and publish, in which order, and what
other commands, people and failures can do between two of their steps.
`PROJECT.json` lists the runs, the source lines behind every definition, the
mutants that show each property can fail, the hazards, and the theorems.

`jx-gitops` is one binary with some seventy subcommands. None of them is a
server. Each is started by a pipeline, a `CronJob` or a person, reads files,
Kubernetes resources or a git server, changes some of them, and ends. Their
concurrency is therefore between *executions*: of the same command (two
`CronJob`s that overlap, two pipelines of a branch), of different commands over
the same resources, and of a command with the people and controllers around it.
Their failures are calls that return an error before or after taking effect,
and pods that are killed between two calls. Few of the tests under
`src/pkg/cmd` have a second actor or a failing call, so this is where the
models look.

## Inventory

| Part | State it works on | Operations | What makes it hard | What makes it correct |
|---|---|---|---|---|
| gc activities (`cmd/gc/activities`) | PipelineActivity, LighthouseJob, PipelineRun resources | list, sort, decide, three deletions per activity | decides everything from one list; overlapping executions; errors that end the command half way; missing timestamps | only terminated activities go; recent history stays; nothing is orphaned; expired ones go in the end |
| build numbers (`cmd/variables`) | PipelineActivity resources, persisted logs | find the number of a build, create its activity | no lock between list and create; run again in every step; history deleted meanwhile | increasing, unique and stable numbers |
| webhook update (`cmd/webhook/update`) | webhooks on git servers, annotations of SourceRepositories | mark, list, delete, create, mark | deletes before it creates; marks that `--fast` believes; update conflicts | a mark means a webhook; no surplus; all come back |
| apply (`cmd/apply`) | history of the cluster repository | verify, three phases of regeneration | merges, squashes, rebased dates, pushes that overtake pipelines | what is skipped is generated; everything is in the end |
| gc jobs (`cmd/gc/jobs`) | Job resources | list, sort, cut, delete | incomplete sort order, old lists, failures | the latest jobs stay, old ones go in the end |
| gc pods (`cmd/gc/pods`) | Pod resources | list, delete | missing container statuses, names that come back | only old finished pods go |
| deployment status (`cmd/helmfile/report`, `status`) | `docs/releases.yaml`, deployments of the git server | report, find, create, set status | two calls per deployment, rollbacks, report carried over | one deployment per version; the shown version is the reported one |
| git merge (`cmd/git/merge`) | workspace of a pipeline | find commits, fetch, merge one by one | base and heads move; fetches fail silently; reruns | exactly what was triggered or accepted |
| helm release (`cmd/helm/release`, `ghpages`) | chart repositories, pages branch with an index | validate, build, publish by kind of registry | several charts, clone-change-push races, failures after taking effect | success means that every chart is published; trying again succeeds |
| helmfile add, delete, structure, resolve (`cmd/helmfile`, `helmfiles`) | helmfiles of a cluster, version stream, values files | edit, rearrange, resolve versions and values | recursion, idempotence, several files that are saved one by one | always renderable; no release is lost; resolving is a fixed point |
| helmfile move (`cmd/helmfile/move`) | rendered files | find out the scope, move, create namespaces | definitions that are found after the resources | every resource in the directory of its namespace and chart |
| pipeline scheduler (`pipelinescheduler`, `cmd/scheduler`) | schedulers and two merged configurations | inherit, merge, build, save | inheritance field by field, aliasing, accumulation over the repositories | the nearest scheduler decides; no setting leaks to another repository |
| source configuration (`sourceconfigs`, `cmd/repository`) | `source-config.yaml`, SourceRepositories | add, create, delete, export, enrich and reduce | the reduced form must mean the same; names meet | no second group for an owner; no command changes the URL or the scheduler of another repository; every repository gets its resource |
| pull request commands (`cmd/pr`) | comments, labels, branch of a pull request | comment, label, push, read variables | delete before create; list pages; pushes in between | its comment is there, once; nothing unseen is overwritten; all comments are read |
| variables (`cmd/variables`, `variablefinders`) | settings of three levels, ConfigMap, files, `.jx/variables.sh` | find, generate, write, read back | precedence; the command runs again in its own workspace | variables agree with each other and stay as they are |
| webhook delete (`cmd/webhook/delete`) | webhooks | list, delete | failures that are warnings, one page of hooks | every matching hook goes, and no other |
| kpt (`cmd/kpt`) | package directories | update, recreate | aborts in the middle of a walk | every package is updated or unchanged |
| requirements (`cmd/requirement`, `cmd/repository/resolve`) | `jx-requirements.yml`, the dev environment | edit, merge, resolve, publish | precedence of sources | merge keeps what is not given |
| git setup, clone, get (`cmd/git`) | credentials file, clones | write, find, clone | - | credentials of every server |
| jenkins (`cmd/jenkins`) | servers in the source configuration, generated job files | add, generate | files of servers that lost their repositories | one job per repository |
| resource filters (rename, split, namespace, kustomize, hash, patch, label, annotate, ...) | YAML files | rewrite each file | collisions of names | no resource is lost |
| version stream, upgrade, plugins, templates, terraform upgrade | files, binaries | sequences of other commands | - | - |

How they interact:

- *gc activities* and *build numbers* share the PipelineActivity resources and
  do not know of each other: the history that one deletes is what the other
  counts on. `PipelineActivities` composes them.
- *webhook update* and *webhook delete* share the webhooks; the annotations
  belong to the first alone, and the second leaves them as they are. They are
  modelled apart: nothing starts the two at the same time.
- *report* and *status* run one after the other in the pipeline of the cluster
  repository and share the report file.
- *apply* runs the make targets that call most of the other commands; the
  commits it makes or waits for are what its next execution verifies.
- *repository*, *scheduler*, *jenkins* and *webhook* all start from the source
  configuration and the SourceRepositories created from it.
- *helmfile add*, *delete*, *structure* and *resolve* change the same files and
  meet a version stream that is upgraded in between; *move* works on what
  `helmfile template` made of them; `Helmfiles` composes the first four.

## Modules

| Module | Models | Corresponds to |
|---|---|---|
| `GcActivities` | gc activities | `List` is `Options.Run` up to the end of its decision loop, on a snapshot; then one action per API call: `ListJobs`, a `DeleteJob` for every job, `DeletePipelineRun`, `DeleteActivity` (by name). `Fault` is a failing call or a killed pod; `Start` uses a name again, and `run` counts its activities |
| `GcJobs` | gc jobs | `List` lists, sorts and cuts; `Visit` is an iteration of the loop |
| `GcPods` | gc pods | `MatchesPod` is the age of a pod; `Visit` an iteration of the loop |
| `BuildNumbers` | `GetBuildNumber`, `FindBuildNumber` | `ListActivities`, `ReadLogs`, `GetActivity`, `CreateActivity` are its calls; `ValidName` is `naming.ToValidName`; `Rerun` is the command in a later step or a restarted pod |
| `BuildSequence` | what its callers expect | abstract: one increasing sequence per branch |
| `PipelineActivities` | the collector and the numbers over one set of resources | instances of both; `Finish` is the pipeline controller |
| `WebhookUpdate` | webhook update | one action per call: `MarkCreating`, `ListHooks`, `DeleteHook`, `CreateHook`, `MarkFailed`, `MarkTrue`; `Begin` is the head of the loop and `Pages` what a list returns |
| `WebhookDelete` | webhook delete | `Start`, `List`, `DeleteHook`, `Proceed` are its loop over repositories; `Page` is what one list returns |
| `ApplyRegeneration` | apply | `verifyRegenerated` is the body of the function of that name, on the value it is called with, and `Verification` its recursion over the history; `Regen` the first half of `Run`; `Phase1..3` the make targets; pushes, merges and updates of branches are external |
| `DeploymentStatus` | helmfile report and status | `Report` is the report of all releases, with a version from the index where none is requested; `Start`, `List`, `Create`, `CreateStatus` are the calls of status, `Listings` the page that a list returns; `End` may lose the report of a pipeline that failed (`saved` is what the next one finds) |
| `HelmRelease` | helm release, ghpages | `Init` is `Validate` (`Mode` is the choice of the registry); `Begin` and `NextChart` the loop of `Run` over the places of the list of charts; clone, index, push, `BasicRegistry` and `oCIRegistry` are the ways to publish |
| `GitMerge` | git merge | `UseRefs` or `FindCommitsToMerge`, then `Fetch`, then one `Merge` per commit |
| `PullRequests` | pr comment, label, push, variables | a program counter per command of a pipeline; each call to the git server is a step, and can fail before or after it took effect; `history` and the `from` of a comment only record what the properties ask for |
| `Variables` | variables and the variable finders | `mergeSettings`, `GetSettings`, `FindPipelineKind`, ... are the finders; `Functions` and `Factories` the table of `Validate` without and with the ConfigMap; `Run` reads, generates and writes the file |
| `Helmfiles` | helmfile add, delete, structure, resolve | a command is an action, resolve one per helmfile (`ProcessHelmfile`); `Structured` has every set of files that a failing structure leaves behind |
| `HelmfileMove` | helmfile move | one action per file; those that wait for a definition are `deferred`; then a step per deferred file and per namespace |
| `SchedulerBuild` | `pipelinescheduler/builder.go` | `Inherit` is one step of `Build`; the `applyTo...` operators have the names of the functions |
| `SchedulerLayers` | the loop of `Build` | over lists of schedulers |
| `Scheduler` | scheduler, generator, config builder | `phase` is the loop that runs (generate, build, in-repo, save); `schedulers` are the objects that repositories share; the `build...` operators have the names of the functions |
| `SourceConfig` | the source configuration, repository add, create, delete, export, jenkins | a command is an action: load, change, `EnrichConfig`, `DryConfig`, save |
| `Gc_proofs`, `Builds_proofs`, `Webhooks_proofs`, `ApplyRegeneration_proofs`, `Deployments_proofs`, `GitMerge_proofs`, `PullRequests_proofs`, `Helmfiles_proofs` | theorems | what is proved about the modules of the run of that name (`GitMerge_proofs`, `ApplyRegeneration_proofs`: of that module) |

The `MC` modules instantiate these for TLC. Most of them hold several parts that
do not meet: the variable `part` is chosen at first and says which part moves.
Every property of an `MC` module is that of a part, by the name that its comment
points to. The constants of the parts are those of the `MC` module and get their
values in its `.cfg`, so that what is proved about the specification of the whole
run (`MCSpec`) holds for every value of them; what has to be assumed of them is
named and evaluated there (`ASSUME MCAssumption`).

Common conventions. What a command keeps between its calls is a record per
execution with a program counter `pc`; what it read earlier stays in that
record, which makes stale data visible. Time is a bounded counter. A deleted
resource becomes `"gone"` and keeps its timestamps, for the properties. Sorts
whose comparison is not a proper order, and iterations over Go maps whose order
matters, are modelled by every result they can have. Resources are model values
or small numbers; messages, labels, URLs and file names are reduced to what the
code distinguishes. Where the code treats many fields alike (schedulers,
requirements), one or two of each kind stand for all. A definition whose comment
starts with "Mutant of" is used by no specification; it is the definition with a
plausible mistake that the property named in `PROJECT.json` detects.

## Runs

Bounds are the constants of each `.cfg` and of the instances in each `MC`
module. None of the systems deadlocks by design; behaviours end when the bounds
are reached, so the deadlock check is off.

**gc** (`MCGc`), five parts.
Activities: three names, two of a pull request and one of a release branch; one
of them is used for two builds and has two LighthouseJobs, one may have no
timestamps; two executions that overlap, one failing call, a clock of two values past zero. Both age
limits and both history limits are 1. An activity of the first second is too old
in the last one, and of two that are not, one is beyond the history. Only
terminated activities go (`OnlyTerminatedDeleted`), no LighthouseJob is left behind
(`NoOrphans`), what is within the history limit stays (`RecentHistoryKept`); the
exception of all three is an activity whose name was that of a listed one, which
has been deleted since: the collector deletes by name, so such an activity goes,
running or not. Under fairness expired activities go (`OldActivitiesCollected`).
A build without any timestamp ends every command that reaches it (a nil
dereference in `Run`), which is the exception there. Histories: three builds
whose timestamps are all there, without faults and names that come back, so that what is
kept is decided by the order alone.
Two pipelines are what one counter for all of them would confuse; two executions
suffice for every collision, as each touches one activity at a time.
Jobs: three that start in the same second or not, two collectors. As many jobs as
are to be kept started no earlier than one that is deleted (`LatestJobsKept`),
with two exceptions: a job was suspended, or jobs of the same second meet
executions that overlap. Suspended: two jobs, one of which may be suspended, and one
fault: old jobs go in the end (`OldJobsCollected`).
Pods: one name, two containers, two pods of that name, two collectors, one
failing call. Only pods whose last container ended longer ago than the age are
deleted (`OldPodsDeleted`); the exceptions are evicted pods and one that took
over the name of a listed one.

**builds** (`MCBuilds`), two parts. Numbers: four builds of two branches whose
names become the same valid name, two of a branch at a time, two reruns, logs
that cannot be read or only in part. A build triggered after another one finished
gets a greater number (`LaterBuildGreaterNumber`) in a branch that sees all its
activities: the other branch looks for its own name and finds nothing. Activities: three builds of a
branch one after the other, two collectors, age and history limits of 1 and a clock of
three, completion times that may be missing, a rerun. Builds expire while others
run, and their numbers come back. Numbering and collecting together implement `BuildSequence`
(`KeepsBuildSequence`, a refinement) until the newest build, whose number the next
one continues, is not kept or the logs are read in part (`Misled`). It is kept by the
history limit, unless it is beyond its age limit, has no completion time, or has that of
another build. A running build is found again (`RunningBuildFound`) unless its name
has come back.
**build_numbers_race**: two parallel builds can be given the same number
(`NumberIsNew`, violated).

**webhooks** (`MCWebhooks`), three parts. One updater, repositories on github, an
unreachable server and bitbucketcloud, two faults of three kinds, with `--fast`
or without at every execution: a repository marked `"true"` has its webhook at
every point (`MarkedTrueHasHook`), and webhooks come back (`ComeBack`). The
annotations can always be written here. Two updaters of one repository, and
annotations that fail or conflict, lists of two hooks, with the page full of hooks of
others or not: surplus webhooks do not pile up (`NoSurplus`) but where a list has
missed some. A failing list, which is taken for an empty one, is excluded. Two
executions of delete over three repositories, one of which cannot be reached,
pages of two hooks, two failing calls: every matching webhook goes in the end and
no other (`MatchingGo`), unless other hooks fill the page.

**apply** (`ApplyRegeneration`). Two pull requests and two changes, one of which
generates an ExternalSecret; up to seven commits of people, which is enough for
both pull requests to be opened, updated and merged. What apply skips has been
generated (`OnlyStaleMissed`) and everything is in the end
(`EventuallyGenerated`), but for changes older than a generated commit by more
than the window, and when the last pipeline failed.
**apply_squash**: with squash merges the first of these is false.

**deployments** (`MCDeployments`), two parts. A chart in staging and in production,
where earlier versions stay active; two versions, three changes, in staging also to a
release that names no version; one fault of five kinds, a `--deploy-offset`, and
lists of a single deployment, so that the second one is not seen. A version has one
deployment unless a list was without it (`DeployedOnce`). As long as nothing fails,
upgrades are shown (`LatestShown`). A release that keeps its version is shown from
some time on (`EventuallyShown`), unless the status of its deployment was lost, the
version was rolled back to, or the offset has passed since the report. The report of a
pipeline that failed may be lost. Two release pipelines of two charts, one of which may be ignored, with
eight configurations between them that cover pages, OCI and basic registries and
the ways to give a version and credentials; two commands fail before or after
they took effect: a release that succeeded has published every chart
(`ReleasedIsPublished`) and a release that is tried again succeeds
(`EventuallyReleased`). **deployments_rollback**: after a rollback the shown
version is not the reported one (`ReportedShown`, violated).

**pull_requests** (`MCPullRequests`), three parts. Two pull requests and a base
branch of up to three commits each, two reruns: success means exactly what was
triggered (`ExactlyTriggered`), and with filters all they accept
(`AcceptedMerged`). Pairs of commands that run at the same time, with pages of
two comments, two events of people and two failures: a pipeline that reads before it
comments adds no second comment, as long as there never was more than a page of
them, and the comment of one that is done is there unless another pipeline with
the same text has deleted it and is about to replace it (`Commented`);
no push, forced or not, drops a commit its workspace has not seen
(`PushKeepsUnseen`); the variables come from all comments (`CommentsRead`).
Variables for combinations of settings of the repository, its group
and the cluster, ConfigMap, branch, job type and version file, with a repository of a
nested group among them and changes between three executions: the value a step
has seen stays (`ValuesStay`), and the values that a step sources, of whichever
execution they are, agree (`Coherent`): the image with registry,
organisation, application and version, and the kind with version and Dockerfile. They need not
if the first execution did not find all of them, or the repository sets some.

**helmfiles** (`MCHelmfiles`), two parts. Three clusters (local and remote charts,
locked and unnamed releases, releases without a namespace, replaced charts, values of
the stream, a root of one or two documents), three version
streams, two charts to add and two ways to delete, five commands in any order:
every repository a helmfile uses is in it and no document has a release twice
(`Renderable`), only delete loses a release (`ReleasesKept`), resolving at once
again changes nothing (`ResolvedTwice`). The exception of `ReleasesKept` is structure
on a root of two documents, which forgets the helmfiles that the first one includes. The
replacements of the second and third stream form a chain, as those of a real stream do; a cycle would not end. Two sets of
rendered files that have definitions before and after their resources,
namespaces and overrides: every file gets to the directory of its namespace and
chart, in the scope that its definition gives it, whatever the order of the walk, and
each namespace has one Namespace (`EachInItsPlace`). Two files that have
the same path and a namespace in common (that of the release, or the one that the
file names for itself) may end in the same place, and then one of them is lost;
of those the property says nothing. **helmfile_values**: resolve removes a values file that
is still named (`ValuesExist`, violated).

**repositories** (`MCRepositories`), three parts. Three repositories with any of
four schedulers, or one that does not exist, and a scheduler of the team. They share
the scheduler objects, into which `Build` writes: still, each has what its own
schedulers say, and the updater comes only with repositories that the URL of the dev
environment contains (`OwnScheduler`). Settings that are equal share one entry with
all of their repositories and a periodic job is there once (`Consolidated`); what
is set for a repository is what would be set if there were no other
(`OwnSettings`). What the configuration has once for all repositories (the policy,
the merger, the keeper) is left out of that, and is collected from all. Lists of up
to three schedulers out of five (`NearestWins`): the nearest one that says something
decides; of jobs of the same name and of `IgnoreOkToTest` it is the farthest;
plugins are united and external ones appended. Three commands on a configuration
with two servers, owners that differ in case and names that meet, a group without its
provider among them, any clean-up in between: no command makes a second group
for the server and owner of one (`NoDuplicates`), unless the first one does not
say its provider or kind, or has a kind that is not its server's; no command
changes the scheduler or the URL of another repository (`SchedulerKept`), and
create leaves a SourceRepository for every one (`Created`). Three commands are
enough for one to undo what the first two did together.

### Fairness

The fair specifications assume that a command that was started makes progress,
and that it is started again when it ended: the collectors are `CronJob`s, webhook
update and status run in every pipeline of the cluster repository, and apply in
every pipeline that a push to main triggers. Delete (`MatchingGo`) and release
(`EventuallyReleased`) are started again by whoever wants their result: without
that, a single failure is final, as it is in the code. Nothing is assumed of
people, of the clock, of failing calls (whose number is bounded), or of the other
controllers. The liveness properties therefore promise something only once their
premise holds.

## What the code does otherwise

Four disagreements of the code with its comments, help texts or tests are runs of
their own (`findings` in `PROJECT.json`). The following were met while the models
were written; they are part of the actions, but have no run.

Collectors, numbers, webhooks, apply:

- `--pr-history-limit` is described as a minimum, but age deletes below it
  (`activities.go:187`), and `--pipelinerun-age` is read by nothing.
- With two collectors an activity can be deleted under a name that a new build
  has taken over (`activities.go:244`), running or not, and so can a pod (`pods.go`). Names come
  back because numbers do: without a log bucket, or when it cannot be read
  (`variables.go:625`), the numbers of a branch start again from 1 once all its activities
  have expired (`variables.go:585`); and activities expire newest first, so that
  for a moment, or for good when the command fails there, only older ones are left.
- The history limit drops the newest build when its completion time is missing or is
  that of another one (`activities.go:172`), and the next build gets its number.
- Branches with the same valid name share names of activities, but each looks for its
  own branch: the second one takes the activities of the first (`variables.go:541`, `:591`).
- The jobs are sorted by start time, which suspended jobs do not have, and not
  by creation (`jobs.go:107`); a job between two attempts counts as finished. Jobs that
  start in the same second have no order, and two executions at once can each delete
  what the other one keeps, until none is left.
- An evicted pod is deleted at once, and init containers do not count
  (`pods.go:109`).
- A build that shares the activity of another may get a second number when the
  command runs again (`variables.go:567`).
- A SourceRepository whose annotation cannot be written can stay marked
  `"true"` without a webhook (`webhook/update/update.go:236`), the error
  annotation is never removed (`:254`), and a bitbucketcloud repository listed
  after another one gets an HMAC secret although these are not supported there
  (`:150`). The mark means nothing while two updaters overlap.
- Webhook update replaces what is on the first page of hooks only (`webhook/update/update.go:265`):
  where others fill the page, every execution adds a webhook.
- Webhook delete looks at the first page of hooks only, takes a failing list for
  an empty one (`webhook/delete/delete.go:192`), and leaves the annotation
  `"true"`, so that `webhook update --fast` passes over the repository.
- A change older than a generated commit by 20 minutes is taken to be generated
  (`apply.go:311`); a merge into an existing cluster can regenerate although the
  help text says it does not (`apply.go:34`).

Deployments, releases, pull requests:

- A deployment whose status could not be created never gets one
  (`status.go:319`); charts of OCI registries are reported as deployed anew
  every time (`report.go:334`); `FirstDeployed` survives a new version
  (`report.go:348`).
- Status looks at one page of the deployments, and takes "not found" for an empty list
  (`status.go:350`): what is further down is deployed again. The help of `--auto-inactive`
  promises that earlier deployments become inactive, but those of environments with
  `prod` in their names stay active (`status.go:337`). With a `--deploy-offset`, releases that a
  failed pipeline did not get to are left out for good once it has passed, unless its
  report was lost.
- The report of a release that names no version has that of the index, which is then
  compared with the empty one: it is reported as deployed anew every time (`report.go:341`).
- A clone of the pages branch that fails for any reason is taken for a branch
  that does not exist; the push of the new history is then refused. A chart
  repository that refuses existing versions lets a partly failed release never
  succeed. Two releases of several charts can preempt each other for as long as
  both are tried again at once.
- `git merge` resets the base branch to itself rather than to the base commit
  (`merge_shas.go:57`), and merging an accepted commit merges the rejected ones
  before it (`merge_shas.go:73`). A conflict leaves its merge unfinished, so that
  running the step again fails at the checkout (`merge_shas.go:52`).
- Comments are searched on the first page only, so beyond it there are
  duplicates; a comment that is deleted while pages are read makes `pr variables`
  pass over another one, and comments of anybody set variables.
- `jx gitops variables` looks for lines that end in `export `
  (`variables.go:366`), so the values that the file sets are never read back; they
  still win because the file sources them after the generated ones. When
  the command runs again, the values of its first execution win. `MINK_IMAGE`
  that was written without a version stays so. A value that was empty at the first
  execution is filled in by a later one, next to the old values. In nested groups
  `APP_NAME` has slashes where the image has dashes (`variables.go:507`).

Helmfiles:

- A replacement without a prefix is looked up without end (`resolve.go:549-593`); a
  replacement that the helmfile has already leaves a
  release with the version of the other chart.
- A prefix without a repository gives an empty entry in the helmfile of the namespace
  (`structure.go:211`); the values of a release without a namespace get one `..` too
  many (`structure.go:154`), and a root of two documents, which resolve makes, loses what
  its first document includes and its environments ("Assumes the root helmfile has only one document",
  `editor.go`).
- `helmfile add` includes `helmfiles/<ns>/helmfile.yaml` even if the helmfile of
  the namespace is elsewhere, and does not find unnamed releases; `helmfile
  delete` does not look into the root.
- A structure that fails leaves new files behind, after which resolve does not
  run structure any more.
- The lock label is ignored by the custom upgrades (`constants.go:7`).
- `helmfile move` describes directories `namespaces/$ns/$releaseName`, but their names are
  those of the charts, combined with the releases on demand; releases whose combinations are equal share one.

Schedulers and source configuration:

- `IgnoreOkToTest` is inherited only if the child sets it (`builder.go:107`);
  presubmits of the same name are those of the parent; queries, required checks,
  welcome messages and the configuration updater are not inherited once the child has
  some; external plugins are listed as often as schedulers name them; the `Replace`
  of a scheduler in the middle does not stop the ones above it.
- The policy, the merger and the keeper of the configuration are collected from the schedulers
  of all repositories, and a repository whose full name is a part of the URL of the dev
  environment gets the configuration updater as well (`generator.go:93`).
- The policies of single branches are lost (`config_builder.go:398`).
- Adding a repository again keeps its scheduler although the help of
  `--scheduler` says otherwise (`repository/add/add.go:68`).
- A group without a provider or kind gets a second group when a repository is added
  (`helpers.go:167`), and export then has the repository twice. Export makes such a one itself: a
  repository without a kind gets a group of kind `github`, whatever its server is
  (`helpers.go:110`). Delete compares the owner exactly,
  add does not; removing ignores the Jenkins servers.
- `a-b/c` and `a/b-c` have the same SourceRepository; the later one overwrites.

## Proofs

The theorems hold for every value of the constants that the named assumptions
admit: any number of names, pipelines, builds, pods, charts, comments and
executions, any limits, any bound of the clock, of the faults and of the reruns.
Where a theorem needs more, it has a hypothesis in its `ASSUME` (`OneAtATime`,
`OwnNames`, `KnowsItsHooks`, `AllRecent`, `NeverSquashed`), and the paragraph below
says why the property would not hold without it.

A theorem about `MCSpec` is one about a part of a run: that the variable `part`
stays reduces it to the steps of that part, and the other parts change nothing
that its invariant mentions.

Each safety property that is proved speaks of what was decided several steps
earlier, so that none is inductive alone. The invariants were checked with TLC
before they were proved.

### Collectors (`Gc_proofs`)

Activities. `TypeCorrect` carries `Busy` along (an execution at work has something
to delete), without which `Head` of its list means nothing. The other theorems
come from one inductive invariant, `Inv`:

- `FinishedKnown`, `ResourcesKnown`: the activities that have had a name are told apart
  by their runs, what has terminated does not change, and jobs and PipelineRuns are
  those of an earlier run or of the one that is there;
- `ListsExpendable`: whatever is on the list of an execution is *expendable*: it
  has terminated, and is too old or beyond its history. This is why an
  old list does no harm to what was listed: the lemma `ExpendableForGood` shows that
  nothing that happens makes an expendable activity one to keep (its stamps stay, time
  passes, builds that completed no earlier only become more), and
  `DoomedAreExpendable` that the decision loop only dooms such activities: the
  builds it counted before are as many rivals;
- `JobsFirst`, `RunsFirst`: what has been deleted for the current victim stays
  deleted.

The lemma `WhatGoes` combines them: a step that deletes an activity deletes either an
expendable one or one whose run is later than that on the list (`TakenOver`).
`RunningActivitiesKept`, `ActivityDeletedLast` and `HistoryKept` follow: the
decision to delete was made in an earlier state, by an execution whose list the
property does not mention. `DryRunKeepsAll` follows from the actions.

Jobs. `JobsLatestKept`, and `KeepsLatestJobs` for the run, are about any number of
collectors, whose lists may be as old as they like. A job is *doubtful* when it is
on a list or gone; the invariant counts for each of them what is still there.
If no two jobs start in the same second, at least `Keep` that started later
(`LaterKept`): nothing but a deletion can change that, and a deletion does not, because
the job that goes was doubtful, hence has as many later ones itself, and these
are later than the first job as well (`KeptByOthers`). If jobs do start in the same second but
executions do not overlap, there is one list at a time (`OneList`), and at least
`Keep` jobs that started no earlier are on no list (`SafeKept`): what the execution
keeps is not deleted by anybody (`KeptByList`). That a list has this property in the
first place is about the sort and the cut (`SortedWeakly`, `FrontIsLatest`). With ties
and overlapping executions neither holds, and neither does the property (see above).

Pods. `OnlyOldPodsDeleted` needs to know that a listed pod is an
earlier state of the one of its name (`ListsEarlier`): numbers only grow, and a
pod that has ended changes no more, so that its age on the list is its age. Only
a pod with a greater number, which replaced the listed one, can go too early.

### Build numbers (`Builds_proofs`)

`TypeCorrect` carries `ChosenInBounds`.
`LaterBuildsGetGreaterNumbers` needs an invariant with one conjunct per state of
a build: while it lists, some activity or log bounds the numbers of the builds
before it from above; once it has chosen, the choice is above them; and builds
that count as finished have their numbers in the store. It is about the branches
that see all their activities (`SeesAll`), and needs to know that an activity is that of
a branch of its valid name (`NamedAfterBranch`).
`SerialBuildsKeepSequence` is the refinement of `BuildSequence`, step by step: an
activity that is created issues its number, every other step stutters. It
needs builds of a branch that do not overlap (`OneAtATime`), since the run
`build_numbers_race` shows that those that do can get the same number; then the build
at work knows all numbers of its branch (`Serial`), if no other branch has its names
(`OwnNames`).

`RunningBuildsKeepActivity` is about the builds of a branch and collectors together
(`PipelineActivities`): any builds and collectors, any limits and clock, any failures, and
activities whose completion time is missing. The builds follow one another. The invariant
`Base`:

- `ATypes`: the types of numbering and collecting together;
- `OneWorks`: one build is at work at a time;
- `OfBuilds`: an activity is that of a build, and runs as long as its build is at work,
  unless its name has come back;
- `OnItsWay`: the number that a build has chosen is above those that are there, and
  its activity is there, unless its name has come back;
- the lists of collectors only have activities that are *dead*: they have
  terminated, and if their name is that of one that runs, that one is a later run.

So a deletion can only hit the activity of a build at work if it is the second of its
name, which is the exception of the property.

### Webhooks (`Webhooks_proofs`)

`MarkedTrueMeansHook` holds for one execution at a time
whose annotations can be written (`OneAtATime`); lists, deletions and creations
may fail, and it may be killed anywhere. The invariant adds to the property
where an execution is (`Progress`): a repository that it works on is not marked
until the hook was created. With two updaters, or an annotation that is lost, the
mark means nothing (see above). `NoMoreThanUpdaters`, and `OneHookEach` for the
run, allow any number of overlapping
executions, which all may fail and be killed, and pages of any size: in every state, each hook of a
repository has an execution that answers for it, and no execution answers for
two (`Owned`), because an execution that is about to create one has the hook
it answers for on its list and deletes it first. So there are no more hooks than
executions (`FS_Injection`). It is the list that makes this true: a repository of whose
hooks a list has missed some, because it failed or the page was full, is in
`missed`, and of that nothing is said; and with `--previous-hook-url` the command does not
recognise its own hooks (`KnowsItsHooks`).

### Deployments and releases (`Deployments_proofs`)

`Invariance` numbers the deployments (`Numbered`),
without which "the latest" means nothing, and says what the release at work
looks like at each step (`Working`): when a deployment is about to be created, there is
none, or the page of the list was without it, which `missed` then says. `NoSecondDeployment` is part of it.
`UpgradesAreShown` has an invariant
for executions without faults (`Quiet`): the status of every deployment is known
exactly from where the pipeline is and whether a later one of the release replaced it, outside of production (`Statuses`,
`Superseded`), and every release
that the pipeline is done with has the deployment of the reported version
(`DoneDeployed`). A page without it does no harm here: what is created a second time is
of the same version. It needs the options under which every release of the report is
deployed and replaces its predecessor (`AllRecent`): with `--deploy-offset` a
release may be passed over, and without `--auto-inactive` the old status stays.

`ReleasesArePublished` is about release pipelines of any charts and options that
push to the same branch, fail and are run again. A branch is its history
(`Linked`): its packages are those of its commits but the first, and so is its
index. A push is accepted only if the history that is there is a prefix of the one
that is pushed, so packages and index only grow (`Kept`), and what a pipeline has
behind it stays published (`Underway`) whatever the others do.

### Git merge (`GitMerge_proofs`)

`MergesExactlyTriggered` holds because the branch is always
between what was cloned and the target, and what it lacks of the target is still
in `ws.todo` (`Progress`); a rerun starts from a branch that has merged some of the
heads already, and that is no more than the target. The order of a batch is a
sequence only if the batch is finite, which is why `GitMergeAssumption` has
`IsFiniteSet(PullRequests)`; and what is reachable from a commit stays the same
because people push to a pull request only on top of what it has (`PushReach`).
`MergesAccepted` is the same argument with filters: what they accept of the
triggered pull request is in the branch or in `ws.todo` (`Filtering`). It needs of
the order of the commits only that `OldestFirst` has all that it is given.

### Commands on a pull request and variables (`PullRequests_proofs`)

`CommentsOnce`, `PushesKeepUnseen` and `ReadsAllComments` come from one invariant,
`CommandInv`, for any sets of commands that run at the same time, any comments of
people, any page size, and any number of failures and reruns:

- `Numbered`, `Authors`, `Fits`: comments are in the order of their numbers, the
  comment of a pipeline is one that it recognises, and the comments fit on a page
  until they once did not;
- `Deleting`, `Adding`: what a command is about to delete is its own, and when it
  is about to add its comment those that it added before are gone, or are still on
  the list of those to delete;
- `ShownOf`: the comment of a command that is done is there, or a pipeline with the same
  text is between deleting and adding;
- `Place`: a command that is about to push has seen of the remote branch what it
  may overwrite, and had that when it cloned;
- `Reading`, `Covered`: what `pr variables` has read is in order and before what the
  next pages have, and of the comments that were there when it started it has
  those of the earlier pages. Both survive a deletion: what is left moves to
  earlier places, and either one of the first comments is gone, of which
  `CommentsRead` says nothing, or none of those read has moved.

`MCAssumption` excludes pipelines whose own comment is an assignment, which the
variables would take for one of people.

`VariablesKeepValues` and `VariablesAgree` need of the file only that it has the
blocks of the repository and those generated for this pipeline (`FileInv`). The first is about
the order: the value in a shell is that of the last block that sets it
(`SourcedLast`), and a block in front of the others changes nothing where there
is one. The second is about the values that a step sources, which can be of several
executions: where the first of them found everything, its block, the last one, decides on all
of the values (`FirstCounts`), and what one execution generates agrees by the finders
(`Agreeing`, `OneKind`). It assumes that no `VERSION` that is given is the one a snapshot of
a pull request would have.

### Helmfile move (`Helmfiles_proofs`)

`ResourcesInTheirPlace` is about any sets of rendered files, any charts, releases
and namespaces, both options, and whatever the server says of the scopes. The
files are read in any order. `EachInItsPlace` speaks of the end only; the
invariant `MoveInv` says what holds on the way; that a file is in the directory of its
namespace and chart (`InOwnDirectory`) follows from the second part of it:

- `Scoped`: once a definition is read, its scope counts, even where the server
  said otherwise;
- `PlacedFile`: a file that was written is where it belongs by the scopes that
  are known *now*. A definition goes there at once, a resource only when everything
  is read; from then on nothing that is learnt changes a scope, as a move only
  remembers what was answered already (`Known`, `IsNamespaced`);
- `Present`: a file that is not there any more was overwritten by one that can be
  taken for it (lemma `SamePlace`: two files meet only in a namespace that both
  have, under the same path);
- `Ensured`: a namespace that move is done with has a Namespace, and none has two.
  One that move adds is added only after all files were moved, when none of them
  is that Namespace.

`HelmfileMoveAssumption` has what the argument needs of the input: definitions of
a kind agree on its scope, no two charts have the same Namespace, the server knows
that a Namespace is not in a namespace, and definitions are of custom resources.

### Apply (`ApplyRegeneration_proofs`)

`SkipsOnlyGenerated` is about the decision of
`apply` on any history of commits that people and pipelines make. The invariant
describes histories (`WellFormed`): a commit has what its parents have, a merge
adds no sources, and a marked commit has one parent and everything generated;
and the commit that a pipeline is about to push (`Fresh`). The verdict of
`verifyRegenerated` is a recursion over it. The lemma `Recursion` shows that a
function over `0 .. N` whose value depends on smaller arguments exists, which
gives `Ancestors` and `Verification` their equations (`AncestorsOf`,
`VerificationOf`); one step of the body is sound if its calls were (`StepSound`),
and a verdict that is wrong would be wrong for a first commit
(`VerificationSound`). With squashed pull requests it does not hold, which is the
finding of the run `apply_squash`: a squashed commit can carry the mark of a
commit in it (`NeverSquashed`).

### Model-checked only

- `KeepsBuildSequence`: that the next number continues the sequence rests on which build the
  history limit keeps, with exceptions for each way in which it cannot tell; the proof
  for builds that nothing collects is `SerialBuildsKeepSequence`.
- Everything under fairness (`OldActivitiesCollected`, `OldJobsCollected`,
  `ComeBack`, `MatchingGo`, `EventuallyGenerated`, `EventuallyShown`,
  `EventuallyReleased`): liveness and `ENABLED` are not in reach of the prover.
- The results of folds over lists (`SchedulerBuild`, `Scheduler`, `Helmfiles`,
  `SourceConfig`: `Consolidated`, `OwnScheduler`, `OwnSettings`, `NearestWins`, `NoDuplicates`,
  `SchedulerKept`, `Created`, `Renderable`, `ReleasesKept`, `ResolvedTwice`), which
  would be inductions over data.

## Not modelled

File formats, wording, logging, the discovery of clients and namespaces, and
commands that rewrite files one by one or only call other programs (see
`components` in `PROJECT.json`, with the reason for each). In the modelled parts:
the upgrade of vault and terraform versions, the pipelines that resolve adds to
environments and the migration of quickstarts; ingresses and chart sources of the
report; `--rebase` and missing base branches of git merge (a workspace is cloned with the
base branch at or after the base commit, so that rebasing changes nothing in it); job templates of single groups and
repositories of jenkins; `repository resolve`, which rewrites URLs in one pass; `ApplyDirectly` of the scheduler, which nothing calls. External, and
modelled by how the code uses them: lighthouse and the controllers that create
and complete resources, git and the git servers, go-git, helm, the chart
registries, the make targets, people. Branches that a repository of requirements
or its defaults would decide (`NewRequirementsConfig`) are values that are set or
not.

## Plan

Modelled and checked: everything above. Proved: the safety of all parts but the
commands that fold over the helmfiles and over the source configuration, and the
scheduler. What is left: lemmas about the single operators of those folds
(`getOrCreateGroup`, `mergeEntry`, `Inherit`) that an induction outside this
prover could use.
