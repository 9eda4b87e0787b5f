------------------------------- MODULE Scheduler -------------------------------
(***************************************************************************)
(* jx gitops scheduler: the Lighthouse configuration of all repositories   *)
(* (pkg/cmd/scheduler, pkg/pipelinescheduler/generator.go and              *)
(* config_builder.go).                                                     *)
(*                                                                         *)
(* GenerateProw merges the schedulers of every repository into a leaf;     *)
(* BuildProwConfig adds the leaves one after another to two configurations *)
(* in which equal settings of several repositories become one entry.       *)
(* The schedulers are shared: the merged one is written into the last      *)
(* scheduler of its list.                                                  *)
(***************************************************************************)
EXTENDS SchedulerBuild, FiniteSets

CONSTANTS
  Repos,     \* the SourceRepositories
  OrgOf,     \* the organisation of a repository
  DevRepo,   \* the repository with the URL of the dev environment, or Nil
  Near,      \* the repositories whose full name is a part of that URL
  Names,     \* the names of schedulers
  InRepo,    \* the scheduler in-repo
  Library,   \* the schedulers that are defined, by their names
  Updater    \* the value config-updater, as plugin and as configuration

(* What is assumed of the constants.                                       *)
SchedulerAssumption ==
  /\ Repos # {}
  /\ DOMAIN OrgOf = Repos
  /\ DevRepo \in Opt(Repos) /\ Near \subseteq Repos
  /\ InRepo \in Names /\ DOMAIN Library \subseteq Names
  /\ \A n \in DOMAIN Library : Library[n].inRepo \in BOOLEAN
  /\ Nil \notin Repos \cup Names \cup Values

VARIABLES
  repoList,    \* the repositories in the order of their files
  schedulerOf, \* the scheduler that each repository names, or Nil
  team,        \* the default scheduler of the team, or Nil
  schedulers,  \* the scheduler objects
  phase,       \* load, generate, build, inRepo, save, done or failed
  next,        \* the index of the loop
  leaves,      \* the merged scheduler of each repository
  cfg, plugs,  \* the configurations that are built
  saved        \* the files written

vars == <<repoList, schedulerOf, team, schedulers, phase, next, leaves, cfg, plugs, saved>>
inputs == <<repoList, schedulerOf, team>>

Put(f, k, v) == [x \in DOMAIN f \cup {k} |-> IF x = k THEN v ELSE f[x]]
At(f, k, default) == IF k \in DOMAIN f THEN f[k] ELSE default
ItemsOf(field) == IF field = Nil THEN <<>> ELSE field.items

EmptyPolicy == [protect |-> Nil, contexts |-> <<>>, strict |-> Nil, users |-> <<>>, teams |-> <<>>,
                approvals |-> Nil, dismissed |-> [users |-> <<>>, teams |-> <<>>]]

EmptyConfig ==
  [presubmits |-> <<>>, postsubmits |-> <<>>, periodics |-> <<>>, queries |-> <<>>,
   mergeType |-> <<>>, contextOptions |-> <<>>, keeperContext |-> Nil, sync |-> Nil, url |-> Nil,
   policy |-> EmptyPolicy, tested |-> Nil, protection |-> <<>>, report |-> Nil, inRepo |-> {}]

EmptyPlugins ==
  [plugins |-> <<>>, external |-> <<>>, approve |-> <<>>, lgtm |-> <<>>, triggers |-> <<>>,
   welcome |-> <<>>, updater |-> Nil]

-----------------------------------------------------------------------------
(* GenerateProw                                                            *)

UpdaterSpec ==
  [Blank EXCEPT !.updater = {Updater}, !.plugins = [replace |-> FALSE, items |-> <<Updater>>]]

(* A list of schedulers, of names and, for the updater, of Updater.        *)
addConfigUpdaterToDevEnv(repo, list) == IF repo \in Near THEN <<Updater>> \o list ELSE list

(* Mutant of addRepositoryScheduler: at the end.                           *)
addRepositorySchedulerLast(repo, list) ==
  IF schedulerOf[repo] \in DOMAIN Library THEN Append(list, schedulerOf[repo]) ELSE list

addRepositoryScheduler(repo, list) ==
  IF schedulerOf[repo] \in DOMAIN Library THEN <<schedulerOf[repo]>> \o list ELSE list

addTeamScheduler(list) == IF team \in DOMAIN Library /\ list = <<>> THEN <<team>> ELSE list

Applicable(repo) ==
  addTeamScheduler(addRepositoryScheduler(repo, addConfigUpdaterToDevEnv(repo, <<>>)))

SpecOf(name) == IF name = Updater THEN UpdaterSpec ELSE schedulers[name]

-----------------------------------------------------------------------------
(* BuildProwConfig: the plugins                                            *)

(* Mutant of mergeEntry: never into an entry that is there.                *)
mergeEntryNever(entries, settings, repo) ==
  Append(entries, [settings |-> settings, repos |-> {repo}])

(* mergeApprove, mergeLgtm and mergeTrigger: into the first entry that has *)
(* equal settings.  The order of the repositories of an entry is left out. *)
mergeEntry(entries, settings, repo) ==
  LET equal == {i \in DOMAIN entries : entries[i].settings = settings}
  IN IF equal = {} THEN Append(entries, [settings |-> settings, repos |-> {repo}])
     ELSE LET i == CHOOSE i \in equal : \A j \in equal : i <= j
          IN [entries EXCEPT ![i].repos = @ \cup {repo}]

buildTrigger(trigger, repo) == [trigger EXCEPT !.trustedOrg = OrElse(@, OrgOf[repo])]

buildPlugins(p, spec, repo) ==
  LET Entry(entries, settings) ==
        IF settings = Nil THEN entries ELSE mergeEntry(entries, settings, repo)
      Greet(texts, text) == IF Contains(texts, text) THEN texts ELSE Append(texts, text)
  IN [plugins  |-> IF spec.plugins = Nil THEN p.plugins ELSE Put(p.plugins, repo, spec.plugins.items),
      external |-> IF spec.external = Nil THEN p.external ELSE Put(p.external, repo, spec.external.items),
      approve  |-> Entry(p.approve, spec.approve),
      lgtm     |-> Entry(p.lgtm, spec.lgtm),
      triggers |-> Entry(p.triggers,
                         IF spec.trigger = Nil THEN Nil ELSE buildTrigger(spec.trigger, repo)),
      welcome  |-> IF spec.welcome = Nil THEN p.welcome ELSE FoldLeft(Greet, p.welcome, spec.welcome),
      updater  |-> OrElse(p.updater, spec.updater)]

-----------------------------------------------------------------------------
(* BuildProwConfig: jobs, branch protection and keeper                     *)

(* The settings of a policy are put over those that are there: contexts    *)
(* once each, users and teams as often as they come.                       *)
buildRestrictions(answer, restrictions) ==
  IF restrictions = Nil THEN answer
  ELSE [users |-> answer.users \o ItemsOf(restrictions.users),
        teams |-> answer.teams \o ItemsOf(restrictions.teams)]

buildBranchProtectionContextPolicy(contexts, checks) ==
  LET Once(cs, c) == IF Contains(cs, c) THEN cs ELSE Append(cs, c)
  IN IF checks = Nil THEN contexts ELSE FoldLeft(Once, contexts, ItemsOf(checks.contexts))

buildPolicy(answer, policy) ==
  LET restricted == buildRestrictions([users |-> answer.users, teams |-> answer.teams], policy.restrictions)
      checks     == policy.checks
      reviews    == policy.reviews
  IN [protect   |-> OrElse(policy.protect, answer.protect),
      contexts  |-> buildBranchProtectionContextPolicy(answer.contexts, checks),
      strict    |-> IF checks = Nil THEN answer.strict ELSE OrElse(checks.strict, answer.strict),
      users     |-> restricted.users,
      teams     |-> restricted.teams,
      approvals |-> IF reviews = Nil THEN answer.approvals ELSE OrElse(reviews.approvals, answer.approvals),
      dismissed |-> IF reviews = Nil THEN answer.dismissed
                    ELSE buildRestrictions(answer.dismissed, reviews.dismissal)]

(* The policy of a branch is built in a copy that is thrown away: of the   *)
(* branch, only its name is left.                                          *)
buildBranchProtection(protection, spec, repo) ==
  LET old   == At(protection, repo, [policy |-> EmptyPolicy, branches |-> {}])
      named == IF spec.items = Nil THEN {} ELSE {b \in Branches : spec.items[b] # Nil}
  IN IF spec.base = Nil /\ named = {} THEN protection
     ELSE Put(protection, repo,
              [policy   |-> IF spec.base = Nil THEN old.policy ELSE buildPolicy(old.policy, spec.base),
               branches |-> old.branches \cup named])

buildContextPolicy(answer, policy) ==
  IF policy = Nil THEN answer
  ELSE LET old == OrElse(answer, [skip |-> Nil, required |-> <<>>])
       IN [skip     |-> OrElse(policy.skip, old.skip),
           required |-> IF policy.required = Nil THEN old.required ELSE policy.required.items]

buildRepoContextPolicy(context) ==
  [policy   |-> buildContextPolicy(Nil, context.base),
   branches |-> [b \in Branches |->
                   IF context.branches = Nil THEN Nil
                   ELSE buildContextPolicy(Nil, context.branches.items[b])]]

(* Mutant of buildQuery: starts from the last query of all repositories.   *)
buildQueryShared(queries, own, repo) ==
  LET Add(acc, query) ==
        LET settings == [labels    |-> IF query.labels = Nil THEN acc.settings.labels ELSE query.labels.items,
                         milestone |-> OrElse(query.milestone, acc.settings.milestone)]
        IN [settings |-> settings, queries |-> mergeEntry(acc.queries, settings, repo)]
      start == IF queries = <<>> THEN [labels |-> <<>>, milestone |-> Nil] ELSE Last(queries).settings
  IN FoldLeft(Add, [settings |-> start, queries |-> queries], own).queries

(* One query is filled from all of those of the repository in turn, and    *)
(* added each time: what a query leaves out it has from the one before.    *)
buildQuery(queries, own, repo) ==
  LET Add(acc, query) ==
        LET settings == [labels    |-> IF query.labels = Nil THEN acc.settings.labels ELSE query.labels.items,
                         milestone |-> OrElse(query.milestone, acc.settings.milestone)]
        IN [settings |-> settings, queries |-> mergeEntry(acc.queries, settings, repo)]
  IN FoldLeft(Add, [settings |-> [labels |-> <<>>, milestone |-> Nil], queries |-> queries], own).queries

(* The first of the periodic jobs of a name, from whatever repository.     *)
buildPeriodics(periodics, own) ==
  LET Add(jobs, job) == IF Namesakes(jobs, job) = {} THEN Append(jobs, job) ELSE jobs
  IN FoldLeft(Add, periodics, own)

buildKeeperConfig(c, spec, repo) ==
  [c EXCEPT
     !.queries        = IF spec.queries = Nil THEN @ ELSE buildQuery(@, spec.queries, repo),
     !.mergeType      = IF spec.method = Nil THEN @ ELSE Put(@, repo, spec.method),
     !.protection     = IF spec.protection = Nil THEN @ ELSE buildBranchProtection(@, spec.protection, repo),
     !.contextOptions = IF spec.context = Nil THEN @ ELSE Put(@, repo, buildRepoContextPolicy(spec.context))]

buildJobConfig(c, spec, repo) ==
  LET AddJobs(jobs, own) ==
        IF own = Nil \/ own.items = <<>> THEN jobs
        ELSE Put(jobs, repo, At(jobs, repo, <<>>) \o own.items)
  IN [buildKeeperConfig(c, spec, repo) EXCEPT
        !.presubmits  = AddJobs(@, spec.presubmits),
        !.postsubmits = AddJobs(@, spec.postsubmits),
        !.periodics   = IF spec.periodics = Nil THEN @ ELSE buildPeriodics(@, spec.periodics),
        !.report      = IF spec.attachments \in {Nil, <<>>} THEN @ ELSE Head(spec.attachments)]

buildMerger(c, merger, repo) ==
  [c EXCEPT !.sync          = OrElse(merger.sync, @),
            !.url           = OrElse(merger.url, @),
            !.mergeType     = IF merger.type = Nil THEN @ ELSE Put(@, repo, merger.type),
            !.keeperContext = buildContextPolicy(@, merger.context)]

(* The global policy and the merger of every leaf go over those of the     *)
(* leaves before it.                                                       *)
buildProwConfig(c, spec, repo) ==
  LET protected ==
        IF spec.policy = Nil THEN c
        ELSE [c EXCEPT !.tested = OrElse(spec.policy.tested, @),
                       !.policy = IF spec.policy.base = Nil THEN @ ELSE buildPolicy(@, spec.policy.base)]
  IN IF spec.merger = Nil THEN protected ELSE buildMerger(protected, spec.merger, repo)

(* A period that cannot be parsed makes GetSyncPeriod fail.                *)
BadPeriod == "bad"
buildMergerFails(spec) == spec.merger # Nil /\ spec.merger.sync = BadPeriod

-----------------------------------------------------------------------------
(* The command.  repoList, schedulerOf and team are what it reads.         *)

Blanks ==
  /\ schedulers = Library
  /\ phase = "load" /\ next = 1
  /\ leaves = <<>> /\ cfg = EmptyConfig /\ plugs = EmptyPlugins /\ saved = {}

Init ==
  /\ repoList \in SetToSeqs(Repos)
  /\ schedulerOf \in [Repos -> Opt(Names)]
  /\ team \in Opt(Names)
  /\ Blanks

(* The dev environment repository has a scheduler of its own.              *)
Load ==
  /\ phase = "load"
  /\ schedulerOf' = [r \in Repos |-> IF r = DevRepo /\ schedulerOf[r] = Nil THEN InRepo ELSE schedulerOf[r]]
  /\ phase' = "generate"
  /\ UNCHANGED <<repoList, team, schedulers, next, leaves, cfg, plugs, saved>>

(* One round of the loop of GenerateProw.  Build does not fail here: the   *)
(* last of two schedulers is the updater, which has no jobs.               *)
Generate ==
  LET repo == repoList[next]
      list == Applicable(repo)
      last == Last(list)
      spec == Build([i \in DOMAIN list |-> SpecOf(list[i])])
  IN /\ phase = "generate" /\ next <= Len(repoList)
     /\ IF list = <<>>
        THEN UNCHANGED <<schedulers, leaves>>
        ELSE /\ leaves' = Append(leaves, [repo |-> repo, spec |-> spec])
             /\ schedulers' = IF last = Updater THEN schedulers ELSE [schedulers EXCEPT ![last] = spec]
     /\ next' = next + 1
     /\ UNCHANGED <<inputs, phase, cfg, plugs, saved>>

(* One round of the loop of BuildProwConfig.                               *)
AddLeaf ==
  /\ phase = "build" /\ next <= Len(leaves)
  /\ LET leaf == leaves[next]
         jobs == buildJobConfig(cfg, leaf.spec, leaf.repo)
     IN IF buildMergerFails(leaf.spec)
        THEN phase' = "failed" /\ UNCHANGED <<next, cfg, plugs>>
        ELSE /\ cfg' = buildProwConfig(jobs, leaf.spec, leaf.repo)
             /\ plugs' = buildPlugins(plugs, leaf.spec, leaf.repo)
             /\ next' = next + 1
             /\ UNCHANGED phase
  /\ UNCHANGED <<inputs, schedulers, leaves, saved>>

(* One round of the loop that enables the in repo configuration.           *)
EnableInRepo ==
  LET repo == repoList[next]
      name == schedulerOf[repo]
      inRepo == name = InRepo \/ (name \in DOMAIN Library /\ schedulers[name].inRepo)
  IN /\ phase = "inRepo" /\ next <= Len(repoList)
     /\ cfg' = IF inRepo THEN [cfg EXCEPT !.inRepo = @ \cup {repo}] ELSE cfg
     /\ next' = next + 1
     /\ UNCHANGED <<inputs, schedulers, phase, leaves, plugs, saved>>

EndLoop ==
  /\ \/ phase = "generate" /\ next > Len(repoList) /\ phase' = "build"
     \/ phase = "build" /\ next > Len(leaves) /\ phase' = "inRepo"
     \/ phase = "inRepo" /\ next > Len(repoList) /\ phase' = "save"
  /\ next' = 1
  /\ UNCHANGED <<inputs, schedulers, leaves, cfg, plugs, saved>>

(* The URLs are templates; the files are written one after the other, and  *)
(* any of that can fail.                                                   *)
Save ==
  /\ phase = "save"
  /\ \/ saved' = {"config", "plugins"} /\ phase' = "done"
     \/ saved' \in {{}, {"config"}} /\ phase' = "failed"
  /\ UNCHANGED <<inputs, schedulers, next, leaves, cfg, plugs>>

Next == Load \/ Generate \/ AddLeaf \/ EnableInRepo \/ EndLoop \/ Save

Spec == Init /\ [][Next]_vars

-----------------------------------------------------------------------------
Phases == {"load", "generate", "build", "inRepo", "save", "done", "failed"}

Entries == [settings : Trigger \cup Lgtm \cup Approve, repos : SUBSET Repos]

(* The variables have their types; in particular what Build returns is a   *)
(* scheduler again.                                                        *)
TypeOK ==
  /\ repoList \in Seq(Repos)
  /\ schedulerOf \in [Repos -> Opt(Names)] /\ team \in Opt(Names)
  /\ DOMAIN schedulers = DOMAIN Library
  /\ \A n \in DOMAIN schedulers : schedulers[n] \in SchedulerSpec
  /\ phase \in Phases /\ next \in 1 .. (Len(repoList) + 1)
  /\ \A i \in DOMAIN leaves : leaves[i].repo \in Repos /\ leaves[i].spec \in SchedulerSpec
  /\ plugs.triggers \in Seq(Entries) /\ plugs.lgtm \in Seq(Entries) /\ plugs.approve \in Seq(Entries)

(* The leaves that are in the configurations.                              *)
Added == {leaves[i] : i \in {i \in DOMAIN leaves : phase # "build" \/ i < next}}

Built == phase \in {"inRepo", "save", "done"}

ConsolidatedIn(entries, Own(_)) ==
  /\ \A i, j \in DOMAIN entries : entries[i].settings = entries[j].settings => i = j
  /\ phase \in {"build", "inRepo", "save", "done"} =>
       \A leaf \in Added :
         /\ \A i \in DOMAIN entries :
              leaf.repo \in entries[i].repos <=> entries[i].settings = Own(leaf)
         /\ Own(leaf) # Nil => \E i \in DOMAIN entries : leaf.repo \in entries[i].repos

(* Repositories with different plugin configurations are kept separate,    *)
(* those with identical ones are consolidated: no two entries have the     *)
(* same settings, and every repository is in that of its own.              *)
Consolidated ==
  /\ ConsolidatedIn(plugs.lgtm, LAMBDA leaf : leaf.spec.lgtm)
  /\ ConsolidatedIn(plugs.approve, LAMBDA leaf : leaf.spec.approve)
  /\ ConsolidatedIn(plugs.triggers,
       LAMBDA leaf : IF leaf.spec.trigger = Nil THEN Nil ELSE buildTrigger(leaf.spec.trigger, leaf.repo))

(* What the configurations say of one repository.  The global policy, the  *)
(* URL, period and contexts of the keeper, the welcomes and the periodic   *)
(* jobs are those of all repositories and are left out.                    *)
View(c, p, repo) ==
  LET Of(entries) == {e.settings : e \in {e \in ToSet(entries) : repo \in e.repos}}
  IN [presubmits |-> At(c.presubmits, repo, Nil), postsubmits |-> At(c.postsubmits, repo, Nil),
      mergeType |-> At(c.mergeType, repo, Nil), context |-> At(c.contextOptions, repo, Nil),
      protection |-> At(c.protection, repo, Nil), queries |-> Of(c.queries),
      plugins |-> At(p.plugins, repo, Nil), external |-> At(p.external, repo, Nil),
      approve |-> Of(p.approve), lgtm |-> Of(p.lgtm), triggers |-> Of(p.triggers)]

Alone(leaf) ==
  View(buildProwConfig(buildJobConfig(EmptyConfig, leaf.spec, leaf.repo), leaf.spec, leaf.repo),
       buildPlugins(EmptyPlugins, leaf.spec, leaf.repo), leaf.repo)

(* What the configuration says of a repository is what it would say if     *)
(* there were no other, whatever their order: but for what the             *)
(* configuration has once for all repositories, nothing leaks from one to  *)
(* another.                                                                *)
OwnSettings == Built => \A leaf \in Added : View(cfg, plugs, leaf.repo) = Alone(leaf)

(* A repository has the scheduler that it names, or that of the team, as   *)
(* it was loaded, although repositories share schedulers and Build writes  *)
(* into the last one of its list.  The plugin config-updater comes only    *)
(* with the repositories whose full name is a part of the URL of the dev   *)
(* environment, which its own one is, but another one can be, too; these   *)
(* do not have the scheduler of the team, nor welcomes.                    *)
OwnScheduler ==
  \A i \in DOMAIN leaves :
    LET repo  == leaves[i].repo
        named == schedulerOf[repo] \in DOMAIN Library
        own   == IF named THEN Library[schedulerOf[repo]] ELSE IF repo \in Near THEN Blank ELSE Library[team]
        after == SelectSeq(ItemsOf(own.plugins), LAMBDA p : p # Updater)
    IN leaves[i].spec =
         IF repo \notin Near THEN own
         ELSE [own EXCEPT !.plugins = [replace |-> FALSE, items |-> <<Updater>> \o after],
                          !.updater = {Updater}, !.welcome = Nil, !.inRepo = FALSE]

(* Schedulers that define a periodic job of the same name do not make it   *)
(* run twice.                                                              *)
PeriodicsOnce ==
  phase \in {"build", "inRepo", "save", "done"} =>
    \A leaf \in Added : leaf.spec.periodics # Nil =>
      \A job \in ToSet(leaf.spec.periodics) : Cardinality(Namesakes(cfg.periodics, job)) = 1
=============================================================================
