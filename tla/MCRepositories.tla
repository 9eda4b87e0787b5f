---------------------------- MODULE MCRepositories ----------------------------
(* jx gitops scheduler for three repositories and four schedulers, Build   *)
(* for lists of up to three schedulers, and three commands on the source   *)
(* configuration, of which the last can undo what the others did.          *)
EXTENDS SequencesExt, Naturals, FiniteSets, TLC

CONSTANT Nil

VARIABLES part, repoList, schedulerOf, team, schedulers, phase, next, leaves, cfg, plugs, saved,
          list, answer, i, failed,
          config, files, jobs, op, steps

Values == {"m1", "m2", "p", "q", "r", "bad", "a", "b", "config-updater"}
Branches == {"main", "old"}
OnMain(policy) == [b \in Branches |-> IF b = "main" THEN policy ELSE Nil]
RepoOrg == [r \in {"a/env", "a/e", "b/lib"} |-> IF r = "b/lib" THEN "b" ELSE "a"]

Only(items) == [replace |-> FALSE, items |-> items]

BL == INSTANCE SchedulerBuild

Locked(users) == [protect |-> TRUE, checks |-> [contexts |-> Only(<<"p">>), strict |-> Nil],
                  restrictions |-> [users |-> users, teams |-> Nil],
                  reviews |-> [approvals |-> "m1", dismissal |-> Nil]]
Required(items) == [skip |-> Nil, required |-> items]

Plain ==
  [BL!Blank EXCEPT
     !.method = "m1", !.trigger = [ignoreOkToTest |-> FALSE, trustedOrg |-> Nil],
     !.lgtm = [review |-> TRUE, team |-> Nil], !.approve = [issue |-> FALSE, self |-> Nil],
     !.plugins = Only(<<"p", "q">>), !.external = Only(<<"p">>),
     !.presubmits = Only(<<[name |-> "p", runs |-> "p"]>>),
     !.periodics = <<[name |-> "p", cron |-> "m1"]>>,
     !.queries = <<[labels |-> Only(<<"p">>), milestone |-> Nil], [labels |-> Nil, milestone |-> "m1"]>>,
     !.context = [base |-> Required(Only(<<"p">>)),
                  branches |-> Only(OnMain(Required(Nil)))],
     !.protection = [base |-> Locked(Only(<<"a">>)), replace |-> FALSE, items |-> OnMain(Locked(Nil))],
     !.policy = [base |-> Locked(Only(<<"b">>)), tested |-> TRUE], !.welcome = <<"p">>]

Strict ==
  [BL!Blank EXCEPT
     !.method = "m2", !.trigger = [ignoreOkToTest |-> TRUE, trustedOrg |-> "a"],
     !.lgtm = [review |-> TRUE, team |-> Nil], !.approve = [issue |-> TRUE, self |-> FALSE],
     !.plugins = [replace |-> TRUE, items |-> <<"q", "r">>], !.external = Only(<<"p", "q">>),
     !.policy = [base |-> [Locked(Nil) EXCEPT !.checks = Nil], tested |-> Nil],
     !.presubmits = Only(<<[name |-> "p", runs |-> "q"], [name |-> "q", runs |-> "q"]>>),
     !.postsubmits = Only(<<[name |-> "p", runs |-> "q"]>>),
     !.periodics = <<[name |-> "p", cron |-> "m2"], [name |-> "q", cron |-> "m2"]>>,
     !.queries = <<[labels |-> Nil, milestone |-> "m1"]>>,
     !.merger = [sync |-> "m1", url |-> "p", type |-> "m1", context |-> Required(Only(<<"q">>))],
     !.attachments = <<"r">>, !.welcome = <<"p", "q">>]

Quick ==
  [BL!Blank EXCEPT !.inRepo = TRUE, !.trigger = [ignoreOkToTest |-> Nil, trustedOrg |-> Nil],
                !.plugins = Only(<<"r">>), !.lgtm = [review |-> Nil, team |-> "a"],
                !.merger = [sync |-> Nil, url |-> "q", type |-> Nil, context |-> Nil],
                !.policy = [base |-> Nil, tested |-> FALSE]]

Broken == [Plain EXCEPT !.presubmits = Only(<<[name |-> "p", runs |-> "p"], [name |-> "p", runs |-> "q"]>>),
                        !.merger = [sync |-> "bad", url |-> Nil, type |-> Nil, context |-> Nil]]

S == INSTANCE Scheduler WITH
       Repos <- DOMAIN RepoOrg, OrgOf <- RepoOrg, DevRepo <- "a/env", Near <- {"a/env", "a/e"},
       Names <- {"plain", "strict", "in-repo", "broken", "lost"}, InRepo <- "in-repo",
       Library <- [n \in {"plain", "strict", "in-repo", "broken"} |->
                     CASE n = "plain" -> Plain [] n = "strict" -> Strict
                       [] n = "in-repo" -> Quick [] OTHER -> Broken],
       Updater <- "config-updater"

L == INSTANCE SchedulerLayers WITH
       Lists <- UNION {[1 .. n -> {Plain, Strict, Quick, Broken, BL!Blank}] : n \in 1 .. 3}

SR(server, kind, owner, name, url, scheduler) ==
  [server |-> server, kind |-> kind, owner |-> owner, name |-> name, url |-> url, clone |-> Nil,
   scheduler |-> scheduler]

LowerCase(owner) == IF owner = "Acme" THEN "acme" ELSE owner

C == INSTANCE SourceConfig WITH
       Servers <- {"github", "gitlab"}, KindOf <- [s \in {"github", "gitlab"} |-> s],
       Owners <- {"acme", "Acme", "acme-x"}, Fold <- LowerCase, RepoNames <- {"app", "x-app"},
       ValidName <- LAMBDA o, n : IF o = "acme-x" /\ n = "app" THEN <<"acme", "x-app">> ELSE <<LowerCase(o), n>>,
       Schedulers <- {"s1", "s2"}, Jenkins <- {"ci"}, MaxSteps <- 3,
       Remotes <- {<<"github", "acme", "app">>, <<"github", "Acme", "x-app">>,
                   <<"github", "acme-x", "app">>, <<"gitlab", "acme", "app">>},
       FolderTemplates <- {}, JobTemplates <- {"ci"},
       Written <- {[server |-> server, kind |-> server, owner |-> "Acme", scheduler |-> "s1", slack |-> Nil,
                    repos |-> ("app" :> [url |-> "other", clone |-> Nil, scheduler |-> "s2", slack |-> Nil])
                              @@ ("x-app" :> [url |-> Nil, clone |-> Nil, scheduler |-> Nil, slack |-> Nil])] :
                   server \in {"github", Nil}},
       Exports <- {<<SR("github", "github", "acme", "app", "git", "s1")>>,
                   <<SR("github", Nil, "acme", "app", "page", Nil), SR("github", "github", "acme", "x-app", Nil, "s2")>>,
                   <<SR("gitlab", Nil, "acme", "app", "other", "s2"), SR(Nil, Nil, "acme-x", "app", Nil, "s1")>>}

schedulerVars == <<repoList, schedulerOf, team, schedulers, phase, next, leaves, cfg, plugs, saved>>
layerVars == <<list, answer, i, failed>>
configVars == <<config, files, jobs, op, steps>>

NoScheduler ==
  /\ repoList = Nil /\ schedulerOf = Nil /\ team = Nil /\ schedulers = Nil /\ phase = Nil
  /\ next = Nil /\ leaves = Nil /\ cfg = Nil /\ plugs = Nil /\ saved = Nil
NoLayers == list = Nil /\ answer = Nil /\ i = Nil /\ failed = Nil
NoConfig == config = Nil /\ files = Nil /\ jobs = Nil /\ op = Nil /\ steps = Nil

ASSUME MCAssumption == S!SchedulerAssumption /\ L!ListsAssumption /\ C!SourceConfigAssumption

Init ==
  \/ part = "scheduler" /\ S!Init /\ team \in {Nil, "plain"} /\ NoLayers /\ NoConfig
  \/ part = "layers" /\ L!Init /\ NoScheduler /\ NoConfig
  \/ part = "config" /\ C!Init /\ config.scheduler \in {Nil, "s2"} /\ NoScheduler /\ NoLayers

Next ==
  /\ UNCHANGED part
  /\ \/ part = "scheduler" /\ S!Next /\ UNCHANGED <<layerVars, configVars>>
     \/ part = "layers" /\ L!Next /\ UNCHANGED <<schedulerVars, configVars>>
     \/ part = "config" /\ C!Next /\ UNCHANGED <<schedulerVars, layerVars>>

Spec == Init /\ [][Next]_<<part, schedulerVars, layerVars, configVars>>

(* The properties of the parts; see the modules that define them.          *)

(* The generated configuration has one entry for each repository, and      *)
(* every periodic job once (pkg/pipelinescheduler).                        *)
Consolidated == part = "scheduler" => S!Consolidated /\ S!PeriodicsOnce

(* A repository is configured by the scheduler that applies to it, as it   *)
(* was loaded, with the updater where the name is a part of the URL of the *)
(* dev environment (pkg/pipelinescheduler/generator.go).                   *)
OwnScheduler == part = "scheduler" => S!OwnScheduler

(* What the configuration says of a repository has nothing of another one  *)
(* (pkg/pipelinescheduler/config_builder.go).                              *)
OwnSettings == part = "scheduler" => S!OwnSettings

(* Of the schedulers a repository inherits from, the nearest that says     *)
(* something decides, but for jobs of the same name and IgnoreOkToTest,    *)
(* where the farthest does; plugins are united                             *)
(* (pkg/pipelinescheduler/builder.go).                                     *)
NearestWins == part = "layers" => L!NearestWins /\ L!FarthestWins /\ L!PluginsUnited /\ L!ExternalsAppended

(* No repository gets a second group in the source configuration, unless   *)
(* its first one has no provider or another kind than its server's         *)
(* (pkg/sourceconfigs, pkg/cmd/repository).                                *)
NoDuplicates == [][part = "config" => C!KeepsGroups]_configVars

(* Every repository of the source configuration gets its SourceRepository  *)
(* (pkg/cmd/repository/create).                                            *)
Created == part = "config" => C!Created

(* No command changes the scheduler or the URL of a repository that it is  *)
(* not told to (pkg/sourceconfigs).                                        *)
SchedulerKept == [][part = "config" => C!KeepsScheduler /\ C!KeepsUrl]_configVars
=============================================================================
