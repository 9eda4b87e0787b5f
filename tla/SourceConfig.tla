----------------------------- MODULE SourceConfig -----------------------------
(***************************************************************************)
(* The configuration of the source repositories and the resources that are *)
(* generated from it (pkg/sourceconfigs, pkg/cmd/repository,               *)
(* pkg/cmd/jenkins).                                                       *)
(*                                                                         *)
(* Repositories are grouped by git server and owner; a repository inherits *)
(* what it leaves out from its group, and the group from the whole         *)
(* configuration.  DryConfig takes out of the file what can be inherited   *)
(* or guessed.  The repositories of a group have different names: their    *)
(* order in the file is left out, and with it SortConfig.                  *)
(***************************************************************************)
EXTENDS Naturals, Sequences, SequencesExt

CONSTANTS
  Nil,
  Servers,     \* the git servers; KindOf their kinds as DiscoverGitKind finds them
  KindOf,
  Owners,      \* the owners; Fold makes them lower case
  Fold(_),
  RepoNames,
  ValidName(_, _), \* the file name of the resource of an owner and a name
  Schedulers,  \* the names of schedulers
  Jenkins,     \* the names of Jenkins servers
  Remotes,     \* the git URLs that are added, as <<server, owner, name>>
  FolderTemplates, JobTemplates, \* the Jenkins servers with templates, of their own or for all
  Written,     \* the groups that somebody may have written into the file
  Exports,     \* the lists of SourceRepositories that are exported
  MaxSteps     \* bound on the number of commands

(* What is assumed of the constants.                                       *)
SourceConfigAssumption ==
  /\ Nil \notin Servers \cup Owners \cup RepoNames \cup Schedulers \cup Jenkins
  /\ DOMAIN KindOf = Servers
  /\ "github" \in Servers
  /\ Remotes \subseteq Servers \X Owners \X RepoNames
  /\ FolderTemplates \cup JobTemplates \subseteq Jenkins
  /\ \A group \in Written :
       /\ group.server \in Servers \cup {Nil} /\ group.owner \in Owners
       /\ group.kind \in {KindOf[s] : s \in Servers} \cup {Nil}
  /\ \A o \in Owners, n, m \in RepoNames : ValidName(o, n) = ValidName(o, m) => n = m

VARIABLES
  config,  \* .jx/gitops/source-config.yaml
  files,   \* the SourceRepository files, by name
  jobs,    \* the jobs in the values file of each Jenkins server
  op,      \* the last command, for the properties
  steps

vars == <<config, files, jobs, op, steps>>

-----------------------------------------------------------------------------
(* Configurations.  A URL is "page" or "git" when it is what provider,     *)
(* owner and name suggest, without and with .git.                          *)

Opt(S) == S \cup {Nil}
OrElse(x, default) == IF x = Nil THEN default ELSE x

Urls == {"page", "git", "other"}

SlackNotify == [channel : Opt({"#jenkins-x-pipelines", "#own"}), kind : Opt({"failureOrNextSuccess"})]

Repository == [url : Opt(Urls), clone : Opt(Urls), scheduler : Opt(Schedulers), slack : Opt(SlackNotify)]

RepositoryGroup ==
  [server : Opt(Servers), kind : Opt({KindOf[s] : s \in Servers}), owner : Owners,
   scheduler : Opt(Schedulers), slack : Opt(SlackNotify), repos : [RepoNames -> Opt(Repository)]]

NewRepository == [url |-> Nil, clone |-> Nil, scheduler |-> Nil, slack |-> Nil]

NamesIn(group) == {n \in RepoNames : group.repos[n] # Nil}

(* SlackNotify.Inherit: the kind is not inherited.                         *)
InheritSlack(own, parent) ==
  IF own = Nil \/ parent = Nil THEN OrElse(own, parent)
  ELSE [own EXCEPT !.channel = OrElse(@, parent.channel)]

DefaultSlackNotify == [channel |-> "#jenkins-x-pipelines", kind |-> "failureOrNextSuccess"]

(* DefaultValues, of a group and of one of its repositories.               *)
DefaultGroup(c, group) ==
  [group EXCEPT !.slack     = InheritSlack(@, c.slack),
                !.server    = OrElse(@, "github"),
                !.kind      = OrElse(@, "github"),
                !.scheduler = OrElse(@, c.scheduler)]

DefaultRepository(group, repo) ==
  [url       |-> OrElse(repo.url, "page"),
   clone     |-> OrElse(repo.clone, "git"),
   scheduler |-> OrElse(repo.scheduler, group.scheduler),
   slack     |-> InheritSlack(repo.slack, group.slack)]

Matches(group, kind, server, owner) ==
  kind \in {Nil, group.kind} /\ server \in {Nil, group.server} /\ Fold(group.owner) = Fold(owner)

(* Mutant of getOrCreateGroup: appends a group for every spelling.         *)
getOrCreateGroupExact(groups, kind, server, owner) ==
  IF \E i \in DOMAIN groups : Matches(groups[i], kind, server, owner) /\ groups[i].owner = owner THEN groups
  ELSE Append(groups, [server |-> server, kind |-> kind, owner |-> owner, scheduler |-> Nil,
                       slack |-> Nil, repos |-> [n \in RepoNames |-> Nil]])

getOrCreateGroup(groups, kind, server, owner) ==
  IF \E i \in DOMAIN groups : Matches(groups[i], kind, server, owner) THEN groups
  ELSE Append(groups, [server |-> server, kind |-> kind, owner |-> owner, scheduler |-> Nil,
                       slack |-> Nil, repos |-> [n \in RepoNames |-> Nil]])

GroupFor(groups, kind, server, owner) ==
  SelectInSeq(groups, LAMBDA g : Matches(g, kind, server, owner))

(* Mutant of DryConfig: a repository without a scheduler is passed over.   *)
DryConfigPartly(c) ==
  LET DryGroup(group) ==
        LET own == {group.repos[n].scheduler : n \in NamesIn(group)} \ {Nil}
        IN IF \E s \in Schedulers : own = {s}
           THEN [group EXCEPT !.scheduler = CHOOSE s \in own : TRUE,
                              !.repos = [n \in RepoNames |-> IF @[n] = Nil THEN Nil ELSE [@[n] EXCEPT !.scheduler = Nil]]]
           ELSE group
  IN [c EXCEPT !.groups = [i \in DOMAIN @ |-> DryGroup(@[i])]]

(* A scheduler that all repositories of a group name goes to the group.    *)
(* URLs are omitted up to the first group without a provider.              *)
DryConfig(c) ==
  LET DryScheduler(group) ==
        LET own == {group.repos[n].scheduler : n \in NamesIn(group)}
        IN IF \E s \in Schedulers : own = {s}
           THEN [group EXCEPT !.scheduler = CHOOSE s \in own : TRUE,
                              !.repos = [n \in RepoNames |-> IF @[n] = Nil THEN Nil ELSE [@[n] EXCEPT !.scheduler = Nil]]]
           ELSE group
      DryUrls(repo) ==
        IF repo = Nil THEN Nil
        ELSE [repo EXCEPT !.url = IF @ \in {"page", "git"} THEN Nil ELSE @,
                          !.clone = IF @ = "git" THEN Nil ELSE @]
      Dry(i) ==
        LET group == DryScheduler(c.groups[i])
        IN IF \E j \in 1 .. i : c.groups[j].server = Nil THEN group
           ELSE [group EXCEPT !.repos = [n \in RepoNames |-> DryUrls(@[n])]]
  IN [c EXCEPT !.groups = [i \in DOMAIN @ |-> Dry(i)]]

EnrichConfig(c) == [c EXCEPT !.slack = OrElse(@, DefaultSlackNotify)]

(* What DefaultValues makes of a repository.                               *)
Effective(c, group, name) == DefaultRepository(DefaultGroup(c, group), group.repos[name])

-----------------------------------------------------------------------------
Init ==
  /\ config \in [scheduler : Opt(Schedulers), slack : {Nil}, groups : {<<>>} \cup {<<group>> : group \in Written},
                servers : {[j \in Jenkins |-> Nil]}]
  /\ files = [f \in {ValidName(o, n) : o \in Owners, n \in RepoNames} |-> Nil]
  /\ jobs = [j \in Jenkins |-> {}]
  /\ op = [kind |-> "none"] /\ steps = 0

Command(o) == op' = o /\ steps < MaxSteps /\ steps' = steps + 1

Save(c, explicit) == config' = IF explicit THEN EnrichConfig(c) ELSE DryConfig(EnrichConfig(c))

(* The groups after the repository is ensured in them.  The flag is        *)
(* compared with the scheduler of the group: when that is the same, the    *)
(* repository keeps the one it has.                                        *)
ensureInGroups(groups, server, owner, name, scheduler) ==
  LET ensured == getOrCreateGroup(groups, KindOf[server], server, owner)
      g == GroupFor(ensured, KindOf[server], server, owner)
      repo == OrElse(ensured[g].repos[name], NewRepository)
  IN [ensured EXCEPT ![g].repos[name] =
        IF scheduler \in {Nil, ensured[g].scheduler} THEN repo ELSE [repo EXCEPT !.scheduler = scheduler]]

(* jx gitops repository add, without and with --jenkins.                   *)
Add(server, owner, name, scheduler, explicit) ==
  /\ Save([config EXCEPT !.groups = ensureInGroups(@, server, owner, name, scheduler)], explicit)
  /\ Command([kind |-> "add", server |-> server, owner |-> owner, name |-> name, scheduler |-> scheduler])
  /\ UNCHANGED <<files, jobs>>

AddJenkins(j, server, owner, name, scheduler) ==
  /\ Save([config EXCEPT !.servers[j] = ensureInGroups(OrElse(@, <<>>), server, owner, name, scheduler)], FALSE)
  /\ Command([kind |-> "jenkins"])
  /\ UNCHANGED <<files, jobs>>

RemoveRepository(c, owner, name) ==
  [c EXCEPT !.groups = [i \in DOMAIN @ |->
     IF owner \in {Nil, @[i].owner} THEN [@[i] EXCEPT !.repos[name] = Nil] ELSE @[i]]]

(* jx gitops repository delete, with or without --owner.                   *)
Delete(owner, name) ==
  /\ config' = RemoveRepository(config, owner, name)
  /\ Command([kind |-> "delete", owner |-> owner, name |-> name])
  /\ UNCHANGED <<files, jobs>>

(* Mutant of SourceRepositoryOf: keeps the scheduler that is in the file.   *)
SourceRepositoryStale(old, group, name, repo) ==
  [org |-> group.owner, repo |-> name, server |-> group.server, kind |-> group.kind,
   url |-> repo.url, clone |-> repo.clone,
   scheduler |-> IF old = Nil THEN repo.scheduler ELSE old.scheduler]

(* ensureSourceRepositoryExists of repository create: only what is set     *)
(* goes into a file that is there.                                         *)
SourceRepositoryOf(old, group, name, repo) ==
  [org |-> group.owner, repo |-> name, server |-> group.server, kind |-> group.kind,
   url |-> repo.url, clone |-> repo.clone,
   scheduler |-> IF repo.scheduler # Nil \/ old = Nil THEN repo.scheduler ELSE old.scheduler]

(* jx gitops repository create: group after group.                         *)
Create ==
  LET AddGroup(fs, group) ==
        [f \in DOMAIN fs |->
           IF \E n \in NamesIn(group) : f = ValidName(group.owner, n)
           THEN LET n == CHOOSE n \in NamesIn(group) : f = ValidName(group.owner, n)
                IN SourceRepositoryOf(fs[f], DefaultGroup(config, group), n, Effective(config, group, n))
           ELSE fs[f]]
  IN /\ files' = FoldLeft(AddGroup, files, config.groups)
     /\ Command([kind |-> "create"])
     /\ UNCHANGED <<config, jobs>>

(* The directory of the resources is removed before it is generated again. *)
Clean ==
  /\ files' = [f \in DOMAIN files |-> Nil]
  /\ Command([kind |-> "clean"])
  /\ UNCHANGED <<config, jobs>>

(* populateConfig: one resource of the cluster.                            *)
populate(c, sr) ==
  LET kind   == IF sr.kind = Nil /\ sr.server = "github" THEN "github" ELSE sr.kind
      groups == getOrCreateGroup(c.groups, kind, sr.server, sr.owner)
      g      == GroupFor(groups, kind, sr.server, sr.owner)
      group  == DefaultGroup(c, groups[g])
      repo   == DefaultRepository(group, OrElse(group.repos[sr.name], NewRepository))
  IN [c EXCEPT !.groups = [groups EXCEPT ![g] =
        [group EXCEPT !.repos[sr.name] =
           [repo EXCEPT !.url = OrElse(sr.url, @), !.clone = OrElse(sr.clone, @),
                        !.scheduler = OrElse(sr.scheduler, @)]]]]

(* jx gitops repository export                                             *)
Export(list, explicit) ==
  /\ Save(FoldLeft(populate, config, list), explicit)
  /\ Command([kind |-> "export", list |-> list])
  /\ UNCHANGED <<files, jobs>>

(* jx gitops jenkins add: the server is in the configuration.              *)
AddServer(j) ==
  /\ config' = [config EXCEPT !.servers[j] = OrElse(@, <<>>)]
  /\ Command([kind |-> "server"])
  /\ UNCHANGED <<files, jobs>>

(* jx gitops jenkins jobs: a folder per group that has repositories and a  *)
(* job per repository, where there is a template for them.  The values of  *)
(* a server without any are not written.  Templates of single groups and   *)
(* repositories, and the helmfile that is made for a server, are left out. *)
Jobs ==
  LET groups(j)  == OrElse(config.servers[j], <<>>)
      folders(j) == {<<groups(j)[i].owner>> : i \in {i \in DOMAIN groups(j) : NamesIn(groups(j)[i]) # {}}}
      named(j)   == UNION {{<<groups(j)[i].owner, n>> : n \in NamesIn(groups(j)[i])} : i \in DOMAIN groups(j)}
      JobsOf(j)  == {f \in folders(j) : j \in FolderTemplates} \cup {f \in named(j) : j \in JobTemplates}
  IN /\ jobs' = [j \in Jenkins |-> IF JobsOf(j) = {} THEN jobs[j] ELSE JobsOf(j)]
     /\ Command([kind |-> "jobs"])
     /\ UNCHANGED <<config, files>>

Next ==
  \/ \E r \in Remotes, sched \in Opt(Schedulers) :
       \/ \E explicit \in BOOLEAN : Add(r[1], r[2], r[3], sched, explicit)
       \/ \E j \in Jenkins : AddJenkins(j, r[1], r[2], r[3], sched)
  \/ \E o \in Opt(Owners), n \in RepoNames : Delete(o, n)
  \/ Create \/ Clean \/ Jobs
  \/ \E list \in Exports, explicit \in BOOLEAN : Export(list, explicit)
  \/ \E j \in Jenkins : AddServer(j)

Spec == Init /\ [][Next]_vars

-----------------------------------------------------------------------------
TypeOK ==
  /\ config.scheduler \in Opt(Schedulers) /\ config.slack \in Opt(SlackNotify)
  /\ config.groups \in Seq(RepositoryGroup)
  /\ \A j \in Jenkins : config.servers[j] = Nil \/ config.servers[j] \in Seq(RepositoryGroup)
  /\ steps \in 0 .. MaxSteps

(* The group says its provider, and the kind is that of the provider.      *)
Known(group) == group.server # Nil /\ group.kind = KindOf[group.server]

(* A repository that is added and exported again is not configured twice:  *)
(* no command makes a second group for the server and the owner of a       *)
(* group, however the owner is spelled, here or at a Jenkins server.  It   *)
(* may beside a group that somebody wrote without its provider or kind     *)
(* (getOrCreateGroup compares what the file says), and beside one with a   *)
(* kind that is not its server's: repository export makes such a one of a  *)
(* resource without a kind, whatever its server is (helpers.go:110).       *)
NoSecondGroup(old, new) ==
  \A i \in DOMAIN new \ DOMAIN old : \A j \in 1 .. i - 1 :
    LET met == IF j \in DOMAIN old THEN old[j] ELSE new[j]
    IN Known(met) => met.server # new[i].server \/ Fold(met.owner) # Fold(new[i].owner)

KeepsGroups ==
  /\ NoSecondGroup(config.groups, config'.groups)
  /\ \A j \in Jenkins : NoSecondGroup(OrElse(config.servers[j], <<>>), OrElse(config'.servers[j], <<>>))

NoDuplicates == [][KeepsGroups]_vars

(* What a command does not name keeps what it had.                         *)
Touched(i, n) ==
  \/ op'.kind = "add" /\ op'.name = n /\ op'.server = config.groups[i].server
       /\ Fold(op'.owner) = Fold(config.groups[i].owner)
  \/ op'.kind = "delete" /\ op'.name = n /\ op'.owner \in {Nil, config.groups[i].owner}
  \/ op'.kind = "export" /\ \E sr \in ToSet(op'.list) :
       sr.name = n /\ sr.server \in {Nil, config.groups[i].server} /\ Fold(sr.owner) = Fold(config.groups[i].owner)

(* The scheduler of a repository, its own or inherited, stays the same     *)
(* when other repositories are added, removed or exported and when the     *)
(* file is rewritten without what can be inherited.                        *)
KeepsScheduler ==
  \A i \in DOMAIN config.groups : \A n \in NamesIn(config.groups[i]) :
    ~ Touched(i, n) =>
      /\ i \in DOMAIN config'.groups /\ n \in NamesIn(config'.groups[i])
      /\ Effective(config', config'.groups[i], n).scheduler
           = Effective(config, config.groups[i], n).scheduler

SchedulerKept == [][KeepsScheduler]_vars

(* A URL that is omitted is the one that DefaultValues puts in again,      *)
(* except for .git.                                                        *)
KeepsUrl ==
  \A i \in DOMAIN config.groups : \A n \in NamesIn(config.groups[i]) :
    ~ Touched(i, n) =>
      LET before == Effective(config, config.groups[i], n)
          after  == Effective(config', config'.groups[i], n)
      IN after.clone = before.clone /\ (after.url = "other" <=> before.url = "other")

UrlKept == [][KeepsUrl]_vars

(* After create there is a resource for every repository, with the         *)
(* scheduler that it has, unless the resource of a later one has the same  *)
(* name; a scheduler that is no longer configured stays in the file.       *)
Created ==
  op.kind = "create" =>
    \A i \in DOMAIN config.groups : \A n \in NamesIn(config.groups[i]) :
      LET owner == config.groups[i].owner
          file  == files[ValidName(owner, n)]
          own   == Effective(config, config.groups[i], n)
      IN (\A j \in DOMAIN config.groups : \A m \in NamesIn(config.groups[j]) :
            ValidName(config.groups[j].owner, m) = ValidName(owner, n) => j <= i)
           => /\ file.org = owner /\ file.repo = n /\ file.url = own.url
              /\ own.scheduler # Nil => file.scheduler = own.scheduler
=============================================================================
