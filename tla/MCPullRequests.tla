---------------------------- MODULE MCPullRequests ----------------------------
(* What the pipeline of a pull request does, one part of the run each: git *)
(* merge, the commands on the pull request, and the variables.             *)
EXTENDS GitMerge

CONSTANTS
  Bot, PageSize, People, Sanitized(_), MatchesLabel(_), Pipelines, MaxEvents, MaxFailures,  \* of PullRequests
  Lower(_), ValidName(_), Dashed(_), PrBranches, Worlds, Local, Extra, MaxSteps           \* of Variables

VARIABLES part, commands, comments, history, labels, branches, env, proc, events, failures, ids, world, file, steps

C == INSTANCE PullRequests WITH Nil <- None
V == INSTANCE Variables WITH Nil <- None

(* Pipelines do not comment assignments, and no VERSION is that of a       *)
(* snapshot of a pull request here.                                        *)
ASSUME MCAssumption ==
  /\ PageSize \in Nat \ {0} /\ Bot # "someone"
  /\ None \notin {"release", "pullrequest", "Dockerfile"}
  /\ \A t \in People : t = <<t[1], t[2]>>
  /\ \A commanded \in Pipelines :
       /\ None \notin DOMAIN commanded
       /\ \A c \in DOMAIN commanded : commanded[c].kind = "comment" =>
            /\ commanded[c].strategy \in {"create", "create-if-not-exists", "delete-and-create"}
            /\ commanded[c].body[1] \notin {t[1] : t \in People} \ {None}
  /\ \A v, w \in Worlds, x \in PrBranches \cup {u.pull : u \in Worlds} :
       <<"snapshot", x, v.build>> \notin {w.versionFile, w.versionEnv}

-----------------------------------------------------------------------------
(* Values for TLC.                                                         *)

Post(strategy) == [kind |-> "comment", strategy |-> strategy, body |-> <<None, "report">>]
Add(matching) == [kind |-> "label", label |-> "deployed", matching |-> matching]
PushWith(force, ignoreMissing) == [kind |-> "push", force |-> force, ignoreMissing |-> ignoreMissing]
Vars == [kind |-> "variables"]
MCPipelines ==
  {<<Post("create-if-not-exists"), Post("delete-and-create")>>, <<Post("create"), Post("delete-and-create")>>,
   <<Add(TRUE), Add(FALSE)>>, <<PushWith(TRUE, FALSE), PushWith(FALSE, TRUE)>>,
   <<Vars, Post("delete-and-create")>>}
MCPeople == {<<"CHEESE", "edam">>, <<"CHEESE", "brie">>, <<None, "report">>}
MCSanitized(l) == IF l = "ready" THEN "READY" ELSE None
MCMatchesLabel(l) == l = "ready"

Unset == [gitURL |-> None, registry |-> None, org |-> None, charts |-> None, kind |-> None, project |-> None,
          provider |-> None, domain |-> None, subDomain |-> None, envs |-> None, ignoreDev |-> None]
Cluster == [Unset EXCEPT !.registry = "Registry", !.provider = "gke", !.project = "project", !.domain = "domain",
                         !.envs = [x \in {"staging", "production"} |-> "shared"]]
Base0 == [local |-> None, group |-> None, none |-> Unset, cluster |-> Cluster, dev |-> "dev",
          config |-> [registry |-> None, org |-> None, push |-> None, minkAs |-> None, EXTRA |-> "extra"],
          owner |-> "Acme", repo |-> "Group/App", branch |-> "main", build |-> "1", pull |-> None, jobType |-> None,
          versionFile |-> <<"1">>, versionEnv |-> None, preview |-> FALSE, dashboard |-> <<"dash">>, chartsEnv |-> None]
LocalSettings == {[Unset EXCEPT !.registry = "local"], [Unset EXCEPT !.gitURL = "url", !.envs = [x \in {"staging"} |-> "local"]],
           [Unset EXCEPT !.org = "localorg", !.ignoreDev = TRUE, !.kind = "oci"]}
Groups == {[Unset EXCEPT !.registry = "group", !.org = "grouporg"], [Unset EXCEPT !.kind = "pages", !.envs = [x \in {"qa"} |-> "group"]]}
MCWorlds ==
  {[Base0 EXCEPT !.local = l, !.group = g] : l \in LocalSettings \cup {None}, g \in Groups \cup {None}}
  \cup {[Base0 EXCEPT !.branch = b, !.pull = p, !.jobType = j, !.versionFile = v, !.preview = TRUE]
         : b \in {"main", "PR-1"}, p \in {None, "1"}, j \in {None, "presubmit"}, v \in {None, <<"1">>}}
  \cup {[Base0 EXCEPT !.dev = None, !.local = l, !.cluster = None] : l \in LocalSettings \cup {None}}
  \cup {[Base0 EXCEPT !.config = [registry |-> "cm", org |-> o, push |-> p, minkAs |-> "me", EXTRA |-> None], !.cluster = c]
         : o \in {None, "cmorg"}, p \in {None, "push"}, c \in {None, Cluster}}

MCLocal == {[VERSION |-> <<"9">>, DOCKER_REGISTRY |-> "mine"], [EXTRA |-> "own"]}
MCLower(r) == CASE r = "Registry" -> "registry" [] r = "Group/App" -> "group/app" [] OTHER -> r
MCValidName(o) == IF o = "Acme" THEN "acme" ELSE o
MCDashed(r) == CASE r = "Group/App" -> "Group-App" [] r = "group/app" -> "group-app" [] OTHER -> r

-----------------------------------------------------------------------------

merging == <<length, fork, refs, ws>>
commanding == <<commands, comments, history, labels, branches, env, proc, events, failures, ids>>
finding == <<world, file, steps>>
mcvars == <<part, length, fork, refs, ws, commands, comments, history, labels, branches, env, proc, events, failures, ids, world, file, steps>>

CommandsIdle ==
  /\ commands = None /\ comments = None /\ history = None /\ labels = None /\ branches = None /\ env = None /\ proc = None
  /\ events = None /\ failures = None /\ ids = None
FindingIdle == world = None /\ file = None /\ steps = None
MCInit ==
  \/ part = "merge" /\ Init /\ CommandsIdle /\ FindingIdle
  \/ part = "commands" /\ C!Init /\ Init /\ FindingIdle
  \/ part = "variables" /\ V!Init /\ Init /\ CommandsIdle

MCNext ==
  /\ UNCHANGED part
  /\ \/ part = "merge" /\ Next /\ UNCHANGED commanding /\ UNCHANGED finding
     \/ part = "commands" /\ C!Next /\ UNCHANGED merging /\ UNCHANGED finding
     \/ part = "variables" /\ V!Next /\ UNCHANGED merging /\ UNCHANGED commanding

MCSpec == MCInit /\ [][MCNext]_mcvars

(* A pipeline comments once, and its comment is there                      *)
(* (pkg/cmd/pr/comment).                                                   *)
Commented == part = "commands" => C!Commented

(* No push drops a commit that its workspace has not seen                  *)
(* (pkg/cmd/pr/push).                                                      *)
PushKeepsUnseen == [][part = "commands" => C!KeepsUnseen]_mcvars

(* The variables of a pull request take account of all of its comments     *)
(* (pkg/cmd/pr/variables).                                                 *)
CommentsRead == [][part = "commands" => C!ReadsComments]_mcvars

(* A variable of a pipeline keeps its value when the command runs again    *)
(* (pkg/cmd/variables).                                                    *)
ValuesStay == [][part = "variables" => V!KeepsValues]_mcvars

(* The variables of a step agree with each other, after reruns as well     *)
(* (pkg/cmd/variables, pkg/variablefinders).                               *)
Coherent == part = "variables" => V!Coherent
===============================================================================
