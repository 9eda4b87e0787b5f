---------------------------- MODULE WebhookUpdate ----------------------------
(***************************************************************************)
(* `jx gitops webhook update` (pkg/cmd/webhook/update/update.go): replaces *)
(* the webhook of every SourceRepository on its git server, and records on *)
(* the SourceRepository how far that went, in the annotation               *)
(* webhook.jenkins-x.io: "creating", "failed" or "true".                   *)
(*                                                                         *)
(* An updater is one execution of the command at a time; several may run   *)
(* concurrently.  Each works on the SourceRepositories it listed when it   *)
(* started: the update of one that somebody else has updated since is      *)
(* refused (optimistic locking), which the command only logs.  Every call  *)
(* to the git server or the Kubernetes API can fail, before or after it    *)
(* took effect, and the command can be killed between two of them.         *)
(***************************************************************************)
EXTENDS Integers, FiniteSets, Sequences

CONSTANTS
  Repos,             \* the SourceRepository resources
  RepoOrder,         \* the sequence in which the API lists them
  Selected,          \* those that pass --owner and --repo
  Broken,            \* those for whose server no client can be created
  BitbucketCloud,    \* those on a bitbucketcloud server
  Targets,           \* the URLs that hooks point to
  Endpoint,          \* the URL of the hook service
  Matching,          \* the URLs that matchesWebhookURL takes for its own
  HookIds,           \* identifiers the git servers give out
  PageSize,          \* how many hooks a server lists at once
  Updaters,
  WarnOnFail,        \* --warn-on-fail
  FaultKinds,        \* subset of {"list", "git", "api", "kill"}
  MaxFaults          \* bound on the number of faults

ASSUME WebhookUpdateAssumption ==
  /\ RepoOrder \in Seq(Repos)
  /\ Selected \subseteq Repos /\ Broken \subseteq Repos /\ BitbucketCloud \subseteq Repos
  /\ Endpoint \in Targets /\ Matching \subseteq Targets
  /\ Targets \cap HookIds = {}
  /\ PageSize \in Nat
  /\ WarnOnFail \in BOOLEAN
  /\ FaultKinds \subseteq {"list", "git", "api", "kill"}
  /\ MaxFaults \in Nat

VARIABLES
  hooks,       \* the hooks of every repository on its git server
  sr,          \* the annotations of every SourceRepository
  run,         \* the local state of every updater
  current,     \* the SourceRepositories of which an updater has the current version
  faults,
  missed       \* history: the repositories of whose matching hooks a list missed some

vars == <<hooks, sr, run, current, faults, missed>>

-----------------------------------------------------------------------------

Hook == [id : Targets \cup HookIds, target : Targets, signed : BOOLEAN]

(* The hooks made before; the target identifies them.                      *)
OldHook(r, t) == [id |-> t, target |-> t, signed |-> r \notin BitbucketCloud]

(* todo: the repositories left, the first one being worked on; skip: those *)
(* that --fast passes over; listed: the hooks still to delete; hmac:       *)
(* whether o.HMAC is set.                                                  *)
Idle == [pc |-> "idle", todo |-> <<>>, skip |-> {}, listed |-> {}, hmac |-> FALSE]

Repo(u) == Head(run[u].todo)

(* The loop of Run goes on to the next repository, or ends.                *)
Proceed(u) == IF Len(run[u].todo) = 1 THEN Idle
              ELSE [run[u] EXCEPT !.pc = "next", !.todo = Tail(@), !.listed = {}]

(* Mutant of GiveUp: --warn-on-fail is not looked at.                      *)
GiveUpAlways(u) == Idle

(* An error ends the command, or is only logged.                           *)
GiveUp(u) == IF WarnOnFail THEN Proceed(u) ELSE Idle

Fails(kind) ==
  /\ kind \in FaultKinds
  /\ faults < MaxFaults
  /\ faults' = faults + 1

Init ==
  /\ \E old \in [Repos -> SUBSET Targets] :
       hooks = [r \in Repos |-> {OldHook(r, t) : t \in old[r]}]
  /\ sr = [r \in Repos |-> [status |-> "none", error |-> FALSE]]
  /\ run = [u \in Updaters |-> Idle]
  /\ current = [u \in Updaters |-> {}]
  /\ faults = 0
  /\ missed = {}

(* Run, with or without --fast, lists the SourceRepositories.              *)
Start(u) ==
  /\ run[u].pc = "idle"
  /\ RepoOrder # <<>>
  /\ \E skip \in {{}, {r \in Repos : sr[r].status = "true"}} :
       run' = [run EXCEPT ![u] = [Idle EXCEPT !.pc = "next", !.todo = RepoOrder, !.skip = skip]]
  /\ current' = [current EXCEPT ![u] = Repos]
  /\ UNCHANGED <<hooks, sr, faults, missed>>

(* The loop up to the first call that has an effect.  Once a repository    *)
(* needs the HMAC token, o.HMAC keeps it.                                  *)
Begin(u) ==
  LET r == Repo(u)
      hmac == run[u].hmac \/ r \notin BitbucketCloud
  IN  /\ run[u].pc = "next"
      /\ run' = [run EXCEPT ![u] =
           IF r \in run[u].skip THEN Proceed(u)
           ELSE IF r \notin Selected THEN [Proceed(u) EXCEPT !.hmac = hmac]
           ELSE IF r \in Broken THEN [GiveUp(u) EXCEPT !.hmac = hmac]
           ELSE [run[u] EXCEPT !.pc = "creating", !.hmac = hmac]]
      /\ UNCHANGED <<hooks, sr, current, faults, missed>>

(* annotate: the update of the SourceRepository, given what it sets.  When *)
(* it fails, what the updater holds is an empty object: no later update of *)
(* this repository can succeed either.                                     *)
Annotate(u, annotations) ==
  LET r == Repo(u)
      applied == /\ r \in current[u]
                 /\ sr' = [sr EXCEPT ![r] = annotations]
      others == {v \in Updaters : v # u}
  IN  \/ /\ applied
         /\ current' = [v \in Updaters |-> IF v = u THEN current[v] ELSE current[v] \ {r}]
         /\ UNCHANGED faults
      \/ /\ r \notin current[u]
         /\ UNCHANGED <<sr, current, faults>>
      \/ /\ Fails("api")
         /\ \/ /\ applied
               /\ current' = [v \in Updaters |-> current[v] \ {r}]
            \/ /\ current' = [current EXCEPT ![u] = @ \ {r}]
               /\ UNCHANGED sr

(* Mutant of MarkCreating: the annotation is left as it is.                *)
MarkCreatingNot(u) ==
  /\ run[u].pc = "creating"
  /\ run' = [run EXCEPT ![u].pc = "list"]
  /\ UNCHANGED <<hooks, sr, current, faults, missed>>

MarkCreating(u) ==
  /\ run[u].pc = "creating"
  /\ Annotate(u, [sr[Repo(u)] EXCEPT !.status = "creating"])
  /\ run' = [run EXCEPT ![u].pc = "list"]
  /\ UNCHANGED <<hooks, missed>>

(* What the server lists of some hooks: all of them, or a page.            *)
Pages(S) == IF Cardinality(S) <= PageSize THEN {S} ELSE {page \in SUBSET S : Cardinality(page) = PageSize}

(* Mutant of ListHooks: hooks with the endpoint itself are kept.           *)
ListOtherHooks(u) ==
  /\ run[u].pc = "list"
  /\ run' = [run EXCEPT ![u].pc = "delete",
       ![u].listed = {h \in hooks[Repo(u)] : h.target \in Matching \ {Endpoint}}]
  /\ UNCHANGED <<hooks, sr, current, faults, missed>>

(* ListHooks, and which of them match.  Only the first page is asked for.  *)
(* An error is only logged: then there are no hooks to delete.             *)
ListHooks(u) ==
  /\ run[u].pc = "list"
  /\ \E listed \in SUBSET {h \in hooks[Repo(u)] : h.target \in Matching} :
       /\ \/ /\ \E page \in Pages(hooks[Repo(u)]) : listed = {h \in page : h.target \in Matching}
             /\ UNCHANGED faults
          \/ Fails("list") /\ listed = {}
       /\ run' = [run EXCEPT ![u].pc = "delete", ![u].listed = listed]
       /\ missed' = IF \A h \in hooks[Repo(u)] \ listed : h.target \notin Matching
                    THEN missed ELSE missed \cup {Repo(u)}
  /\ UNCHANGED <<hooks, sr, current>>

(* DeleteHook.  A hook that is no longer there is an error.                *)
DeleteHook(u) ==
  /\ run[u].pc = "delete"
  /\ \E h \in run[u].listed :
       \/ /\ h \in hooks[Repo(u)]
          /\ hooks' = [hooks EXCEPT ![Repo(u)] = @ \ {h}]
          /\ run' = [run EXCEPT ![u].listed = @ \ {h}]
          /\ UNCHANGED faults
       \/ /\ h \notin hooks[Repo(u)]
          /\ run' = [run EXCEPT ![u].pc = "failed"]
          /\ UNCHANGED <<hooks, faults>>
       \/ /\ Fails("git")
          /\ run' = [run EXCEPT ![u].pc = "failed"]
          /\ hooks' \in {hooks, [hooks EXCEPT ![Repo(u)] = @ \ {h}]}
  /\ UNCHANGED <<sr, current, missed>>

(* Identifiers that neither a server nor an updater knows.                 *)
FreshIds ==
  HookIds \ {h.id : h \in UNION ({hooks[r] : r \in Repos} \cup {run[v].listed : v \in Updaters})}

(* CreateHook, once the listed hooks are deleted.                          *)
CreateHook(u) ==
  /\ run[u].pc = "delete" /\ run[u].listed = {}
  /\ FreshIds # {}
  /\ LET hook == [id |-> CHOOSE i \in FreshIds : TRUE, target |-> Endpoint, signed |-> run[u].hmac]
         created == [hooks EXCEPT ![Repo(u)] = @ \cup {hook}]
     IN  \/ /\ hooks' = created
            /\ run' = [run EXCEPT ![u].pc = "created"]
            /\ UNCHANGED faults
         \/ /\ Fails("git")
            /\ hooks' \in {hooks, created}
            /\ run' = [run EXCEPT ![u].pc = "failed"]
  /\ UNCHANGED <<sr, current, missed>>

MarkFailed(u) ==
  /\ run[u].pc = "failed"
  /\ Annotate(u, [status |-> "failed", error |-> TRUE])
  /\ run' = [run EXCEPT ![u] = GiveUp(u)]
  /\ UNCHANGED <<hooks, missed>>

MarkTrue(u) ==
  /\ run[u].pc = "created"
  /\ Annotate(u, [sr[Repo(u)] EXCEPT !.status = "true"])
  /\ run' = [run EXCEPT ![u] = Proceed(u)]
  /\ UNCHANGED <<hooks, missed>>

(* The command is killed, or fails to read the HMAC token.                 *)
Kill(u) ==
  /\ run[u].pc # "idle"
  /\ Fails("kill")
  /\ run' = [run EXCEPT ![u] = Idle]
  /\ UNCHANGED <<hooks, sr, current, missed>>

Update(u) ==
  \/ Start(u)
  \/ Begin(u)
  \/ MarkCreating(u)
  \/ ListHooks(u)
  \/ DeleteHook(u)
  \/ CreateHook(u)
  \/ MarkFailed(u)
  \/ MarkTrue(u)

Next == \E u \in Updaters : Update(u) \/ Kill(u)

Spec == Init /\ [][Next]_vars

(* The command is run again and again, and makes progress when it runs.    *)
FairSpec == Spec /\ \A u \in Updaters : WF_vars(Update(u))

-----------------------------------------------------------------------------
(* Properties.                                                             *)

(* The state is well formed: the hooks and annotations, and the Options    *)
(* and local variables of every execution.                                 *)
TypeOK ==
  /\ hooks \in [Repos -> SUBSET Hook]
  /\ sr \in [Repos -> [status : {"none", "creating", "failed", "true"}, error : BOOLEAN]]
  /\ run \in [Updaters -> [pc : {"idle", "next", "creating", "list", "delete", "failed", "created"},
                           todo : Seq(Repos), skip : SUBSET Repos,
                           listed : SUBSET Hook, hmac : BOOLEAN]]
  /\ current \in [Updaters -> SUBSET Repos]
  /\ faults \in 0 .. MaxFaults
  /\ missed \subseteq Repos

Live(r) == {h \in hooks[r] : h.target = Endpoint}

(* "annotation to indicate if the webhook has been created or failed": a   *)
(* repository marked "true", which --fast passes over, has its webhook,    *)
(* although the command removes the old one before it creates the new one  *)
(* and can be killed at any point between.                                 *)
MarkedTrueHasHook == \A r \in Repos : sr[r].status = "true" => Live(r) # {}

(* A repository gets no more webhooks for the endpoint than there are      *)
(* updaters at work on it, whatever they left behind when they failed,     *)
(* unless one of them could not list the hooks or missed some since they   *)
(* did not fit on the page: those stay, and every execution adds another.  *)
NoSurplusHooks == \A r \in Repos \ missed : Cardinality(Live(r)) <= Cardinality(Updaters)

(* Whatever an execution that failed or was killed left behind is made up  *)
(* for by later ones, with --fast or without: every repository that can be *)
(* reached has its webhook again.                                          *)
HooksComeBack == \A r \in Selected \ Broken : []<>(Live(r) # {})

=============================================================================
