---------------------------- MODULE WebhookDelete ----------------------------
(***************************************************************************)
(* `jx gitops webhook delete` (pkg/cmd/webhook/delete/delete.go): deletes  *)
(* the webhooks of the SourceRepositories, those whose target contains     *)
(* --filter or, with --all-webhooks, all of them.                          *)
(*                                                                         *)
(* Only the first page of the hooks of a repository is listed.  Every call *)
(* to the git server can fail, before or after it took effect, and the     *)
(* command can be killed; it is run again, and executions can overlap.     *)
(***************************************************************************)
EXTENDS Naturals, Sequences, FiniteSets, SequencesExt

CONSTANTS
  Repos, RepoOrder, \* the SourceRepositories, and as the API lists them
  Filtered,         \* those that pass --owner and --repo
  Unreachable,      \* those for whose server no client can be created
  Targets,          \* the URLs that hooks point to
  Matched,          \* those that match, all of them with --all-webhooks
  PageSize,
  Deleters,
  Warn, DryRun,     \* --warn-on-fail and --dry-run
  MaxFailing        \* bound on the calls that fail and the executions killed

VARIABLES
  registered, \* the targets of the hooks of a repository, in their order
  deleter,    \* what an execution has left: repositories, and hooks it listed
  failing

vars == <<registered, deleter, failing>>

Idle == [pc |-> "idle", todo |-> <<>>, hooks |-> <<>>]

Init ==
  /\ \E some \in [Repos -> SUBSET Targets], order \in SetToSeqs(Targets) :
       registered = [r \in Repos |-> SelectSeq(order, LAMBDA t : t \in some[r])]
  /\ deleter = [d \in Deleters |-> Idle]
  /\ failing = 0

At(d, pc) == deleter[d].pc = pc
Repository(d) == Head(deleter[d].todo)
Failing == failing < MaxFailing /\ failing' = failing + 1

(* The loop of Run goes on to the next repository, or ends.                *)
Continue(d) ==
  IF Len(deleter[d].todo) = 1 THEN Idle ELSE [Idle EXCEPT !.pc = "next", !.todo = Tail(deleter[d].todo)]

(* Mutant of Stop: the flag is not looked at.                              *)
StopAlways(d) == Idle

(* DeleteWebhookFromSourceRepository: an error ends the command, or it is  *)
(* only logged.                                                            *)
Stop(d) == IF Warn THEN Continue(d) ELSE Idle

(* Run lists the SourceRepositories.                                       *)
Start(d) ==
  /\ At(d, "idle") /\ RepoOrder # <<>>
  /\ deleter' = [deleter EXCEPT ![d] = [Idle EXCEPT !.pc = "next", !.todo = RepoOrder]]
  /\ UNCHANGED <<registered, failing>>

Page(r) == SubSeq(registered[r], 1, IF PageSize < Len(registered[r]) THEN PageSize ELSE Len(registered[r]))

matchesFilter(t) == t \in Matched

(* One repository, up to its hooks; that they cannot be listed is logged,  *)
(* and there is nothing to delete.                                         *)
List(d) ==
  /\ At(d, "next")
  /\ LET r == Repository(d)
         delete == [deleter[d] EXCEPT !.pc = "delete", !.hooks = SelectSeq(Page(r), matchesFilter)]
     IN \/ /\ deleter' = [deleter EXCEPT ![d] =
                IF r \notin Filtered THEN Continue(d) ELSE IF r \in Unreachable THEN Stop(d) ELSE delete]
           /\ UNCHANGED failing
        \/ /\ r \in Filtered \ Unreachable /\ Failing
           /\ deleter' = [deleter EXCEPT ![d] = [delete EXCEPT !.hooks = <<>>]]
  /\ UNCHANGED registered

(* removeRepositoryWebhook: the next hook.  One that is gone is an error.  *)
DeleteHook(d) ==
  /\ At(d, "delete") /\ deleter[d].hooks # <<>>
  /\ LET r == Repository(d)
         hook == Head(deleter[d].hooks)
         gone == [registered EXCEPT ![r] = SelectSeq(@, LAMBDA t : t # hook)]
         next == [deleter EXCEPT ![d].hooks = Tail(@)]
     IN \/ /\ DryRun \/ hook \in Range(registered[r])
           /\ registered' = (IF DryRun THEN registered ELSE gone) /\ deleter' = next /\ UNCHANGED failing
        \/ /\ ~ DryRun /\ hook \notin Range(registered[r])
           /\ deleter' = [deleter EXCEPT ![d] = Stop(d)] /\ UNCHANGED <<registered, failing>>
        \/ /\ ~ DryRun /\ Failing
           /\ registered' \in {registered, gone} /\ deleter' = [deleter EXCEPT ![d] = Stop(d)]

Proceed(d) ==
  /\ At(d, "delete") /\ deleter[d].hooks = <<>>
  /\ deleter' = [deleter EXCEPT ![d] = Continue(d)]
  /\ UNCHANGED <<registered, failing>>

Kill(d) ==
  /\ ~ At(d, "idle") /\ Failing
  /\ deleter' = [deleter EXCEPT ![d] = Idle]
  /\ UNCHANGED registered

Delete(d) == Start(d) \/ List(d) \/ DeleteHook(d) \/ Proceed(d)

Next == \E d \in Deleters : Delete(d) \/ Kill(d)

Spec == Init /\ [][Next]_vars /\ \A d \in Deleters : WF_vars(Delete(d))

-----------------------------------------------------------------------------
(* Properties.                                                             *)

MatchingHooks(r) == Range(registered[r]) \cap Matched
Others(r) == Range(registered[r]) \ Matched
Reached == IF DryRun THEN {} ELSE Filtered \ Unreachable

(* Whatever fails, and however executions get in each other's way, running *)
(* the command again deletes every webhook that matches, unless the other  *)
(* webhooks of the repository fill the page that is listed; it never       *)
(* deletes one of those or one of a repository that is not selected.       *)
MatchingGo ==
  \A r \in Repos :
    /\ r \in Reached => <>(MatchingHooks(r) = {} \/ Cardinality(Others(r)) >= PageSize)
    /\ \A t \in Targets : t \in Range(registered[r]) /\ (t \notin Matched \/ r \notin Reached)
                            => [](t \in Range(registered[r]))
=============================================================================
