------------------------------ MODULE MCWebhooks ------------------------------
(* The webhooks of SourceRepositories, one part of the run each: webhook   *)
(* update, run again and again, for repositories on github, on a server    *)
(* that cannot be reached and on bitbucketcloud; two executions of it that *)
(* overlap; and webhook delete.                                            *)
EXTENDS WebhookUpdate

CONSTANTS
  OSelected, OTargets, OUpdaters, OPageSize, OWarnOnFail, OFaultKinds,   \* of the executions that overlap
  github, broken, bitbucket, u1, u2, previous, foreign, other        \* names for the .cfg
VARIABLES part, ohooks, osr, orun, ocurrent, ofaults, omissed, registered, deleter, failing

MCRepoOrder == <<github, broken, bitbucket>>

O == INSTANCE WebhookUpdate WITH
  Selected <- OSelected, Targets <- OTargets, Updaters <- OUpdaters, PageSize <- OPageSize, WarnOnFail <- OWarnOnFail,
  FaultKinds <- OFaultKinds,
  hooks <- ohooks, sr <- osr, run <- orun, current <- ocurrent, faults <- ofaults, missed <- omissed

D == INSTANCE WebhookDelete WITH
  Filtered <- {github, broken}, Unreachable <- {broken}, RepoOrder <- <<broken, github, bitbucket>>,
  Matched <- Matching, PageSize <- 2, Deleters <- {u1, u2}, Warn <- TRUE, DryRun <- FALSE, MaxFailing <- 2

ASSUME MCAssumption ==
  /\ OSelected \subseteq Repos
  /\ Endpoint \in OTargets /\ Matching \subseteq OTargets /\ OTargets \cap HookIds = {}
  /\ OPageSize \in Nat
  /\ OWarnOnFail \in BOOLEAN
  /\ OFaultKinds \subseteq {"list", "git", "api", "kill"}

overlapping == <<ohooks, osr, orun, ocurrent, ofaults, omissed>>
deletion == <<registered, deleter, failing>>
mcvars == <<part, hooks, sr, run, current, faults, missed, ohooks, osr, orun, ocurrent, ofaults, omissed, registered, deleter, failing>>

(* A page of hooks for others, or none; those that match come on top.      *)
Others == {h.target : h \in ohooks[github]} \ Matching
FullPage == Others = {} \/ {h.target : h \in ohooks[github]} = {foreign, other}

NoUpdate == Init /\ hooks = [r \in Repos |-> {}]
NoOverlap == O!Init /\ ohooks = [r \in Repos |-> {}]
NoDelete == registered = [r \in Repos |-> <<>>] /\ deleter = [d \in {u1, u2} |-> D!Idle] /\ failing = 0

MCInit ==
  \/ part = "update" /\ Init /\ hooks[broken] = {} /\ NoOverlap /\ NoDelete
  \/ part = "overlap" /\ O!Init /\ ohooks[broken] = {} /\ ohooks[bitbucket] = {} /\ FullPage /\ NoUpdate /\ NoDelete
  \/ part = "delete" /\ D!Init /\ registered[bitbucket] = <<foreign>> /\ registered[broken] = <<previous>> /\ NoUpdate /\ NoOverlap

MCNext ==
  /\ UNCHANGED part
  /\ \/ part = "update" /\ Next /\ UNCHANGED overlapping /\ UNCHANGED deletion
     \/ part = "overlap" /\ O!Next /\ UNCHANGED vars /\ UNCHANGED deletion
     \/ part = "delete" /\ D!Next /\ UNCHANGED vars /\ UNCHANGED overlapping

MCSpec ==
  /\ MCInit /\ [][MCNext]_mcvars
  /\ \A u \in Updaters :
       WF_mcvars(part = "update" /\ Update(u)
                 /\ UNCHANGED <<part, ohooks, osr, orun, ocurrent, ofaults, omissed, registered, deleter, failing>>)
  /\ \A d \in {u1, u2} :
       WF_mcvars(part = "delete" /\ D!Delete(d)
                 /\ UNCHANGED <<part, hooks, sr, run, current, faults, missed, ohooks, osr, orun, ocurrent, ofaults, omissed>>)

(* Executions that overlap leave at most one webhook each, unless they     *)
(* miss some that are there (pkg/cmd/webhook/update).                      *)
NoSurplus == part = "overlap" => O!NoSurplusHooks

(* Every repository that can be reached gets its webhook back              *)
(* (pkg/cmd/webhook/update).                                               *)
ComeBack == part = "update" => HooksComeBack

(* Matching webhooks are deleted in the end, and no others                 *)
(* (pkg/cmd/webhook/delete).                                               *)
MatchingGo == part = "delete" => D!MatchingGo
===============================================================================
