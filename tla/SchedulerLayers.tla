---------------------------- MODULE SchedulerLayers ----------------------------
(***************************************************************************)
(* The loop of Build (pkg/pipelinescheduler/builder.go:12) over a list of  *)
(* schedulers of any length.                                               *)
(***************************************************************************)
EXTENDS SchedulerBuild

CONSTANT Lists  \* the lists of schedulers that Build is called with

(* What is assumed of the constants.                                       *)
ListsAssumption == \A l \in Lists : l \in Seq(SchedulerSpec) /\ l # <<>>

VARIABLES
  list,    \* the schedulers, the most specific one last
  answer,  \* what is built so far
  i,       \* the schedulers from i + 1 on are in the answer
  failed

vars == <<list, answer, i, failed>>

Init ==
  /\ list \in Lists
  /\ answer = Last(list) /\ i = Len(list) - 1 /\ failed = FALSE

Merge ==
  /\ i > 0 /\ ~ failed
  /\ IF BuildFails(answer, list[i])
     THEN failed' = TRUE /\ UNCHANGED <<answer, i>>
     ELSE answer' = Inherit(answer, list[i]) /\ i' = i - 1 /\ UNCHANGED failed
  /\ UNCHANGED list

Next == Merge

Spec == Init /\ [][Next]_vars

-----------------------------------------------------------------------------
(* The settings that are taken as they are.                                *)
Simple == {"method", "periodics", "attachments", "queries"}

(* The setting of the most specific scheduler that has one, where Has says *)
(* whether a scheduler has it and Get reads it.                            *)
Nearest(Has(_), Get(_)) ==
  \A j \in (i + 1) .. Len(list) :
    (Has(list[j]) /\ \A k \in (j + 1) .. Len(list) : ~ Has(list[k]))
      => Has(answer) /\ Get(answer) = Get(list[j])

(* The most specific scheduler that has a setting decides on it, also for  *)
(* the single settings of a struct that several schedulers have.  Queries  *)
(* and required checks are taken as a whole, so that those of the others   *)
(* are not added.                                                          *)
NearestWins ==
  /\ \A f \in Simple : Nearest(LAMBDA s : s[f] # Nil, LAMBDA s : s[f])
  /\ Nearest(LAMBDA s : s.lgtm # Nil /\ s.lgtm.review # Nil, LAMBDA s : s.lgtm.review)
  /\ Nearest(LAMBDA s : s.approve # Nil /\ s.approve.self # Nil, LAMBDA s : s.approve.self)
  /\ Nearest(LAMBDA s : s.trigger # Nil /\ s.trigger.trustedOrg # Nil, LAMBDA s : s.trigger.trustedOrg)
  /\ Nearest(LAMBDA s : s.merger # Nil /\ s.merger.type # Nil, LAMBDA s : s.merger.type)
  /\ Nearest(LAMBDA s : s.policy # Nil /\ s.policy.tested # Nil, LAMBDA s : s.policy.tested)
  /\ Nearest(LAMBDA s : s.policy # Nil /\ s.policy.base # Nil, LAMBDA s : s.policy.base.checks)
  /\ Nearest(LAMBDA s : s.protection # Nil /\ s.protection.base # Nil, LAMBDA s : s.protection.base.checks)

(* The schedulers merged so far that have a setting.                       *)
With(f) == {j \in (i + 1) .. Len(list) : list[j][f] # Nil}

(* Two settings go the other way.  IgnoreOkToTest is that of the least     *)
(* specific scheduler with a trigger, provided that all of them set it.    *)
(* Of the jobs of a name the least specific scheduler has the right one,   *)
(* unless the most specific one with jobs replaces the others.             *)
FarthestWins ==
  LET JobsOf(f) ==
        LET with == With(f)
            own  == list[Max(with)][f]
            Named(j, name) == {job \in ToSet(list[j][f].items) : job.name = name}
            Right(job) == job \in Named(Min({j \in with : Named(j, job.name) # {}}), job.name)
            names(jobs) == {job.name : job \in jobs}
        IN with # {} =>
             IF own.replace THEN answer[f].items = own.items
             ELSE /\ names(ToSet(answer[f].items)) = UNION {names(ToSet(list[j][f].items)) : j \in with}
                  /\ \A job \in ToSet(answer[f].items) : Right(job)
      OkToTest(j) == list[j].trigger.ignoreOkToTest
  IN /\ JobsOf("presubmits") /\ JobsOf("postsubmits")
     /\ With("trigger") # {} =>
          answer.trigger.ignoreOkToTest =
            IF \E j \in With("trigger") : OkToTest(j) = Nil THEN Nil ELSE OkToTest(Min(With("trigger")))

(* Plugins come from all schedulers, once each and those of the most       *)
(* specific one first, unless that replaces the others.                    *)
PluginsUnited ==
  LET with  == With("plugins")
      items == answer.plugins.items
  IN with # {} =>
       LET own == list[Max(with)].plugins
       IN /\ IsPrefix(own.items, items)
          /\ ToSet(items) = IF own.replace THEN ToSet(own.items)
                            ELSE UNION {ToSet(list[j].plugins.items) : j \in with}
          /\ IsInjective(own.items) => IsInjective(items)

(* External plugins come from all schedulers, too, but the same one as     *)
(* often as schedulers name it.                                            *)
ExternalsAppended ==
  LET with  == {j \in With("external") : list[j].external.items # Nil}
      Items(j) == list[j].external.items
  IN with # {} =>
       LET first == Items(Max(with))
       IN IF list[Max(With("external"))].external.replace THEN answer.external.items = first
          ELSE /\ IsPrefix(first, answer.external.items)
               /\ ToSet(answer.external.items) = UNION {ToSet(Items(j)) : j \in with}
               /\ Len(answer.external.items) = MapThenSumSet(LAMBDA j : Len(Items(j)), with)
=============================================================================
