---------------------------- MODULE SchedulerBuild ----------------------------
(***************************************************************************)
(* Inheritance between pipeline schedulers                                 *)
(* (pkg/pipelinescheduler/builder.go, pkg/apis/scheduler/v1alpha1).        *)
(*                                                                         *)
(* A scheduler is a record; what it does not set is Nil.  Build merges a   *)
(* list of them, the most specific one last.  Fields of a struct that are  *)
(* merged in the same way are represented by one or two of them.           *)
(***************************************************************************)
EXTENDS Naturals, Sequences, SequencesExt

CONSTANTS
  Nil,
  Values,   \* the texts, numbers and switches of the settings
  Branches  \* the names of branches

Opt(S) == S \cup {Nil}

-----------------------------------------------------------------------------
(* The types of the settings.                                              *)

ReplaceableSliceOfStrings == [replace : BOOLEAN, items : Seq(Values)]

Strings == Opt(ReplaceableSliceOfStrings)

Trigger == [ignoreOkToTest : Opt(BOOLEAN), trustedOrg : Opt(Values)]

Lgtm == [review : Opt(BOOLEAN), team : Opt(Values)]

Approve == [issue : Opt(BOOLEAN), self : Opt(BOOLEAN)]

ExternalPlugins == [replace : BOOLEAN, items : Opt(Seq(Values))]

(* Presubmits and Postsubmits.                                             *)
Jobs == [replace : BOOLEAN, items : Seq([name : Values, runs : Values])]

Query == [labels : Strings, milestone : Opt(Values)]

ContextPolicy == [skip : Opt(BOOLEAN), required : Strings]

ReplaceableMapOfStringContextPolicy ==
  [replace : BOOLEAN, items : [Branches -> Opt(ContextPolicy)]]

RepoContextPolicy ==
  [base : Opt(ContextPolicy), branches : Opt(ReplaceableMapOfStringContextPolicy)]

(* sync is the text of the period, which is parsed when it is needed.      *)
Merger == [sync : Opt(Values), url : Opt(Values), type : Opt(Values), context : Opt(ContextPolicy)]

Restrictions == [users : Strings, teams : Strings]

ReviewPolicy == [approvals : Opt(Values), dismissal : Opt(Restrictions)]

StatusChecks == [contexts : Strings, strict : Opt(BOOLEAN)]

ProtectionPolicy ==
  [protect : Opt(BOOLEAN), checks : Opt(StatusChecks),
   restrictions : Opt(Restrictions), reviews : Opt(ReviewPolicy)]

GlobalProtectionPolicy == [base : Opt(ProtectionPolicy), tested : Opt(BOOLEAN)]

ProtectionPolicies ==
  [base : Opt(ProtectionPolicy), replace : BOOLEAN, items : Opt([Branches -> Opt(ProtectionPolicy)])]

SchedulerSpec ==
  [method      : Opt(Values),       \* MergeMethod; SchedulerAgent is alike
   periodics   : Opt(Seq([name : Values, cron : Values])),
   attachments : Opt(Seq(Values)),  \* the URLs of the report template
   trigger     : Opt(Trigger),
   lgtm        : Opt(Lgtm),
   approve     : Opt(Approve),
   plugins     : Strings,
   external    : Opt(ExternalPlugins),
   presubmits  : Opt(Jobs),
   postsubmits : Opt(Jobs),
   queries     : Opt(Seq(Query)),
   merger      : Opt(Merger),
   context     : Opt(RepoContextPolicy),
   policy      : Opt(GlobalProtectionPolicy),
   protection  : Opt(ProtectionPolicies),
   welcome     : Opt(Seq(Values)),
   updater     : Opt(SUBSET Values),
   inRepo      : BOOLEAN]

(* A scheduler that sets nothing.                                          *)
Blank ==
  [f \in {"method", "periodics", "attachments", "trigger", "lgtm", "approve", "plugins",
          "external", "presubmits", "postsubmits", "queries", "merger", "context", "policy",
          "protection", "welcome", "updater"} |-> Nil] @@ [inRepo |-> FALSE]

-----------------------------------------------------------------------------
(* What the merging of pointers, structs and maps has in common.           *)

(* Mutant of OrElse: the parent goes first.                                *)
OrElseParent(child, parent) == IF parent = Nil THEN child ELSE parent

OrElse(child, parent) == IF child = Nil THEN parent ELSE child

Inherited(child, parent) == [f \in DOMAIN child |-> OrElse(child[f], parent[f])]

Combined(child, parent, Apply(_, _)) ==
  IF child = Nil \/ parent = Nil THEN OrElse(child, parent) ELSE Apply(child, parent)

Joined(child, parent, Apply(_, _)) ==
  [b \in Branches |-> Combined(child[b], parent[b], Apply)]

-----------------------------------------------------------------------------

applyToReplaceableSliceOfStrings(child, parent) ==
  LET Add(items, i) == IF Contains(items, i) THEN items ELSE Append(items, i)
  IN IF child.replace THEN child ELSE [child EXCEPT !.items = FoldLeft(Add, @, parent.items)]

applyToContextPolicy(child, parent) ==
  [skip     |-> OrElse(child.skip, parent.skip),
   required |-> Combined(child.required, parent.required, applyToReplaceableSliceOfStrings)]

(* IgnoreOkToTest is that of the parent when the child sets it.            *)
applyToTrigger(child, parent) ==
  [ignoreOkToTest |-> IF child.ignoreOkToTest # Nil THEN parent.ignoreOkToTest ELSE Nil,
   trustedOrg     |-> OrElse(child.trustedOrg, parent.trustedOrg)]

(* The period of the parent has not been parsed: it is not inherited.      *)
applyToMerger(child, parent) ==
  [sync    |-> child.sync,
   url     |-> OrElse(child.url, parent.url),
   type    |-> OrElse(child.type, parent.type),
   context |-> Combined(child.context, parent.context, applyToContextPolicy)]

applyToRepoContextPolicy(child, parent) ==
  LET PerBranch(c, p) ==
        IF c.replace THEN c
        ELSE [c EXCEPT !.items = Joined(@, p.items, applyToContextPolicy)]
  IN [base     |-> Combined(child.base, parent.base, applyToContextPolicy),
      branches |-> Combined(child.branches, parent.branches, PerBranch)]

applyToLgtm(child, parent) == Inherited(child, parent)

applyToApprove(child, parent) == Inherited(child, parent)

(* Appended without a look at what is there.                               *)
applyToExternalPlugins(child, parent) ==
  [child EXCEPT !.items =
     IF @ = Nil THEN parent.items
     ELSE IF child.replace \/ parent.items = Nil THEN @ ELSE @ \o parent.items]

applyToRestrictions(child, parent) ==
  [users |-> Combined(child.users, parent.users, applyToReplaceableSliceOfStrings),
   teams |-> Combined(child.teams, parent.teams, applyToReplaceableSliceOfStrings)]

applyToRequiredPullRequestReviews(child, parent) ==
  [approvals |-> OrElse(child.approvals, parent.approvals),
   dismissal |-> Combined(child.dismissal, parent.dismissal, applyToRestrictions)]

(* RequiredStatusChecks are not inherited.                                 *)
applyToProtectionPolicy(child, parent) ==
  [protect      |-> OrElse(child.protect, parent.protect),
   checks       |-> child.checks,
   restrictions |-> Combined(child.restrictions, parent.restrictions, applyToRestrictions),
   reviews      |-> Combined(child.reviews, parent.reviews, applyToRequiredPullRequestReviews)]

applyToGlobalProtectionPolicy(child, parent) ==
  [base   |-> Combined(child.base, parent.base, applyToProtectionPolicy),
   tested |-> OrElse(child.tested, parent.tested)]

(* A branch of the child is not merged with that of the parent.            *)
applyToProtectionPolicies(child, parent) ==
  LET Keep(c, p) == c
  IN [base    |-> Combined(child.base, parent.base, applyToProtectionPolicy),
      replace |-> child.replace,
      items   |-> IF child.items = Nil THEN parent.items
                  ELSE IF child.replace \/ parent.items = Nil THEN child.items
                  ELSE Joined(child.items, parent.items, Keep)]

(* Jobs of the same name: the one of the parent takes the place of the one *)
(* of the child.                                                           *)
Namesakes(items, job) == {i \in DOMAIN items : items[i].name = job.name}

applyToPreSubmits(child, parent) ==
  LET Apply(items, job) ==
        IF Namesakes(items, job) = {} THEN Append(items, job)
        ELSE [i \in DOMAIN items |-> IF i \in Namesakes(items, job) THEN job ELSE items[i]]
  IN IF child.replace THEN child
     ELSE [child EXCEPT !.items = FoldLeft(Apply, @, parent.items)]

(* Postsubmits have a name here: one without is always appended.           *)
applyToPostSubmits(child, parent) == applyToPreSubmits(child, parent)

(* The lists that make applyToPreSubmits and applyToPostSubmits fail.      *)
Ambiguous(child, parent) ==
  /\ child # Nil /\ parent # Nil
  /\ ~ child.replace
  /\ \E job \in ToSet(parent.items) : \E i, j \in Namesakes(child.items, job) : i # j

(* applyToQueries has no effect.                                           *)
applyToQueries(child, parent) == child

-----------------------------------------------------------------------------
(* One round of the loop of Build.  Welcome, ConfigUpdater and InRepo are  *)
(* those of the most specific scheduler, whatever the others say.          *)
Inherit(child, parent) ==
  [child EXCEPT
     !.method      = OrElse(@, parent.method),
     !.periodics   = OrElse(@, parent.periodics),
     !.attachments = OrElse(@, parent.attachments),
     !.trigger     = Combined(@, parent.trigger, applyToTrigger),
     !.lgtm        = Combined(@, parent.lgtm, applyToLgtm),
     !.approve     = Combined(@, parent.approve, applyToApprove),
     !.plugins     = Combined(@, parent.plugins, applyToReplaceableSliceOfStrings),
     !.external    = Combined(@, parent.external, applyToExternalPlugins),
     !.presubmits  = Combined(@, parent.presubmits, applyToPreSubmits),
     !.postsubmits = Combined(@, parent.postsubmits, applyToPostSubmits),
     !.queries     = Combined(@, parent.queries, applyToQueries),
     !.merger      = Combined(@, parent.merger, applyToMerger),
     !.context     = Combined(@, parent.context, applyToRepoContextPolicy),
     !.policy      = Combined(@, parent.policy, applyToGlobalProtectionPolicy),
     !.protection  = Combined(@, parent.protection, applyToProtectionPolicies)]

BuildFails(child, parent) ==
  \/ Ambiguous(child.presubmits, parent.presubmits)
  \/ Ambiguous(child.postsubmits, parent.postsubmits)

Build(schedulers) == FoldLeft(Inherit, Last(schedulers), Tail(Reverse(schedulers)))
=============================================================================
