------------------------------- MODULE MCBuilds -------------------------------
(* Build numbers, one part of the run each: builds of two branches that    *)
(* overlap, without garbage collection; and the builds of one branch, one  *)
(* after the other, with overlapping garbage collectors.                   *)
EXTENDS MCBuildNumbers, Sequences, TLC

CONSTANTS
  ABuilds, ABranches, AMaxBuild, AMaxReruns,                          \* of the builds that are collected
  PullRequestOrBatch, ReleaseAgeLimit, PullRequestAgeLimit, ReleaseHistoryLimit, PullRequestHistoryLimit,
  Collectors, MaxTime, MaxFaults,
  main, c1, c2                                                        \* names for the .cfg
VARIABLES part, abefore, now, finished, jobs, pipelineRuns, gc, faults

A == INSTANCE PipelineActivities WITH
  Builds <- ABuilds, Branches <- ABranches, BranchOf <- [b \in ABuilds |-> main], ValidName <- [br \in ABranches |-> br],
  MaxBuild <- AMaxBuild, MaxParallel <- 1, MaxReruns <- AMaxReruns,
  before <- abefore

(* One build of a branch at a time; the latest build is always part of the *)
(* history.                                                                *)
ASSUME MCAssumption ==
  /\ IsFiniteSet(ABuilds) /\ IsFiniteSet(ABranches) /\ main \in ABranches
  /\ AMaxBuild \in Nat \ {0} /\ MaxTime \in Nat
  /\ ReleaseAgeLimit \in Nat /\ PullRequestAgeLimit \in Nat
  /\ ReleaseHistoryLimit \in Nat \ {0} /\ PullRequestHistoryLimit \in Nat \ {0}

collection == <<abefore, now, finished, jobs, pipelineRuns, gc, faults>>
mcvars == <<part, store, logs, alloc, issued, before, reruns, abefore, now, finished, jobs, pipelineRuns, gc, faults>>

MCInit ==
  \/ /\ part = "numbers" /\ Init
     /\ abefore = Nil /\ now = Nil /\ finished = Nil /\ jobs = Nil /\ pipelineRuns = Nil /\ gc = Nil /\ faults = Nil
  \/ part = "activities" /\ A!Init /\ before = [b \in Builds |-> {}]

MCNext ==
  /\ UNCHANGED part
  /\ \/ part = "numbers" /\ Next /\ UNCHANGED collection
     \/ part = "activities" /\ A!Next /\ UNCHANGED before

MCSpec == MCInit /\ [][MCNext]_mcvars

Symmetric == Permutations({b1, b2, b3}) \cup Permutations({c1, c2})

(* A build keeps its activity while its pipeline runs (pkg/cmd/variables,  *)
(* pkg/cmd/gc/activities).                                                 *)
RunningBuildFound == part = "activities" => A!RunningBuildFound

(* Collecting the history does not disturb the numbers                     *)
(* (pkg/cmd/variables, pkg/cmd/gc/activities).                             *)
KeepsBuildSequence ==
  (part = "activities" => A!Numbering!Sequence!Init) /\ [][part = "activities" => A!Continues]_issued
===============================================================================
