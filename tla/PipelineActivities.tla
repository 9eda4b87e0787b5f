------------------------- MODULE PipelineActivities -------------------------
(***************************************************************************)
(* The PipelineActivity resources of a cluster, with both commands that    *)
(* work on them: `jx gitops variables` creates one for every build and     *)
(* derives the next build number from those that exist (BuildNumbers.tla), *)
(* `jx gitops gc activities` deletes them (GcActivities.tla).  The two     *)
(* share nothing but the resources, and neither knows of the other.        *)
(*                                                                         *)
(* An activity created by `jx gitops variables` has none of the labels     *)
(* that select a LighthouseJob, so there are no jobs here.  Every branch   *)
(* has a name and a history of its own here.                               *)
(***************************************************************************)
EXTENDS Integers, FiniteSets, Sequences

CONSTANTS
  Builds, Branches, BranchOf, ValidName, MaxBuild, MaxParallel, LogsBucket, MaxReruns,
  PullRequestOrBatch, ReleaseAgeLimit, PullRequestAgeLimit,
  ReleaseHistoryLimit, PullRequestHistoryLimit,
  Collectors, MaxTime, MaxFaults, Nil

VARIABLES
  now, store, logs,                       \* shared: the clock and the resources
  alloc, issued, before, reruns,          \* `jx gitops variables`
  finished, jobs, pipelineRuns, gc, faults  \* `jx gitops gc activities`

Numbering == INSTANCE BuildNumbers

Collection == INSTANCE GcActivities WITH
  Names <- Branches \X (1 .. MaxBuild),
  Pipelines <- Branches,
  PipelineOf <- [n \in Branches \X (1 .. MaxBuild) |-> n[1]],
  DryRun <- FALSE,
  JobsOf <- [n \in Branches \X (1 .. MaxBuild) |-> 0],
  MaxRuns <- [n \in Branches \X (1 .. MaxBuild) |-> 0],
  Unstamped <- Branches \X (1 .. MaxBuild),
  Uncompleted <- Branches \X (1 .. MaxBuild)

numberingVars == <<logs, alloc, issued, before, reruns>>
collectionVars == <<now, finished, jobs, pipelineRuns, gc, faults>>
vars == <<numberingVars, collectionVars, store>>

Init ==
  /\ Numbering!Init
  /\ now = 0
  /\ finished = {}
  /\ jobs = {}
  /\ pipelineRuns = {}
  /\ gc = [c \in Collectors |-> Collection!Idle]
  /\ faults = 0

Number(b) ==
  /\ Numbering!Trigger(b) \/ Numbering!FindBuildNumber(b) \/ Numbering!Rerun(b) \/ Numbering!GiveUp(b)
  /\ UNCHANGED collectionVars

(* The pipeline of b terminates.  Other controllers set the timestamps of  *)
(* its activity: both, the one of its start, or none.  When the activity   *)
(* is there no more, or no longer the one of b, only the logs are written. *)
Finish(b) ==
  LET n == Numbering!Chosen(b)
  IN  /\ alloc[b].pc = "building"
      /\ alloc' = [alloc EXCEPT ![b].pc = "finished"]
      /\ IF store[n].status = "running" /\ store[n].buildID = b
         THEN \E s, t \in {now, Nil} :
                /\ s = Nil => t = Nil
                /\ store' = [store EXCEPT ![n].status = "terminated", ![n].started = s, ![n].completed = t]
                /\ finished' = finished \cup {[Collection!Item(n) EXCEPT !.started = s, !.completed = t]}
         ELSE UNCHANGED <<store, finished>>
      /\ logs' = logs \cup {<<BranchOf[b], alloc[b].number>>}
      /\ UNCHANGED <<issued, before, reruns, now, jobs, pipelineRuns, gc, faults>>

Collect(c) ==
  /\ Collection!Collect(c) \/ Collection!Fault(c)
  /\ UNCHANGED numberingVars

Tick == Collection!Tick /\ UNCHANGED numberingVars

Next ==
  \/ \E b \in Builds : Number(b) \/ Finish(b)
  \/ \E c \in Collectors : Collect(c)
  \/ Tick

Spec == Init /\ [][Next]_vars

-----------------------------------------------------------------------------
(* Properties.                                                             *)

(* A name has come back: it names another activity than it did.            *)
CameBack(n) == store[n].run > 1

(* The collector may delete the newest build of br, whose number the next  *)
(* build continues, while it leaves an older one: one of its builds is     *)
(* beyond the age limit (the newest are deleted first), or the collector   *)
(* cannot tell which is the newest, since the completion time of one is    *)
(* missing or the same as that of another.                                 *)
NewestNotKept(br) ==
  \E a \in finished :
    /\ a.name[1] = br
    /\ \/ a.completed = Nil
       \/ Collection!TooOld(a)
       \/ \E c \in finished \ {a} : c.name[1] = br /\ c.completed = a.completed

(* What makes b take a number that is not above those of its branch.       *)
Misled(b) ==
  \/ alloc[b].from = "activities" /\ NewestNotKept(BranchOf[b])
  \/ alloc[b].from = "partOfLogs"

(* A new number is above those of its branch, or its build was misled; and *)
(* after that names come back and anything may happen.                     *)
Continues ==
  \/ Numbering!Sequence!Next
  \/ \E b \in Builds : issued'[b] # issued[b] /\ Misled(b)
  \/ \E n \in DOMAIN store : CameBack(n)

(* As long as the builds of a branch follow one another, collecting the    *)
(* history does not disturb the numbering: the history limit keeps the     *)
(* newest build of the branch, whose number the next one continues, and    *)
(* when all are gone the logs do.  The exceptions are those of Misled.     *)
KeepsBuildSequence == Numbering!Sequence!Init /\ [][Continues]_issued

(* No build loses its number while its pipeline runs: what the variables   *)
(* command found for it, running it again finds again.  The collector      *)
(* deletes by name, so the exception is a name that has come back while a  *)
(* collector had still to delete its former activity.                      *)
RunningBuildFound ==
  \A b \in Builds : alloc[b].pc = "building" => Numbering!Own(b) # {} \/ CameBack(Numbering!Chosen(b))

=============================================================================
