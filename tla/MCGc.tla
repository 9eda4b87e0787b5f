--------------------------------- MODULE MCGc ---------------------------------
(* The garbage collectors, one part of the run each.  "activities": two    *)
(* collectors, and a name that is used again.  "histories": one collector, *)
(* three builds of two pipelines.  "jobs": three jobs, two collectors.     *)
(* "suspended": two jobs, one of which may be suspended, and failures.     *)
(* "pods".                                                                 *)
EXTENDS GcActivities

CONSTANTS
  Jobs, Suspended, JobAge, Keep, JobTime, JobFaults,                  \* jobs
  FewJobs, MaySuspend,                                                \* suspended
  Pods, Containers, Recreated, PodAge, PodTime, MaxPods, MaxFailed,   \* pods
  n1, n2, n3, pr, main                                                \* names for the .cfg

VARIABLES part, jobnow, jobstore, jobgc, joboverlapped, jobfaults, time, pods, listed, failed

MCPipelineOf == [n \in Names |-> IF n = n3 THEN main ELSE pr]
MCJobsOf == [n \in Names |-> IF n = n1 THEN 2 ELSE 0]
MCMaxRuns == [n \in Names |-> IF n = n1 THEN 2 ELSE IF n = n2 THEN 1 ELSE 0]

H == INSTANCE GcActivities WITH
  JobsOf <- [n \in Names |-> 0], Unstamped <- {}, Uncompleted <- {}, MaxRuns <- [n \in Names |-> 1], MaxFaults <- 0

J == INSTANCE GcJobs WITH
  Age <- JobAge, MaxTime <- JobTime, MaxFaults <- JobFaults,
  now <- jobnow, store <- jobstore, gc <- jobgc, overlapped <- joboverlapped, faults <- jobfaults

K == INSTANCE GcJobs WITH
  Jobs <- FewJobs, Suspended <- MaySuspend, Age <- JobAge, MaxTime <- JobTime,
  now <- jobnow, store <- jobstore, gc <- jobgc, overlapped <- joboverlapped, faults <- jobfaults

P == INSTANCE GcPods WITH
  Age <- PodAge, MaxTime <- PodTime

ASSUME MCAssumption == H!GcActivitiesAssumption /\ J!GcJobsAssumption /\ K!GcJobsAssumption

jobvars == <<jobnow, jobstore, jobgc, joboverlapped, jobfaults>>
podvars == <<time, pods, listed, failed>>
mcvars == <<part, now, store, finished, jobs, pipelineRuns, gc, faults,
            jobnow, jobstore, jobgc, joboverlapped, jobfaults, time, pods, listed, failed>>

MCInit ==
  /\ part \in {"activities", "histories", "jobs", "suspended", "pods"}
  /\ IF part = "histories" THEN H!Init ELSE Init
  /\ IF part = "suspended" THEN K!Init ELSE J!Init
  /\ P!Init

MCNext ==
  /\ UNCHANGED part
  /\ \/ part = "activities" /\ Next /\ UNCHANGED jobvars /\ UNCHANGED podvars
     \/ part = "histories" /\ H!Next /\ UNCHANGED jobvars /\ UNCHANGED podvars
     \/ part = "jobs" /\ J!Next /\ UNCHANGED vars /\ UNCHANGED podvars
     \/ part = "suspended" /\ K!Next /\ UNCHANGED vars /\ UNCHANGED podvars
     \/ part = "pods" /\ P!Next /\ UNCHANGED vars /\ UNCHANGED jobvars

MCSpec ==
  /\ MCInit /\ [][MCNext]_mcvars
  /\ \A c \in Collectors :
       /\ WF_mcvars(part = "activities" /\ Collect(c) /\ UNCHANGED <<part, jobvars, podvars>>)
       /\ WF_mcvars(part = "suspended" /\ K!Collect(c) /\ UNCHANGED <<part, vars, podvars>>)

(* The jobs started last are kept (pkg/cmd/gc/jobs).                       *)
LatestJobsKept == part = "jobs" => J!LatestJobsKept

(* Old jobs are deleted in the end (pkg/cmd/gc/jobs).                      *)
OldJobsCollected == part = "suspended" => K!OldJobsCollected

(* Activities beyond their age limit are deleted in the end                *)
(* (pkg/cmd/gc/activities).                                                *)
OldActivitiesCollected == part = "activities" => ExpiredCollected

(* Only pods that ended longer than the age ago are deleted                *)
(* (pkg/cmd/gc/pods).                                                      *)
OldPodsDeleted == [][P!DeletesOld]_mcvars
===============================================================================
