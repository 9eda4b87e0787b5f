---------------------------- MODULE GcActivities ----------------------------
(***************************************************************************)
(* `jx gitops gc activities`: the garbage collector of PipelineActivity    *)
(* resources (pkg/cmd/gc/activities/activities.go).                        *)
(*                                                                         *)
(* A collector is one execution of the command.  It lists the activities,  *)
(* keeps the terminated ones, sorts them newest first, decides from that   *)
(* snapshot which of them are too old or beyond the history limit of their *)
(* pipeline, and deletes each of those with its LighthouseJob and its      *)
(* PipelineRun, one API call after the other.  Meanwhile pipelines start   *)
(* and terminate, time passes, API calls fail, and other collectors run.   *)
(*                                                                         *)
(* The collector deletes by name, and names come back: when the activities *)
(* of a branch are gone its builds may be numbered from 1 again.  A run    *)
(* tells the activities apart that had a name one after the other.         *)
(*                                                                         *)
(* What every decision of the loop reads is in the snapshot, so the model  *)
(* takes all of them when it takes the snapshot; the deletions that follow *)
(* are steps of their own.                                                 *)
(***************************************************************************)
EXTENDS Integers, FiniteSets, Sequences

CONSTANTS
  Names,                    \* the names PipelineActivity resources can have
  Pipelines,                \* owner/repository/branch/context
  PipelineOf,               \* [Names -> Pipelines]
  PullRequestOrBatch,       \* the pipelines whose branch is PR-* or batch
  ReleaseAgeLimit, PullRequestAgeLimit,
  ReleaseHistoryLimit, PullRequestHistoryLimit,
  DryRun,
  JobsOf,                   \* how many LighthouseJobs the labels select; 0 if they are too few
  Unstamped,                \* activities whose StartedTimestamp is never set
  Uncompleted,              \* activities whose CompletedTimestamp may be missing
  Collectors,               \* executions of the command that may overlap
  MaxRuns,                  \* [Names -> Nat], bound on how often a name is used
  MaxTime,                  \* bound of the clock
  MaxFaults,                \* bound on the number of failing API calls
  Nil

ASSUME GcActivitiesAssumption ==
  /\ IsFiniteSet(Names)
  /\ PipelineOf \in [Names -> Pipelines]
  /\ PullRequestOrBatch \subseteq Pipelines
  /\ ReleaseAgeLimit \in Nat /\ PullRequestAgeLimit \in Nat
  /\ ReleaseHistoryLimit \in Nat /\ PullRequestHistoryLimit \in Nat
  /\ DryRun \in BOOLEAN
  /\ JobsOf \in [Names -> Nat] /\ MaxRuns \in [Names -> Nat]
  /\ Unstamped \subseteq Names /\ Uncompleted \subseteq Names
  /\ MaxTime \in Nat /\ MaxFaults \in Nat
  /\ Nil \notin Nat /\ Nil \notin Names

VARIABLES
  now,             \* the clock
  store,           \* the PipelineActivity of every name
  finished,        \* history: the activities that have terminated
  jobs,            \* the LighthouseJobs
  pipelineRuns,    \* the runs whose PipelineRun exists
  gc,              \* the local state of every collector
  faults           \* how many API calls have failed

vars == <<now, store, finished, jobs, pipelineRuns, gc, faults>>

-----------------------------------------------------------------------------
(* Activities.                                                             *)

Time == 0 .. MaxTime

(* run counts the activities of the name so far; "absent" there is none.   *)
Activity == [status    : {"absent", "running", "terminated"},
             run       : Nat,
             started   : Time \cup {Nil},
             completed : Time \cup {Nil}]

(* An activity as a list returns it.                                       *)
Items == [name : Names, run : Nat, started : Time \cup {Nil}, completed : Time \cup {Nil}]

Item(n) == [name |-> n, run |-> store[n].run, started |-> store[n].started, completed |-> store[n].completed]

(* Mutant of Terminated: running activities are not filtered out.          *)
TerminatedOrRunning == {Item(n) : n \in {n \in Names : store[n].status \in {"terminated", "running"}}}

Terminated == {Item(n) : n \in {n \in Names : store[n].status = "terminated"}}

(* The CompletedTimestamp, or the StartedTimestamp when there is none.     *)
Stamp(a) == IF a.completed # Nil THEN a.completed ELSE a.started

(* metav1.Time.Before: false as soon as one of the two is nil.             *)
Before(a, b) == a.completed # Nil /\ b.completed # Nil /\ a.completed < b.completed

MaxAge(p) == IF p \in PullRequestOrBatch THEN PullRequestAgeLimit ELSE ReleaseAgeLimit

HistoryLimit(p) == IF p \in PullRequestOrBatch THEN PullRequestHistoryLimit
                                               ELSE ReleaseHistoryLimit

TooOld(a) == Stamp(a) + MaxAge(PipelineOf[a.name]) < now

(* Mutant of NewestFirst: the comparison is turned round.                  *)
OldestFirst(S) ==
  {order \in [1 .. Cardinality(S) -> S] :
     \A i, j \in DOMAIN order : i < j => /\ order[i] # order[j]
                                         /\ ~ Before(order[j], order[i])}

(* What sort.Slice can make of S with the comparison !i.Before(j): the     *)
(* completed activities newest first, those without a timestamp anywhere   *)
(* (they compare as smaller and as greater than everything).               *)
NewestFirst(S) ==
  {order \in [1 .. Cardinality(S) -> S] :
     \A i, j \in DOMAIN order : i < j => /\ order[i] # order[j]
                                         /\ ~ Before(order[i], order[j])}

(* The loop stops with a nil dereference at the first activity that has    *)
(* neither timestamp.                                                      *)
Reached(order) == {i \in DOMAIN order : \A j \in 1 .. i : Stamp(order[j]) # Nil}

(* The builds of the pipeline of order[i] counted up to i: the activities  *)
(* that are too old are deleted before they are counted.                   *)
BuildsCounted(order, i) ==
  {j \in 1 .. i : /\ PipelineOf[order[j].name] = PipelineOf[order[i].name]
                  /\ ~ TooOld(order[j])}

Doomed(order) ==
  {order[i] : i \in {k \in Reached(order) :
       \/ TooOld(order[k])
       \/ Cardinality(BuildsCounted(order, k)) > HistoryLimit(PipelineOf[order[k].name])}}

(* The doomed activities in the order of the loop (the one such sequence). *)
DeletionOrders(order) ==
  {todo \in [1 .. Cardinality(Doomed(order)) -> Doomed(order)] :
     \A i, j \in DOMAIN todo : i < j =>
       \E k, l \in DOMAIN order : k < l /\ order[k] = todo[i] /\ order[l] = todo[j]}

-----------------------------------------------------------------------------
(* Collectors.                                                             *)

(* todo is what is left to delete, its head what is being deleted; listed  *)
(* are the jobs of the head that are left to delete.                       *)
Idle == [pc |-> "idle", todo |-> <<>>, listed |-> {}]

Victim(c) == Head(gc[c].todo)

Init ==
  /\ now = 0
  /\ store = [n \in Names |-> [status |-> "absent", run |-> 0, started |-> Nil, completed |-> Nil]]
  /\ finished = {}
  /\ jobs = {}
  /\ pipelineRuns = {}
  /\ gc = [c \in Collectors |-> Idle]
  /\ faults = 0

Runs == [name : Names, run : Nat]
RunOf(a) == [name |-> a.name, run |-> a.run]
LighthouseJobs == [of : Runs, index : Nat]

(* A pipeline starts: its LighthouseJobs, PipelineRun and PipelineActivity *)
(* are created, under a name that was used before or not.                  *)
Start(n) ==
  LET new == [name |-> n, run |-> store[n].run + 1]
  IN  /\ store[n].status = "absent" /\ store[n].run < MaxRuns[n]
      /\ store' = [store EXCEPT ![n] = [status |-> "running", run |-> new.run,
                                        started |-> IF n \in Unstamped THEN Nil ELSE now, completed |-> Nil]]
      /\ jobs' = jobs \cup {[of |-> new, index |-> i] : i \in 1 .. JobsOf[n]}
      /\ pipelineRuns' = pipelineRuns \cup {new}
      /\ UNCHANGED <<now, finished, gc, faults>>

(* Mutant of Terminate: a status that IsTerminated does not know.          *)
TerminateUnknown(n) ==
  /\ store[n].status = "running"
  /\ store' = [store EXCEPT ![n].status = "completed", ![n].completed = now]
  /\ UNCHANGED <<now, finished, jobs, pipelineRuns, gc, faults>>

(* A pipeline terminates; the completion time may be missing.              *)
Terminate(n) ==
  /\ store[n].status = "running"
  /\ \E t \in {now} \cup (IF n \in Uncompleted THEN {Nil} ELSE {}) :
       /\ store' = [store EXCEPT ![n].status = "terminated", ![n].completed = t]
       /\ finished' = finished \cup {[Item(n) EXCEPT !.completed = t]}
  /\ UNCHANGED <<now, jobs, pipelineRuns, gc, faults>>

Tick ==
  /\ now < MaxTime
  /\ now' = now + 1
  /\ UNCHANGED <<store, finished, jobs, pipelineRuns, gc, faults>>

(* Lists the activities and decides which of them have to go.              *)
List(c) ==
  /\ gc[c].pc = "idle"
  /\ \E order \in NewestFirst(Terminated) :
       \E todo \in DeletionOrders(order) :
         /\ todo # <<>>
         /\ gc' = [gc EXCEPT ![c] = [pc |-> "listJobs", todo |-> todo, listed |-> {}]]
  /\ UNCHANGED <<now, store, finished, jobs, pipelineRuns, faults>>

(* The jobs with the labels of the activity, which a run before or after   *)
(* it under its name has as well.                                          *)
Selected(a) == {j \in jobs : JobsOf[a.name] # 0 /\ j.of.name = a.name}

(* What follows when there are jobs, and when there are none.              *)
WithJobs(c, S) == [gc[c] EXCEPT !.listed = S, !.pc = IF S = {} THEN "pipelineRun" ELSE "deleteJob"]

(* Mutant of ListJobs: a labelled activity is taken to have too few labels.*)
ListJobsIgnored(c) ==
  /\ gc[c].pc = "listJobs"
  /\ gc' = [gc EXCEPT ![c] = WithJobs(c, {})]
  /\ UNCHANGED <<now, store, finished, jobs, pipelineRuns, faults>>

(* Mutant of ListJobs: that there is no job (any more) is an error.        *)
ListJobsRequired(c) ==
  /\ gc[c].pc = "listJobs"
  /\ gc' = [gc EXCEPT ![c] = IF JobsOf[Victim(c).name] # 0 /\ Selected(Victim(c)) = {} THEN Idle
                             ELSE WithJobs(c, Selected(Victim(c)))]
  /\ UNCHANGED <<now, store, finished, jobs, pipelineRuns, faults>>

(* deleteLighthouseJob, the list: selects by the labels of the activity,   *)
(* unless it has too few of them.                                          *)
ListJobs(c) ==
  /\ gc[c].pc = "listJobs"
  /\ gc' = [gc EXCEPT ![c] = WithJobs(c, Selected(Victim(c)))]
  /\ UNCHANGED <<now, store, finished, jobs, pipelineRuns, faults>>

(* deleteLighthouseJob, the next job.  That it is no longer there is an    *)
(* error, and an error ends the command.                                   *)
DeleteJob(c) ==
  /\ gc[c].pc = "deleteJob"
  /\ \E j \in gc[c].listed :
       IF DryRun \/ j \in jobs
       THEN /\ jobs' = IF DryRun THEN jobs ELSE jobs \ {j}
            /\ gc' = [gc EXCEPT ![c] = WithJobs(c, gc[c].listed \ {j})]
       ELSE /\ gc' = [gc EXCEPT ![c] = Idle]
            /\ UNCHANGED jobs
  /\ UNCHANGED <<now, store, finished, pipelineRuns, faults>>

(* getPipelineRun and deletePipelineRun: their errors are only logged.     *)
DeletePipelineRun(c) ==
  /\ gc[c].pc = "pipelineRun"
  /\ pipelineRuns' = IF DryRun THEN pipelineRuns ELSE pipelineRuns \ {RunOf(Victim(c))}
  /\ gc' = [gc EXCEPT ![c].pc = "activity"]
  /\ UNCHANGED <<now, store, finished, jobs, faults>>

Exists(n) == store[n].status # "absent"

(* The collector after deleteResources returned nil.                       *)
Continue(c) == IF Len(gc[c].todo) = 1 THEN Idle
               ELSE [pc |-> "listJobs", todo |-> Tail(gc[c].todo), listed |-> {}]

Deleted(n) == [store EXCEPT ![n].status = "absent", ![n].started = Nil, ![n].completed = Nil]

(* deleteActivity: by name, whatever the activity of that name is by now;  *)
(* if there is none the command ends with an error.                        *)
DeleteActivity(c) ==
  /\ gc[c].pc = "activity"
  /\ IF DryRun \/ Exists(Victim(c).name)
     THEN /\ store' = IF DryRun THEN store ELSE Deleted(Victim(c).name)
          /\ gc' = [gc EXCEPT ![c] = Continue(c)]
     ELSE /\ gc' = [gc EXCEPT ![c] = Idle]
          /\ UNCHANGED store
  /\ UNCHANGED <<now, finished, jobs, pipelineRuns, faults>>

(* An API call fails, or the pod of the collector is killed.  Only the     *)
(* failures around the PipelineRun do not end the command.                 *)
Fault(c) ==
  /\ faults < MaxFaults
  /\ gc[c].pc # "idle"
  /\ faults' = faults + 1
  /\ \/ gc' = [gc EXCEPT ![c] = Idle]
     \/ /\ gc[c].pc = "pipelineRun"
        /\ gc' = [gc EXCEPT ![c].pc = "activity"]
  /\ UNCHANGED <<now, store, finished, jobs, pipelineRuns>>

Collect(c) ==
  \/ List(c)
  \/ ListJobs(c)
  \/ DeleteJob(c)
  \/ DeletePipelineRun(c)
  \/ DeleteActivity(c)

Next ==
  \/ \E n \in Names : Start(n) \/ Terminate(n)
  \/ Tick
  \/ \E c \in Collectors : Collect(c) \/ Fault(c)

Spec == Init /\ [][Next]_vars

(* The collector is a scheduled job: an execution that ended is followed   *)
(* by another one, and a running one makes progress.                       *)
FairSpec == Spec /\ \A c \in Collectors : WF_vars(Collect(c))

-----------------------------------------------------------------------------
(* Properties.                                                             *)

(* The state is well formed: activities, resources and the local state of  *)
(* every collector (the Options and local variables of Run).               *)
TypeOK ==
  /\ now \in Time
  /\ store \in [Names -> Activity]
  /\ finished \subseteq Items
  /\ jobs \subseteq LighthouseJobs
  /\ pipelineRuns \subseteq Runs
  /\ gc \in [Collectors -> [pc : {"idle", "listJobs", "deleteJob", "pipelineRun", "activity"},
                            todo : Seq(Items), listed : SUBSET LighthouseJobs]]
  /\ faults \in 0 .. MaxFaults

(* A step deletes the activity n; and the collector that does so had found *)
(* an earlier activity of that name, which is gone by now.                 *)
Goes(n) == Exists(n) /\ ~ Exists(n)'
TakenOver(n) ==
  \E c \in Collectors :
    /\ gc[c].pc = "activity" /\ gc'[c] # gc[c]
    /\ Victim(c).name = n /\ Victim(c).run < store[n].run

(* "Filter out running activities": an activity that has not terminated is *)
(* never deleted, except in place of one that had terminated and whose     *)
(* name it has taken over since the collector looked at the status.        *)
OnlyTerminatedDeleted ==
  [][\A n \in Names : Goes(n) /\ store[n].status = "running" =>
       TakenOver(n) /\ \E a \in finished : a.name = n /\ a.run < store[n].run]_vars

(* deleteResources deletes the activity last, and only after its           *)
(* LighthouseJobs: however the commands overlap and fail, no job is left   *)
(* without the activity through which the collector would find it.  A      *)
(* PipelineRun can be left behind, but only by a failing API call; and     *)
(* what goes in place of another activity leaves everything behind.        *)
NoOrphans ==
  [][\A n \in Names : Goes(n) =>
       \/ TakenOver(n)
       \/ /\ \A j \in jobs' : j.of # RunOf(Item(n))
          /\ RunOf(Item(n)) \in pipelineRuns' => faults > 0]_vars

(* The builds of the pipeline of a that the sort can place before a.       *)
Rivals(a) == {b \in finished \ {a} : PipelineOf[b.name] = PipelineOf[a.name] /\ ~ Before(b, a)}

(* Whoever deletes it, and from however old a list: an activity that is    *)
(* within its age limit is only deleted when the history of its pipeline   *)
(* has enough builds that completed no earlier, or in place of another one *)
(* whose name it has taken over.                                           *)
RecentHistoryKept ==
  [][\A n \in Names : Goes(n) /\ ~ TooOld(Item(n)) =>
       TakenOver(n) \/ Cardinality(Rivals(Item(n))) >= HistoryLimit(PipelineOf[n])]_vars

(* With --dry-run nothing is deleted.                                      *)
DryRunDeletesNothing ==
  [][DryRun => /\ jobs \subseteq jobs'
               /\ pipelineRuns \subseteq pipelineRuns'
               /\ \A n \in Names : ~ Goes(n)]_vars

(* An activity beyond its age limit is eventually deleted: commands that   *)
(* fail half way or collide with another one are made up for by later ones.*)
(* Only an activity without any timestamp, which ends every command that   *)
(* comes to it, can prevent that.                                          *)
ExpiredCollected ==
  \A n \in Names :
    (store[n].status = "terminated" /\ Stamp(Item(n)) # Nil /\ TooOld(Item(n)))
      ~> (store[n].status # "terminated" \/ \E a \in Terminated : Stamp(a) = Nil)

=============================================================================
