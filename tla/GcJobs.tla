------------------------------- MODULE GcJobs -------------------------------
(***************************************************************************)
(* `jx gitops gc jobs`: the garbage collector of Kubernetes Jobs           *)
(* (pkg/cmd/gc/jobs/jobs.go).                                              *)
(*                                                                         *)
(* A collector lists the Jobs, keeps the first --keep of them, sorted by   *)
(* their start time, and deletes of the others those that started longer   *)
(* than --age ago and had no active pod in that list.  It deletes one by   *)
(* one, by name; an error does not stop it.  The clock is read again for   *)
(* every job.  The controllers that run the jobs are external.             *)
(***************************************************************************)
EXTENDS Integers, FiniteSets, Sequences

CONSTANTS
  Jobs,
  Suspended,        \* the jobs that may be created without being started
  Collectors,       \* executions of the command that may overlap
  Age, Keep, DryRun,
  MaxTime, MaxFaults,
  Nil

(* What is assumed of the constants.                                       *)
GcJobsAssumption ==
  /\ IsFiniteSet(Jobs)
  /\ Suspended \subseteq Jobs
  /\ Age \in Nat /\ Keep \in Nat /\ DryRun \in BOOLEAN
  /\ MaxTime \in Nat /\ MaxFaults \in Nat
  /\ Nil \notin Nat

VARIABLES
  now,
  store,        \* the Job of every name
  gc,           \* the local state of every collector
  overlapped,   \* history: two executions were at work at the same time
  faults

vars == <<now, store, gc, overlapped, faults>>

-----------------------------------------------------------------------------

Time == 0 .. MaxTime

(* An inactive job has no active pod: it is done or between two attempts.  *)
(* What is "gone" keeps its start time, which the properties refer to, as  *)
(* they do to whether a job has ever been suspended.                       *)
Job == [status       : {"absent", "suspended", "active", "inactive", "gone"},
        wasSuspended : BOOLEAN,
        started      : Time \cup {Nil}]

Listed == {j \in Jobs : store[j].status \notin {"absent", "gone"}}

(* metav1.Time.Before on start times: false as soon as one is nil.         *)
StartedBefore(i, j) == /\ store[i].started # Nil
                       /\ store[j].started # Nil
                       /\ store[i].started < store[j].started

(* What sort.Slice makes of the list, whatever the names: it leaves no two *)
(* neighbours in the wrong order.  That is all it can promise: a job that  *)
(* has no start time is equal to every other one.                          *)
LatestFirst(S) ==
  {order \in [1 .. Cardinality(S) -> S] :
     /\ \A i, j \in DOMAIN order : order[i] = order[j] => i = j
     /\ \A i \in 1 .. Cardinality(S) - 1 : ~ StartedBefore(order[i], order[i + 1])}

(* The jobs after the first Keep ones.                                     *)
Unkept(order) == {order[i] : i \in Keep + 1 .. Len(order)}

(* Mutant of matchesJob: only a job that has just reached the age.         *)
MatchesOnTime(entry) ==
  /\ entry.started # Nil
  /\ ~ entry.active
  /\ entry.started + Age + 1 = now

(* matchesJob, on what was listed.                                         *)
matchesJob(entry) ==
  /\ entry.started # Nil
  /\ ~ entry.active
  /\ entry.started + Age < now

(* What the list says of a job.                                            *)
Entry(j) == [name |-> j, started |-> store[j].started, active |-> store[j].status = "active"]

Init ==
  /\ now = 0
  /\ store = [j \in Jobs |-> [status |-> "absent", wasSuspended |-> FALSE, started |-> Nil]]
  /\ gc = [c \in Collectors |-> {}]
  /\ overlapped = FALSE
  /\ faults = 0

(* External: the life of a job.  Times have the resolution of a second,    *)
(* and jobs of the same schedule start in the same one.                    *)
Create(j) ==
  /\ store[j].status = "absent"
  /\ \/ store' = [store EXCEPT ![j] = [status |-> "active", wasSuspended |-> FALSE, started |-> now]]
     \/ /\ j \in Suspended
        /\ store' = [store EXCEPT ![j] = [status |-> "suspended", wasSuspended |-> TRUE, started |-> Nil]]
  /\ UNCHANGED <<now, gc, overlapped, faults>>

Resume(j) ==
  /\ store[j].status = "suspended"
  /\ store' = [store EXCEPT ![j].status = "active", ![j].started = now]
  /\ UNCHANGED <<now, gc, overlapped, faults>>

(* Its pod ends, or it gets one again after a failure.                     *)
Advance(j) ==
  /\ store[j].status \in {"active", "inactive"}
  /\ \E status \in {"active", "inactive"} \ {store[j].status} :
       store' = [store EXCEPT ![j].status = status]
  /\ UNCHANGED <<now, gc, overlapped, faults>>

Tick ==
  /\ now < MaxTime
  /\ now' = now + 1
  /\ UNCHANGED <<store, gc, overlapped, faults>>

Overlaps(c) == overlapped \/ \E d \in Collectors \ {c} : gc[d] # {}

(* Mutant of List: as if --keep were 0.                                    *)
ListAll(c) ==
  /\ gc[c] = {}
  /\ Keep < Cardinality(Listed)
  /\ gc' = [gc EXCEPT ![c] = {Entry(j) : j \in Listed}]
  /\ overlapped' = Overlaps(c)
  /\ UNCHANGED <<now, store, faults>>

(* Lists, sorts and cuts off what is kept; with --keep 0 the order is that *)
(* of the list.                                                            *)
List(c) ==
  /\ gc[c] = {}
  /\ Keep < Cardinality(Listed)
  /\ \/ /\ Keep = 0
        /\ gc' = [gc EXCEPT ![c] = {Entry(j) : j \in Listed}]
     \/ /\ Keep # 0
        /\ \E order \in LatestFirst(Listed) :
             gc' = [gc EXCEPT ![c] = {Entry(j) : j \in Unkept(order)}]
  /\ overlapped' = Overlaps(c)
  /\ UNCHANGED <<now, store, faults>>

Deleted(j) == [store EXCEPT ![j].status = "gone"]

(* One iteration of the loop.  A job that is no longer there is an error,  *)
(* and so is a failing call; both are only collected.                      *)
Visit(c) ==
  \E entry \in gc[c] :
    /\ gc' = [gc EXCEPT ![c] = @ \ {entry}]
    /\ \/ /\ matchesJob(entry) /\ ~ DryRun /\ entry.name \in Listed
          /\ store' = Deleted(entry.name)
          /\ UNCHANGED faults
       \/ /\ ~ matchesJob(entry) \/ DryRun \/ entry.name \notin Listed
          /\ UNCHANGED <<store, faults>>
       \/ /\ matchesJob(entry) /\ ~ DryRun
          /\ faults < MaxFaults
          /\ faults' = faults + 1
          /\ UNCHANGED store
    /\ UNCHANGED <<now, overlapped>>

(* The pod of the collector is killed.                                     *)
Kill(c) ==
  /\ faults < MaxFaults
  /\ gc[c] # {}
  /\ gc' = [gc EXCEPT ![c] = {}]
  /\ faults' = faults + 1
  /\ UNCHANGED <<now, store, overlapped>>

Collect(c) == List(c) \/ Visit(c)

Next ==
  \/ Tick
  \/ \E j \in Jobs : Create(j) \/ Resume(j) \/ Advance(j)
  \/ \E c \in Collectors : Collect(c) \/ Kill(c)

Spec == Init /\ [][Next]_vars

(* The collector is a scheduled job: an execution that ended is followed   *)
(* by another one, and a running one makes progress.                       *)
FairSpec == Spec /\ \A c \in Collectors : WF_vars(Collect(c))

-----------------------------------------------------------------------------
(* Properties.                                                             *)

(* The state is well formed: the jobs, and what each collector has left.   *)
TypeOK ==
  /\ now \in Time
  /\ store \in [Jobs -> Job]
  /\ \A c \in Collectors : \A entry \in gc[c] :
       /\ entry.name \in Jobs
       /\ entry.started \in Time \cup {Nil}
       /\ entry.active \in BOOLEAN
  /\ overlapped \in BOOLEAN
  /\ faults \in 0 .. MaxFaults

(* A job has been suspended.                                               *)
SuspendedBefore == \E j \in Jobs : store[j].wasSuspended

(* Two jobs have started in the same second.                               *)
Tied == \E i, j \in Jobs : i # j /\ store[i].started # Nil /\ store[i].started = store[j].started

(* As long as no job has been suspended: a job is deleted only if as many  *)
(* jobs as are to be kept started no earlier, and those are still there.   *)
(* Executions may work on old lists at the same time, but not when jobs    *)
(* have started in the same second: then the jobs that one of them keeps   *)
(* may be those that the other one deletes.                                *)
LatestJobsKept ==
  ~ SuspendedBefore /\ ~ (overlapped /\ Tied) =>
    \A j \in Jobs : store[j].status = "gone" =>
      Cardinality({k \in Listed : ~ StartedBefore(k, j)}) >= Keep

(* Enough jobs are still there that started later.                         *)
Superseded(j) == Cardinality({k \in Listed : StartedBefore(j, k)}) >= Keep

(* A job without a pod that is old enough and not among those to keep is   *)
(* eventually deleted, unless it gets a pod again, a suspended job disturbs*)
(* the order, or the later ones are deleted first.  Executions that are    *)
(* killed or whose calls fail are made up for.                             *)
OldJobsCollected ==
  \A j \in Jobs :
    (store[j].status = "inactive" /\ store[j].started + Age < now /\ Superseded(j))
      ~> (store[j].status \in {"active", "gone"} \/ SuspendedBefore \/ ~ Superseded(j))

=============================================================================
