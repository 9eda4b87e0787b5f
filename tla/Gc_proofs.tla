----------------------------- MODULE Gc_proofs -------------------------------
(* Theorems about the garbage collectors: of activities (GcActivities), of *)
(* jobs (GcJobs, instanced as J) and of pods (GcPods, instanced as P), for *)
(* every value of the constants of each, and about the three together.     *)
EXTENDS MCGc, FiniteSetTheorems, FunctionTheorems, SequenceTheorems, WellFoundedInduction, TLAPS

-----------------------------------------------------------------------------
(* Activities.                                                             *)

LEMMA ConstantTypes ==
  /\ IsFiniteSet(Names)
  /\ PipelineOf \in [Names -> Pipelines]
  /\ \A p \in Pipelines : MaxAge(p) \in Nat /\ HistoryLimit(p) \in Nat
  /\ DryRun \in BOOLEAN
  /\ JobsOf \in [Names -> Nat]
  /\ MaxTime \in Nat /\ MaxFaults \in Nat
  /\ Nil \notin Nat
  /\ Time \subseteq Nat
BY GcActivitiesAssumption DEF MaxAge, HistoryLimit, Time

(* An activity keeps its type when its status and a time change.           *)
LEMMA ActivityChanged ==
  ASSUME NEW a \in Activity, NEW t \in Time \cup {Nil}
  PROVE  /\ [a EXCEPT !.status = "terminated", !.completed = t] \in Activity
         /\ [a EXCEPT !.status = "absent", !.started = Nil, !.completed = Nil] \in Activity
         /\ [a EXCEPT !.status = "absent", !.started = Nil, !.completed = Nil].status = "absent"
         /\ [a EXCEPT !.status = "absent", !.started = Nil, !.completed = Nil].run = a.run
BY DEF Activity

-----------------------------------------------------------------------------

(* What has terminated is known with its run and times, and a name that    *)
(* is used again has a later run than whatever had the name before: the    *)
(* activities that have terminated, the jobs and the PipelineRuns.         *)
FinishedKnown ==
  /\ IsFiniteSet(finished)
  /\ \A n \in Names : store[n].status = "terminated" => Item(n) \in finished
  /\ \A a \in finished :
       /\ a.run <= store[a.name].run
       /\ a.run = store[a.name].run =>
            \/ store[a.name].status = "absent"
            \/ store[a.name].status = "terminated" /\ Item(a.name) = a

ResourcesKnown ==
  /\ \A j \in jobs : j.of.run <= store[j.of.name].run /\ JobsOf[j.of.name] # 0
  /\ \A r \in pipelineRuns : r.run <= store[r.name].run

(* The activities that a collector may delete: those that have terminated  *)
(* and are too old or beyond the history limit.                            *)
Expendable ==
  {a \in finished :
     /\ Stamp(a) # Nil
     /\ TooOld(a) \/ Cardinality(Rivals(a)) >= HistoryLimit(PipelineOf[a.name])}

(* What the loop dooms is expendable: the builds it has counted up to an   *)
(* activity beyond the limit are, but for the activity itself, its rivals. *)
LEMMA DoomedAreExpendable ==
  ASSUME TypeOK, FinishedKnown, NEW order \in NewestFirst(Terminated)
  PROVE  Doomed(order) \subseteq Expendable
<1>1. Terminated \subseteq finished /\ IsFiniteSet(Terminated)
  BY FS_Subset DEF Terminated, FinishedKnown
<1>2. Cardinality(Terminated) \in Nat
  BY <1>1, FS_CardinalityType
<1>. DEFINE dom == 1 .. Cardinality(Terminated)
<1>3. /\ order \in [dom -> Terminated]
      /\ \A i, j \in dom : i < j => order[i] # order[j] /\ ~ Before(order[i], order[j])
  BY DEF NewestFirst
<1>. SUFFICES ASSUME NEW i \in Reached(order),
                     \/ TooOld(order[i])
                     \/ Cardinality(BuildsCounted(order, i)) > HistoryLimit(PipelineOf[order[i].name])
              PROVE  order[i] \in Expendable
  BY DEF Doomed
<1>4. i \in dom /\ i \in 1 .. i /\ order[i] \in finished /\ order[i].name \in Names
  BY <1>1, <1>2, <1>3 DEF Reached, TypeOK, Items
<1>5. Stamp(order[i]) # Nil
  BY <1>4 DEF Reached
<1>6. CASE TooOld(order[i])
  BY <1>4, <1>5, <1>6 DEF Expendable
<1>7. CASE ~ TooOld(order[i])
  <2>. DEFINE n == order[i]
              counted == BuildsCounted(order, i)
              f == [j \in counted \ {i} |-> order[j]]
  <2>1. counted \subseteq 1 .. i /\ counted \subseteq dom /\ i \in counted
    BY <1>2, <1>4, <1>7 DEF BuildsCounted
  <2>2. IsFiniteSet(counted)
    <3>1. IsFiniteSet(1 .. i)
      BY <1>2, <1>4, FS_Interval
    <3>. QED
      BY <2>1, <3>1, FS_Subset
  <2>3. f \in Injection(counted \ {i}, Rivals(n))
    <3>1. ASSUME NEW j \in counted \ {i} PROVE f[j] \in Rivals(n)
      <4>1. j \in dom /\ j < i /\ PipelineOf[order[j].name] = PipelineOf[n.name]
        BY <1>2, <1>4, <2>1 DEF BuildsCounted
      <4>2. order[j] \in finished
        BY <1>1, <1>3, <4>1
      <4>3. order[j] # n /\ ~ Before(order[j], n)
        BY <1>3, <1>4, <4>1
      <4>. QED
        BY <4>1, <4>2, <4>3 DEF Rivals
    <3>2. ASSUME NEW j \in counted \ {i}, NEW k \in counted \ {i}, f[j] = f[k] PROVE j = k
      <4>1. j \in dom /\ k \in dom /\ order[j] = order[k]
        BY <2>1, <3>2
      <4>2. ~ (j < k) /\ ~ (k < j)
        BY <1>3, <4>1
      <4>. QED
        BY <1>2, <4>1, <4>2
    <3>3. f \in [counted \ {i} -> Rivals(n)]
      BY <3>1
    <3>. HIDE DEF f
    <3>. QED
      BY <3>2, <3>3 DEF Injection, IsInjective
  <2>4. IsFiniteSet(Rivals(n))
    BY FS_Subset DEF Rivals, FinishedKnown
  <2>5. Cardinality(counted \ {i}) <= Cardinality(Rivals(n))
    BY <2>3, <2>4, FS_Injection
  <2>6. Cardinality(counted \ {i}) = Cardinality(counted) - 1
    BY <2>1, <2>2, FS_RemoveElement
  <2>7. Cardinality(counted) \in Nat /\ Cardinality(Rivals(n)) \in Nat
    BY <2>2, <2>4, FS_CardinalityType
  <2>8. HistoryLimit(PipelineOf[n.name]) \in Nat
    BY <1>4, ConstantTypes
  <2>. HIDE DEF counted, f, n
  <2>9. Cardinality(Rivals(n)) >= HistoryLimit(PipelineOf[n.name])
    BY <1>7, <2>5, <2>6, <2>7, <2>8 DEF counted, n
  <2>. QED
    BY <1>4, <1>5, <2>9 DEF Expendable, n
<1>. QED
  BY <1>6, <1>7

(* What is expendable stays so: what has terminated is not forgotten, time *)
(* passes, rivals become more.                                             *)
LEMMA ExpendableForGood ==
  ASSUME TypeOK, TypeOK', now <= now', finished \subseteq finished', IsFiniteSet(finished')
  PROVE  Expendable \subseteq Expendable'
<1>. SUFFICES ASSUME NEW a \in Expendable PROVE a \in Expendable'
  OBVIOUS
<1>1. a \in finished /\ a \in finished' /\ a.name \in Names /\ Stamp(a) \in Nat /\ Stamp(a) # Nil
  BY ConstantTypes DEF Expendable, TypeOK, Items, Stamp
<1>2. MaxAge(PipelineOf[a.name]) \in Nat /\ HistoryLimit(PipelineOf[a.name]) \in Nat
  BY <1>1, ConstantTypes
<1>3. CASE TooOld(a)
  <2>1. now \in Nat /\ now' \in Nat
    BY ConstantTypes DEF TypeOK
  <2>2. TooOld(a)'
    BY <1>1, <1>2, <1>3, <2>1 DEF TooOld
  <2>. QED
    BY <1>1, <2>2 DEF Expendable
<1>4. CASE Cardinality(Rivals(a)) >= HistoryLimit(PipelineOf[a.name])
  <2>1. Rivals(a) \subseteq Rivals(a)' /\ IsFiniteSet(Rivals(a)')
    BY FS_Subset DEF Rivals
  <2>2. Cardinality(Rivals(a)) <= Cardinality(Rivals(a)')
    BY <2>1, FS_Subset
  <2>3. Cardinality(Rivals(a)) \in Nat /\ Cardinality(Rivals(a)') \in Nat
    BY <2>1, FS_Subset, FS_CardinalityType
  <2>4. Cardinality(Rivals(a)') >= HistoryLimit(PipelineOf[a.name])
    BY <1>2, <1>4, <2>2, <2>3
  <2>. QED
    BY <1>1, <2>4 DEF Expendable
<1>. QED
  BY <1>3, <1>4 DEF Expendable

-----------------------------------------------------------------------------

(* A collector that is not idle has something to delete.                   *)
Busy == \A c \in Collectors : gc[c].pc # "idle" => gc[c].todo # <<>>

Places == [pc : {"idle", "listJobs", "deleteJob", "pipelineRun", "activity"},
           todo : Seq(Items), listed : SUBSET LighthouseJobs]

LEMMA IdleType == Idle \in Places
BY EmptySeq DEF Idle, Places

LEMMA VictimIsItem ==
  ASSUME TypeOK, Busy, NEW c \in Collectors, gc[c].pc # "idle"
  PROVE  /\ Victim(c) \in Items
         /\ RunOf(Victim(c)) \in Runs
         /\ Continue(c) \in Places /\ Continue(c).pc \in {"idle", "listJobs"}
         /\ Continue(c).pc # "idle" => Continue(c).todo # <<>>
<1>. DEFINE todo == gc[c].todo
<1>1. todo \in Seq(Items) /\ todo # <<>>
  BY DEF TypeOK, Busy
<1>2. Head(todo) \in Items /\ Tail(todo) \in Seq(Items) /\ Len(Tail(todo)) = Len(todo) - 1
  BY <1>1, HeadTailProperties
<1>3. Len(todo) # 1 => Tail(todo) # <<>>
  <2>1. Len(todo) \in Nat /\ Len(<<>>) = 0
    BY <1>1, LenProperties, EmptySeq
  <2>. HIDE DEF todo
  <2>. QED
    BY <1>2, <2>1
<1>4. Victim(c) \in Items /\ RunOf(Victim(c)) \in Runs
  BY <1>2 DEF Victim, RunOf, Runs, Items
<1>5. Continue(c) \in Places /\ Continue(c).pc \in {"idle", "listJobs"}
  BY <1>2, IdleType DEF Continue, Idle, Places
<1>. QED
  BY <1>3, <1>4, <1>5 DEF Continue, Idle

LEMMA ListedTodo ==
  ASSUME NEW order \in NewestFirst(Terminated), NEW todo \in DeletionOrders(order)
  PROVE  todo \in Seq(Doomed(order))
<1>1. IsFiniteSet(Terminated)
  <2>1. IsFiniteSet({n \in Names : store[n].status = "terminated"})
    BY ConstantTypes, FS_Subset
  <2>. DEFINE D == {n \in Names : store[n].status = "terminated"}
              f == [n \in D |-> Item(n)]
  <2>2. f \in Surjection(D, Terminated)
    BY DEF Terminated, Surjection
  <2>. QED
    BY <2>1, <2>2, FS_Surjection
<1>2. Doomed(order) \subseteq Terminated
  BY DEF Doomed, Reached, NewestFirst
<1>3. Cardinality(Doomed(order)) \in Nat
  BY <1>1, <1>2, FS_Subset, FS_CardinalityType
<1>. QED
  BY <1>3, SeqDef DEF DeletionOrders

LEMMA ItemType == ASSUME TypeOK, NEW n \in Names PROVE Item(n) \in Items /\ Item(n).name = n /\ Item(n).run = store[n].run
BY DEF Item, Items, TypeOK, Activity

(* In every reachable state the resources and the collectors are well      *)
(* formed, and a collector that deletes has something to delete.           *)
THEOREM TypeCorrect == Spec => [](TypeOK /\ Busy)
<1>1. Init => TypeOK /\ Busy
  <2>. SUFFICES ASSUME Init PROVE TypeOK /\ Busy
    OBVIOUS
  <2>1. now \in Time /\ faults \in 0 .. MaxFaults /\ store \in [Names -> Activity]
    BY ConstantTypes DEF Init, Activity, Time
  <2>2. gc \in [Collectors -> Places] /\ Busy
    BY IdleType DEF Init, Busy, Idle
  <2>. QED
    BY <2>1, <2>2 DEF Init, TypeOK, Places
<1>2. TypeOK /\ Busy /\ [Next]_vars => TypeOK' /\ Busy'
  <2>. SUFFICES ASSUME TypeOK, Busy, [Next]_vars PROVE TypeOK' /\ Busy'
    OBVIOUS
  <2>. USE ConstantTypes
  <2>0. gc \in [Collectors -> Places] /\ store \in [Names -> Activity]
    BY DEF TypeOK, Places
  <2>1. ASSUME NEW n \in Names, Start(n) PROVE TypeOK' /\ Busy'
    <3>. DEFINE new == [name |-> n, run |-> store[n].run + 1]
    <3>1. new \in Runs /\ store[n].run + 1 \in Nat
      BY <2>0 DEF Runs, Activity
    <3>2. store' \in [Names -> Activity]
      <4>1. PICK s \in Time \cup {Nil} :
              store' = [store EXCEPT ![n] = [status |-> "running", run |-> store[n].run + 1,
                                             started |-> s, completed |-> Nil]]
        BY <2>1 DEF Start, TypeOK
      <4>. QED
        BY <2>0, <3>1, <4>1 DEF Activity
    <3>3. jobs' \subseteq LighthouseJobs
      <4>1. jobs' = jobs \cup {[of |-> new, index |-> i] : i \in 1 .. JobsOf[n]}
        BY <2>1 DEF Start
      <4>2. \A i \in 1 .. JobsOf[n] : i \in Nat
        OBVIOUS
      <4>. QED
        BY <3>1, <4>1, <4>2 DEF TypeOK, LighthouseJobs
    <3>4. pipelineRuns' \subseteq Runs
      BY <2>1, <3>1 DEF Start, TypeOK
    <3>. QED
      BY <2>1, <3>2, <3>3, <3>4 DEF Start, TypeOK, Busy
  <2>2. ASSUME NEW n \in Names, Terminate(n) PROVE TypeOK' /\ Busy'
    <3>1. PICK t \in Time \cup {Nil} :
            /\ store' = [store EXCEPT ![n].status = "terminated", ![n].completed = t]
            /\ finished' = finished \cup {[Item(n) EXCEPT !.completed = t]}
      BY <2>2 DEF Terminate, TypeOK
    <3>2. store' \in [Names -> Activity]
      <4>1. [store[n] EXCEPT !.status = "terminated", !.completed = t] \in Activity
        BY <2>0, ActivityChanged
      <4>. QED
        BY <2>0, <3>1, <4>1
    <3>3. finished' \subseteq Items
      <4>1. [Item(n) EXCEPT !.completed = t] \in Items
        BY ItemType DEF Items
      <4>. QED
        BY <3>1, <4>1 DEF TypeOK
    <3>. QED
      BY <2>2, <3>2, <3>3 DEF Terminate, TypeOK, Busy
  <2>3. CASE Tick
    BY <2>3 DEF Tick, TypeOK, Busy, Time
  <2>4. ASSUME NEW c \in Collectors, NEW place \in Places, gc' = [gc EXCEPT ![c] = place],
               place.pc # "idle" => place.todo # <<>>
        PROVE  gc' \in [Collectors -> Places] /\ Busy'
    BY <2>0, <2>4 DEF Busy
  <2>5. ASSUME NEW c \in Collectors, List(c) PROVE TypeOK' /\ Busy'
    <3>1. PICK order \in NewestFirst(Terminated) : \E todo \in DeletionOrders(order) :
            todo # <<>> /\ gc' = [gc EXCEPT ![c] = [pc |-> "listJobs", todo |-> todo, listed |-> {}]]
      BY <2>5 DEF List
    <3>2. PICK todo \in DeletionOrders(order) :
            todo # <<>> /\ gc' = [gc EXCEPT ![c] = [pc |-> "listJobs", todo |-> todo, listed |-> {}]]
      BY <3>1
    <3>3. Doomed(order) \subseteq Items
      <4>1. Terminated \subseteq Items
        BY ItemType DEF Terminated
      <4>. QED
        BY <4>1 DEF Doomed, Reached, NewestFirst
    <3>4. todo \in Seq(Items)
      BY <3>3, ListedTodo, SeqMonotonic
    <3>5. [pc |-> "listJobs", todo |-> todo, listed |-> {}] \in Places
      BY <3>4 DEF Places
    <3>. QED
      BY <2>4, <2>5, <3>2, <3>5 DEF List, TypeOK, Places
  <2>6. ASSUME NEW c \in Collectors, gc[c].pc # "idle", NEW S \in SUBSET LighthouseJobs
        PROVE  WithJobs(c, S) \in Places /\ WithJobs(c, S).todo # <<>>
    BY <2>0, <2>6 DEF WithJobs, Places, Busy
  <2>7. ASSUME NEW c \in Collectors, ListJobs(c) PROVE TypeOK' /\ Busy'
    <3>1. Selected(Victim(c)) \subseteq LighthouseJobs
      BY DEF Selected, TypeOK
    <3>. QED
      BY <2>4, <2>6, <2>7, <3>1 DEF ListJobs, TypeOK, Places
  <2>8. ASSUME NEW c \in Collectors, DeleteJob(c) PROVE TypeOK' /\ Busy'
    <3>1. jobs' \subseteq LighthouseJobs /\ UNCHANGED <<now, store, finished, pipelineRuns, faults>>
      BY <2>8 DEF DeleteJob, TypeOK
    <3>2. gc[c].listed \subseteq LighthouseJobs /\ gc[c].pc # "idle"
      BY <2>0, <2>8 DEF Places, DeleteJob
    <3>3. PICK place : gc' = [gc EXCEPT ![c] = place] /\ (place = Idle \/ \E j \in gc[c].listed : place = WithJobs(c, gc[c].listed \ {j}))
      BY <2>8 DEF DeleteJob
    <3>4. place \in Places /\ (place.pc # "idle" => place.todo # <<>>)
      <4>1. CASE place = Idle
        BY <4>1, IdleType DEF Idle
      <4>2. ASSUME NEW j \in gc[c].listed, place = WithJobs(c, gc[c].listed \ {j})
            PROVE  place \in Places /\ (place.pc # "idle" => place.todo # <<>>)
        <5>1. gc[c].listed \ {j} \in SUBSET LighthouseJobs
          BY <3>2
        <5>. QED
          BY <2>6, <3>2, <4>2, <5>1
      <4>. QED
        BY <3>3, <4>1, <4>2
    <3>. QED
      BY <2>4, <3>1, <3>3, <3>4 DEF TypeOK, Places
  <2>9. ASSUME NEW c \in Collectors, DeletePipelineRun(c) PROVE TypeOK' /\ Busy'
    BY <2>9 DEF DeletePipelineRun, TypeOK, Busy
  <2>10. ASSUME NEW c \in Collectors, DeleteActivity(c) PROVE TypeOK' /\ Busy'
    <3>1. /\ Victim(c) \in Items
          /\ Continue(c) \in Places
          /\ Continue(c).pc # "idle" => Continue(c).todo # <<>>
      BY <2>10, VictimIsItem DEF DeleteActivity
    <3>2. Idle \in Places /\ Idle.pc = "idle"
      BY IdleType DEF Idle
    <3>3. PICK place \in {Idle, Continue(c)} : gc' = [gc EXCEPT ![c] = place]
      BY <2>10 DEF DeleteActivity
    <3>4. store' \in [Names -> Activity]
      <4>1. CASE store' = store
        BY <2>0, <4>1
      <4>2. CASE store' = Deleted(Victim(c).name)
        <5>1. Victim(c).name \in Names
          BY <3>1 DEF Items
        <5>2. [store[Victim(c).name] EXCEPT !.status = "absent", !.started = Nil, !.completed = Nil] \in Activity
          BY <2>0, <5>1, ActivityChanged
        <5>. QED
          BY <2>0, <4>2, <5>1, <5>2 DEF Deleted
      <4>. QED
        BY <2>10, <4>1, <4>2 DEF DeleteActivity
    <3>5. gc' \in [Collectors -> Places] /\ Busy'
      BY <2>4, <3>1, <3>2, <3>3
    <3>. QED
      BY <2>10, <3>4, <3>5 DEF DeleteActivity, TypeOK, Places
  <2>11. ASSUME NEW c \in Collectors, Fault(c) PROVE TypeOK' /\ Busy'
    <3>1. faults' \in 0 .. MaxFaults /\ UNCHANGED <<now, store, finished, jobs, pipelineRuns>>
      BY <2>11 DEF Fault, TypeOK
    <3>2. CASE gc' = [gc EXCEPT ![c] = Idle]
      <4>1. Idle.pc = "idle"
        BY DEF Idle
      <4>. QED
        BY <2>4, <3>1, <3>2, <4>1, IdleType DEF TypeOK, Places
    <3>3. CASE gc[c].pc = "pipelineRun" /\ gc' = [gc EXCEPT ![c].pc = "activity"]
      BY <3>1, <3>3 DEF TypeOK, Busy
    <3>. QED
      BY <2>11, <3>2, <3>3 DEF Fault
  <2>12. CASE UNCHANGED vars
    BY <2>12 DEF TypeOK, Busy, vars
  <2>. QED
    BY <2>1, <2>2, <2>3, <2>5, <2>7, <2>8, <2>9, <2>10, <2>11, <2>12 DEF Next, Collect
<1>. QED
  BY <1>1, <1>2, PTL DEF Spec

-----------------------------------------------------------------------------

(* Why a snapshot may be old.  Whatever is on the list of a collector is   *)
(* expendable, for good; and what the collector has already done for its   *)
(* victim - the jobs first, then the run - cannot be undone, as resources  *)
(* are only created along with an activity of a later run.                 *)
ListsExpendable == \A c \in Collectors : gc[c].todo \in Seq(Expendable)

JobsFirst ==
  \A c \in Collectors :
    ~ DryRun /\ gc[c].pc \in {"deleteJob", "pipelineRun", "activity"} =>
      \A j \in jobs : j.of = RunOf(Victim(c)) => gc[c].pc = "deleteJob" /\ j \in gc[c].listed

RunsFirst ==
  \A c \in Collectors :
    ~ DryRun /\ gc[c].pc = "activity" /\ RunOf(Victim(c)) \in pipelineRuns => faults > 0

Inv == FinishedKnown /\ ResourcesKnown /\ ListsExpendable /\ JobsFirst /\ RunsFirst

LEMMA InvInit == Init => Inv
<1>. SUFFICES ASSUME Init PROVE Inv
  OBVIOUS
<1>1. \A c \in Collectors : gc[c].pc = "idle" /\ gc[c].todo = <<>>
  BY DEF Init, Idle
<1>2. FinishedKnown /\ ResourcesKnown
  BY FS_EmptySet DEF Init, FinishedKnown, ResourcesKnown
<1>. QED
  BY <1>1, <1>2, EmptySeq DEF Inv, ListsExpendable, JobsFirst, RunsFirst

(* What a collector that is not idle has at the head of its list.          *)
LEMMA VictimExpendable ==
  ASSUME TypeOK, Busy, ListsExpendable, NEW c \in Collectors, gc[c].pc # "idle"
  PROVE  /\ Victim(c) \in Expendable /\ Victim(c) \in finished /\ Victim(c).name \in Names
         /\ Idle.todo \in Seq(Expendable) /\ Continue(c).todo \in Seq(Expendable)
<1>1. gc[c].todo \in Seq(Expendable) /\ gc[c].todo # <<>>
  BY DEF Busy, ListsExpendable
<1>2. /\ Head(gc[c].todo) \in Expendable
      /\ Tail(gc[c].todo) \in Seq(Expendable)
      /\ <<>> \in Seq(Expendable)
  BY <1>1, HeadTailProperties, EmptySeq
<1>. QED
  BY <1>2 DEF Victim, Idle, Continue, Expendable, TypeOK, Items

(* Where names and times stay, and nothing terminates or is created, what  *)
(* is known stays known.                                                   *)
LEMMA KnownStays ==
  ASSUME TypeOK, FinishedKnown, ResourcesKnown, finished' = finished,
         jobs' \subseteq jobs, pipelineRuns' \subseteq pipelineRuns,
         \A n \in Names : store'[n] = store[n] \/ (store'[n].run = store[n].run /\ store'[n].status = "absent")
  PROVE  FinishedKnown' /\ ResourcesKnown'
<1>1. ASSUME NEW n \in Names PROVE store'[n].run = store[n].run
  OBVIOUS
<1>2. ASSUME NEW n \in Names, store'[n].status = "terminated" PROVE store[n].status = "terminated" /\ Item(n)' = Item(n)
  BY <1>2 DEF Item
<1>3. \A a \in finished : a.name \in Names
  BY DEF TypeOK, Items
<1>4. FinishedKnown'
  <2>1. ASSUME NEW a \in finished
        PROVE  /\ a.run <= store'[a.name].run
               /\ a.run = store'[a.name].run =>
                    \/ store'[a.name].status = "absent"
                    \/ store'[a.name].status = "terminated" /\ Item(a.name)' = a
    <3>1. CASE store'[a.name] = store[a.name]
      BY <3>1 DEF FinishedKnown, Item
    <3>2. CASE store'[a.name].run = store[a.name].run /\ store'[a.name].status = "absent"
      BY <3>2 DEF FinishedKnown
    <3>. QED
      BY <1>3, <3>1, <3>2
  <2>2. ASSUME NEW n \in Names, store'[n].status = "terminated" PROVE Item(n)' \in finished
    BY <1>2, <2>2 DEF FinishedKnown
  <2>. QED
    BY <2>1, <2>2 DEF FinishedKnown
<1>5. \A j \in jobs : j.of.name \in Names
  BY DEF TypeOK, LighthouseJobs, Runs
<1>6. \A r \in pipelineRuns : r.name \in Names
  BY DEF TypeOK, Runs
<1>7. ResourcesKnown'
  BY <1>1, <1>5, <1>6 DEF ResourcesKnown
<1>. QED
  BY <1>4, <1>7

LEMMA InvNext == TypeOK /\ TypeOK' /\ Busy /\ Inv /\ [Next]_vars => Inv'
<1>. SUFFICES ASSUME TypeOK, TypeOK', Busy, Inv, [Next]_vars PROVE Inv'
  OBVIOUS
<1>. USE DEF Inv
<1>0. now \in Nat /\ faults \in Nat
  BY ConstantTypes DEF TypeOK
<1>1. ASSUME now <= now', finished \subseteq finished', FinishedKnown', 
             \A c \in Collectors : gc'[c].todo \in Seq(Expendable)
      PROVE  ListsExpendable'
  <2>1. Expendable \subseteq Expendable'
    BY <1>1, ExpendableForGood DEF FinishedKnown
  <2>. QED
    BY <1>1, <2>1, SeqMonotonic DEF ListsExpendable
<1>2. ASSUME NEW n \in Names, Start(n) PROVE Inv'
  <2>. DEFINE new == [name |-> n, run |-> store[n].run + 1]
  <2>1. /\ store[n].status = "absent"
        /\ store'[n].status = "running" /\ store'[n].run = store[n].run + 1
        /\ \A m \in Names : m # n => store'[m] = store[m]
        /\ \A j \in jobs' \ jobs : j.of = new /\ JobsOf[n] # 0
        /\ pipelineRuns' = pipelineRuns \cup {new}
        /\ UNCHANGED <<now, finished, gc, faults>>
    <3>1. jobs' = jobs \cup {[of |-> new, index |-> i] : i \in 1 .. JobsOf[n]}
      BY <1>2 DEF Start
    <3>2. \A i \in 1 .. JobsOf[n] : JobsOf[n] # 0
      BY ConstantTypes
    <3>3. PICK s : store' = [store EXCEPT ![n] = [status |-> "running", run |-> store[n].run + 1,
                                                  started |-> s, completed |-> Nil]]
      BY <1>2 DEF Start
    <3>. QED
      BY <1>2, <3>1, <3>2, <3>3 DEF Start, TypeOK
  <2>2. store[n].run \in Nat
    BY DEF TypeOK, Activity
  <2>3. FinishedKnown'
    <3>1. ASSUME NEW m \in Names, store'[m].status = "terminated" PROVE Item(m)' \in finished'
      <4>1. m # n /\ Item(m)' = Item(m)
        BY <2>1, <3>1 DEF Item
      <4>. QED
        BY <2>1, <3>1, <4>1 DEF FinishedKnown
    <3>2. ASSUME NEW a \in finished'
          PROVE  /\ a.run <= store'[a.name].run
                 /\ a.run = store'[a.name].run =>
                      \/ store'[a.name].status = "absent"
                      \/ store'[a.name].status = "terminated" /\ Item(a.name)' = a
      <4>1. a \in finished /\ a.name \in Names /\ a.run \in Nat /\ a.run <= store[a.name].run
        BY <2>1 DEF TypeOK, Items, FinishedKnown
      <4>2. CASE a.name = n
        BY <2>1, <2>2, <4>1, <4>2
      <4>3. CASE a.name # n
        BY <2>1, <4>1, <4>3 DEF FinishedKnown, Item
      <4>. QED
        BY <4>2, <4>3
    <3>. QED
      BY <2>1, <3>1, <3>2 DEF FinishedKnown
  <2>4. ResourcesKnown'
    <3>1. ASSUME NEW m \in Names PROVE store[m].run \in Nat /\ store[m].run <= store'[m].run
      <4>1. store[m].run \in Nat
        BY DEF TypeOK, Activity
      <4>. QED
        BY <2>1, <4>1
    <3>2. ASSUME NEW j \in jobs' PROVE j.of.run <= store'[j.of.name].run /\ JobsOf[j.of.name] # 0
      <4>1. CASE j \in jobs
        <5>1. j.of.name \in Names /\ j.of.run \in Nat /\ store'[j.of.name].run \in Nat
          BY <4>1 DEF TypeOK, LighthouseJobs, Runs, Activity
        <5>. QED
          BY <3>1, <4>1, <5>1 DEF ResourcesKnown
      <4>2. CASE j \notin jobs
        BY <2>1, <2>2, <4>2
      <4>. QED
        BY <4>1, <4>2
    <3>3. ASSUME NEW r \in pipelineRuns' PROVE r.run <= store'[r.name].run
      <4>1. CASE r \in pipelineRuns
        <5>1. r.name \in Names /\ r.run \in Nat /\ store'[r.name].run \in Nat
          BY <4>1 DEF TypeOK, Runs, Activity
        <5>. QED
          BY <3>1, <4>1, <5>1 DEF ResourcesKnown
      <4>2. CASE r \notin pipelineRuns
        BY <2>1, <2>2, <4>2
      <4>. QED
        BY <4>1, <4>2
    <3>. QED
      BY <3>2, <3>3 DEF ResourcesKnown
  <2>5. ListsExpendable'
    BY <1>0, <1>1, <2>1, <2>3 DEF ListsExpendable
  <2>6. ASSUME NEW c \in Collectors, gc[c].pc # "idle" PROVE RunOf(Victim(c)) # new /\ RunOf(Victim(c))' = RunOf(Victim(c))
    <3>1. /\ Victim(c) \in finished /\ Victim(c).run \in Nat
          /\ Victim(c).run <= store[Victim(c).name].run
      BY <2>6, VictimExpendable DEF FinishedKnown, TypeOK, Items
    <3>2. Victim(c)' = Victim(c)
      BY <2>1 DEF Victim
    <3>. QED
      BY <2>2, <3>1, <3>2 DEF RunOf
  <2>7. JobsFirst'
    BY <2>1, <2>6 DEF JobsFirst
  <2>8. RunsFirst'
    BY <2>1, <2>6 DEF RunsFirst
  <2>. QED
    BY <2>3, <2>4, <2>5, <2>7, <2>8
<1>3. ASSUME NEW n \in Names, Terminate(n) PROVE Inv'
  <2>1. PICK t : /\ store' = [store EXCEPT ![n].status = "terminated", ![n].completed = t]
                 /\ finished' = finished \cup {[Item(n) EXCEPT !.completed = t]}
    BY <1>3 DEF Terminate
  <2>2. /\ store[n].status = "running"
        /\ store'[n].status = "terminated" /\ store'[n].run = store[n].run
        /\ finished' = finished \cup {Item(n)'}
        /\ Item(n)'.name = n /\ Item(n)'.run = store[n].run
        /\ \A m \in Names : m # n => store'[m] = store[m]
        /\ UNCHANGED <<now, jobs, pipelineRuns, gc, faults>>
    <3>1. [Item(n) EXCEPT !.completed = t] = Item(n)'
      BY <2>1 DEF Item, TypeOK, Activity
    <3>. QED
      BY <1>3, <2>1, <3>1 DEF Terminate, Item, TypeOK, Activity
  <2>3. FinishedKnown'
    <3>1. ASSUME NEW m \in Names, store'[m].status = "terminated" PROVE Item(m)' \in finished'
      <4>1. CASE m = n
        BY <2>2, <4>1
      <4>2. CASE m # n
        <5>1. Item(m)' = Item(m) /\ store[m].status = "terminated"
          BY <2>2, <3>1, <4>2 DEF Item
        <5>. QED
          BY <2>2, <5>1 DEF FinishedKnown
      <4>. QED
        BY <4>1, <4>2
    <3>2. ASSUME NEW a \in finished'
          PROVE  /\ a.run <= store'[a.name].run
                 /\ a.run = store'[a.name].run =>
                      \/ store'[a.name].status = "absent"
                      \/ store'[a.name].status = "terminated" /\ Item(a.name)' = a
      <4>0. store[n].run \in Nat
        BY DEF TypeOK, Activity
      <4>1. CASE a \in finished
        <5>1. a.name \in Names
          BY <4>1 DEF TypeOK, Items
        <5>2. CASE a.name = n
          BY <2>2, <4>1, <5>2 DEF FinishedKnown
        <5>3. CASE a.name # n
          BY <2>2, <4>1, <5>1, <5>3 DEF FinishedKnown, Item
        <5>. QED
          BY <5>2, <5>3
      <4>2. CASE a = Item(n)'
        BY <2>2, <4>0, <4>2
      <4>. QED
        BY <2>2, <4>1, <4>2
    <3>3. IsFiniteSet(finished')
      BY <2>2, FS_AddElement DEF FinishedKnown
    <3>. QED
      BY <3>1, <3>2, <3>3 DEF FinishedKnown
  <2>4. ResourcesKnown'
    <3>1. \A m \in Names : store'[m].run = store[m].run
      BY <2>2
    <3>2. (\A j \in jobs : j.of.name \in Names) /\ (\A r \in pipelineRuns : r.name \in Names)
      BY DEF TypeOK, LighthouseJobs, Runs
    <3>. QED
      BY <2>2, <3>1, <3>2 DEF ResourcesKnown
  <2>5. ListsExpendable'
    BY <1>0, <1>1, <2>2, <2>3 DEF ListsExpendable
  <2>6. JobsFirst' /\ RunsFirst'
    BY <2>2 DEF JobsFirst, RunsFirst, Victim, RunOf
  <2>. QED
    BY <2>3, <2>4, <2>5, <2>6
<1>4. CASE Tick \/ UNCHANGED vars
  <2>1. UNCHANGED <<store, finished, jobs, pipelineRuns, gc, faults>> /\ now <= now'
    BY <1>0, <1>4 DEF Tick, vars
  <2>2. FinishedKnown' /\ ResourcesKnown'
    BY <2>1, KnownStays
  <2>3. ListsExpendable'
    BY <1>1, <2>1, <2>2 DEF ListsExpendable
  <2>4. JobsFirst' /\ RunsFirst'
    BY <2>1 DEF JobsFirst, RunsFirst, Victim, RunOf
  <2>. QED
    BY <2>2, <2>3, <2>4
(* What the steps of a collector have in common: it deletes, goes on with  *)
(* its victim or with a next one, or becomes idle.                         *)
<1>5. ASSUME NEW c \in Collectors,
             UNCHANGED <<now, finished>>, jobs' \subseteq jobs, pipelineRuns' \subseteq pipelineRuns,
             \A n \in Names : store'[n] = store[n] \/ (store'[n].run = store[n].run /\ store'[n].status = "absent"),
             faults' \in Nat, faults <= faults',
             \A d \in Collectors : d # c => gc'[d] = gc[d],
             gc'[c].todo \in Seq(Expendable),
             ~ DryRun /\ gc'[c].pc \in {"deleteJob", "pipelineRun", "activity"} =>
               \A j \in jobs' : j.of = RunOf(Victim(c)') => gc'[c].pc = "deleteJob" /\ j \in gc'[c].listed,
             ~ DryRun /\ gc'[c].pc = "activity" /\ RunOf(Victim(c)') \in pipelineRuns' => faults' > 0
      PROVE  Inv'
  <2>1. FinishedKnown' /\ ResourcesKnown'
    BY <1>5, KnownStays
  <2>2. ListsExpendable'
    BY <1>0, <1>1, <1>5, <2>1 DEF ListsExpendable
  <2>3. ASSUME NEW d \in Collectors, d # c
        PROVE  /\ ~ DryRun /\ gc'[d].pc \in {"deleteJob", "pipelineRun", "activity"} =>
                    \A j \in jobs' : j.of = RunOf(Victim(d)') => gc'[d].pc = "deleteJob" /\ j \in gc'[d].listed
               /\ ~ DryRun /\ gc'[d].pc = "activity" /\ RunOf(Victim(d)') \in pipelineRuns' => faults' > 0
    <3>1. gc'[d] = gc[d] /\ Victim(d)' = Victim(d)
      BY <1>5, <2>3 DEF Victim
    <3>2. ~ DryRun /\ gc[d].pc \in {"deleteJob", "pipelineRun", "activity"} =>
            \A j \in jobs : j.of = RunOf(Victim(d)) => gc[d].pc = "deleteJob" /\ j \in gc[d].listed
      BY DEF JobsFirst
    <3>3. ~ DryRun /\ gc[d].pc = "activity" /\ RunOf(Victim(d)) \in pipelineRuns => faults > 0
      BY DEF RunsFirst
    <3>. QED
      BY <1>0, <1>5, <3>1, <3>2, <3>3
  <2>4. JobsFirst'
    BY <1>5, <2>3 DEF JobsFirst, RunOf
  <2>5. RunsFirst'
    BY <1>5, <2>3 DEF RunsFirst, RunOf
  <2>. QED
    BY <2>1, <2>2, <2>4, <2>5
<1>6. ASSUME NEW c \in Collectors, List(c) PROVE Inv'
  <2>1. PICK order \in NewestFirst(Terminated) : \E todo \in DeletionOrders(order) :
          todo # <<>> /\ gc' = [gc EXCEPT ![c] = [pc |-> "listJobs", todo |-> todo, listed |-> {}]]
    BY <1>6 DEF List
  <2>2. PICK todo \in DeletionOrders(order) :
          todo # <<>> /\ gc' = [gc EXCEPT ![c] = [pc |-> "listJobs", todo |-> todo, listed |-> {}]]
    BY <2>1
  <2>3. todo \in Seq(Expendable)
    BY DoomedAreExpendable, ListedTodo, SeqMonotonic
  <2>4. /\ gc'[c].pc = "listJobs" /\ gc'[c].todo = todo
        /\ \A d \in Collectors : d # c => gc'[d] = gc[d]
        /\ UNCHANGED <<now, store, finished, jobs, pipelineRuns, faults>>
    BY <1>6, <2>2 DEF List, TypeOK
  <2>. QED
    BY <1>0, <1>5, <2>3, <2>4
<1>7. ASSUME NEW c \in Collectors, ListJobs(c) PROVE Inv'
  <2>1. /\ gc[c].pc # "idle" /\ gc'[c] = WithJobs(c, Selected(Victim(c)))
        /\ \A d \in Collectors : d # c => gc'[d] = gc[d]
        /\ UNCHANGED <<now, store, finished, jobs, pipelineRuns, faults>>
    BY <1>7 DEF ListJobs, TypeOK
  <2>2. /\ gc'[c].todo = gc[c].todo /\ gc'[c].listed = Selected(Victim(c))
        /\ gc'[c].pc = IF Selected(Victim(c)) = {} THEN "pipelineRun" ELSE "deleteJob"
        /\ Victim(c)' = Victim(c)
    BY <2>1 DEF WithJobs, Victim, TypeOK
  <2>3. gc'[c].todo \in Seq(Expendable)
    BY <2>2 DEF ListsExpendable
  <2>4. ASSUME NEW j \in jobs, j.of = RunOf(Victim(c)) PROVE j \in Selected(Victim(c))
    BY <2>4 DEF Selected, RunOf, ResourcesKnown
  <2>. QED
    BY <1>0, <1>5, <2>1, <2>2, <2>3, <2>4
<1>8. ASSUME NEW c \in Collectors, DeleteJob(c) PROVE Inv'
  <2>1. /\ gc[c].pc = "deleteJob"
        /\ \A d \in Collectors : d # c => gc'[d] = gc[d]
        /\ jobs' \subseteq jobs
        /\ UNCHANGED <<now, store, finished, pipelineRuns, faults>>
    BY <1>8 DEF DeleteJob, TypeOK
  <2>2. CASE gc'[c] = Idle
    <3>1. gc'[c].todo \in Seq(Expendable)
      BY <2>1, <2>2, VictimExpendable
    <3>2. gc'[c].pc = "idle"
      BY <2>2 DEF Idle
    <3>. QED
      BY <1>0, <1>5, <2>1, <3>1, <3>2
  <2>3. CASE \E j \in gc[c].listed : gc'[c] = WithJobs(c, gc[c].listed \ {j}) /\ (~ DryRun => j \notin jobs')
    <3>1. PICK j \in gc[c].listed : gc'[c] = WithJobs(c, gc[c].listed \ {j}) /\ (~ DryRun => j \notin jobs')
      BY <2>3
    <3>2. /\ gc'[c].todo = gc[c].todo /\ gc'[c].listed = gc[c].listed \ {j}
          /\ gc'[c].pc = IF gc[c].listed \ {j} = {} THEN "pipelineRun" ELSE "deleteJob"
          /\ Victim(c)' = Victim(c)
      BY <3>1 DEF WithJobs, Victim, TypeOK
    <3>3. gc'[c].todo \in Seq(Expendable)
      BY <3>2 DEF ListsExpendable
    <3>4. ASSUME ~ DryRun, NEW k \in jobs', k.of = RunOf(Victim(c)) PROVE k \in gc[c].listed \ {j}
      BY <2>1, <3>1, <3>4 DEF JobsFirst
    <3>. QED
      BY <1>0, <1>5, <2>1, <3>2, <3>3, <3>4
  <2>. QED
    BY <1>8, <2>2, <2>3 DEF DeleteJob, TypeOK
<1>9. ASSUME NEW c \in Collectors, DeletePipelineRun(c) PROVE Inv'
  <2>1. /\ gc[c].pc = "pipelineRun" /\ gc'[c].todo = gc[c].todo /\ gc'[c].pc = "activity"
        /\ \A d \in Collectors : d # c => gc'[d] = gc[d]
        /\ pipelineRuns' \subseteq pipelineRuns
        /\ ~ DryRun => RunOf(Victim(c)) \notin pipelineRuns'
        /\ UNCHANGED <<now, store, finished, jobs, faults>>
    BY <1>9 DEF DeletePipelineRun, TypeOK
  <2>2. Victim(c)' = Victim(c) /\ gc'[c].todo \in Seq(Expendable)
    BY <2>1 DEF Victim, ListsExpendable
  <2>3. ~ DryRun => \A j \in jobs : j.of # RunOf(Victim(c))
    BY <2>1 DEF JobsFirst
  <2>. QED
    BY <1>0, <1>5, <2>1, <2>2, <2>3
<1>10. ASSUME NEW c \in Collectors, DeleteActivity(c) PROVE Inv'
  <2>1. /\ gc[c].pc = "activity" /\ gc'[c] \in {Idle, Continue(c)}
        /\ \A d \in Collectors : d # c => gc'[d] = gc[d]
        /\ UNCHANGED <<now, finished, jobs, pipelineRuns, faults>>
    BY <1>10 DEF DeleteActivity, TypeOK
  <2>2. gc'[c].todo \in Seq(Expendable) /\ gc'[c].pc \in {"idle", "listJobs"}
    <3>1. Idle.pc = "idle"
      BY DEF Idle
    <3>. QED
      BY <2>1, <3>1, VictimExpendable, VictimIsItem
  <2>3. \A n \in Names : store'[n] = store[n] \/ (store'[n].run = store[n].run /\ store'[n].status = "absent")
    <3>1. store' = store \/ store' = Deleted(Victim(c).name)
      BY <1>10 DEF DeleteActivity
    <3>2. Victim(c).name \in Names /\ store[Victim(c).name] \in Activity
      BY <2>1, VictimExpendable DEF TypeOK
    <3>. DEFINE gone == [store[Victim(c).name] EXCEPT !.status = "absent", !.started = Nil, !.completed = Nil]
    <3>3. CASE store' = Deleted(Victim(c).name)
      <4>1. gone.status = "absent" /\ gone.run = store[Victim(c).name].run
        BY <3>2, ActivityChanged
      <4>2. store' = [store EXCEPT ![Victim(c).name] = gone]
        BY <3>3 DEF Deleted
      <4>. HIDE DEF gone
      <4>. QED
        BY <3>2, <4>1, <4>2 DEF TypeOK
    <3>. QED
      BY <3>1, <3>3
  <2>. QED
    BY <1>0, <1>5, <2>1, <2>2, <2>3
<1>11. ASSUME NEW c \in Collectors, Fault(c) PROVE Inv'
  <2>1. /\ gc[c].pc # "idle"
        /\ \A d \in Collectors : d # c => gc'[d] = gc[d]
        /\ faults' = faults + 1
        /\ UNCHANGED <<now, store, finished, jobs, pipelineRuns>>
    BY <1>11 DEF Fault, TypeOK
  <2>2. CASE gc'[c] = Idle
    <3>1. gc'[c].todo \in Seq(Expendable)
      BY <2>1, <2>2, VictimExpendable
    <3>2. gc'[c].pc = "idle"
      BY <2>2 DEF Idle
    <3>. QED
      BY <1>0, <1>5, <2>1, <3>1, <3>2
  <2>3. CASE gc[c].pc = "pipelineRun" /\ gc'[c].todo = gc[c].todo /\ gc'[c].pc = "activity"
    <3>1. Victim(c)' = Victim(c) /\ gc'[c].todo \in Seq(Expendable)
      BY <2>3 DEF Victim, ListsExpendable
    <3>2. ~ DryRun => \A j \in jobs : j.of # RunOf(Victim(c))
      BY <2>3 DEF JobsFirst
    <3>. QED
      BY <1>0, <1>5, <2>1, <2>3, <3>1, <3>2
  <2>. QED
    BY <1>11, <2>2, <2>3 DEF Fault, TypeOK
<1>. QED
  BY <1>2, <1>3, <1>4, <1>6, <1>7, <1>8, <1>9, <1>10, <1>11 DEF Next, Collect

LEMMA InvAlways == Spec => [](TypeOK /\ Busy /\ Inv)
BY TypeCorrect, InvInit, InvNext, PTL DEF Spec

(* When an activity goes, a collector had found it on its list, or another *)
(* one that had its name before; and it had deleted the jobs of what it    *)
(* had found, and, if no call failed, the PipelineRun.                     *)
LEMMA WhatGoes ==
  ASSUME TypeOK, Busy, Inv, [Next]_vars, NEW n \in Names, Goes(n)
  PROVE  /\ ~ DryRun
         /\ UNCHANGED <<jobs, pipelineRuns, faults>>
         /\ \/ TakenOver(n) /\ \E a \in finished : a.name = n /\ a.run < store[n].run
            \/ /\ store[n].status = "terminated" /\ Item(n) \in Expendable
               /\ \A j \in jobs : j.of # RunOf(Item(n))
               /\ RunOf(Item(n)) \in pipelineRuns => faults > 0
<1>. USE DEF Inv
<1>1. ASSUME NEW m \in Names, Start(m) \/ Terminate(m) PROVE FALSE
  <2>1. CASE Start(m)
    <3>1. PICK s : store' = [store EXCEPT ![m] = [status |-> "running", run |-> store[m].run + 1,
                                                  started |-> s, completed |-> Nil]]
      BY <2>1 DEF Start
    <3>. QED
      BY <3>1 DEF Goes, Exists, TypeOK
  <2>2. CASE Terminate(m)
    <3>1. PICK t : store' = [store EXCEPT ![m].status = "terminated", ![m].completed = t]
      BY <2>2 DEF Terminate
    <3>. QED
      BY <3>1 DEF Goes, Exists, TypeOK, Activity
  <2>. QED
    BY <1>1, <2>1, <2>2
<1>2. store' # store
  BY DEF Goes, Exists
<1>3. PICK c \in Collectors : DeleteActivity(c)
  BY <1>1, <1>2 DEF Next, Collect, Tick, List, ListJobs, DeleteJob, DeletePipelineRun, Fault, vars
<1>4. /\ gc[c].pc = "activity" /\ ~ DryRun /\ store' = Deleted(Victim(c).name)
      /\ gc'[c] = Continue(c)
      /\ UNCHANGED <<jobs, pipelineRuns, faults>>
  BY <1>2, <1>3 DEF DeleteActivity, TypeOK
<1>5. Victim(c).name = n
  BY <1>4 DEF Deleted, Goes, Exists, TypeOK
<1>6. /\ Victim(c) \in Expendable /\ Victim(c) \in finished
      /\ Continue(c).pc \in {"idle", "listJobs"}
  BY <1>4, VictimExpendable, VictimIsItem
<1>7. Victim(c).run \in Nat /\ store[n].run \in Nat /\ Victim(c).run <= store[n].run
  BY <1>5, <1>6 DEF FinishedKnown, TypeOK, Items, Activity
<1>8. CASE Victim(c).run < store[n].run
  <2>1. gc'[c] # gc[c]
    BY <1>4, <1>6
  <2>. QED
    BY <1>4, <1>5, <1>6, <1>8, <2>1 DEF TakenOver
<1>9. CASE Victim(c).run = store[n].run
  <2>1. store[n].status = "terminated" /\ Item(n) = Victim(c)
    BY <1>5, <1>6, <1>9 DEF FinishedKnown, Goes, Exists
  <2>2. /\ \A j \in jobs : j.of # RunOf(Victim(c))
        /\ RunOf(Victim(c)) \in pipelineRuns => faults > 0
    BY <1>4 DEF JobsFirst, RunsFirst
  <2>. QED
    BY <1>4, <1>6, <2>1, <2>2
<1>. QED
  BY <1>7, <1>8, <1>9

(* However many collectors run at the same time, from however old a list:  *)
(* an activity that has not terminated is only deleted in place of one     *)
(* that had, and whose name it has taken over.                             *)
THEOREM RunningActivitiesKept == Spec => OnlyTerminatedDeleted
<1>1. ASSUME TypeOK, Busy, Inv, [Next]_vars, NEW n \in Names, Goes(n), store[n].status = "running"
      PROVE  TakenOver(n) /\ \E a \in finished : a.name = n /\ a.run < store[n].run
  BY <1>1, WhatGoes
<1>2. TypeOK /\ Busy /\ Inv /\ [Next]_vars =>
        [\A n \in Names : Goes(n) /\ store[n].status = "running" =>
           TakenOver(n) /\ \E a \in finished : a.name = n /\ a.run < store[n].run]_vars
  BY <1>1
<1>. QED
  BY <1>2, InvAlways, PTL DEF Spec, OnlyTerminatedDeleted

(* No job, and without failing API calls no run, outlives the activity     *)
(* through which the collector would find it, unless another activity goes *)
(* in place of it.                                                         *)
THEOREM ActivityDeletedLast == Spec => NoOrphans
<1>1. ASSUME TypeOK, Busy, Inv, [Next]_vars, NEW n \in Names, Goes(n), ~ TakenOver(n)
      PROVE  /\ \A j \in jobs' : j.of # RunOf(Item(n))
             /\ RunOf(Item(n)) \in pipelineRuns' => faults > 0
  BY <1>1, WhatGoes
<1>2. TypeOK /\ Busy /\ Inv /\ [Next]_vars =>
        [\A n \in Names : Goes(n) =>
           \/ TakenOver(n)
           \/ /\ \A j \in jobs' : j.of # RunOf(Item(n))
              /\ RunOf(Item(n)) \in pipelineRuns' => faults > 0]_vars
  BY <1>1
<1>. QED
  BY <1>2, InvAlways, PTL DEF Spec, NoOrphans

(* Whatever is deleted within its age limit, and not in place of another   *)
(* one, is beyond the history limit of its pipeline: builds of it that     *)
(* completed no earlier make up the limit.                                 *)
THEOREM HistoryKept == Spec => RecentHistoryKept
<1>1. ASSUME TypeOK, Busy, Inv, [Next]_vars, NEW n \in Names, Goes(n), ~ TooOld(Item(n)), ~ TakenOver(n)
      PROVE  Cardinality(Rivals(Item(n))) >= HistoryLimit(PipelineOf[n])
  <2>1. Item(n) \in Expendable /\ Item(n).name = n
    BY <1>1, WhatGoes, ItemType
  <2>. QED
    BY <1>1, <2>1 DEF Expendable
<1>2. TypeOK /\ Busy /\ Inv /\ [Next]_vars =>
        [\A n \in Names : Goes(n) /\ ~ TooOld(Item(n)) =>
           TakenOver(n) \/ Cardinality(Rivals(Item(n))) >= HistoryLimit(PipelineOf[n])]_vars
  BY <1>1
<1>. QED
  BY <1>2, InvAlways, PTL DEF Spec, RecentHistoryKept

(* No call that deletes is made with --dry-run, whatever the list says.    *)
THEOREM DryRunKeepsAll == Spec => DryRunDeletesNothing
<1>. DEFINE Kept == DryRun => /\ jobs \subseteq jobs'
                              /\ pipelineRuns \subseteq pipelineRuns'
                              /\ \A n \in Names : ~ Goes(n)
<1>1. ASSUME [Next]_vars, DryRun PROVE jobs \subseteq jobs' /\ pipelineRuns \subseteq pipelineRuns'
  <2>1. ASSUME NEW n \in Names, Start(n) \/ Terminate(n)
        PROVE  jobs \subseteq jobs' /\ pipelineRuns \subseteq pipelineRuns'
    BY <2>1 DEF Start, Terminate
  <2>2. ASSUME NEW c \in Collectors, Collect(c) \/ Fault(c)
        PROVE  jobs \subseteq jobs' /\ pipelineRuns \subseteq pipelineRuns'
    BY <1>1, <2>2 DEF Collect, List, ListJobs, DeleteJob, DeletePipelineRun, DeleteActivity, Fault
  <2>. QED
    BY <1>1, <2>1, <2>2 DEF Next, Tick, vars
<1>2. ASSUME TypeOK, Busy, Inv, [Next]_vars, DryRun, NEW n \in Names PROVE ~ Goes(n)
  BY <1>2, WhatGoes
<1>3. TypeOK /\ Busy /\ Inv /\ [Next]_vars => [Kept]_vars
  BY <1>1, <1>2
<1>. QED
  BY <1>3, InvAlways, PTL DEF Spec, DryRunDeletesNothing

-----------------------------------------------------------------------------
(* Jobs.                                                                   *)

(* The instance comes with its own Cardinality and IsFiniteSet, which are  *)
(* the same.                                                               *)
LEMMA SameCardinality == \A S : J!Cardinality(S) = Cardinality(S)
  BY Zenon DEF J!Cardinality, Cardinality

LEMMA SameFinite == \A S : J!IsFiniteSet(S) <=> IsFiniteSet(S)
  BY Zenon DEF J!IsFiniteSet, IsFiniteSet

(* What a collector has on its list, or any of them.                       *)
OnList(c) == {entry.name : entry \in jobgc[c]}
OnSomeList == UNION {OnList(c) : c \in Collectors}

(* The jobs that are still there and started no earlier than j.            *)
NoEarlier(j) == {k \in J!Listed : ~ J!StartedBefore(k, j)}

(* Those of them that are on no list, and those that started later.        *)
Safe(j) == NoEarlier(j) \ OnSomeList
Later(j) == {k \in J!Listed : J!StartedBefore(j, k)}

(* A job has a start time unless it was not created or is or was suspended,*)
(* and only what was created is on a list.                                 *)
JobsStamped ==
  /\ \A j \in Jobs :
       /\ jobstore[j].status \in {"absent", "suspended"} => jobstore[j].started = Nil
       /\ jobstore[j].status = "suspended" => jobstore[j].wasSuspended
       /\ jobstore[j].status = "absent" => ~ jobstore[j].wasSuspended
       /\ jobstore[j].status # "absent" /\ ~ jobstore[j].wasSuspended => jobstore[j].started # Nil
  /\ \A j \in OnSomeList : jobstore[j].status # "absent"

(* What collectors may delete, however long ago they listed, or have       *)
(* deleted.                                                                *)
Doubtful == {j \in Jobs : j \in OnSomeList \/ jobstore[j].status = "gone"}

(* When no two jobs start in the same second: enough jobs that are still   *)
(* there started later.                                                    *)
LaterKept == ~ J!SuspendedBefore /\ ~ J!Tied => \A j \in Doubtful : Cardinality(Later(j)) >= Keep

(* When executions do not overlap, there is one list at a time, and enough *)
(* jobs that started no earlier are not on it.                             *)
OneList ==
  ~ joboverlapped => \A c, d \in Collectors : jobgc[c] # {} /\ jobgc[d] # {} => c = d
SafeKept == ~ J!SuspendedBefore /\ ~ joboverlapped => \A j \in Doubtful : Cardinality(Safe(j)) >= Keep

JobLists == jobgc \in [Collectors -> SUBSET [name : Jobs, started : J!Time \cup {Nil}, active : BOOLEAN]]

JobTypes == J!TypeOK /\ JobLists

JobInv == JobTypes /\ JobsStamped /\ LaterKept /\ OneList /\ SafeKept

-----------------------------------------------------------------------------

(* A set of naturals that is not empty has a least element.                *)
LEMMA FirstOfFinite ==
  ASSUME NEW S, S \subseteq Nat, S # {}
  PROVE  \E n \in S : \A m \in S : n <= m
  <1>1. PICK n \in S : \A m \in S : ~ (<<m, n>> \in OpToRel(<, Nat))
    BY WFMin, NatLessThanWellFounded, Zenon
  <1>2. OpToRel(<, Nat) = {ss \in Nat \X Nat : ss[1] < ss[2]}
    BY Zenon DEF OpToRel
  <1>3. \A m \in S : ~ (<<m, n>> \in {ss \in Nat \X Nat : ss[1] < ss[2]})
    BY <1>1, <1>2, Zenon
  <1>4. \A m \in S : ~ (m < n)
    BY <1>3
  <1> QED BY <1>4

(* Subsets of the jobs are finite; a larger one has no fewer elements.     *)
LEMMA JobsFinite ==
  ASSUME J!GcJobsAssumption, NEW S \in SUBSET Jobs
  PROVE  /\ IsFiniteSet(S) /\ Cardinality(S) \in Nat
         /\ \A T \in SUBSET S : Cardinality(T) <= Cardinality(S)
  BY FS_Subset, FS_CardinalityType, SameFinite DEF J!GcJobsAssumption

LEMMA CountsMore ==
  ASSUME J!GcJobsAssumption, NEW S \in SUBSET Jobs, NEW T \in SUBSET S, Cardinality(T) >= Keep
  PROVE  Cardinality(S) >= Keep
  <1>1. Cardinality(S) \in Nat /\ Cardinality(T) \in Nat /\ Cardinality(T) <= Cardinality(S)
    BY JobsFinite
  <1>2. Keep \in Nat
    BY DEF J!GcJobsAssumption
  <1> QED BY <1>1, <1>2

(* In a list sorted by the latest start, of jobs that all started, no job  *)
(* started after one of those in front of it.                              *)
LEMMA SortedWeakly ==
  ASSUME JobTypes, J!GcJobsAssumption,
         \A j \in J!Listed : jobstore[j].started # Nil,
         NEW order \in J!LatestFirst(J!Listed),
         NEW p \in DOMAIN order, NEW q \in DOMAIN order, p < q
  PROVE  ~ J!StartedBefore(order[p], order[q])
  <1> DEFINE n == Cardinality(J!Listed)
  <1>1. n \in Nat
    <2>1. J!Listed \in SUBSET Jobs
      BY DEF J!Listed
    <2> QED BY <2>1, JobsFinite
  <1>2. /\ order \in [1 .. n -> J!Listed]
        /\ \A i \in 1 .. n - 1 : ~ J!StartedBefore(order[i], order[i + 1])
    BY SameCardinality DEF J!LatestFirst
  <1> HIDE DEF n
  <1> DEFINE at(i) == jobstore[order[i]].started
  <1>3. \A i \in 1 .. n : at(i) \in Nat /\ order[i] \in Jobs
    BY <1>2 DEF J!Listed, JobTypes, J!TypeOK, J!Job, J!Time, J!GcJobsAssumption
  <1>5. \A i \in 1 .. n - 1 : at(i + 1) <= at(i)
    <2> SUFFICES ASSUME NEW i \in 1 .. n - 1 PROVE at(i + 1) <= at(i)
      OBVIOUS
    <2>1. i \in 1 .. n /\ i + 1 \in 1 .. n
      BY <1>1
    <2>2. ~ (at(i) < at(i + 1))
      BY <1>2, <1>3, <2>1 DEF J!StartedBefore, J!GcJobsAssumption
    <2> HIDE DEF at
    <2> QED BY <1>3, <2>1, <2>2
  <1>6. p \in 1 .. n /\ q \in 1 .. n
    BY <1>2
  <1> HIDE DEF at
  <1>7. \A r \in p .. n : at(r) <= at(p)
    <2> DEFINE Wrong == {r \in p .. n : ~ (at(r) <= at(p))}
    <2> SUFFICES ASSUME Wrong # {} PROVE FALSE
      OBVIOUS
    <2>1. PICK r \in Wrong : \A s \in Wrong : r <= s
      <3>1. Wrong \subseteq Nat
        BY <1>1, <1>6
      <3> HIDE DEF Wrong
      <3> QED BY <3>1, FirstOfFinite
    <2>2. r \in p .. n /\ ~ (at(r) <= at(p)) /\ r # p
      BY <1>3, <1>6
    <2>3. r - 1 \in 1 .. n - 1 /\ r - 1 \in 1 .. n /\ r \in 1 .. n /\ (r - 1) + 1 = r /\ r - 1 \in p .. n
      BY <2>2, <1>1, <1>6
    <2>4. at(r) <= at(r - 1)
      BY <2>3, <1>5
    <2>5. at(r - 1) <= at(p)
      BY <2>1, <2>2, <2>3, <1>1, <1>6
    <2> QED BY <2>2, <2>3, <2>4, <2>5, <1>3, <1>6
  <1>8. at(q) <= at(p)
    BY <1>6, <1>7, <1>1
  <1> QED BY <1>8, <1>3, <1>6 DEF at, J!StartedBefore, J!GcJobsAssumption

(* The first Keep jobs of the list, and where they are.                    *)
Front(order) == {order[p] : p \in 1 .. Keep}

LEMMA FrontKept ==
  ASSUME JobTypes, J!GcJobsAssumption, Keep < Cardinality(J!Listed),
         NEW order \in J!LatestFirst(J!Listed)
  PROVE  /\ Front(order) \in SUBSET Jobs /\ Front(order) \subseteq J!Listed
         /\ Front(order) \cap J!Unkept(order) = {}
         /\ Cardinality(Front(order)) = Keep
         /\ J!Unkept(order) \subseteq J!Listed
         /\ 1 .. Keep \subseteq DOMAIN order
         /\ \A j \in J!Unkept(order) : \E q \in DOMAIN order : j = order[q] /\ \A p \in 1 .. Keep : p < q
  <1> DEFINE n == Cardinality(J!Listed)
  <1>1. n \in Nat /\ Keep \in Nat /\ Keep < n /\ J!Listed \in SUBSET Jobs
    <2>1. J!Listed \in SUBSET Jobs
      BY DEF J!Listed
    <2> QED BY <2>1, JobsFinite DEF J!GcJobsAssumption
  <1>2. /\ order \in [1 .. n -> J!Listed]
        /\ \A i, k \in DOMAIN order : order[i] = order[k] => i = k
    BY SameCardinality DEF J!LatestFirst
  <1> HIDE DEF n
  <1>3. Len(order) = n
    <2>1. order \in Seq(J!Listed)
      BY <1>1, <1>2
    <2> QED BY <1>1, <1>2, <2>1
  <1>4. Front(order) \subseteq J!Listed /\ Front(order) \in SUBSET Jobs /\ 1 .. Keep \subseteq 1 .. n
    BY <1>1, <1>2 DEF Front
  <1>5. ASSUME NEW j \in J!Unkept(order)
        PROVE  \E q \in DOMAIN order : j = order[q] /\ \A p \in 1 .. Keep : p < q
    <2>1. PICK q \in Keep + 1 .. n : j = order[q]
      BY <1>3 DEF J!Unkept
    <2>2. q \in 1 .. n /\ \A p \in 1 .. Keep : p < q
      BY <1>1, <2>1
    <2> QED BY <1>2, <2>1, <2>2
  <1>6. Front(order) \cap J!Unkept(order) = {}
    BY <1>1, <1>2, <1>4, <1>5 DEF Front
  <1>7. Cardinality(Front(order)) = Keep
    <2> DEFINE f == [p \in 1 .. Keep |-> order[p]]
    <2>1. f \in Surjection(1 .. Keep, Front(order))
      BY DEF Front, Surjection
    <2>2. f \in Injection(1 .. Keep, Front(order))
      <3>1. f \in [1 .. Keep -> Front(order)]
        BY DEF Front
      <3>2. \A a, b \in 1 .. Keep : f[a] = f[b] => a = b
        BY <1>2, <1>4
      <3> HIDE DEF f
      <3> QED BY <3>1, <3>2, Fun_IsInj
    <2>3. IsFiniteSet(1 .. Keep) /\ Cardinality(1 .. Keep) = Keep
      BY <1>1, FS_Interval
    <2> HIDE DEF f
    <2> QED BY <2>1, <2>2, <2>3, FS_Surjection
  <1>8. J!Unkept(order) \subseteq J!Listed
    BY <1>2, <1>5
  <1> QED BY <1>2, <1>4, <1>5, <1>6, <1>7, <1>8

(* Behind the first Keep jobs, no job started later than one of them.      *)
LEMMA FrontNoEarlier ==
  ASSUME JobTypes, J!GcJobsAssumption, Keep < Cardinality(J!Listed),
         \A j \in J!Listed : jobstore[j].started # Nil,
         NEW order \in J!LatestFirst(J!Listed), NEW j \in J!Unkept(order), NEW k \in Front(order)
  PROVE  ~ J!StartedBefore(k, j) /\ k # j
  <1>1. PICK p \in 1 .. Keep : k = order[p]
    BY DEF Front
  <1>2. PICK q \in DOMAIN order : j = order[q] /\ p < q
    BY <1>1, FrontKept
  <1>3. p \in DOMAIN order /\ k # j
    BY <1>1, FrontKept
  <1> QED BY <1>1, <1>2, <1>3, SortedWeakly

(* If Keep listed jobs or more started no earlier than some job, then the  *)
(* first Keep ones of the list did.                                        *)
LEMMA FrontIsLatest ==
  ASSUME JobTypes, J!GcJobsAssumption, Keep < Cardinality(J!Listed),
         \A j \in J!Listed : jobstore[j].started # Nil,
         NEW order \in J!LatestFirst(J!Listed),
         NEW j \in Jobs, Cardinality(NoEarlier(j)) >= Keep
  PROVE  \A k \in Front(order) : ~ J!StartedBefore(k, j)
  <1> SUFFICES ASSUME NEW p \in 1 .. Keep, J!StartedBefore(order[p], j) PROVE FALSE
    BY DEF Front
  <1> DEFINE n == Cardinality(J!Listed)
  <1>1. n \in Nat /\ Keep \in Nat /\ p \in Nat /\ p <= Keep
    <2>1. J!Listed \in SUBSET Jobs
      BY DEF J!Listed
    <2> QED BY <2>1, JobsFinite DEF J!GcJobsAssumption
  <1>2. order \in [1 .. n -> J!Listed] /\ p \in 1 .. n
    <2>1. p \in DOMAIN order
      BY FrontKept
    <2> QED BY <2>1, SameCardinality DEF J!LatestFirst
  <1>3. \A q \in 1 .. n : q >= p => jobstore[order[q]].started <= jobstore[order[p]].started
    <2> SUFFICES ASSUME NEW q \in 1 .. n, q >= p
                 PROVE  jobstore[order[q]].started <= jobstore[order[p]].started
      OBVIOUS
    <2>1. \A i \in 1 .. n : order[i] \in J!Listed /\ jobstore[order[i]].started \in Nat
      BY <1>2 DEF JobTypes, J!TypeOK, J!Job, J!Time, J!Listed
    <2>2. CASE q = p
      BY <1>2, <2>1, <2>2
    <2>3. CASE q # p
      <3>1. ~ J!StartedBefore(order[p], order[q])
        BY <1>1, <1>2, <2>3, SortedWeakly
      <3> QED BY <1>2, <2>1, <3>1 DEF J!StartedBefore, J!GcJobsAssumption
    <2> QED BY <2>2, <2>3
  <1>4. NoEarlier(j) \subseteq {order[q] : q \in 1 .. p - 1}
    <2> SUFFICES ASSUME NEW k \in NoEarlier(j) PROVE \E q \in 1 .. p - 1 : k = order[q]
      OBVIOUS
    <2>1. PICK q \in 1 .. n : k = order[q]
      <3>1. order \in Surjection(1 .. n, J!Listed)
        <4>1. \A a, b \in 1 .. n : order[a] = order[b] => a = b
          BY <1>2 DEF J!LatestFirst
        <4>2. order \in Injection(1 .. n, J!Listed)
          BY <1>2, <4>1, Fun_IsInj
        <4>3. IsFiniteSet(1 .. n) /\ Cardinality(1 .. n) = n
          BY <1>1, FS_Interval
        <4>4. IsFiniteSet(J!Listed)
          BY JobsFinite DEF J!Listed
        <4> QED BY <4>2, <4>3, <4>4, FS_Injection
      <3> QED BY <3>1 DEF NoEarlier, Surjection
    <2>2. ~ (q >= p)
      <3>1. /\ jobstore[order[p]].started \in Nat /\ jobstore[order[q]].started \in Nat
            /\ jobstore[j].started \in Nat /\ jobstore[order[p]].started < jobstore[j].started
        BY <1>2 DEF JobTypes, J!TypeOK, J!Job, J!Time, J!Listed, J!StartedBefore
      <3>2. ~ (jobstore[order[q]].started < jobstore[j].started)
        BY <2>1, <3>1 DEF NoEarlier, J!StartedBefore, J!GcJobsAssumption
      <3> QED BY <1>3, <3>1, <3>2
    <2> QED BY <1>1, <2>1, <2>2
  <1>5. Cardinality(NoEarlier(j)) <= p - 1
    <2> DEFINE S == {order[q] : q \in 1 .. p - 1}
               f == [q \in 1 .. p - 1 |-> order[q]]
    <2>1. f \in Surjection(1 .. p - 1, S)
      BY DEF Surjection
    <2>2. IsFiniteSet(1 .. p - 1) /\ Cardinality(1 .. p - 1) = p - 1
      <3>1. p - 1 \in Int /\ 1 \in Int /\ p >= 1 /\ p \in Int
        BY <1>1, <1>2
      <3>2. IsFiniteSet(1 .. p - 1) /\ Cardinality(1 .. p - 1) = IF 1 > p - 1 THEN 0 ELSE (p - 1) - 1 + 1
        BY <3>1, FS_Interval
      <3> QED BY <3>1, <3>2
    <2>3. S \in SUBSET Jobs
      BY <1>1, <1>2 DEF J!Listed
    <2> HIDE DEF S, f
    <2>4. Cardinality(S) <= p - 1
      BY <2>1, <2>2, FS_Surjection
    <2>5. Cardinality(NoEarlier(j)) <= Cardinality(S) /\ Cardinality(NoEarlier(j)) \in Nat /\ Cardinality(S) \in Nat
      BY <1>4, <2>3, JobsFinite DEF S
    <2> QED BY <1>1, <2>4, <2>5
  <1>6. Cardinality(NoEarlier(j)) \in Nat
    <2>1. NoEarlier(j) \in SUBSET Jobs
      BY DEF NoEarlier, J!Listed
    <2> QED BY <2>1, JobsFinite
  <1> QED BY <1>1, <1>5, <1>6

-----------------------------------------------------------------------------

(* Before anything is created, nothing is listed.                          *)
LEMMA InitJobs == J!GcJobsAssumption /\ J!Init => JobInv
  <1> SUFFICES ASSUME J!GcJobsAssumption, J!Init PROVE JobInv
    OBVIOUS
  <1> USE DEF J!Init, J!GcJobsAssumption
  <1>1. JobTypes
    <2>1. jobgc \in [Collectors -> SUBSET [name : Jobs, started : J!Time \cup {Nil}, active : BOOLEAN]]
      OBVIOUS
    <2>2. jobstore \in [Jobs -> J!Job]
      BY DEF J!Job
    <2>3. jobnow \in J!Time /\ jobfaults \in 0 .. JobFaults /\ \A c \in Collectors : jobgc[c] = {}
      BY DEF J!Time
    <2>4. joboverlapped \in BOOLEAN
      OBVIOUS
    <2>5. J!TypeOK
      BY <2>2, <2>3, <2>4, Zenon DEF J!TypeOK
    <2> QED BY <2>1, <2>5 DEF JobTypes, JobLists
  <1>2. OnSomeList = {}
    BY DEF OnSomeList, OnList
  <1>3. JobsStamped /\ Doubtful = {}
    BY <1>2 DEF JobsStamped, Doubtful
  <1> QED BY <1>1, <1>3 DEF JobInv, LaterKept, OneList, SafeKept

(* Every step keeps the types.                                             *)
LEMMA NextJobTypes ==
  J!GcJobsAssumption /\ JobTypes /\ [J!Next]_J!vars => JobTypes'
  <1> SUFFICES ASSUME J!GcJobsAssumption, JobTypes, [J!Next]_J!vars PROVE JobTypes'
    OBVIOUS
  <1> DEFINE Entries == [name : Jobs, started : J!Time \cup {Nil}, active : BOOLEAN]
  <1>1. /\ jobnow \in J!Time
        /\ jobstore \in [Jobs -> J!Job]
        /\ jobgc \in [Collectors -> SUBSET Entries]
        /\ joboverlapped \in BOOLEAN
        /\ jobfaults \in 0 .. JobFaults
    BY DEF JobTypes, J!TypeOK, JobLists
  <1>2. SUFFICES /\ jobnow' \in J!Time
                 /\ jobstore' \in [Jobs -> J!Job]
                 /\ jobgc' \in [Collectors -> SUBSET Entries]
                 /\ joboverlapped' \in BOOLEAN
                 /\ jobfaults' \in 0 .. JobFaults
    <2>1. jobgc' \in [Collectors -> SUBSET Entries] =>
            \A c \in Collectors : \A entry \in jobgc'[c] :
              entry.name \in Jobs /\ entry.started \in J!Time \cup {Nil} /\ entry.active \in BOOLEAN
      OBVIOUS
    <2> QED BY <1>2, <2>1 DEF JobTypes, J!TypeOK, JobLists
  <1>3. JobTime \in Nat /\ JobFaults \in Nat
    BY DEF J!GcJobsAssumption
  <1>4. CASE J!Tick
    BY <1>1, <1>3, <1>4 DEF J!Tick, J!Time
  <1>5. ASSUME NEW j \in Jobs, J!Create(j) \/ J!Resume(j) \/ J!Advance(j) PROVE jobstore' \in [Jobs -> J!Job]
    <2>1. CASE J!Create(j)
      <3>1. PICK a \in J!Job : jobstore' = [jobstore EXCEPT ![j] = a]
        BY <1>1, <2>1 DEF J!Create, J!Job
      <3> QED BY <1>1, <3>1
    <2>2. CASE J!Resume(j)
      BY <1>1, <2>2 DEF J!Resume, J!Job
    <2>3. CASE J!Advance(j)
      BY <1>1, <2>3 DEF J!Advance, J!Job
    <2> QED BY <1>5, <2>1, <2>2, <2>3
  <1>6. ASSUME NEW j \in Jobs, J!Create(j) \/ J!Resume(j) \/ J!Advance(j) PROVE UNCHANGED <<jobnow, jobgc, joboverlapped, jobfaults>>
    BY <1>6 DEF J!Create, J!Resume, J!Advance
  <1>7. ASSUME NEW c \in Collectors, J!List(c)
        PROVE  /\ jobgc' \in [Collectors -> SUBSET Entries] /\ joboverlapped' \in BOOLEAN
               /\ UNCHANGED <<jobnow, jobstore, jobfaults>>
    <2>0. joboverlapped' \in BOOLEAN
      BY <1>1, <1>7 DEF J!List, J!Overlaps
    <2>1. \A j \in J!Listed : J!Entry(j) \in Entries
      BY <1>1 DEF J!Entry, J!Listed, J!Job
    <2>2. ASSUME jobgc' = [jobgc EXCEPT ![c] = {J!Entry(j) : j \in J!Listed}]
          PROVE  jobgc' \in [Collectors -> SUBSET Entries]
      <3> DEFINE entries == {J!Entry(j) : j \in J!Listed}
      <3>1. entries \in SUBSET Entries
        <4> SUFFICES ASSUME NEW e \in entries PROVE e \in Entries
          BY Zenon
        <4>1. PICK j \in J!Listed : e = J!Entry(j)
          BY Zenon
        <4> QED BY <2>1, <4>1, Zenon
      <3> HIDE DEF entries
      <3>2. jobgc' = [jobgc EXCEPT ![c] = entries]
        BY <2>2 DEF entries
      <3> QED BY <1>1, <3>1, <3>2
    <2>3. ASSUME NEW order \in J!LatestFirst(J!Listed), Keep # 0,
                 jobgc' = [jobgc EXCEPT ![c] = {J!Entry(j) : j \in J!Unkept(order)}]
          PROVE  jobgc' \in [Collectors -> SUBSET Entries]
      <3>1. J!Unkept(order) \subseteq J!Listed
        <4>1. Cardinality(J!Listed) \in Nat
          <5>1. J!Listed \in SUBSET Jobs
            BY DEF J!Listed
          <5> QED BY <5>1, FS_Subset, FS_CardinalityType, SameFinite DEF J!GcJobsAssumption
        <4>2. order \in [1 .. Cardinality(J!Listed) -> J!Listed]
          BY SameCardinality DEF J!LatestFirst
        <4>3. order \in Seq(J!Listed)
          BY <4>1, <4>2
        <4>4. Keep \in Nat
          BY DEF J!GcJobsAssumption
        <4> QED BY <4>3, <4>4 DEF J!Unkept
      <3> QED BY <1>1, <2>1, <2>3, <3>1
    <2> QED BY <1>7, <2>0, <2>2, <2>3 DEF J!List
  <1>8. ASSUME NEW c \in Collectors, J!Visit(c) \/ J!Kill(c)
        PROVE  /\ jobgc' \in [Collectors -> SUBSET Entries]
               /\ jobstore' \in [Jobs -> J!Job]
               /\ jobfaults' \in 0 .. JobFaults
               /\ UNCHANGED <<jobnow, joboverlapped>>
    <2>1. CASE J!Visit(c)
      <3>1. PICK entry \in jobgc[c] :
              /\ jobgc' = [jobgc EXCEPT ![c] = @ \ {entry}]
              /\ jobstore' \in {jobstore, J!Deleted(entry.name)}
              /\ \/ jobfaults' = jobfaults
                 \/ jobfaults < JobFaults /\ jobfaults' = jobfaults + 1
              /\ UNCHANGED <<jobnow, joboverlapped>>
        BY <2>1 DEF J!Visit
      <3>2. J!Deleted(entry.name) \in [Jobs -> J!Job]
        BY <1>1 DEF J!Deleted, J!Job
      <3>3. jobfaults' \in 0 .. JobFaults
        BY <1>1, <1>3, <3>1
      <3> QED BY <1>1, <3>1, <3>2, <3>3
    <2>2. CASE J!Kill(c)
      BY <1>1, <1>3, <2>2 DEF J!Kill
    <2> QED BY <1>8, <2>1, <2>2
  <1>9. CASE UNCHANGED J!vars
    BY <1>1, <1>9 DEF J!vars
  <1> QED BY <1>1, <1>4, <1>5, <1>6, <1>7, <1>8, <1>9 DEF J!Next, J!Collect


(* Whatever a list says, it is about jobs.                                 *)
LEMMA ListsOfJobs ==
  ASSUME JobTypes
  PROVE  /\ OnSomeList \subseteq Jobs /\ Doubtful \subseteq Jobs
         /\ \A c \in Collectors : OnList(c) \subseteq OnSomeList
         /\ \A c \in Collectors : \A entry \in jobgc[c] : entry.name \in OnList(c)
  BY DEF JobTypes, JobLists, OnSomeList, OnList, Doubtful

(* What was created stays so, with its start time; and that jobs have been *)
(* suspended, have started together or have been visited by overlapping    *)
(* executions stays so, too.  The deletion of a job apart, lists only get  *)
(* longer in List, and jobs stay where they are.                           *)
TimesStay ==
  \A k \in Jobs :
    /\ jobstore[k].started # Nil => jobstore'[k].started = jobstore[k].started
    /\ jobstore[k].wasSuspended => jobstore'[k].wasSuspended
    /\ jobstore[k].status # "absent" => jobstore'[k].status # "absent"

NothingDeleted ==
  \A k \in Jobs :
    /\ k \in J!Listed => k \in J!Listed'
    /\ jobstore'[k].status = "gone" => jobstore[k].status = "gone"

ListsShrink == \A c \in Collectors : jobgc'[c] \subseteq jobgc[c]

LEMMA LessOnLists == ASSUME ListsShrink PROVE OnSomeList' \subseteq OnSomeList
  BY DEF ListsShrink, OnSomeList, OnList

(* What one iteration does.                                                *)
LEMMA VisitStep ==
  ASSUME JobTypes, NEW c \in Collectors, J!Visit(c)
  PROVE  /\ ListsShrink /\ joboverlapped' = joboverlapped
         /\ \/ jobstore' = jobstore
            \/ \E e \in OnList(c) : e \in J!Listed /\ jobstore' = J!Deleted(e)
  <1>1. PICK entry \in jobgc[c] :
          /\ jobgc' = [jobgc EXCEPT ![c] = @ \ {entry}]
          /\ joboverlapped' = joboverlapped
          /\ \/ entry.name \in J!Listed /\ jobstore' = J!Deleted(entry.name)
             \/ jobstore' = jobstore
    <2>1. PICK entry \in jobgc[c] :
            /\ jobgc' = [jobgc EXCEPT ![c] = @ \ {entry}]
            /\ \/ entry.name \in J!Listed /\ jobstore' = J!Deleted(entry.name)
               \/ UNCHANGED <<jobstore, jobfaults>>
               \/ UNCHANGED jobstore
            /\ UNCHANGED <<jobnow, joboverlapped>>
      BY Zenon DEF J!Visit
    <2> QED BY <2>1
  <1>2. ListsShrink
    BY <1>1 DEF JobTypes, JobLists, ListsShrink
  <1>3. entry.name \in OnList(c)
    BY DEF OnList
  <1> QED BY <1>1, <1>2, <1>3

(* What deleting a job does.                                               *)
LEMMA DeletedJob ==
  ASSUME JobTypes, NEW e \in J!Listed, jobstore' = J!Deleted(e)
  PROVE  /\ e \in Jobs /\ TimesStay
         /\ \A k \in Jobs : /\ jobstore'[k].started = jobstore[k].started
                            /\ jobstore'[k].wasSuspended = jobstore[k].wasSuspended
                            /\ k # e => jobstore'[k] = jobstore[k]
         /\ jobstore'[e].status = "gone"
  <1>1. jobstore \in [Jobs -> J!Job] /\ e \in Jobs /\ jobstore[e].status # "absent"
    BY DEF JobTypes, J!TypeOK, J!Listed
  <1>2. \A k \in Jobs : jobstore'[k] = IF k = e THEN [jobstore[e] EXCEPT !.status = "gone"] ELSE jobstore[k]
    BY <1>1 DEF J!Deleted
  <1>3. \A k \in Jobs : /\ jobstore'[k].started = jobstore[k].started
                        /\ jobstore'[k].wasSuspended = jobstore[k].wasSuspended
                        /\ k # e => jobstore'[k] = jobstore[k]
    BY <1>1, <1>2 DEF J!Job
  <1>4. jobstore'[e].status = "gone"
    BY <1>1, <1>2 DEF J!Job
  <1> QED BY <1>1, <1>3, <1>4 DEF TimesStay

(* The steps, by what they do to jobs and lists.                           *)
LEMMA StepKinds ==
  ASSUME J!GcJobsAssumption, JobTypes, JobsStamped, [J!Next]_J!vars
  PROVE  /\ TimesStay /\ JobsStamped' /\ (joboverlapped => joboverlapped')
         /\ \/ NothingDeleted /\ ListsShrink /\ joboverlapped' = joboverlapped
            \/ \E c \in Collectors : J!List(c)
            \/ /\ ListsShrink /\ joboverlapped' = joboverlapped
               /\ \E e \in OnSomeList : e \in J!Listed /\ jobstore' = J!Deleted(e)
  <1> DEFINE Stays == ListsShrink /\ joboverlapped' = joboverlapped
             Goal == /\ TimesStay /\ JobsStamped' /\ (joboverlapped => joboverlapped')
                     /\ \/ NothingDeleted /\ ListsShrink /\ joboverlapped' = joboverlapped
                        \/ \E c \in Collectors : J!List(c)
                        \/ /\ ListsShrink /\ joboverlapped' = joboverlapped
                           /\ \E e \in OnSomeList : e \in J!Listed /\ jobstore' = J!Deleted(e)
  <1>1. jobstore \in [Jobs -> J!Job] /\ jobnow \in Nat /\ Nil \notin Nat
    BY DEF JobTypes, J!TypeOK, J!Time, J!GcJobsAssumption
  <1>2. ASSUME NEW j \in Jobs, NEW a \in J!Job, jobstore' = [jobstore EXCEPT ![j] = a],
               UNCHANGED <<jobgc, joboverlapped>>,
               a.status \notin {"absent", "gone"}, jobstore[j].status # "gone",
               jobstore[j].started # Nil => a.started = jobstore[j].started,
               jobstore[j].wasSuspended => a.wasSuspended,
               a.status = "suspended" => a.wasSuspended /\ a.started = Nil,
               ~ a.wasSuspended => a.started # Nil
        PROVE  Goal
    <2>1. \A k \in Jobs : jobstore'[k] = IF k = j THEN a ELSE jobstore[k]
      BY <1>1, <1>2
    <2>2. TimesStay /\ NothingDeleted
      BY <1>2, <2>1 DEF TimesStay, NothingDeleted, J!Listed
    <2>3. OnSomeList' = OnSomeList /\ ListsShrink
      BY <1>2 DEF OnSomeList, OnList, ListsShrink
    <2>4. JobsStamped'
      BY <1>2, <2>1, <2>3, ListsOfJobs DEF JobsStamped
    <2> QED BY <1>2, <2>2, <2>3, <2>4
  <1>3. ASSUME NEW j \in Jobs, J!Create(j) PROVE Goal
    <2>1. UNCHANGED <<jobgc, joboverlapped>> /\ jobstore[j].status = "absent" /\ jobstore[j].started = Nil
      BY <1>3 DEF J!Create, JobsStamped
    <2>3. PICK a \in J!Job : /\ jobstore' = [jobstore EXCEPT ![j] = a]
                             /\ a.status \in {"active", "suspended"}
                             /\ a.status = "active" => a.started = jobnow
                             /\ a.status = "suspended" => a.wasSuspended /\ a.started = Nil
      <3>1. jobnow \in J!Time
        BY DEF JobTypes, J!TypeOK
      <3> DEFINE active == [status |-> "active", wasSuspended |-> FALSE, started |-> jobnow]
                 suspended == [status |-> "suspended", wasSuspended |-> TRUE, started |-> Nil]
      <3>2. active \in J!Job /\ suspended \in J!Job
        BY <3>1 DEF J!Job
      <3>3. jobstore' = [jobstore EXCEPT ![j] = active] \/ jobstore' = [jobstore EXCEPT ![j] = suspended]
        BY <1>3 DEF J!Create
      <3> QED BY <3>2, <3>3
    <2>4. jobstore[j].wasSuspended => a.wasSuspended
      BY <1>1, <2>1 DEF JobsStamped
    <2> QED BY <1>1, <1>2, <2>1, <2>3, <2>4
  <1>4. ASSUME NEW j \in Jobs, J!Resume(j) PROVE Goal
    <2> DEFINE a == [jobstore[j] EXCEPT !.status = "active", !.started = jobnow]
    <2>1. /\ a \in J!Job /\ a.status = "active" /\ a.started = jobnow
          /\ a.wasSuspended = jobstore[j].wasSuspended
      BY <1>1 DEF J!Job, JobTypes, J!TypeOK
    <2>2. jobstore' = [jobstore EXCEPT ![j] = a] /\ UNCHANGED <<jobgc, joboverlapped>>
      BY <1>4 DEF J!Resume
    <2>3. jobstore[j].status = "suspended" /\ jobstore[j].started = Nil /\ jobstore[j].wasSuspended
      BY <1>4 DEF J!Resume, JobsStamped
    <2> HIDE DEF a
    <2> QED BY <1>1, <1>2, <2>1, <2>2, <2>3
  <1>5. ASSUME NEW j \in Jobs, J!Advance(j) PROVE Goal
    <2>1. PICK status \in {"active", "inactive"} : jobstore' = [jobstore EXCEPT ![j].status = status]
      BY <1>5 DEF J!Advance
    <2> DEFINE a == [jobstore[j] EXCEPT !.status = status]
    <2>2. /\ a \in J!Job /\ a.status = status /\ a.started = jobstore[j].started
          /\ a.wasSuspended = jobstore[j].wasSuspended
      BY <1>1 DEF J!Job
    <2>3. jobstore' = [jobstore EXCEPT ![j] = a] /\ UNCHANGED <<jobgc, joboverlapped>>
      BY <1>5, <2>1 DEF J!Advance
    <2>4. jobstore[j].status \in {"active", "inactive"} /\ (~ jobstore[j].wasSuspended => jobstore[j].started # Nil)
      BY <1>5 DEF J!Advance, JobsStamped
    <2> HIDE DEF a
    <2> QED BY <1>1, <1>2, <2>2, <2>3, <2>4
  <1>6. ASSUME jobstore' = jobstore, ListsShrink, joboverlapped' = joboverlapped PROVE Goal
    <2>1. TimesStay /\ NothingDeleted
      BY <1>6 DEF TimesStay, NothingDeleted, J!Listed
    <2>2. JobsStamped'
      BY <1>6, LessOnLists DEF JobsStamped
    <2> QED BY <1>6, <2>1, <2>2
  <1>7. CASE J!Tick \/ UNCHANGED J!vars
    <2>1. jobstore' = jobstore /\ jobgc' = jobgc /\ joboverlapped' = joboverlapped
      BY <1>7 DEF J!Tick, J!vars
    <2> QED BY <1>6, <2>1 DEF ListsShrink
  <1>8. ASSUME NEW c \in Collectors, J!Kill(c) PROVE Goal
    <2>1. jobstore' = jobstore /\ jobgc' = [jobgc EXCEPT ![c] = {}] /\ joboverlapped' = joboverlapped
      BY <1>8 DEF J!Kill
    <2>2. ListsShrink
      BY <2>1 DEF ListsShrink, JobTypes, JobLists
    <2> QED BY <1>6, <2>1, <2>2
  <1>9. ASSUME NEW c \in Collectors, J!Visit(c) PROVE Goal
    <2>1. CASE jobstore' = jobstore
      BY <1>6, <1>9, <2>1, VisitStep
    <2>2. ASSUME NEW e \in OnList(c), e \in J!Listed, jobstore' = J!Deleted(e) PROVE Goal
      <3>1. TimesStay /\ \A k \in Jobs : /\ jobstore'[k].started = jobstore[k].started
                                         /\ jobstore'[k].wasSuspended = jobstore[k].wasSuspended
                                         /\ k # e => jobstore'[k] = jobstore[k]
        BY <2>2, DeletedJob
      <3>2. jobstore'[e].status = "gone" /\ e \in Jobs /\ jobstore[e].status # "absent"
        BY <2>2, DeletedJob DEF J!Listed
      <3>3. ListsShrink /\ joboverlapped' = joboverlapped /\ e \in OnSomeList /\ OnSomeList \subseteq Jobs
        BY <1>9, VisitStep, ListsOfJobs
      <3>4. JobsStamped'
        BY <3>1, <3>2, <3>3, LessOnLists DEF JobsStamped
      <3> QED BY <2>2, <3>1, <3>3, <3>4
    <2> QED BY <1>9, <2>1, <2>2, VisitStep
  <1>10. ASSUME NEW c \in Collectors, J!List(c) PROVE Goal
    <2>1. jobstore' = jobstore /\ (joboverlapped => joboverlapped')
      BY <1>10 DEF J!List, J!Overlaps
    <2>2. TimesStay
      BY <2>1 DEF TimesStay
    <2>3. \A entry \in jobgc'[c] : entry.name \in J!Listed
      <3>1. jobgc \in [Collectors -> SUBSET [name : Jobs, started : J!Time \cup {Nil}, active : BOOLEAN]]
        BY DEF JobTypes, JobLists
      <3>2. CASE jobgc' = [jobgc EXCEPT ![c] = {J!Entry(j) : j \in J!Listed}]
        BY <3>1, <3>2 DEF J!Entry
      <3>3. ASSUME NEW order \in J!LatestFirst(J!Listed),
                   jobgc' = [jobgc EXCEPT ![c] = {J!Entry(j) : j \in J!Unkept(order)}]
            PROVE  \A entry \in jobgc'[c] : entry.name \in J!Listed
        <4>1. J!Unkept(order) \subseteq J!Listed
          BY <1>10, SameCardinality, FrontKept DEF J!List
        <4> QED BY <3>1, <3>3, <4>1 DEF J!Entry
      <3> QED BY <1>10, <3>2, <3>3 DEF J!List
    <2>4. \A d \in Collectors : d # c => jobgc'[d] = jobgc[d]
      BY <1>10 DEF J!List, JobTypes, JobLists
    <2>5. \A j \in OnSomeList' : j \in OnSomeList \/ j \in J!Listed
      BY <2>3, <2>4 DEF OnSomeList, OnList
    <2>6. JobsStamped'
      BY <2>1, <2>5 DEF JobsStamped, J!Listed
    <2> QED BY <1>10, <2>1, <2>2, <2>6
  <1> QED BY <1>3, <1>4, <1>5, <1>7, <1>8, <1>9, <1>10 DEF J!Next, J!Collect

(* Until a job is suspended, whatever was created has started.             *)
LEMMA AllStarted ==
  ASSUME JobsStamped, ~ J!SuspendedBefore, NEW j \in Jobs, jobstore[j].status # "absent"
  PROVE  jobstore[j].started # Nil
  BY DEF JobsStamped, J!SuspendedBefore

LEMMA DoubtfulStarted ==
  ASSUME JobTypes, JobsStamped, ~ J!SuspendedBefore
  PROVE  /\ \A j \in Doubtful : j \in Jobs /\ jobstore[j].started # Nil
         /\ \A j \in J!Listed : j \in Jobs /\ jobstore[j].started # Nil
  <1>1. \A j \in Doubtful : j \in Jobs /\ jobstore[j].status # "absent"
    BY DEF Doubtful, JobsStamped
  <1>2. \A j \in J!Listed : j \in Jobs /\ jobstore[j].status # "absent"
    BY DEF J!Listed
  <1> QED BY <1>1, <1>2, AllStarted

LEMMA MonotoneHistory ==
  ASSUME TimesStay
  PROVE  (J!SuspendedBefore => J!SuspendedBefore') /\ (J!Tied => J!Tied')
  BY DEF TimesStay, J!SuspendedBefore, J!Tied

(* The sets that are counted are sets of jobs.                             *)
LEMMA Counted ==
  ASSUME NEW j
  PROVE  /\ NoEarlier(j) \in SUBSET Jobs /\ Safe(j) \in SUBSET Jobs /\ Later(j) \in SUBSET Jobs
         /\ Safe(j)' \in SUBSET Jobs /\ Later(j)' \in SUBSET Jobs
  BY DEF NoEarlier, Safe, Later, J!Listed

-----------------------------------------------------------------------------

(* No job that a collector may delete gets less behind, by a deletion or   *)
(* by another step than List: if the deleted job started later than it,    *)
(* then so did all those that started later than the deleted one; and what *)
(* is on no list is not deleted.                                           *)
LEMMA KeptByOthers ==
  ASSUME J!GcJobsAssumption, JobInv, TimesStay, ListsShrink, ~ J!SuspendedBefore,
         \/ NothingDeleted
         \/ \E e \in OnSomeList : e \in J!Listed /\ jobstore' = J!Deleted(e)
  PROVE  /\ Doubtful' \subseteq Doubtful
         /\ ~ J!Tied => \A j \in Doubtful' : Cardinality(Later(j)') >= Keep
         /\ ~ joboverlapped => \A j \in Doubtful' : Cardinality(Safe(j)') >= Keep
  <1> USE DEF JobInv
  <1>1. /\ \A j \in Doubtful : j \in Jobs /\ jobstore[j].started # Nil /\ jobstore'[j].started = jobstore[j].started
        /\ \A j \in J!Listed : j \in Jobs /\ jobstore[j].started # Nil /\ jobstore'[j].started = jobstore[j].started
    BY DoubtfulStarted DEF TimesStay
  <1>2. OnSomeList' \subseteq OnSomeList
    BY LessOnLists
  <1>3. CASE NothingDeleted
    <2>1. Doubtful' \subseteq Doubtful
      BY <1>2, <1>3 DEF Doubtful, NothingDeleted
    <2>2. ASSUME NEW j \in Doubtful' PROVE Later(j) \subseteq Later(j)' /\ Safe(j) \subseteq Safe(j)'
      BY <1>1, <1>2, <1>3, <2>1 DEF Later, Safe, NoEarlier, J!StartedBefore, NothingDeleted, J!Listed
    <2> QED BY <2>1, <2>2, CountsMore, Counted DEF LaterKept, SafeKept
  <1>4. ASSUME NEW e \in OnSomeList, e \in J!Listed, jobstore' = J!Deleted(e)
        PROVE  /\ Doubtful' \subseteq Doubtful
               /\ ~ J!Tied => \A j \in Doubtful' : Cardinality(Later(j)') >= Keep
               /\ ~ joboverlapped => \A j \in Doubtful' : Cardinality(Safe(j)') >= Keep
    <2>1. /\ e \in Jobs /\ e \in Doubtful
          /\ \A k \in Jobs : jobstore'[k].started = jobstore[k].started /\ (k # e => jobstore'[k] = jobstore[k])
      <3>1. e \in Jobs /\ \A k \in Jobs : jobstore'[k].started = jobstore[k].started /\ (k # e => jobstore'[k] = jobstore[k])
        BY <1>4, DeletedJob
      <3> QED BY <1>4, <3>1 DEF Doubtful
    <2>2. Doubtful' \subseteq Doubtful
      BY <1>2, <2>1 DEF Doubtful
    <2>3. ASSUME NEW j \in Doubtful' PROVE Safe(j) \subseteq Safe(j)' /\ Later(j) \ {e} \subseteq Later(j)'
      <3>1. j \in Jobs
        BY <1>1, <2>2
      <3>2. Later(j) \ {e} \subseteq Later(j)'
        BY <2>1, <3>1 DEF Later, J!StartedBefore, J!Listed
      <3>3. Safe(j) \subseteq Safe(j)'
        BY <1>2, <1>4, <2>1, <3>1 DEF Safe, NoEarlier, J!StartedBefore, J!Listed
      <3> QED BY <3>2, <3>3
    <2>4. ASSUME NEW j \in Doubtful', ~ J!Tied PROVE Cardinality(Later(j)') >= Keep
      <3>1. CASE e \in Later(j)
        <4>1. \A k \in Jobs : jobstore[k].started \in Nat \cup {Nil}
          BY DEF JobTypes, J!TypeOK, J!Job, J!Time
        <4>0. j \in Jobs
          BY <1>1, <2>2
        <4>2. Later(e) \subseteq Later(j) \ {e}
          BY <2>1, <3>1, <4>0, <4>1 DEF Later, J!StartedBefore, J!Listed, J!GcJobsAssumption
        <4> QED BY <2>1, <2>3, <2>4, <4>2, CountsMore, Counted DEF LaterKept
      <3>2. CASE e \notin Later(j)
        <4>1. Later(j) \subseteq Later(j)'
          BY <2>3, <3>2
        <4> QED BY <2>2, <2>4, <4>1, CountsMore, Counted DEF LaterKept
      <3> QED BY <3>1, <3>2
    <2>5. ASSUME NEW j \in Doubtful', ~ joboverlapped PROVE Cardinality(Safe(j)') >= Keep
      BY <2>2, <2>3, <2>5, CountsMore, Counted DEF SafeKept
    <2> QED BY <2>2, <2>4, <2>5
  <1> QED BY <1>3, <1>4

(* A list that is made keeps enough jobs behind all that is on it.         *)
LEMMA KeptByList ==
  ASSUME J!GcJobsAssumption, JobInv, NEW c \in Collectors, J!List(c), ~ J!SuspendedBefore
  PROVE  /\ ~ J!Tied => \A j \in Doubtful' : Cardinality(Later(j)') >= Keep
         /\ ~ joboverlapped' => \A j \in Doubtful' : Cardinality(Safe(j)') >= Keep
  <1> USE DEF JobInv
  <1>1. Keep \in Nat /\ Keep < Cardinality(J!Listed) /\ jobstore' = jobstore
    BY SameCardinality DEF J!List, J!GcJobsAssumption
  <1>2. CASE Keep = 0
    <2> SUFFICES ASSUME NEW j PROVE Cardinality(Later(j)') >= 0 /\ Cardinality(Safe(j)') >= 0
      BY <1>2
    <2>1. Cardinality(Later(j)') \in Nat /\ Cardinality(Safe(j)') \in Nat
      BY Counted, JobsFinite
    <2> QED BY <2>1
  <1>3. ASSUME NEW order \in J!LatestFirst(J!Listed),
               jobgc' = [jobgc EXCEPT ![c] = {J!Entry(j) : j \in J!Unkept(order)}]
        PROVE  /\ ~ J!Tied => \A j \in Doubtful' : Cardinality(Later(j)') >= Keep
               /\ ~ joboverlapped' => \A j \in Doubtful' : Cardinality(Safe(j)') >= Keep
    <2>1. OnList(c)' = J!Unkept(order)
      <3>1. jobgc'[c] = {J!Entry(j) : j \in J!Unkept(order)}
        BY <1>3 DEF JobTypes, JobLists
      <3>2. \A j : J!Entry(j).name = j
        BY DEF J!Entry
      <3>3. OnList(c)' = {entry.name : entry \in jobgc'[c]}
        BY DEF OnList
      <3> QED BY <3>1, <3>2, <3>3
    <2>2. \A d \in Collectors : d # c => OnList(d)' = OnList(d)
      BY <1>3 DEF OnList, JobTypes, JobLists
    <2>3. OnSomeList' \subseteq OnSomeList \cup J!Unkept(order)
      BY <2>1, <2>2 DEF OnSomeList
    <2>4. \A j \in Doubtful' : j \in Doubtful \/ j \in J!Unkept(order)
      BY <1>1, <2>3 DEF Doubtful
    <2>5. \A j : Later(j)' = Later(j) /\ NoEarlier(j)' = NoEarlier(j)
      BY <1>1 DEF Later, NoEarlier, J!StartedBefore, J!Listed
    <2>6. /\ \A j \in J!Listed : jobstore[j].started # Nil /\ j \in Jobs
          /\ Front(order) \in SUBSET Jobs /\ Front(order) \subseteq J!Listed
          /\ Front(order) \cap J!Unkept(order) = {}
          /\ Cardinality(Front(order)) = Keep
          /\ J!Unkept(order) \subseteq J!Listed
      BY <1>1, FrontKept, DoubtfulStarted
    <2>7. Cardinality(Front(order)) >= Keep
      BY <1>1, <2>6
    <2>8. ASSUME NEW j \in J!Unkept(order), NEW k \in Front(order) PROVE ~ J!StartedBefore(k, j) /\ k # j
      BY <1>1, <2>6, FrontNoEarlier
    <2>9. ASSUME ~ J!Tied, NEW j \in Doubtful' PROVE Cardinality(Later(j)') >= Keep
      <3>1. CASE j \in Doubtful
        BY <2>5, <2>9, <3>1 DEF LaterKept
      <3>2. CASE j \in J!Unkept(order)
        <4>1. ASSUME NEW k \in Front(order) PROVE k \in Later(j)
          <5>1. k \in J!Listed /\ k \in Jobs /\ j \in Jobs /\ ~ J!StartedBefore(k, j) /\ k # j
            BY <2>6, <2>8, <3>2
          <5>2. jobstore[k].started \in Nat /\ jobstore[j].started \in Nat
            BY <2>6, <3>2, <5>1 DEF JobTypes, J!TypeOK, J!Job, J!Time
          <5>3. jobstore[k].started # jobstore[j].started
            BY <2>6, <2>9, <3>2, <5>1 DEF J!Tied
          <5> QED BY <2>6, <3>2, <5>1, <5>2, <5>3 DEF Later, J!StartedBefore, J!GcJobsAssumption
        <4> QED BY <2>5, <2>7, <4>1, CountsMore, Counted
      <3> QED BY <2>4, <3>1, <3>2
    <2>10. ASSUME ~ joboverlapped', NEW j \in Doubtful' PROVE Cardinality(Safe(j)') >= Keep
      <3>1. ~ joboverlapped /\ \A d \in Collectors : jobgc[d] = {}
        BY <2>10 DEF J!List, J!Overlaps
      <3>2. OnSomeList = {}
        BY <3>1 DEF OnSomeList, OnList
      <3>3. OnSomeList' \subseteq J!Unkept(order)
        BY <2>3, <3>2
      <3>4. \A k \in Front(order) : ~ J!StartedBefore(k, j)
        <4>1. CASE j \in Doubtful
          <5>1. Cardinality(Safe(j)) >= Keep /\ Safe(j) \in SUBSET NoEarlier(j) /\ j \in Jobs
            BY <3>1, <4>1 DEF SafeKept, Safe, Doubtful
          <5>2. Cardinality(NoEarlier(j)) >= Keep
            BY <5>1, CountsMore, Counted
          <5> QED BY <1>1, <2>6, <5>1, <5>2, FrontIsLatest
        <4>2. CASE j \in J!Unkept(order)
          BY <2>8, <4>2
        <4> QED BY <2>4, <4>1, <4>2
      <3>5. Front(order) \subseteq Safe(j)'
        BY <2>5, <2>6, <3>3, <3>4 DEF Safe, NoEarlier
      <3> QED BY <2>7, <3>5, CountsMore, Counted
    <2> QED BY <2>9, <2>10
  <1> QED BY <1>2, <1>3 DEF J!List

(* Every step keeps the invariant.                                         *)
LEMMA NextKept ==
  J!GcJobsAssumption /\ JobInv /\ [J!Next]_J!vars => LaterKept' /\ OneList' /\ SafeKept'
  <1> SUFFICES ASSUME J!GcJobsAssumption, JobInv, [J!Next]_J!vars PROVE LaterKept' /\ OneList' /\ SafeKept'
    OBVIOUS
  <1>1. JobTypes /\ JobsStamped /\ LaterKept /\ OneList /\ SafeKept
    BY DEF JobInv
  <1>2. TimesStay /\ (joboverlapped => joboverlapped') /\ (~ J!SuspendedBefore' => ~ J!SuspendedBefore) /\ (~ J!Tied' => ~ J!Tied)
    BY <1>1, StepKinds, MonotoneHistory
  <1>3. CASE /\ ListsShrink /\ joboverlapped' = joboverlapped
             /\ \/ NothingDeleted
                \/ \E e \in OnSomeList : e \in J!Listed /\ jobstore' = J!Deleted(e)
    <2>1. OneList'
      BY <1>1, <1>3 DEF OneList, ListsShrink
    <2>2. ~ J!SuspendedBefore =>
            /\ ~ J!Tied => \A j \in Doubtful' : Cardinality(Later(j)') >= Keep
            /\ ~ joboverlapped => \A j \in Doubtful' : Cardinality(Safe(j)') >= Keep
      BY <1>2, <1>3, KeptByOthers
    <2> QED BY <1>2, <1>3, <2>1, <2>2 DEF LaterKept, SafeKept
  <1>4. ASSUME NEW c \in Collectors, J!List(c) PROVE LaterKept' /\ OneList' /\ SafeKept'
    <2>1. OneList'
      <3>1. \A d \in Collectors : d # c => jobgc'[d] = jobgc[d]
        BY <1>1, <1>4 DEF J!List, JobTypes, JobLists
      <3>2. ~ joboverlapped' => \A d \in Collectors : d # c => jobgc[d] = {}
        BY <1>4 DEF J!List, J!Overlaps
      <3> QED BY <3>1, <3>2 DEF OneList
    <2>2. ~ J!SuspendedBefore =>
            /\ ~ J!Tied => \A j \in Doubtful' : Cardinality(Later(j)') >= Keep
            /\ ~ joboverlapped' => \A j \in Doubtful' : Cardinality(Safe(j)') >= Keep
      BY <1>4, KeptByList
    <2> QED BY <1>2, <2>1, <2>2 DEF LaterKept, SafeKept
  <1> QED BY <1>1, <1>3, <1>4, StepKinds

-----------------------------------------------------------------------------

(* The invariant holds in every state.                                     *)
LEMMA NextJobInv == J!GcJobsAssumption /\ JobInv /\ [J!Next]_J!vars => JobInv'
  <1> SUFFICES ASSUME J!GcJobsAssumption, JobInv, [J!Next]_J!vars PROVE JobInv'
    OBVIOUS
  <1>1. JobTypes /\ JobsStamped
    BY DEF JobInv
  <1>2. JobTypes' /\ JobsStamped' /\ LaterKept' /\ OneList' /\ SafeKept'
    BY <1>1, NextJobTypes, StepKinds, NextKept
  <1> QED BY <1>2 DEF JobInv

LEMMA JobsInvariant == J!GcJobsAssumption => (J!Spec => []JobInv)
  <1> SUFFICES ASSUME J!GcJobsAssumption PROVE J!Spec => []JobInv
    OBVIOUS
  <1> QED BY InitJobs, NextJobInv, PTL DEF J!Spec

LEMMA InvariantKeepsJobs == J!GcJobsAssumption /\ JobInv => J!LatestJobsKept
  <1> SUFFICES ASSUME J!GcJobsAssumption, JobInv, ~ J!SuspendedBefore, ~ (joboverlapped /\ J!Tied),
                      NEW j \in Jobs, jobstore[j].status = "gone"
               PROVE  Cardinality(NoEarlier(j)) >= Keep
    BY SameCardinality DEF J!LatestJobsKept, NoEarlier
  <1>1. j \in Doubtful
    BY DEF Doubtful
  <1>2. \A k \in Jobs : jobstore[k].started \in Nat \cup {Nil}
    BY DEF JobInv, JobTypes, J!TypeOK, J!Job, J!Time
  <1>3. Later(j) \subseteq NoEarlier(j) /\ Safe(j) \subseteq NoEarlier(j)
    BY <1>2 DEF Later, Safe, NoEarlier, J!StartedBefore, J!Listed, J!GcJobsAssumption
  <1> QED BY <1>1, <1>3, CountsMore, Counted DEF JobInv, LaterKept, SafeKept

(* Type correctness of the collector of jobs; what an execution has left   *)
(* are entries of jobs.                                                    *)
THEOREM JobsTypeCorrect ==
  ASSUME J!GcJobsAssumption
  PROVE  J!Spec => [](J!TypeOK /\ JobLists)
  <1>1. J!Spec => []JobInv
    BY JobsInvariant
  <1>2. JobInv => J!TypeOK /\ JobLists
    BY DEF JobInv, JobTypes
  <1> QED BY <1>1, <1>2, PTL

(* As long as no job has been suspended, a job is deleted only if as many  *)
(* jobs as are to be kept started no earlier, and those are still there:   *)
(* for any number of collectors, each with a list as old as it may be,     *)
(* failing calls and executions that are killed, until jobs start in the   *)
(* same second and executions overlap.                                     *)
THEOREM JobsLatestKept ==
  ASSUME J!GcJobsAssumption
  PROVE  J!Spec => []J!LatestJobsKept
  <1>1. J!Spec => []JobInv
    BY JobsInvariant
  <1>2. JobInv => J!LatestJobsKept
    BY InvariantKeepsJobs
  <1> QED BY <1>1, <1>2, PTL

-----------------------------------------------------------------------------
(* Pods.                                                                   *)

PodRecord ==
  [number : Nat, phase : {"running", "ended", "gone"}, finished : [Containers -> Nat \cup {Nil}]]

(* The types of the model.                                                 *)
PodTypes ==
  /\ time \in Nat
  /\ pods \in [Pods -> PodRecord]
  /\ listed \in [Collectors -> SUBSET [name : Pods, pod : PodRecord]]

(* A pod on a list is no later than the one of its name, and a pod that    *)
(* had ended when it was listed has not changed, unless it went.           *)
ListsEarlier ==
  \A c \in Collectors : \A entry \in listed[c] :
    /\ entry.pod.number <= pods[entry.name].number
    /\ entry.pod.number = pods[entry.name].number /\ P!Ended(entry.pod) /\ P!There(entry.name)
         => pods[entry.name] = entry.pod

PodInv == PodTypes /\ ListsEarlier

(* At first nothing is listed.                                             *)
LEMMA InitPods == P!Init => PodInv
  <1>1. P!Init => PodTypes
    BY DEF P!Init, PodTypes, P!Pod, PodRecord
  <1>2. P!Init => ListsEarlier
    BY DEF P!Init, ListsEarlier
  <1> QED BY <1>1, <1>2 DEF PodInv

(* Every step keeps the types.                                             *)
LEMMA NextPodTypes == PodTypes /\ [P!Next]_P!vars => PodTypes'
  <1> SUFFICES ASSUME PodTypes, [P!Next]_P!vars PROVE PodTypes'
    OBVIOUS
  <1> USE DEF PodTypes
  <1>1. CASE P!Tick
    BY <1>1 DEF P!Tick
  <1>2. ASSUME NEW p \in Pods, P!Evict(p) PROVE PodTypes'
    BY <1>2 DEF P!Evict, PodRecord
  <1>3. ASSUME NEW p \in Pods, P!Recreate(p) PROVE PodTypes'
    BY <1>3 DEF P!Recreate, P!Pod, PodRecord
  <1>4. ASSUME NEW p \in Pods, NEW c \in Containers, P!Terminate(p, c) PROVE PodTypes'
    <2> DEFINE last == \A d \in Containers \ {c} : pods[p].finished[d] # Nil
               after == [pods[p] EXCEPT !.finished[c] = time, !.phase = IF last THEN "ended" ELSE @]
    <2>1. pods[p] \in PodRecord
      OBVIOUS
    <2>2. after \in PodRecord
      BY <2>1 DEF PodRecord
    <2>3. pods' = [pods EXCEPT ![p] = after]
      BY <1>4 DEF P!Terminate
    <2> HIDE DEF after
    <2> QED BY <1>4, <2>2, <2>3 DEF P!Terminate
  <1>5. ASSUME NEW c \in Collectors, P!List(c) PROVE PodTypes'
    BY <1>5 DEF P!List
  <1>6. ASSUME NEW c \in Collectors, P!Visit(c) PROVE PodTypes'
    <2> PICK entry \in listed[c] :
          /\ listed' = [listed EXCEPT ![c] = @ \ {entry}]
          /\ pods' \in {pods, [pods EXCEPT ![entry.name].phase = "gone"]}
          /\ time' = time
      BY <1>6 DEF P!Visit
    <2>1. entry.name \in Pods
      OBVIOUS
    <2>2. [pods EXCEPT ![entry.name].phase = "gone"] \in [Pods -> PodRecord]
      BY <2>1, SMTT(30) DEF PodRecord
    <2> QED BY <2>2
  <1>7. CASE UNCHANGED P!vars
    BY <1>7 DEF P!vars
  <1> QED BY <1>1, <1>2, <1>3, <1>4, <1>5, <1>6, <1>7 DEF P!Next, P!Collect

(* A step that lists nothing keeps ListsEarlier if no pod gets a smaller   *)
(* number and none that has ended changes unless it goes or is replaced.   *)
LEMMA ListsStay ==
  ASSUME PodInv, PodTypes',
         \A c \in Collectors : listed'[c] \subseteq listed[c],
         \A p \in Pods :
           /\ pods'[p].number >= pods[p].number
           /\ pods'[p].number = pods[p].number /\ P!There(p)' =>
                P!There(p) /\ (P!Ended(pods[p]) => pods'[p] = pods[p])
  PROVE  ListsEarlier'
  <1> SUFFICES ASSUME NEW c \in Collectors, NEW entry \in listed'[c]
               PROVE  /\ entry.pod.number <= pods'[entry.name].number
                      /\ entry.pod.number = pods'[entry.name].number /\ P!Ended(entry.pod) /\ P!There(entry.name)'
                           => pods'[entry.name] = entry.pod
    BY DEF ListsEarlier, P!Ended
  <1>1. entry \in listed[c] /\ entry.name \in Pods /\ entry.pod.number \in Nat
    BY DEF PodInv, PodTypes, PodRecord
  <1>2. pods[entry.name].number \in Nat /\ pods'[entry.name].number \in Nat
    BY <1>1 DEF PodInv, PodTypes, PodRecord
  <1>3. entry.pod.number <= pods[entry.name].number
    BY <1>1 DEF PodInv, ListsEarlier
  <1>4. ASSUME entry.pod.number = pods'[entry.name].number, P!Ended(entry.pod), P!There(entry.name)'
        PROVE  pods'[entry.name] = entry.pod
    <2>1. pods'[entry.name].number = pods[entry.name].number /\ entry.pod.number = pods[entry.name].number
      BY <1>1, <1>2, <1>3, <1>4
    <2>2. P!There(entry.name) /\ (P!Ended(pods[entry.name]) => pods'[entry.name] = pods[entry.name])
      BY <1>1, <1>4, <2>1
    <2>3. pods[entry.name] = entry.pod
      BY <1>1, <1>4, <2>1, <2>2 DEF PodInv, ListsEarlier
    <2> QED BY <1>4, <2>2, <2>3
  <1> QED BY <1>1, <1>2, <1>3, <1>4

(* Inv is inductive.                                                       *)
LEMMA NextPods == PodInv /\ [P!Next]_P!vars => PodInv'
  <1> SUFFICES ASSUME PodInv, [P!Next]_P!vars PROVE PodInv'
    OBVIOUS
  <1>0. PodTypes'
    BY NextPodTypes DEF PodInv
  <1>T. PodTypes
    BY DEF PodInv
  <1>1. CASE P!Tick \/ UNCHANGED P!vars
    <2>1. pods' = pods /\ listed' = listed
      BY <1>1 DEF P!Tick, P!vars
    <2> QED BY <1>0, <1>T, <2>1, ListsStay DEF PodInv, PodTypes, PodRecord, P!There
  <1>2. ASSUME NEW p \in Pods, P!Evict(p) PROVE ListsEarlier'
    <2>1. \A q \in Pods : pods'[q].number = pods[q].number /\ (q # p => pods'[q] = pods[q])
      BY <1>2, <1>T DEF P!Evict, PodTypes, PodRecord
    <2>2. pods[p].phase = "running" /\ listed' = listed
      BY <1>2 DEF P!Evict
    <2> QED BY <1>0, <1>T, <2>1, <2>2, ListsStay DEF PodTypes, PodRecord, P!There, P!Ended
  <1>3. ASSUME NEW p \in Pods, P!Recreate(p) PROVE ListsEarlier'
    <2>1. \A q \in Pods : q # p => pods'[q] = pods[q]
      BY <1>3, <1>T DEF P!Recreate, PodTypes
    <2>2. pods'[p].number = pods[p].number + 1 /\ listed' = listed
      BY <1>3, <1>T DEF P!Recreate, PodTypes, P!Pod
    <2> QED BY <1>0, <1>T, <2>1, <2>2, ListsStay DEF PodTypes, PodRecord, P!There
  <1>4. ASSUME NEW p \in Pods, NEW c \in Containers, P!Terminate(p, c) PROVE ListsEarlier'
    <2>1. \A q \in Pods : pods'[q].number = pods[q].number /\ (q # p => pods'[q] = pods[q])
      BY <1>4, <1>T DEF P!Terminate, PodTypes, PodRecord
    <2>2. pods[p].phase = "running" /\ listed' = listed
      BY <1>4 DEF P!Terminate
    <2> QED BY <1>0, <1>T, <2>1, <2>2, ListsStay DEF PodTypes, PodRecord, P!There, P!Ended
  <1>5. ASSUME NEW c \in Collectors, P!List(c) PROVE ListsEarlier'
    <2>1. pods' = pods /\ \A d \in Collectors : d # c => listed'[d] = listed[d]
      BY <1>5, <1>T DEF P!List, PodTypes
    <2>2. \A entry \in listed'[c] : entry.pod = pods[entry.name] /\ entry.name \in Pods
      BY <1>5, <1>T DEF P!List, PodTypes
    <2> QED BY <1>T, <2>1, <2>2 DEF PodInv, ListsEarlier, PodTypes, PodRecord, P!There
  <1>6. ASSUME NEW c \in Collectors, P!Visit(c) PROVE ListsEarlier'
    <2> PICK entry \in listed[c] :
          /\ listed' = [listed EXCEPT ![c] = @ \ {entry}]
          /\ pods' \in {pods, [pods EXCEPT ![entry.name].phase = "gone"]}
      BY <1>6 DEF P!Visit
    <2>1. entry.name \in Pods
      BY <1>T DEF PodTypes
    <2>2. \A q \in Pods : pods'[q].number = pods[q].number /\ (pods'[q] = pods[q] \/ pods'[q].phase = "gone")
      BY <1>T, <2>1 DEF PodTypes, PodRecord
    <2>3. \A d \in Collectors : listed'[d] \subseteq listed[d]
      BY <1>T DEF PodTypes
    <2> QED BY <1>0, <1>T, <2>2, <2>3, ListsStay DEF PodTypes, PodRecord, P!There
  <1> QED BY <1>0, <1>1, <1>2, <1>3, <1>4, <1>5, <1>6 DEF PodInv, P!Next, P!Collect

(* gc pods deletes a pod only when its last container terminated longer    *)
(* ago than the age, however old the list is and whichever calls fail; but *)
(* one that replaced a listed pod of its name goes in its place.           *)
LEMMA StepDeletesOld == PodInv /\ [P!Next]_P!vars => P!DeletesOld
  <1> SUFFICES ASSUME PodInv, [P!Next]_P!vars, NEW p \in Pods, P!There(p), pods'[p].phase = "gone"
               PROVE  \/ P!Ended(pods[p]) /\ \A t \in P!Times(pods[p]) : time - t > PodAge
                      \/ \E c \in Collectors : \E entry \in listed[c] \ listed'[c] :
                           entry.name = p /\ entry.pod.number < pods[p].number
    BY DEF P!DeletesOld
  <1>T. PodTypes
    BY DEF PodInv
  <1>1. pods' # pods
    BY DEF P!There
  <1>2. ASSUME NEW q \in Pods, P!Evict(q) \/ P!Recreate(q) \/ \E c \in Containers : P!Terminate(q, c) PROVE FALSE
    <2>1. pods \in [Pods -> PodRecord] /\ pods[p].phase # "gone"
      BY <1>T DEF PodTypes, P!There
    <2>2. CASE P!Evict(q)
      BY <2>1, <2>2 DEF P!Evict, PodRecord
    <2>3. CASE P!Recreate(q)
      <3>1. pods'[p] \in {pods[p], P!Pod(pods[p].number + 1)}
        BY <2>1, <2>3 DEF P!Recreate
      <3> QED BY <2>1, <3>1 DEF P!Pod
    <2>4. ASSUME NEW d \in Containers, P!Terminate(q, d) PROVE FALSE
      <3>1. pods'[p].phase \in {pods[p].phase, "ended"}
        BY <2>1, <2>4 DEF P!Terminate, PodRecord
      <3> QED BY <2>1, <3>1
    <2> QED BY <1>2, <2>2, <2>3, <2>4
  <1>3. PICK c \in Collectors : P!Visit(c)
    BY <1>1, <1>2 DEF P!Next, P!Collect, P!List, P!Tick, P!vars
  <1>4. PICK entry \in listed[c] :
          /\ listed' = [listed EXCEPT ![c] = @ \ {entry}]
          /\ P!MatchesPod(entry.pod)
          /\ pods' = [pods EXCEPT ![entry.name].phase = "gone"]
    BY <1>1, <1>3 DEF P!Visit
  <1>5. entry.name = p
    BY <1>4, <1>T DEF PodTypes, P!There, PodRecord
  <1>6. entry.pod.number \in Nat /\ pods[p].number \in Nat /\ entry.pod.number <= pods[p].number
    BY <1>5, <1>T DEF PodInv, ListsEarlier, PodTypes, PodRecord
  <1>7. CASE entry.pod.number = pods[p].number
    <2>1. pods[p] = entry.pod
      BY <1>4, <1>5, <1>7 DEF PodInv, ListsEarlier, P!MatchesPod
    <2> QED BY <1>4, <2>1 DEF P!MatchesPod
  <1>8. CASE entry.pod.number # pods[p].number
    <2>1. entry \in listed[c] \ listed'[c]
      BY <1>4, <1>T DEF PodTypes
    <2> QED BY <1>5, <1>6, <1>8, <2>1
  <1> QED BY <1>7, <1>8

(* The types, and that lists only have earlier states of their pods.       *)
THEOREM PodsTypeCorrect == P!Spec => []PodInv
  <1> QED BY InitPods, NextPods, PTL DEF P!Spec

(* Only pods that ended longer than the age ago are deleted by gc pods, or *)
(* the successor of one that was listed under the same name.               *)
THEOREM PodsDeletedOld == P!Spec => P!OldPodsDeleted
  <1> QED BY PodsTypeCorrect, StepDeletesOld, PTL DEF P!Spec, P!OldPodsDeleted

-----------------------------------------------------------------------------
(* The three together: what they do as a part is what they do alone.       *)

JobsPartInv == part = "jobs" => JobInv

LEMMA JobsPart == MCSpec => []JobsPartInv
  <1>1. MCInit => JobsPartInv
    BY InitJobs, MCAssumption DEF MCInit, JobsPartInv
  <1>2. JobsPartInv /\ [MCNext]_mcvars => JobsPartInv'
    <2> SUFFICES ASSUME JobsPartInv, [MCNext]_mcvars, part' = "jobs" PROVE JobInv'
      BY DEF JobsPartInv
    <2>1. part = "jobs" /\ [J!Next]_J!vars
      BY DEF MCNext, mcvars, J!vars
    <2> QED BY <2>1, NextJobInv, MCAssumption DEF JobsPartInv
  <1> QED BY <1>1, <1>2, PTL DEF MCSpec

LEMMA PodsPart == MCSpec => [][P!Next]_P!vars /\ P!Init
  <1>1. MCInit => P!Init
    BY DEF MCInit
  <1>2. [MCNext]_mcvars => [P!Next]_P!vars
    BY DEF MCNext, mcvars, podvars, P!vars
  <1> QED BY <1>1, <1>2, PTL DEF MCSpec

(* The jobs started last are kept: as long as no job has been suspended, a *)
(* job is deleted only if as many jobs as are to be kept started no        *)
(* earlier and are still there, for any number of collectors, each with a  *)
(* list as old as it may be, failing calls and executions that are killed; *)
(* when jobs have started in the same second, for executions that do not   *)
(* overlap.                                                                *)
THEOREM KeepsLatestJobs == MCSpec => []LatestJobsKept
  <1>1. JobsPartInv => LatestJobsKept
    BY InvariantKeepsJobs, MCAssumption DEF LatestJobsKept, JobsPartInv
  <1> QED BY <1>1, JobsPart, PTL

(* Only pods that ended longer than the age ago are deleted, or one that   *)
(* took the place of a listed pod, however old the lists are.              *)
THEOREM OnlyOldPodsDeleted == MCSpec => OldPodsDeleted
  <1>1. MCSpec => []PodInv
    BY PodsPart, InitPods, NextPods, PTL
  <1>2. PodInv /\ [MCNext]_mcvars => P!DeletesOld
    BY StepDeletesOld DEF MCNext, mcvars, podvars, P!vars
  <1> QED BY <1>1, <1>2, PTL DEF OldPodsDeleted, MCSpec
=============================================================================
