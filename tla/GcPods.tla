------------------------------- MODULE GcPods -------------------------------
(***************************************************************************)
(* `jx gitops gc pods` (pkg/cmd/gc/pods/pods.go): deletes the pods that    *)
(* have ended longer ago than --age.  A collector lists the pods and then  *)
(* deletes one by one, by name; the clock is read for each.  Pods and the  *)
(* controller that creates one again under its name are external.          *)
(***************************************************************************)
EXTENDS Naturals, FiniteSets

CONSTANTS
  Pods, Containers,
  Recreated,        \* those that get a new pod of the same name
  Collectors,       \* executions that may overlap
  Age,
  MaxTime, MaxPods, MaxFailed, \* bounds: of the clock, pods of a name, failing calls
  Nil

VARIABLES
  time,
  pods,    \* the pod of each name
  listed,  \* the pods a collector has still to look at
  failed

vars == <<time, pods, listed, failed>>

(* number: how many pods the name has had; finished: when each container   *)
(* terminated.                                                             *)
Pod(number) == [number |-> number, phase |-> "running", finished |-> [c \in Containers |-> Nil]]

Init ==
  /\ time = 0
  /\ pods = [p \in Pods |-> Pod(1)]
  /\ listed = [c \in Collectors |-> {}]
  /\ failed = 0

Tick == time < MaxTime /\ time' = time + 1 /\ UNCHANGED <<pods, listed, failed>>

There(p) == pods[p].phase # "gone"
Ended(pod) == pod.phase = "ended"

(* A container terminates; the pod ends with the last one, or without any: *)
(* it is evicted.                                                          *)
Terminate(p, c) ==
  /\ pods[p].phase = "running" /\ pods[p].finished[c] = Nil
  /\ LET last == \A d \in Containers \ {c} : pods[p].finished[d] # Nil
     IN pods' = [pods EXCEPT ![p].finished[c] = time, ![p].phase = IF last THEN "ended" ELSE @]
  /\ UNCHANGED <<time, listed, failed>>

Evict(p) ==
  /\ pods[p].phase = "running"
  /\ pods' = [pods EXCEPT ![p].phase = "ended"]
  /\ UNCHANGED <<time, listed, failed>>

Recreate(p) ==
  /\ ~ There(p) /\ p \in Recreated /\ pods[p].number < MaxPods
  /\ pods' = [pods EXCEPT ![p] = Pod(@.number + 1)]
  /\ UNCHANGED <<time, listed, failed>>

Times(pod) == {pod.finished[c] : c \in Containers} \ {Nil}

(* Mutant of MatchesPod: the container that terminated first counts.       *)
MatchesPodFirst(pod) == Ended(pod) /\ (Times(pod) = {} \/ \E t \in Times(pod) : time - t > Age)

(* The container that terminated last counts.  Without one, the pod ended  *)
(* 1000 hours ago.                                                         *)
MatchesPod(pod) == Ended(pod) /\ \A t \in Times(pod) : time - t > Age

List(c) ==
  /\ listed[c] = {}
  /\ listed' = [listed EXCEPT ![c] = {[name |-> p, pod |-> pods[p]] : p \in {p \in Pods : There(p)}}]
  /\ UNCHANGED <<time, pods, failed>>

(* The next pod.  An error, such as that it is gone, does not stop Run.    *)
Visit(c) ==
  \E entry \in listed[c] :
    /\ listed' = [listed EXCEPT ![c] = @ \ {entry}]
    /\ \/ /\ MatchesPod(entry.pod) /\ There(entry.name)
          /\ pods' = [pods EXCEPT ![entry.name].phase = "gone"] /\ UNCHANGED failed
       \/ /\ ~ (MatchesPod(entry.pod) /\ There(entry.name))
          /\ UNCHANGED <<pods, failed>>
       \/ /\ MatchesPod(entry.pod) /\ failed < MaxFailed
          /\ failed' = failed + 1 /\ UNCHANGED pods
    /\ UNCHANGED time

Collect(c) == List(c) \/ Visit(c)

Next ==
  \/ Tick
  \/ \E p \in Pods : Evict(p) \/ Recreate(p) \/ \E c \in Containers : Terminate(p, c)
  \/ \E c \in Collectors : Collect(c)

Spec == Init /\ [][Next]_vars

-----------------------------------------------------------------------------
(* Properties.                                                             *)

(* A pod is deleted only when it has ended and all of its containers that  *)
(* terminated did so longer than the age ago, however old the list is; but *)
(* one that replaced a listed pod of its name goes in its place.           *)
DeletesOld ==
  \A p \in Pods :
    There(p) /\ pods'[p].phase = "gone" =>
      \/ Ended(pods[p]) /\ \A t \in Times(pods[p]) : time - t > Age
      \/ \E c \in Collectors : \E entry \in listed[c] \ listed'[c] :
           entry.name = p /\ entry.pod.number < pods[p].number

OldPodsDeleted == [][DeletesOld]_vars
==============================================================================
