---------------------------- MODULE Builds_proofs ---------------------------
(***************************************************************************)
(* Theorems about BuildNumbers, for any number of builds and branches, and *)
(* about builds whose activities are collected (the instance A of          *)
(* PipelineActivities), for any number of branches, builds and collectors. *)
(***************************************************************************)
EXTENDS MCBuilds, FiniteSetTheorems, SequenceTheorems, WellFoundedInduction, TLAPS

(* A non-empty set of build numbers has a greatest one.                    *)
LEMMA GreatestNumber ==
  ASSUME NEW max \in Nat, NEW S \in SUBSET (1 .. max), S # {}
  PROVE  \E i \in S : \A j \in S : j <= i
<1>. DEFINE T == {max - i : i \in S}
<1>1. T \subseteq Nat /\ T # {}
  <2>1. \A i \in S : i \in 1 .. max /\ max - i \in Nat
    OBVIOUS
  <2>. QED
    BY <2>1
<1>2. PICK k \in T : \A l \in T : ~ (<<l, k>> \in OpToRel(<, Nat))
  BY <1>1, WFMin, NatLessThanWellFounded, Zenon
<1>3. \A l \in T : k <= l
  <2>1. OpToRel(<, Nat) = {ss \in Nat \X Nat : ss[1] < ss[2]}
    BY Zenon DEF OpToRel
  <2>2. \A l \in T : ~ (<<l, k>> \in {ss \in Nat \X Nat : ss[1] < ss[2]})
    BY <1>2, <2>1, Zenon
  <2>3. k \in Nat
    BY <1>1, <1>2
  <2>. HIDE DEF T
  <2>. SUFFICES ASSUME NEW l \in T PROVE k <= l
    OBVIOUS
  <2>4. l \in Nat
    BY <1>1
  <2>5. <<l, k>> \in Nat \X Nat /\ <<l, k>>[1] = l /\ <<l, k>>[2] = k
    BY <2>3, <2>4
  <2>6. ~ (l < k)
    BY <2>2, <2>5, Zenon
  <2>. QED
    BY <2>3, <2>4, <2>6
<1>4. PICK i \in S : k = max - i
  BY DEF T
<1>5. ASSUME NEW j \in S PROVE j <= i
  <2>1. k <= max - j
    BY <1>3
  <2>. QED
    BY <1>4, <2>1
<1>. QED
  BY <1>5

(* So the loop of FindBuildNumber over the activities computes what        *)
(* Highest says.                                                           *)
LEMMA HighestIsMaximum ==
  ASSUME NEW S \in SUBSET Numbers, S # {}
  PROVE  /\ Highest(S) \in S
         /\ \A j \in S : j <= Highest(S)
<1>1. S \in SUBSET (1 .. MaxBuild) /\ MaxBuild \in Nat
  BY BuildNumbersAssumption DEF Numbers
<1>2. \E i \in S : \A j \in S : j <= i
  BY <1>1, GreatestNumber
<1>. QED
  BY <1>2, Zenon DEF Highest

-----------------------------------------------------------------------------

LEMMA ConstantTypes ==
  /\ BranchOf \in [Builds -> Branches]
  /\ MaxBuild \in Nat \ {0}
  /\ ValidName \in [Branches -> Branches]
  /\ MaxReruns \in Nat
  /\ Numbers \subseteq 1 .. MaxBuild
  /\ Numbers \subseteq 0 .. MaxBuild + 1
  /\ Numbers \subseteq Nat
BY BuildNumbersAssumption DEF Numbers

(* The number that ListActivities and ReadLogs go for.                     *)
LEMMA NextNumber ==
  ASSUME NEW S \in SUBSET Names
  PROVE  /\ Highest({n[2] : n \in S}) \in 0 .. MaxBuild
         /\ \A n \in S : n[2] < Highest({m[2] : m \in S}) + 1
<1>. DEFINE N == {n[2] : n \in S}
<1>1. N \in SUBSET Numbers
  BY DEF Names
<1>2. CASE N = {}
  <2>1. Highest(N) = 0 /\ S = {}
    BY <1>2 DEF Highest
  <2>. QED
    BY <2>1, ConstantTypes
<1>3. CASE N # {}
  <2>1. Highest(N) \in N /\ \A j \in N : j <= Highest(N)
    BY <1>1, <1>3, HighestIsMaximum
  <2>2. \A n \in S : n[2] \in N
    OBVIOUS
  <2>3. Highest(N) \in 1 .. MaxBuild
    BY <1>1, <2>1, ConstantTypes
  <2>. HIDE DEF N
  <2>4. SUFFICES ASSUME NEW n \in S PROVE n[2] < Highest(N) + 1
    BY <2>3, ConstantTypes DEF N
  <2>5. n[2] <= Highest(N) /\ n[2] \in Nat
    BY <1>1, <2>1, <2>2, ConstantTypes
  <2>. QED
    BY <2>3, <2>5
<1>. QED
  BY <1>2, <1>3

(* A command that got past the read of GetOrCreate has a number within the *)
(* bound, so it creates or completes an activity that can exist.           *)
ChosenInBounds ==
  \A b \in Builds : alloc[b].pc \in {"create", "building"} => alloc[b].number \in Numbers

LEMMA ChosenIsName ==
  ASSUME TypeOK, ChosenInBounds, NEW b \in Builds, alloc[b].pc \in {"create", "building"}
  PROVE  Chosen(b) \in Names
BY ConstantTypes DEF ChosenInBounds, Chosen, Names

Activities == [status : {"absent", "running", "terminated"}, run : Nat,
               started : {Nil}, completed : {Nil},
               branch : Branches \cup {Nil}, buildID : Builds \cup {Nil}]

(* What the steps do to an activity.                                       *)
LEMMA ActivityTypes ==
  /\ \A a \in Activities : [a EXCEPT !.status = "terminated"] \in Activities
  /\ \A a \in Activities : \A id \in Builds \cup {Nil} : \A br \in Branches \cup {Nil} :
       [a EXCEPT !.buildID = id, !.branch = br] \in Activities
  /\ \A b \in Builds : \A n : store[n].run \in Nat => NewActivity(b, n) \in Activities
<1>1. \A a \in Activities : [a EXCEPT !.status = "terminated"] \in Activities
  BY DEF Activities
<1>2. \A a \in Activities : \A id \in Builds \cup {Nil} : \A br \in Branches \cup {Nil} :
        [a EXCEPT !.buildID = id, !.branch = br] \in Activities
  BY DEF Activities
<1>3. ASSUME NEW b \in Builds, NEW n, store[n].run \in Nat
      PROVE  NewActivity(b, n) \in Activities
  <2>1. NewActivity(b, n) = [status |-> "running", run |-> store[n].run + 1, started |-> Nil,
                             completed |-> Nil, branch |-> BranchOf[b], buildID |-> b]
    <3>1. /\ NoActivity = [status |-> "absent", run |-> 0, started |-> Nil, completed |-> Nil,
                            branch |-> Nil, buildID |-> Nil]
          /\ NewActivity(b, n) = [NoActivity EXCEPT !.status = "running", !.run = store[n].run + 1,
                                                    !.branch = BranchOf[b], !.buildID = b]
      BY Zenon DEF NewActivity, NoActivity
    <3>. DEFINE r == store[n].run + 1
    <3>2. NewActivity(b, n) = [NoActivity EXCEPT !.status = "running", !.run = r,
                                                 !.branch = BranchOf[b], !.buildID = b]
      BY <3>1
    <3>. HIDE DEF r
    <3>3. NewActivity(b, n) = [status |-> "running", run |-> r, started |-> Nil,
                               completed |-> Nil, branch |-> BranchOf[b], buildID |-> b]
      BY <3>1, <3>2
    <3>. QED
      BY <3>3 DEF r
  <2>2. store[n].run + 1 \in Nat /\ BranchOf[b] \in Branches
    BY <1>3, ConstantTypes
  <2>. QED
    BY <2>1, <2>2 DEF Activities
<1>. QED
  BY <1>1, <1>2, <1>3

(* TypeOK but for the activities.                                          *)
CommandsOK ==
  /\ logs \subseteq Names
  /\ alloc \in [Builds -> [pc : {"new", "list", "readLogs", "get", "create", "failed",
                                "building", "finished"},
                          number : 0 .. MaxBuild + 1,
                          from : {Nil, "activities", "logs", "partOfLogs"}]]
  /\ issued \in [Builds -> SUBSET Numbers]
  /\ before \in [Builds -> SUBSET Builds]
  /\ reruns \in 0 .. MaxReruns

LEMMA TypeOKParts ==
  /\ TypeOK <=> store \in [Names -> Activities] /\ CommandsOK
  /\ TypeOK' <=> store' \in [Names -> Activities] /\ CommandsOK'
BY DEF TypeOK, CommandsOK, Activities

(* In every reachable state the state of the resources and of the commands *)
(* is well formed; in particular no command looks for a build number       *)
(* beyond the greatest one by more than one.                               *)
THEOREM TypeCorrect == Spec => [](TypeOK /\ ChosenInBounds)
<1>1. Init => TypeOK /\ ChosenInBounds
  BY ConstantTypes DEF Init, TypeOK, NoActivity, ChosenInBounds
<1>2. TypeOK /\ ChosenInBounds /\ [Next]_vars => TypeOK' /\ ChosenInBounds'
  <2>. SUFFICES ASSUME TypeOK, ChosenInBounds, [Next]_vars
                PROVE  TypeOK' /\ ChosenInBounds'
    OBVIOUS
  <2>. USE ConstantTypes
  <2>1. ASSUME NEW b \in Builds, Trigger(b) PROVE TypeOK' /\ ChosenInBounds'
    BY <2>1 DEF TypeOK, ChosenInBounds, Trigger
  <2>2. ASSUME NEW b \in Builds, ListActivities(b) PROVE TypeOK' /\ ChosenInBounds'
    <3>1. Siblings(b) \in SUBSET Names /\ Own(b) \in SUBSET Names
      BY DEF Siblings, Own
    <3>2. CASE \E n \in Own(b) :
                 /\ issued' = [issued EXCEPT ![b] = @ \cup {n[2]}]
                 /\ alloc' = [alloc EXCEPT ![b] = [pc |-> "building", number |-> n[2], from |-> "activities"]]
      <4>1. PICK n \in Own(b) :
                 /\ issued' = [issued EXCEPT ![b] = @ \cup {n[2]}]
                 /\ alloc' = [alloc EXCEPT ![b] = [pc |-> "building", number |-> n[2], from |-> "activities"]]
        BY <3>2
      <4>2. n[2] \in Numbers
        BY <3>1 DEF Names
      <4>3. n[2] \in 0 .. MaxBuild + 1
        BY <4>2
      <4>. QED
        BY <2>2, <4>1, <4>2, <4>3 DEF TypeOK, ChosenInBounds, ListActivities
    <3>3. CASE alloc' = [alloc EXCEPT ![b] =
                 [pc |-> "get", number |-> Highest({n[2] : n \in Siblings(b)}) + 1, from |-> "activities"]]
               /\ UNCHANGED issued
      <4>1. Highest({n[2] : n \in Siblings(b)}) + 1 \in 0 .. MaxBuild + 1
        BY <3>1, NextNumber
      <4>. QED
        BY <2>2, <3>3, <4>1 DEF TypeOK, ChosenInBounds, ListActivities
    <3>4. CASE alloc' = [alloc EXCEPT ![b].pc = "readLogs"] /\ UNCHANGED issued
      BY <2>2, <3>4 DEF TypeOK, ChosenInBounds, ListActivities
    <3>. QED
      BY <2>2, <3>2, <3>3, <3>4 DEF ListActivities
  <2>3. ASSUME NEW b \in Builds, ReadLogs(b) PROVE TypeOK' /\ ChosenInBounds'
    <3>. DEFINE all == {n[2] : n \in {m \in logs : m[1] = BranchOf[b]}}
    <3>1. all \in SUBSET Numbers
      BY DEF TypeOK, Names
    <3>2. PICK read \in IF LogsBucket THEN SUBSET all ELSE {{}} :
            alloc' = [alloc EXCEPT ![b] =
              [pc |-> "get", number |-> 1 + Highest(read),
               from |-> IF read = all THEN "logs" ELSE "partOfLogs"]]
      BY <2>3 DEF ReadLogs
    <3>. DEFINE highest == Highest(read)
    <3>3. highest \in 0 .. MaxBuild
      <4>1. read \in SUBSET Numbers
        BY <3>1
      <4>2. CASE read = {}
        BY <4>2 DEF Highest
      <4>3. CASE read # {}
        <5>1. Highest(read) \in read
          BY <4>1, <4>3, HighestIsMaximum
        <5>2. Highest(read) \in Numbers
          BY <4>1, <5>1
        <5>. QED
          BY <5>2 DEF Numbers
      <4>. QED
        BY <4>2, <4>3
    <3>. DEFINE from == IF read = all THEN "logs" ELSE "partOfLogs"
    <3>4. from \in {"logs", "partOfLogs"}
      OBVIOUS
    <3>5. alloc' = [alloc EXCEPT ![b] = [pc |-> "get", number |-> 1 + highest, from |-> from]]
      BY <3>2
    <3>6. /\ UNCHANGED <<store, logs, issued, before, reruns>>
      BY <2>3 DEF ReadLogs
    <3>. HIDE DEF highest, from
    <3>. QED
      BY <3>3, <3>4, <3>5, <3>6 DEF TypeOK, ChosenInBounds
  <2>4. ASSUME NEW b \in Builds, GetActivity(b) PROVE TypeOK' /\ ChosenInBounds'
    <3>1. alloc[b].number \in Numbers /\ Chosen(b) \in Names
      BY <2>4 DEF GetActivity, Chosen, Names
    <3>2. CASE Exists(Chosen(b))
      <4>1. PICK id \in {b, store[Chosen(b)].buildID}, br \in {BranchOf[b], store[Chosen(b)].branch} :
                   store' = [store EXCEPT ![Chosen(b)].buildID = id, ![Chosen(b)].branch = br]
        BY <2>4, <3>2 DEF GetActivity
      <4>2. id \in Builds \cup {Nil} /\ br \in Branches \cup {Nil}
        BY <3>1, <4>1 DEF TypeOK
      <4>3. store' \in [Names -> Activities]
        <5>1. store' = [store EXCEPT ![Chosen(b)] = [store[Chosen(b)] EXCEPT !.buildID = id, !.branch = br]]
          BY <3>1, <4>1 DEF TypeOK
        <5>2. store[Chosen(b)] \in Activities /\ store \in [Names -> Activities]
          BY <3>1 DEF TypeOK, Activities
        <5>3. [store[Chosen(b)] EXCEPT !.buildID = id, !.branch = br] \in Activities
          BY <4>2, <5>2, ActivityTypes
        <5>. QED
          BY <3>1, <5>1, <5>2, <5>3
      <4>4. /\ issued' = [issued EXCEPT ![b] = @ \cup {alloc[b].number}]
            /\ alloc' = [alloc EXCEPT ![b].pc = "building"]
            /\ UNCHANGED <<logs, before, reruns>>
        BY <2>4, <3>2 DEF GetActivity
      <4>. QED
        <5>1. CommandsOK' /\ ChosenInBounds'
          BY <3>1, <4>3, <4>4, TypeOKParts DEF CommandsOK, ChosenInBounds
        <5>. QED
          BY <3>1, <4>3, <4>4, <5>1, TypeOKParts
    <3>3. CASE ~ Exists(Chosen(b))
      <4>1. /\ alloc' = [alloc EXCEPT ![b].pc = "create"]
            /\ UNCHANGED <<store, logs, issued, before, reruns>>
        BY <2>4, <3>3 DEF GetActivity
      <4>. QED
        <5>1. CommandsOK' /\ ChosenInBounds'
          BY <3>1, <4>1, TypeOKParts DEF CommandsOK, ChosenInBounds
        <5>. QED
          BY <3>1, <4>1, <5>1, TypeOKParts
    <3>. QED
      BY <3>2, <3>3
  <2>5. ASSUME NEW b \in Builds, CreateActivity(b) PROVE TypeOK' /\ ChosenInBounds'
    <3>1. alloc[b].number \in Numbers /\ Chosen(b) \in Names
      BY <2>5, ChosenIsName DEF CreateActivity, ChosenInBounds
    <3>2. CASE Exists(Chosen(b))
      <4>1. /\ alloc' = [alloc EXCEPT ![b].pc = "failed"]
            /\ UNCHANGED <<store, logs, issued, before, reruns>>
        BY <2>5, <3>2 DEF CreateActivity
      <4>. QED
        BY <4>1 DEF TypeOK, ChosenInBounds
    <3>3. CASE ~ Exists(Chosen(b))
      <4>1. store' \in [Names -> Activities]
        <5>1. store' = [store EXCEPT ![Chosen(b)] = NewActivity(b, Chosen(b))]
          BY <2>5, <3>3 DEF CreateActivity
        <5>2. store[Chosen(b)].run \in Nat /\ store \in [Names -> Activities]
          BY <3>1 DEF TypeOK, Activities
        <5>3. NewActivity(b, Chosen(b)) \in Activities
          BY <5>2, ActivityTypes
        <5>. QED
          BY <3>1, <5>1, <5>2, <5>3
      <4>2. /\ issued' = [issued EXCEPT ![b] = @ \cup {alloc[b].number}]
            /\ alloc' = [alloc EXCEPT ![b].pc = "building"]
            /\ UNCHANGED <<logs, before, reruns>>
        BY <2>5, <3>3 DEF CreateActivity
      <4>. QED
        <5>1. CommandsOK' /\ ChosenInBounds'
          BY <3>1, <4>1, <4>2, TypeOKParts DEF CommandsOK, ChosenInBounds
        <5>. QED
          BY <3>1, <4>1, <4>2, <5>1, TypeOKParts
    <3>. QED
      BY <3>2, <3>3
  <2>6. ASSUME NEW b \in Builds, Rerun(b) PROVE TypeOK' /\ ChosenInBounds'
    BY <2>6 DEF TypeOK, ChosenInBounds, Rerun
  <2>7. ASSUME NEW b \in Builds, GiveUp(b) PROVE TypeOK' /\ ChosenInBounds'
    BY <2>7 DEF TypeOK, ChosenInBounds, GiveUp
  <2>8. ASSUME NEW b \in Builds, Finish(b) PROVE TypeOK' /\ ChosenInBounds'
    <3>1. Chosen(b) \in Names
      BY <2>8, ChosenIsName DEF Finish
    <3>2. store' \in [Names -> Activities]
      <4>1. store' = [store EXCEPT ![Chosen(b)] = [store[Chosen(b)] EXCEPT !.status = "terminated"]]
        BY <2>8 DEF Finish
      <4>2. store[Chosen(b)] \in Activities /\ store \in [Names -> Activities]
        BY <3>1 DEF TypeOK, Activities
      <4>3. [store[Chosen(b)] EXCEPT !.status = "terminated"] \in Activities
        BY <4>2, ActivityTypes
      <4>. QED
        BY <3>1, <4>1, <4>2, <4>3
    <3>3. /\ alloc' = [alloc EXCEPT ![b].pc = "finished"]
          /\ logs' = logs \cup {<<BranchOf[b], alloc[b].number>>}
          /\ UNCHANGED <<issued, before, reruns>>
      BY <2>8 DEF Finish
    <3>4. <<BranchOf[b], alloc[b].number>> \in Names
      BY <2>8, <3>1 DEF Finish, Chosen, Names
    <3>. QED
      <4>1. CommandsOK'
        BY <3>3, <3>4, TypeOKParts DEF CommandsOK
      <4>2. ChosenInBounds'
        BY <3>3, TypeOKParts DEF CommandsOK, ChosenInBounds
      <4>. QED
        BY <3>2, <4>1, <4>2, TypeOKParts
  <2>9. CASE UNCHANGED vars
    BY <2>9 DEF TypeOK, ChosenInBounds, vars
  <2>. QED
    BY <2>1, <2>2, <2>3, <2>4, <2>5, <2>6, <2>7, <2>8, <2>9 DEF Next, FindBuildNumber
<1>. QED
  BY <1>1, <1>2, PTL DEF Spec

-----------------------------------------------------------------------------

(* An activity has the name of its branch.                                 *)
NamedAfterBranch ==
  \A n \in Names : Exists(n) => store[n].branch \in Branches /\ ValidName[store[n].branch] = n[1]

(* The builds of the branch of b that had finished before b was triggered  *)
(* were all given smaller numbers than n, if the branch sees them.         *)
Above(b, n) ==
  SeesAll(BranchOf[b]) => \A a \in before[b] : BranchOf[a] = BranchOf[b] => \A m \in issued[a] : m < n

(* Why a later build gets a greater number.  The numbers of the builds     *)
(* before b are those of activities that still exist, and these builds     *)
(* take no other number any more; so whichever way FindBuildNumber chooses *)
(* - the highest activity plus one, the logs when the branch has no        *)
(* activity, an activity labelled with b - it ends above them.             *)
IssuedExist(b) == \A m \in issued[b] : Exists(<<ValidName[BranchOf[b]], m>>)

NumberIssued(b) == alloc[b].pc = "building" => alloc[b].number \in issued[b]

BeforeFinished(b) == \A a \in before[b] : alloc[a].pc = "finished"

NewUnknown(b) ==
  alloc[b].pc = "new" => issued[b] = {} /\ \A n \in Names : store[n].buildID # b

LogsAreEnough(b) ==
  alloc[b].pc = "readLogs" /\ SeesAll(BranchOf[b]) =>
    \A a \in before[b] : BranchOf[a] = BranchOf[b] => issued[a] = {}

ChosenAbove(b) == alloc[b].pc \in {"get", "create"} => Above(b, alloc[b].number)

LabelledAbove(b) ==
  \A n \in Names : store[n].buildID = b => Above(b, n[2])

IssuedAbove(b) == \A n \in issued[b] : Above(b, n)

BuildInv(b) ==
  /\ IssuedExist(b)
  /\ NumberIssued(b)
  /\ BeforeFinished(b)
  /\ NewUnknown(b)
  /\ LogsAreEnough(b)
  /\ ChosenAbove(b)
  /\ LabelledAbove(b)
  /\ IssuedAbove(b)

Inv == NamedAfterBranch /\ \A b \in Builds : BuildInv(b)

(* The activities of a branch that sees them all.                          *)
LEMMA SeenActivities ==
  ASSUME NamedAfterBranch, NEW b \in Builds, SeesAll(BranchOf[b]),
         NEW n \in Names, n[1] = ValidName[BranchOf[b]], Exists(n)
  PROVE  n \in Siblings(b)
BY DEF NamedAfterBranch, SeesAll, Siblings

(* While b runs, no other build counts it among those before it: what b    *)
(* does to its own numbers moves no bound.                                 *)
LEMMA BoundsStable ==
  ASSUME TypeOK, Inv, NEW b \in Builds, alloc[b].pc # "finished",
         before' = before, \A a \in Builds \ {b} : issued'[a] = issued[a],
         NEW c \in Builds
  PROVE  /\ \A a \in before[c] : a \in Builds /\ a # b /\ issued'[a] = issued[a]
         /\ \A n : Above(c, n) => Above(c, n)'
<1>1. BeforeFinished(c)
  BY DEF Inv, BuildInv
<1>2. \A a \in before[c] : a \in Builds /\ a # b /\ issued'[a] = issued[a]
  BY <1>1 DEF BeforeFinished, TypeOK
<1>3. SUFFICES ASSUME NEW n, Above(c, n) PROVE Above(c, n)'
  BY <1>2
<1>. QED
  BY <1>2, <1>3 DEF Above

(* A step of b that leaves the resources and the numbers alone.            *)
LEMMA LocalStep ==
  ASSUME TypeOK, Inv, NEW b \in Builds, alloc[b].pc \notin {"new", "finished"},
         NEW k, \A a \in Builds \ {b} : alloc'[a] = alloc[a],
         alloc'[b].pc \notin {"new", "building"},
         alloc'[b].pc \in {"get", "create"} => alloc'[b].number = k /\ Above(b, k),
         alloc'[b].pc = "readLogs" /\ SeesAll(BranchOf[b]) =>
           \A a \in before[b] : BranchOf[a] = BranchOf[b] => issued[a] = {},
         UNCHANGED <<store, issued, before>>
  PROVE  Inv'
<1>0. NamedAfterBranch'
  BY DEF Inv, NamedAfterBranch, Exists
<1>. SUFFICES ASSUME NEW c \in Builds PROVE BuildInv(c)'
  BY <1>0 DEF Inv
<1>1. BuildInv(c) /\ BuildInv(b)
  BY DEF Inv
<1>2. \A a \in Builds : a # b => alloc'[a] = alloc[a]
  OBVIOUS
<1>4. \A a, n : Above(a, n) => Above(a, n)'
  BY DEF Above, SeesAll
<1>5. before[c] \subseteq Builds /\ b \notin before[c]
  BY <1>1 DEF BuildInv, BeforeFinished, TypeOK
<1>6. IssuedExist(c)' /\ NumberIssued(c)'
  BY <1>1, <1>2 DEF BuildInv, IssuedExist, NumberIssued, Exists
<1>7. BeforeFinished(c)'
  BY <1>1, <1>2, <1>5 DEF BuildInv, BeforeFinished
<1>8. NewUnknown(c)'
  BY <1>1, <1>2 DEF BuildInv, NewUnknown
<1>9. LogsAreEnough(c)'
  BY <1>1, <1>2 DEF BuildInv, LogsAreEnough
<1>10. ChosenAbove(c)'
  BY <1>1, <1>2, <1>4 DEF BuildInv, ChosenAbove
<1>11. LabelledAbove(c)' /\ IssuedAbove(c)'
  BY <1>1, <1>4 DEF BuildInv, LabelledAbove, IssuedAbove
<1>. QED
  BY <1>6, <1>7, <1>8, <1>9, <1>10, <1>11 DEF BuildInv

(* The step in which the command returns n to b.                           *)
LEMMA IssueStep ==
  ASSUME TypeOK, Inv, NEW b \in Builds, alloc[b].pc \notin {"new", "finished"},
         NEW n \in Numbers, Above(b, n),
         \A a \in Builds \ {b} : alloc'[a] = alloc[a],
         alloc'[b].pc = "building", alloc'[b].number = n,
         issued' = [issued EXCEPT ![b] = @ \cup {n}],
         before' = before,
         Exists(<<ValidName[BranchOf[b]], n>>)', NamedAfterBranch',
         \A m \in Names : Exists(m) => Exists(m)',
         \A m \in Names : \/ store'[m].buildID = store[m].buildID
                          \/ m = <<ValidName[BranchOf[b]], n>> /\ store'[m].buildID = b
  PROVE  Inv'
<1>. SUFFICES ASSUME NEW c \in Builds PROVE BuildInv(c)'
  BY DEF Inv
<1>1. BuildInv(c) /\ BuildInv(b)
  BY DEF Inv
<1>2. /\ \A a \in Builds : a # b => alloc'[a] = alloc[a] /\ issued'[a] = issued[a]
      /\ issued'[b] = issued[b] \cup {n}
  BY DEF TypeOK
<1>3. /\ \A a \in before[c] : a \in Builds /\ a # b /\ issued'[a] = issued[a]
      /\ \A m : Above(c, m) => Above(c, m)'
  BY <1>2, BoundsStable
<1>4. IssuedExist(c)'
  <2>1. \A m \in issued[c] : <<ValidName[BranchOf[c]], m>> \in Names
    BY ConstantTypes DEF TypeOK, Names
  <2>2. CASE c = b
    BY <1>1, <1>2, <2>1, <2>2 DEF BuildInv, IssuedExist
  <2>3. CASE c # b
    BY <1>1, <1>2, <2>1, <2>3 DEF BuildInv, IssuedExist
  <2>. QED
    BY <2>2, <2>3
<1>5. BeforeFinished(c)'
  BY <1>1, <1>2, <1>3 DEF BuildInv, BeforeFinished
<1>6. NewUnknown(c)'
  BY <1>1, <1>2 DEF BuildInv, NewUnknown
<1>7. LogsAreEnough(c)'
  BY <1>1, <1>2, <1>3 DEF BuildInv, LogsAreEnough
<1>8. ChosenAbove(c)'
  BY <1>1, <1>2, <1>3 DEF BuildInv, ChosenAbove
<1>9. LabelledAbove(c)'
  <2>. SUFFICES ASSUME NEW m \in Names, store'[m].buildID = c
                PROVE  Above(c, m[2])
    BY <1>3 DEF LabelledAbove
  <2>1. CASE store'[m].buildID = store[m].buildID
    BY <1>1, <2>1 DEF BuildInv, LabelledAbove
  <2>2. CASE m = <<ValidName[BranchOf[b]], n>> /\ store'[m].buildID = b
    BY <2>2
  <2>. QED
    BY <2>1, <2>2
<1>10. IssuedAbove(c)'
  BY <1>1, <1>2, <1>3 DEF BuildInv, IssuedAbove
<1>11. NumberIssued(c)'
  BY <1>1, <1>2 DEF BuildInv, NumberIssued
<1>. QED
  BY <1>4, <1>5, <1>6, <1>7, <1>8, <1>9, <1>10, <1>11 DEF BuildInv

LEMMA InvInit == Init => Inv
<1>. SUFFICES ASSUME Init, NEW b \in Builds PROVE BuildInv(b)
  <2>1. ASSUME Init PROVE NamedAfterBranch
    BY <2>1 DEF Init, NamedAfterBranch, Exists, NoActivity
  <2>. QED
    BY <2>1 DEF Inv
<1>1. issued[b] = {} /\ before[b] = {} /\ alloc[b].pc = "new"
  BY DEF Init
<1>2. \A n \in Names : store[n].buildID = Nil /\ b # Nil
  BY BuildNumbersAssumption DEF Init, NoActivity
<1>. QED
  BY <1>1, <1>2 DEF BuildInv, IssuedExist, NumberIssued, BeforeFinished, NewUnknown, LogsAreEnough,
                    ChosenAbove, LabelledAbove, IssuedAbove

LEMMA InvNext == TypeOK /\ ChosenInBounds /\ Inv /\ [Next]_vars => Inv'
<1>. SUFFICES ASSUME TypeOK, ChosenInBounds, Inv, [Next]_vars PROVE Inv'
  OBVIOUS
<1>0. ASSUME NEW b \in Builds PROVE BuildInv(b)
  BY DEF Inv
<1>1. ASSUME NEW b \in Builds, Trigger(b) PROVE Inv'
  <2>0. NamedAfterBranch'
    BY <1>1 DEF Trigger, Inv, NamedAfterBranch, Exists
  <2>. SUFFICES ASSUME NEW c \in Builds PROVE BuildInv(c)'
    BY <2>0 DEF Inv
  <2>1. /\ \A a \in Builds : a # b => alloc'[a] = alloc[a] /\ before'[a] = before[a]
        /\ alloc[b].pc = "new" /\ alloc'[b].pc = "list"
        /\ \A a \in before'[b] : a \in Builds /\ alloc[a].pc = "finished"
        /\ UNCHANGED <<store, issued>>
    BY <1>1 DEF Trigger, TypeOK
  <2>2. BuildInv(c)
    BY <1>0
  <2>3. IssuedExist(c)' /\ NumberIssued(c)'
    BY <2>1, <2>2 DEF BuildInv, IssuedExist, NumberIssued, Exists
  <2>4. BeforeFinished(c)'
    <3>1. \A a \in before'[c] : a \in Builds /\ alloc[a].pc = "finished"
      BY <2>1, <2>2 DEF BuildInv, BeforeFinished, TypeOK
    <3>. QED
      BY <2>1, <3>1 DEF BeforeFinished
  <2>5. NewUnknown(c)' /\ LogsAreEnough(c)'
    BY <2>1, <2>2 DEF BuildInv, NewUnknown, LogsAreEnough
  <2>6. CASE c = b
    <3>1. issued'[c] = {} /\ \A n \in Names : store'[n].buildID # c
      BY <2>1, <2>2, <2>6 DEF BuildInv, NewUnknown
    <3>2. ChosenAbove(c)' /\ LabelledAbove(c)' /\ IssuedAbove(c)'
      BY <2>1, <2>6, <3>1 DEF ChosenAbove, LabelledAbove, IssuedAbove
    <3>. QED
      BY <2>3, <2>4, <2>5, <3>2 DEF BuildInv
  <2>7. CASE c # b
    <3>1. \A n : Above(c, n) => Above(c, n)'
      BY <2>1, <2>7 DEF Above, SeesAll
    <3>2. ChosenAbove(c)' /\ LabelledAbove(c)' /\ IssuedAbove(c)'
      BY <2>1, <2>2, <2>7, <3>1 DEF BuildInv, ChosenAbove, LabelledAbove, IssuedAbove
    <3>. QED
      BY <2>3, <2>4, <2>5, <3>2 DEF BuildInv
  <2>. QED
    BY <2>6, <2>7
<1>2. ASSUME NEW b \in Builds, ListActivities(b) PROVE Inv'
  <2>0. /\ alloc[b].pc \notin {"new", "finished"}
        /\ UNCHANGED <<store, before>>
    BY <1>2 DEF ListActivities, TypeOK
  <2>1. BuildInv(b)
    BY <1>0
  <2>2. Siblings(b) \in SUBSET Names /\ Own(b) \subseteq Siblings(b)
    BY DEF Siblings, Own
  <2>3. ASSUME NEW n \in Own(b),
               issued' = [issued EXCEPT ![b] = @ \cup {n[2]}],
               alloc' = [alloc EXCEPT ![b] = [pc |-> "building", number |-> n[2], from |-> "activities"]]
        PROVE  Inv'
    <3>1. /\ n \in Names /\ n = <<n[1], n[2]>> /\ n[2] \in Numbers
          /\ Exists(n) /\ store[n].buildID = b
      BY <2>2, <2>3 DEF Own, Siblings, Names
    <3>0. n[1] = ValidName[BranchOf[b]]
      <4>1. store[n].branch \in {BranchOf[b], ValidName[BranchOf[b]]}
        BY <2>3 DEF Own, Siblings
      <4>2. ValidName[ValidName[BranchOf[b]]] = ValidName[BranchOf[b]]
        BY BuildNumbersAssumption
      <4>. QED
        BY <3>1, <4>1, <4>2 DEF Inv, NamedAfterBranch
    <3>6. NamedAfterBranch'
      BY <2>0 DEF Inv, NamedAfterBranch, Exists
    <3>2. Above(b, n[2])
      BY <2>1, <3>1 DEF BuildInv, LabelledAbove
    <3>3. \A m : Exists(m) => Exists(m)'
      BY <2>0 DEF Exists
    <3>4. alloc'[b].pc = "building" /\ alloc'[b].number = n[2] /\ \A a \in Builds \ {b} : alloc'[a] = alloc[a]
      BY <2>3 DEF TypeOK
    <3>. QED
      <4>1. n = <<ValidName[BranchOf[b]], n[2]>>
        BY <3>0, <3>1
      <4>2. \A m \in Names : store'[m].buildID = store[m].buildID
        BY <2>0
      <4>. QED
        BY <2>0, <2>3, <3>1, <3>2, <3>3, <3>4, <3>6, <4>1, <4>2, IssueStep
  <2>4. ASSUME alloc' = [alloc EXCEPT ![b] =
                 [pc |-> "get", number |-> Highest({n[2] : n \in Siblings(b)}) + 1, from |-> "activities"]],
               UNCHANGED issued
        PROVE  Inv'
    <3>. DEFINE next == Highest({n[2] : n \in Siblings(b)}) + 1
    <3>1. Above(b, next)
      <4>. SUFFICES ASSUME SeesAll(BranchOf[b]), NEW a \in before[b], BranchOf[a] = BranchOf[b], NEW m \in issued[a]
                    PROVE  m < next
        BY DEF Above
      <4>1. a \in Builds /\ m \in Numbers
        BY DEF TypeOK
      <4>2. <<ValidName[BranchOf[b]], m>> \in Siblings(b)
        <5>1. <<ValidName[BranchOf[b]], m>> \in Names
          BY <4>1, ConstantTypes DEF Names
        <5>2. Exists(<<ValidName[BranchOf[b]], m>>)
          BY <1>0, <4>1 DEF BuildInv, IssuedExist
        <5>. QED
          BY <5>1, <5>2, SeenActivities DEF Inv
      <4>. QED
        BY <2>2, <4>2, NextNumber
    <3>2. /\ alloc'[b].pc = "get" /\ alloc'[b].number = next
          /\ \A a \in Builds \ {b} : alloc'[a] = alloc[a]
      BY <2>4 DEF TypeOK
    <3>. HIDE DEF next
    <3>. QED
      BY <2>0, <2>4, <3>1, <3>2, LocalStep
  <2>5. ASSUME alloc' = [alloc EXCEPT ![b].pc = "readLogs"], UNCHANGED issued, Siblings(b) = {}
        PROVE  Inv'
    <3>1. SeesAll(BranchOf[b]) => \A a \in before[b] : BranchOf[a] = BranchOf[b] => issued[a] = {}
      <4>. SUFFICES ASSUME SeesAll(BranchOf[b]), NEW a \in before[b], BranchOf[a] = BranchOf[b], NEW m \in issued[a]
                    PROVE  FALSE
        OBVIOUS
      <4>1. a \in Builds /\ m \in Numbers
        BY DEF TypeOK
      <4>2. <<ValidName[BranchOf[b]], m>> \in Siblings(b)
        <5>1. <<ValidName[BranchOf[b]], m>> \in Names
          BY <4>1, ConstantTypes DEF Names
        <5>2. Exists(<<ValidName[BranchOf[b]], m>>)
          BY <1>0, <4>1 DEF BuildInv, IssuedExist
        <5>. QED
          BY <5>1, <5>2, SeenActivities DEF Inv
      <4>. QED
        BY <2>5, <4>2
    <3>2. alloc'[b].pc = "readLogs" /\ \A a \in Builds \ {b} : alloc'[a] = alloc[a]
      BY <2>5 DEF TypeOK
    <3>. QED
      BY <2>0, <2>5, <3>1, <3>2, LocalStep
  <2>. QED
    BY <1>2, <2>3, <2>4, <2>5 DEF ListActivities
<1>3. ASSUME NEW b \in Builds, ReadLogs(b) PROVE Inv'
  <2>1. PICK n, f : alloc' = [alloc EXCEPT ![b] = [pc |-> "get", number |-> n, from |-> f]]
    BY <1>3 DEF ReadLogs
  <2>4. /\ alloc'[b].pc = "get" /\ alloc'[b].number = n
        /\ \A a \in Builds \ {b} : alloc'[a] = alloc[a]
    BY <2>1 DEF TypeOK
  <2>2. alloc[b].pc = "readLogs" /\ UNCHANGED <<store, issued, before>>
    BY <1>3 DEF ReadLogs
  <2>3. Above(b, n)
    BY <1>0, <2>2 DEF BuildInv, LogsAreEnough, Above
  <2>. QED
    BY <2>2, <2>3, <2>4, LocalStep
<1>4. ASSUME NEW b \in Builds, GetActivity(b) PROVE Inv'
  <2>1. PICK k \in Numbers : k = alloc[b].number
    BY <1>4 DEF GetActivity
  <2>. DEFINE name == <<ValidName[BranchOf[b]], k>>
  <2>2. name \in Names /\ Chosen(b) = name /\ alloc[b].pc = "get" /\ before' = before
    BY <1>4, <2>1, ConstantTypes DEF GetActivity, Chosen, Names
  <2>3. Above(b, k)
    BY <1>0, <2>1, <2>2 DEF BuildInv, ChosenAbove
  <2>. HIDE DEF name
  <2>4. CASE Exists(name)
    <3>1. PICK id \in {b, store[name].buildID}, br \in {BranchOf[b], store[name].branch} :
                 store' = [store EXCEPT ![name].buildID = id, ![name].branch = br]
      BY <1>4, <2>2, <2>4 DEF GetActivity
    <3>2. /\ issued' = [issued EXCEPT ![b] = @ \cup {k}]
          /\ alloc' = [alloc EXCEPT ![b].pc = "building"]
      BY <1>4, <2>1, <2>2, <2>4 DEF GetActivity
    <3>3. \A m \in Names : /\ store'[m].status = store[m].status
                           /\ \/ store'[m].buildID = store[m].buildID
                              \/ m = name /\ store'[m].buildID = b
      BY <2>2, <3>1 DEF TypeOK
    <3>4. Exists(name)' /\ \A m \in Names : Exists(m) => Exists(m)'
      BY <2>2, <2>4, <3>3 DEF Exists, name
    <3>6. NamedAfterBranch'
      <4>1. /\ \A m \in Names : m # name => store'[m] = store[m]
            /\ store'[name].branch \in {BranchOf[b], store[name].branch}
        BY <2>2, <3>1 DEF TypeOK
      <4>2. name[1] = ValidName[BranchOf[b]] /\ BranchOf[b] \in Branches
        BY ConstantTypes DEF name
      <4>. QED
        BY <2>2, <2>4, <4>1, <4>2 DEF Inv, NamedAfterBranch, Exists
    <3>5. alloc'[b].pc = "building" /\ alloc'[b].number = k /\ \A a \in Builds \ {b} : alloc'[a] = alloc[a]
      BY <2>1, <3>2 DEF TypeOK
    <3>. QED
      <4>1. Exists(<<ValidName[BranchOf[b]], k>>)'
        BY <3>4 DEF name
      <4>2. \A m \in Names : \/ store'[m].buildID = store[m].buildID
                             \/ m = <<ValidName[BranchOf[b]], k>> /\ store'[m].buildID = b
        BY <3>3 DEF name
      <4>. QED
        BY <2>2, <2>3, <3>2, <3>4, <3>5, <3>6, <4>1, <4>2, IssueStep
  <2>5. CASE ~ Exists(name)
    <3>1. alloc' = [alloc EXCEPT ![b].pc = "create"] /\ UNCHANGED <<store, issued>>
      BY <1>4, <2>2, <2>5 DEF GetActivity
    <3>2. /\ alloc'[b].pc = "create" /\ alloc'[b].number = k
          /\ \A a \in Builds \ {b} : alloc'[a] = alloc[a]
      BY <2>1, <3>1 DEF TypeOK
    <3>. QED
      BY <2>2, <2>3, <3>1, <3>2, LocalStep
  <2>. QED
    BY <2>4, <2>5
<1>5. ASSUME NEW b \in Builds, CreateActivity(b) PROVE Inv'
  <2>1. PICK k \in Numbers : k = alloc[b].number
    BY <1>5 DEF CreateActivity, ChosenInBounds
  <2>. DEFINE name == <<ValidName[BranchOf[b]], k>>
  <2>2. name \in Names /\ Chosen(b) = name /\ alloc[b].pc = "create" /\ before' = before
    BY <1>5, <2>1, ConstantTypes DEF CreateActivity, Chosen, Names
  <2>3. Above(b, k)
    BY <1>0, <2>1, <2>2 DEF BuildInv, ChosenAbove
  <2>. HIDE DEF name
  <2>4. CASE Exists(name)
    <3>1. alloc' = [alloc EXCEPT ![b].pc = "failed"] /\ UNCHANGED <<store, issued>>
      BY <1>5, <2>2, <2>4 DEF CreateActivity
    <3>2. alloc'[b].pc = "failed" /\ \A a \in Builds \ {b} : alloc'[a] = alloc[a]
      BY <3>1 DEF TypeOK
    <3>. QED
      BY <2>2, <3>1, <3>2, LocalStep
  <2>5. CASE ~ Exists(name)
    <3>1. /\ store' = [store EXCEPT ![name] = NewActivity(b, name)]
          /\ issued' = [issued EXCEPT ![b] = @ \cup {k}]
          /\ alloc' = [alloc EXCEPT ![b].pc = "building"]
      BY <1>5, <2>1, <2>2, <2>5 DEF CreateActivity
    <3>2. /\ \A m \in Names : m # name => store'[m] = store[m]
          /\ store'[name].status = "running" /\ store'[name].buildID = b
          /\ store'[name].branch = BranchOf[b]
      BY <2>2, <3>1 DEF TypeOK, NewActivity, NoActivity
    <3>3. Exists(name)' /\ \A m \in Names : Exists(m) => Exists(m)'
      BY <2>2, <3>2 DEF Exists, name
    <3>4. alloc'[b].pc = "building" /\ alloc'[b].number = k /\ \A a \in Builds \ {b} : alloc'[a] = alloc[a]
      BY <2>1, <3>1 DEF TypeOK
    <3>5. \A m \in Names : \/ store'[m].buildID = store[m].buildID
                           \/ m = name /\ store'[m].buildID = b
      BY <3>2
    <3>6. NamedAfterBranch'
      <4>1. name[1] = ValidName[BranchOf[b]] /\ BranchOf[b] \in Branches
        BY ConstantTypes DEF name
      <4>. QED
        BY <2>2, <3>2, <4>1 DEF Inv, NamedAfterBranch, Exists
    <3>. QED
      BY <2>2, <2>3, <3>1, <3>3, <3>4, <3>5, <3>6, IssueStep DEF name
  <2>. QED
    BY <2>4, <2>5
<1>6. ASSUME NEW b \in Builds, Rerun(b) PROVE Inv'
  <2>1. /\ alloc[b].pc \notin {"new", "finished"}
        /\ alloc'[b].pc = "list" /\ \A a \in Builds \ {b} : alloc'[a] = alloc[a]
        /\ UNCHANGED <<store, issued, before>>
    BY <1>6 DEF Rerun, TypeOK
  <2>. QED
    BY <2>1, LocalStep
<1>7. ASSUME NEW b \in Builds, GiveUp(b) PROVE Inv'
  <2>1. /\ alloc[b].pc \notin {"new", "finished"}
        /\ alloc'[b].pc = "finished" /\ \A a \in Builds \ {b} : alloc'[a] = alloc[a]
        /\ UNCHANGED <<store, issued, before>>
    BY <1>7 DEF GiveUp, TypeOK
  <2>. QED
    BY <2>1, LocalStep
<1>8. ASSUME NEW b \in Builds, Finish(b) PROVE Inv'
  <2>1. alloc[b].pc = "building" /\ Chosen(b) \in Names
    BY <1>8, ChosenIsName DEF Finish
  <2>2. /\ alloc'[b].pc = "finished" /\ \A a \in Builds \ {b} : alloc'[a] = alloc[a]
        /\ UNCHANGED <<issued, before>>
    BY <1>8 DEF Finish, TypeOK
  <2>3. /\ \A m \in Names : store'[m].buildID = store[m].buildID
        /\ \A m \in Names : Exists(m) => Exists(m)'
    BY <1>8, <2>1 DEF Finish, TypeOK, Exists
  <2>4. \A a, n : Above(a, n) => Above(a, n)'
    BY <2>2 DEF Above, SeesAll
  <2>0. NamedAfterBranch'
    <3>1. /\ store' = [store EXCEPT ![Chosen(b)].status = "terminated"]
          /\ store \in [Names -> Activities]
      BY <1>8 DEF Finish, TypeOK, Activities
    <3>2. \A m \in Names : store'[m].branch = store[m].branch
      BY <2>1, <3>1 DEF Activities
    <3>3. Exists(Chosen(b))
      BY <1>0, <2>1 DEF BuildInv, NumberIssued, IssuedExist, Chosen
    <3>4. \A m \in Names : Exists(m)' => Exists(m)
      BY <2>1, <3>1, <3>3 DEF Exists, Activities
    <3>. QED
      BY <3>2, <3>4 DEF Inv, NamedAfterBranch
  <2>. SUFFICES ASSUME NEW c \in Builds PROVE BuildInv(c)'
    BY <2>0 DEF Inv
  <2>5. BuildInv(c)
    BY <1>0
  <2>6. IssuedExist(c)'
    <3>1. \A m \in issued[c] : <<ValidName[BranchOf[c]], m>> \in Names
      BY ConstantTypes DEF TypeOK, Names
    <3>. QED
      BY <2>2, <2>3, <2>5, <3>1 DEF BuildInv, IssuedExist
  <2>11. NumberIssued(c)'
    BY <2>2, <2>5 DEF BuildInv, NumberIssued
  <2>7. BeforeFinished(c)'
    BY <2>1, <2>2, <2>5 DEF BuildInv, BeforeFinished, TypeOK
  <2>8. NewUnknown(c)'
    BY <2>2, <2>3, <2>5 DEF BuildInv, NewUnknown
  <2>9. LogsAreEnough(c)' /\ ChosenAbove(c)'
    BY <2>2, <2>4, <2>5 DEF BuildInv, LogsAreEnough, ChosenAbove
  <2>10. LabelledAbove(c)' /\ IssuedAbove(c)'
    BY <2>2, <2>3, <2>4, <2>5 DEF BuildInv, LabelledAbove, IssuedAbove
  <2>. QED
    BY <2>6, <2>7, <2>8, <2>9, <2>10, <2>11 DEF BuildInv
<1>9. CASE UNCHANGED vars
  BY <1>9 DEF vars, Inv, NamedAfterBranch, BuildInv, IssuedExist, NumberIssued, BeforeFinished, NewUnknown, LogsAreEnough,
              ChosenAbove, LabelledAbove, IssuedAbove, Above, SeesAll, Exists
<1>. QED
  BY <1>1, <1>2, <1>3, <1>4, <1>5, <1>6, <1>7, <1>8, <1>9 DEF Next, FindBuildNumber

(* A build that is triggered after another one of its branch finished gets *)
(* a greater build number, however many builds are looking for theirs at   *)
(* the same time, and however often the command runs - in every branch     *)
(* that sees all the activities with its valid name.                       *)
THEOREM LaterBuildsGetGreaterNumbers == Spec => []LaterBuildGreaterNumber
<1>1. Inv => LaterBuildGreaterNumber
  BY DEF Inv, BuildInv, IssuedAbove, Above, LaterBuildGreaterNumber
<1>. QED
  BY <1>1, TypeCorrect, InvInit, InvNext, PTL DEF Spec

-----------------------------------------------------------------------------
(* One build of a branch at a time.                                        *)

OneAtATime == MaxParallel = 1 /\ IsFiniteSet(Builds)

(* Every branch has a name of its own.                                     *)
OwnNames == \A br \in Branches : ValidName[br] = br

LEMMA BranchNames ==
  ASSUME OwnNames, NEW b \in Builds
  PROVE  BranchOf[b] \in Branches /\ ValidName[BranchOf[b]] = BranchOf[b]
BY ConstantTypes DEF OwnNames

LEMMA BranchSiblings ==
  ASSUME OwnNames, NamedAfterBranch, NEW b \in Builds
  PROVE  Siblings(b) = {n \in Names : n[1] = BranchOf[b] /\ Exists(n)}
BY BranchNames DEF OwnNames, NamedAfterBranch, Siblings

LEMMA BranchSiblingsAfter ==
  ASSUME OwnNames, NamedAfterBranch', NEW b \in Builds
  PROVE  Siblings(b)' = {n \in Names : n[1] = BranchOf[b] /\ Exists(n)'}
BY BranchNames DEF OwnNames, NamedAfterBranch, Siblings, Exists

Active(b) == alloc[b].pc \notin {"new", "finished"}

(* A build that runs is alone on its branch.                               *)
Alone(b) == Active(b) => \A a \in Builds : Active(a) /\ BranchOf[a] = BranchOf[b] => a = b

(* The activities labelled with b are those of the numbers it was given.   *)
LabelledIssued(b) ==
  /\ \A n \in Names : store[n].buildID = b => n[1] = BranchOf[b] /\ n[2] \in issued[b]
  /\ \A m \in issued[b] : Exists(<<BranchOf[b], m>>) /\ store[<<BranchOf[b], m>>].buildID = b

(* While b is on the way to a number it has none, and the one it goes for  *)
(* is above all of the branch.                                             *)
OnTheWay(b) ==
  /\ alloc[b].pc \in {"readLogs", "get", "create"} => issued[b] = {}
  /\ alloc[b].pc = "readLogs" => Siblings(b) = {}
  /\ alloc[b].pc \in {"get", "create"} => \A n \in Siblings(b) : n[2] < alloc[b].number

Serial == \A b \in Builds : Alone(b) /\ LabelledIssued(b) /\ OnTheWay(b)

LEMMA SerialInit == Init => Serial
<1>. SUFFICES ASSUME Init, NEW b \in Builds PROVE Alone(b) /\ LabelledIssued(b) /\ OnTheWay(b)
  BY DEF Serial
<1>1. issued[b] = {} /\ alloc[b].pc = "new"
  BY DEF Init
<1>2. \A n \in Names : store[n].buildID = Nil /\ b # Nil
  BY BuildNumbersAssumption DEF Init, NoActivity
<1>. QED
  BY <1>1, <1>2 DEF Alone, Active, LabelledIssued, OnTheWay

(* What a build that runs does to the activities of its branch leaves the  *)
(* other builds as they were.                                              *)
LEMMA OthersStay ==
  ASSUME OwnNames, TypeOK, NamedAfterBranch, NamedAfterBranch', Serial, NEW b \in Builds, Active(b), NEW c \in Builds, c # b,
         \A a \in Builds \ {b} : alloc'[a] = alloc[a] /\ issued'[a] = issued[a],
         \A n \in Names : /\ n[1] # BranchOf[b] => store'[n] = store[n]
                          /\ Exists(n) => Exists(n)'
                          /\ \/ store'[n].buildID = store[n].buildID
                             \/ ~ Exists(n) /\ store'[n].buildID = b
  PROVE  (Alone(c) /\ LabelledIssued(c) /\ OnTheWay(c))'
<1>1. Alone(c) /\ LabelledIssued(c) /\ OnTheWay(c)
  BY DEF Serial
<1>2. alloc'[c] = alloc[c] /\ issued'[c] = issued[c] /\ Active(c)' = Active(c)
  BY DEF Active
<1>3. Active(c) => BranchOf[b] # BranchOf[c]
  BY <1>1 DEF Alone
<1>4. Alone(c)'
  <2>. SUFFICES ASSUME Active(c), NEW a \in Builds, Active(a)', BranchOf[a] = BranchOf[c]
                PROVE  a = c
    BY <1>2 DEF Alone
  <2>1. a # b
    BY <1>3
  <2>2. Active(a)
    BY <2>1 DEF Active
  <2>. QED
    BY <1>1, <2>2 DEF Alone
<1>5. LabelledIssued(c)'
  <2>1. \A m \in issued[c] : <<BranchOf[c], m>> \in Names
    BY ConstantTypes DEF TypeOK, Names
  <2>. QED
    BY <1>1, <1>2, <2>1 DEF LabelledIssued
<1>6. OnTheWay(c)'
  <2>1. CASE ~ Active(c)
    BY <1>2, <2>1 DEF OnTheWay, Active
  <2>2. CASE Active(c)
    <3>1. Siblings(c)' = Siblings(c)
      <4>1. \A n \in Names : n[1] = BranchOf[c] => Exists(n)' = Exists(n)
        BY <1>3, <2>2 DEF Exists
      <4>2. Siblings(c) = {n \in Names : n[1] = BranchOf[c] /\ Exists(n)}
        BY BranchSiblings
      <4>3. Siblings(c)' = {n \in Names : n[1] = BranchOf[c] /\ Exists(n)'}
        BY BranchSiblingsAfter
      <4>. QED
        BY <4>1, <4>2, <4>3, Zenon
    <3>. QED
      BY <1>1, <1>2, <3>1 DEF OnTheWay
  <2>. QED
    BY <2>1, <2>2
<1>. QED
  BY <1>4, <1>5, <1>6

(* A step of b that leaves the activities and the numbers alone.           *)
LEMMA QuietStep ==
  ASSUME OwnNames, TypeOK, NamedAfterBranch, Serial, NEW b \in Builds, Active(b),
         \A a \in Builds \ {b} : alloc'[a] = alloc[a],
         UNCHANGED <<store, issued>>, OnTheWay(b)'
  PROVE  Serial'
<1>. SUFFICES ASSUME NEW c \in Builds PROVE (Alone(c) /\ LabelledIssued(c) /\ OnTheWay(c))'
  BY DEF Serial
<1>1. CASE c # b
  <2>1. (\A n : Exists(n)' = Exists(n)) /\ NamedAfterBranch'
    BY DEF Exists, NamedAfterBranch
  <2>. QED
    BY <1>1, <2>1, OthersStay
<1>2. CASE c = b
  <2>1. Alone(b) /\ LabelledIssued(b)
    BY DEF Serial
  <2>2. Alone(b)'
    <3>. SUFFICES ASSUME NEW a \in Builds, Active(a)', BranchOf[a] = BranchOf[b], a # b PROVE FALSE
      BY DEF Alone
    <3>1. Active(a)
      BY DEF Active
    <3>. QED
      BY <2>1, <3>1 DEF Alone
  <2>3. LabelledIssued(b)'
    BY <2>1 DEF LabelledIssued, Exists
  <2>. QED
    BY <1>2, <2>2, <2>3
<1>. QED
  BY <1>1, <1>2

(* Every step keeps Serial, and is a step of BuildSequence or none.        *)
Kept == Serial' /\ [Sequence!Next]_issued

LEMMA TriggerSerial ==
  ASSUME OneAtATime, OwnNames, TypeOK, NamedAfterBranch, Serial, NEW b \in Builds, Trigger(b)
  PROVE  Kept
<1>1. \A a \in Builds : Active(a) => BranchOf[a] # BranchOf[b]
  <2>. DEFINE R == {a \in Builds : BranchOf[a] = BranchOf[b] /\ alloc[a].pc \notin {"new", "finished"}}
  <2>1. Cardinality(R) < 1
    BY DEF Trigger, Allowed, OneAtATime
  <2>2. IsFiniteSet(R)
    BY FS_Subset DEF OneAtATime
  <2>3. R = {}
    <3>. HIDE DEF R
    <3>1. Cardinality(R) \in Nat
      BY <2>2, FS_CardinalityType
    <3>2. Cardinality(R) = 0
      BY <2>1, <3>1
    <3>. QED
      BY <2>2, <3>2, FS_EmptySet
  <2>. QED
    BY <2>3 DEF Active
<1>2. /\ UNCHANGED <<store, issued>> /\ alloc'[b].pc = "list"
      /\ \A a \in Builds \ {b} : alloc'[a] = alloc[a]
  BY DEF Trigger, TypeOK
<1>3. ASSUME NEW c \in Builds PROVE (Alone(c) /\ LabelledIssued(c) /\ OnTheWay(c))'
  <2>1. Alone(c) /\ LabelledIssued(c) /\ OnTheWay(c)
    BY DEF Serial
  <2>2. Siblings(c)' = Siblings(c)
    BY <1>2 DEF Siblings, Exists
  <2>3. LabelledIssued(c)'
    BY <1>2, <2>1 DEF LabelledIssued, Exists
  <2>4. OnTheWay(c)'
    BY <1>2, <2>1, <2>2 DEF OnTheWay
  <2>5. Alone(c)'
    <3>. SUFFICES ASSUME Active(c)', NEW a \in Builds, Active(a)', BranchOf[a] = BranchOf[c], a # c
                  PROVE  FALSE
      BY DEF Alone
    <3>1. (c # b => Active(c)) /\ (a # b => Active(a))
      BY <1>2 DEF Active
    <3>. QED
      BY <1>1, <2>1, <3>1 DEF Alone
  <2>. QED
    BY <2>3, <2>4, <2>5
<1>. QED
  BY <1>2, <1>3 DEF Kept, Serial

LEMMA ListSerial ==
  ASSUME OwnNames, TypeOK, NamedAfterBranch, Serial, NEW b \in Builds, ListActivities(b)
  PROVE  Kept
<1>1. /\ Active(b) /\ UNCHANGED store
      /\ Siblings(b) \in SUBSET Names /\ Own(b) \subseteq Siblings(b)
  BY DEF ListActivities, Active, Siblings, Own
<1>2. LabelledIssued(b)
  BY DEF Serial
<1>3. CASE \E n \in Own(b) :
             /\ issued' = [issued EXCEPT ![b] = @ \cup {n[2]}]
             /\ alloc' = [alloc EXCEPT ![b] = [pc |-> "building", number |-> n[2], from |-> "activities"]]
  <2>1. PICK n \in Own(b) :
             /\ issued' = [issued EXCEPT ![b] = @ \cup {n[2]}]
             /\ alloc' = [alloc EXCEPT ![b] = [pc |-> "building", number |-> n[2], from |-> "activities"]]
    BY <1>3
  <2>2. n[2] \in issued[b]
    BY <1>1, <1>2 DEF Own, LabelledIssued
  <2>3. issued' = issued
    BY <2>1, <2>2 DEF TypeOK
  <2>4. alloc'[b].pc = "building" /\ \A a \in Builds \ {b} : alloc'[a] = alloc[a]
    BY <2>1 DEF TypeOK
  <2>5. OnTheWay(b)'
    BY <2>4 DEF OnTheWay
  <2>. QED
    BY <1>1, <2>3, <2>4, <2>5, QuietStep DEF Kept
<1>4. CASE Own(b) = {} /\ issued' = issued
  <2>1. issued[b] = {}
    <3>. SUFFICES ASSUME NEW m \in issued[b] PROVE <<BranchOf[b], m>> \in Own(b)
      BY <1>4
    <3>1. <<BranchOf[b], m>> \in Names
      BY ConstantTypes DEF TypeOK, Names
    <3>. QED
      BY <1>2, <3>1, BranchSiblings DEF LabelledIssued, Own
  <2>2. Siblings(b)' = Siblings(b)
    BY <1>1 DEF Siblings, Exists
  <2>3. OnTheWay(b)' /\ \A a \in Builds \ {b} : alloc'[a] = alloc[a]
    <3>1. CASE alloc' = [alloc EXCEPT ![b] =
                 [pc |-> "get", number |-> Highest({n[2] : n \in Siblings(b)}) + 1, from |-> "activities"]]
      <4>. DEFINE next == Highest({n[2] : n \in Siblings(b)}) + 1
      <4>1. \A n \in Siblings(b) : n[2] < next
        BY <1>1, NextNumber
      <4>. HIDE DEF next
      <4>2. /\ alloc'[b].pc = "get" /\ alloc'[b].number = next
            /\ \A a \in Builds \ {b} : alloc'[a] = alloc[a]
        BY <3>1 DEF TypeOK, next
      <4>. QED
        BY <1>4, <2>1, <2>2, <4>1, <4>2 DEF OnTheWay
    <3>2. CASE alloc' = [alloc EXCEPT ![b].pc = "readLogs"] /\ Siblings(b) = {}
      <4>1. alloc'[b].pc = "readLogs" /\ \A a \in Builds \ {b} : alloc'[a] = alloc[a]
        BY <3>2 DEF TypeOK
      <4>. QED
        BY <1>4, <2>1, <2>2, <3>2, <4>1 DEF OnTheWay
    <3>3. CASE \E n \in Own(b) : TRUE
      BY <1>4, <3>3
    <3>. QED
      BY <3>1, <3>2, <3>3 DEF ListActivities
  <2>. QED
    BY <1>1, <1>4, <2>3, QuietStep DEF Kept
<1>. QED
  BY <1>1, <1>3, <1>4 DEF ListActivities

LEMMA ReadLogsSerial ==
  ASSUME OwnNames, TypeOK, NamedAfterBranch, Serial, NEW b \in Builds, ReadLogs(b)
  PROVE  Kept
<1>1. PICK n, f : alloc' = [alloc EXCEPT ![b] = [pc |-> "get", number |-> n, from |-> f]]
  BY DEF ReadLogs
<1>2. /\ Active(b) /\ UNCHANGED <<store, issued>> /\ alloc[b].pc = "readLogs"
  BY DEF ReadLogs, Active
<1>3. alloc'[b].pc = "get" /\ \A a \in Builds \ {b} : alloc'[a] = alloc[a]
  BY <1>1 DEF TypeOK
<1>4. issued[b] = {} /\ Siblings(b) = {}
  BY <1>2 DEF Serial, OnTheWay
<1>5. Siblings(b)' = Siblings(b)
  BY <1>2 DEF Siblings, Exists
<1>6. OnTheWay(b)'
  BY <1>2, <1>3, <1>4, <1>5 DEF OnTheWay
<1>. QED
  BY <1>2, <1>3, <1>6, QuietStep DEF Kept

(* The number that b goes for is not taken yet.                            *)
LEMMA ChosenIsFree ==
  ASSUME OwnNames, TypeOK, NamedAfterBranch, Serial, NEW b \in Builds, alloc[b].pc \in {"get", "create"}, alloc[b].number \in Numbers
  PROVE  Chosen(b) \in Names /\ ~ Exists(Chosen(b))
<1>1. Chosen(b) \in Names /\ Chosen(b)[1] = BranchOf[b] /\ Chosen(b)[2] = alloc[b].number
  BY ConstantTypes, BranchNames DEF Chosen, Names
<1>2. Chosen(b) \notin Siblings(b)
  <2>1. \A n \in Siblings(b) : n[2] < alloc[b].number
    BY DEF Serial, OnTheWay
  <2>2. alloc[b].number \in Nat
    BY ConstantTypes
  <2>3. ~ (alloc[b].number < alloc[b].number)
    BY <2>2
  <2>. QED
    BY <1>1, <2>1, <2>3
<1>. QED
  BY <1>1, <1>2, BranchSiblings

LEMMA GetSerial ==
  ASSUME OwnNames, TypeOK, NamedAfterBranch, Serial, NEW b \in Builds, GetActivity(b)
  PROVE  Kept
<1>1. ~ Exists(Chosen(b))
  BY ChosenIsFree DEF GetActivity
<1>2. alloc' = [alloc EXCEPT ![b].pc = "create"] /\ UNCHANGED <<store, issued>> /\ alloc[b].pc = "get"
  BY <1>1 DEF GetActivity
<1>3. /\ alloc'[b].pc = "create" /\ alloc'[b].number = alloc[b].number
      /\ \A a \in Builds \ {b} : alloc'[a] = alloc[a]
  BY <1>2 DEF TypeOK
<1>4. Siblings(b)' = Siblings(b) /\ Active(b)
  BY <1>2 DEF Siblings, Exists, Active
<1>5. OnTheWay(b)'
  BY <1>2, <1>3, <1>4 DEF OnTheWay, Serial
<1>. QED
  BY <1>2, <1>3, <1>4, <1>5, QuietStep DEF Kept

(* Alone on its branch before a step of b, it is so after it.              *)
LEMMA StillAlone ==
  ASSUME Serial, NEW b \in Builds, Active(b), \A a \in Builds \ {b} : alloc'[a] = alloc[a]
  PROVE  Alone(b)'
<1>. SUFFICES ASSUME NEW a \in Builds, Active(a)', BranchOf[a] = BranchOf[b], a # b PROVE FALSE
  BY DEF Alone
<1>1. Active(a)
  BY DEF Active
<1>. QED
  BY <1>1 DEF Serial, Alone

(* The numbers of the branch that are taken are those of its activities.   *)
LEMMA TakenExist ==
  ASSUME OwnNames, TypeOK, NamedAfterBranch, Serial, NEW b \in Builds, NEW m \in Sequence!Taken(b)
  PROVE  m \in Numbers /\ <<BranchOf[b], m>> \in Siblings(b)
<1>1. PICK a \in Builds : BranchOf[a] = BranchOf[b] /\ m \in issued[a]
  BY DEF Sequence!Taken
<1>2. m \in Numbers /\ <<BranchOf[b], m>> \in Names
  BY <1>1, ConstantTypes DEF TypeOK, Names
<1>. QED
  BY <1>1, <1>2, BranchSiblings DEF Serial, LabelledIssued

LEMMA CreateSerial ==
  ASSUME OwnNames, TypeOK, ChosenInBounds, NamedAfterBranch, NamedAfterBranch', Serial, NEW b \in Builds, CreateActivity(b)
  PROVE  Kept
<1>1. /\ alloc[b].pc = "create" /\ alloc[b].number \in Numbers /\ Active(b)
      /\ Chosen(b) \in Names /\ ~ Exists(Chosen(b))
  BY ChosenIsFree DEF CreateActivity, ChosenInBounds, Active
<1>2. PICK k \in Numbers : k = alloc[b].number /\ Chosen(b) = <<BranchOf[b], k>>
  BY <1>1, BranchNames DEF Chosen
<1>3. /\ store' = [store EXCEPT ![Chosen(b)] = NewActivity(b, Chosen(b))]
      /\ issued' = [issued EXCEPT ![b] = @ \cup {k}]
      /\ alloc' = [alloc EXCEPT ![b].pc = "building"]
  BY <1>1, <1>2 DEF CreateActivity
<1>4. issued[b] = {} /\ \A n \in Siblings(b) : n[2] < k
  BY <1>1, <1>2 DEF Serial, OnTheWay
<1>5. /\ alloc'[b].pc = "building" /\ issued'[b] = {k}
      /\ \A a \in Builds \ {b} : alloc'[a] = alloc[a] /\ issued'[a] = issued[a]
  BY <1>3, <1>4 DEF TypeOK
<1>6. /\ \A n \in Names : n # Chosen(b) => store'[n] = store[n]
      /\ store'[Chosen(b)].status = "running" /\ store'[Chosen(b)].buildID = b
  BY <1>1, <1>3 DEF TypeOK, NewActivity, NoActivity
<1>7. \A n \in Names : /\ n[1] # BranchOf[b] => store'[n] = store[n]
                       /\ Exists(n) => Exists(n)'
                       /\ \/ store'[n].buildID = store[n].buildID
                          \/ ~ Exists(n) /\ store'[n].buildID = b
  <2>1. Chosen(b)[1] = BranchOf[b]
    BY BranchNames DEF Chosen
  <2>2. \A n \in Names \ {Chosen(b)} : Exists(n)' = Exists(n)
    BY <1>6 DEF Exists
  <2>. QED
    BY <1>1, <1>6, <2>1, <2>2
<1>8. (Alone(b) /\ LabelledIssued(b) /\ OnTheWay(b))'
  <2>1. LabelledIssued(b)
    BY DEF Serial
  <2>2. \A n \in Names : store'[n].buildID = b => n = Chosen(b)
    <3>. SUFFICES ASSUME NEW n \in Names, store'[n].buildID = b, n # Chosen(b) PROVE FALSE
      OBVIOUS
    <3>1. n[2] \in issued[b]
      BY <1>6, <2>1 DEF LabelledIssued
    <3>. QED
      BY <1>4, <3>1
  <2>3. Exists(<<BranchOf[b], k>>)'
    BY <1>2, <1>6 DEF Exists
  <2>4. LabelledIssued(b)'
    BY <1>2, <1>5, <1>6, <2>2, <2>3 DEF LabelledIssued
  <2>5. OnTheWay(b)'
    BY <1>5 DEF OnTheWay
  <2>. QED
    BY <1>1, <1>5, <2>4, <2>5, StillAlone
<1>9. Serial'
  BY <1>1, <1>5, <1>7, <1>8, OthersStay DEF Serial
<1>10. Sequence!Issue(b)
  <2>1. \A m \in Sequence!Taken(b) : m < k
    <3>1. \A m \in Sequence!Taken(b) : <<BranchOf[b], m>>[2] = m
      OBVIOUS
    <3>. QED
      BY <1>4, <3>1, TakenExist
  <2>2. issued' = [issued EXCEPT ![b] = {k}]
    BY <1>3, <1>4
  <2>. QED
    BY <1>2, <1>4, <2>1, <2>2 DEF Sequence!Issue, Numbers
<1>. QED
  BY <1>9, <1>10 DEF Kept, Sequence!Next

LEMMA FinishSerial ==
  ASSUME OwnNames, TypeOK, ChosenInBounds, NamedAfterBranch, NamedAfterBranch', Serial, NEW b \in Builds, Finish(b)
  PROVE  Kept
<1>1. Active(b) /\ Chosen(b) \in Names /\ Chosen(b)[1] = BranchOf[b] /\ issued' = issued
  BY ChosenIsName, BranchNames DEF Finish, Active, Chosen
<1>2. alloc'[b].pc = "finished" /\ \A a \in Builds \ {b} : alloc'[a] = alloc[a]
  BY DEF Finish, TypeOK
<1>3. store' = [store EXCEPT ![Chosen(b)].status = "terminated"]
  BY DEF Finish
<1>4. \A n \in Names : /\ n[1] # BranchOf[b] => store'[n] = store[n]
                       /\ Exists(n) => Exists(n)'
                       /\ store'[n].buildID = store[n].buildID
  BY <1>1, <1>3 DEF TypeOK, Exists
<1>5. LabelledIssued(b)'
  <2>1. \A m \in issued[b] : <<BranchOf[b], m>> \in Names
    BY ConstantTypes DEF TypeOK, Names
  <2>. QED
    BY <1>1, <1>4, <2>1 DEF Serial, LabelledIssued
<1>6. OnTheWay(b)' /\ Alone(b)'
  BY <1>2 DEF OnTheWay, Alone, Active
<1>. QED
  BY <1>1, <1>2, <1>4, <1>5, <1>6, OthersStay DEF Serial, Kept

LEMMA SerialNext ==
  ASSUME OneAtATime, OwnNames, TypeOK, ChosenInBounds, NamedAfterBranch, NamedAfterBranch', Serial, [Next]_vars
  PROVE  Kept
<1>1. ASSUME NEW b \in Builds, Rerun(b) \/ GiveUp(b) PROVE Kept
  <2>1. /\ Active(b) /\ UNCHANGED <<store, issued>>
        /\ alloc'[b].pc \in {"list", "finished"} /\ \A a \in Builds \ {b} : alloc'[a] = alloc[a]
    BY <1>1 DEF Rerun, GiveUp, Active, TypeOK
  <2>2. OnTheWay(b)'
    BY <2>1 DEF OnTheWay
  <2>. QED
    BY <2>1, <2>2, QuietStep DEF Kept
<1>2. CASE UNCHANGED vars
  <2>1. Serial'
    BY <1>2 DEF vars, Serial, Alone, Active, LabelledIssued, OnTheWay, Siblings, Exists
  <2>. QED
    BY <1>2, <2>1 DEF vars, Kept
<1>. QED
  BY <1>1, <1>2, TriggerSerial, ListSerial, ReadLogsSerial, GetSerial, CreateSerial, FinishSerial
  DEF Next, FindBuildNumber

(* While the builds of a branch run one after the other, the command hands *)
(* out their numbers in increasing order, one to every build for good,     *)
(* however often it is run again, if no two branches share a valid name    *)
(* (pkg/cmd/variables).                                                    *)
THEOREM SerialBuildsKeepSequence ==
  ASSUME OneAtATime, OwnNames
  PROVE  Spec => ImplementsBuildSequence
<1>1. Init => Serial /\ Sequence!Init
  BY SerialInit DEF Init, Sequence!Init
<1>2. TypeOK /\ ChosenInBounds /\ Inv /\ Inv' /\ Serial /\ [Next]_vars => Serial' /\ [Sequence!Next]_issued
  BY SerialNext DEF Kept, Inv
<1>. QED
  BY <1>1, <1>2, TypeCorrect, InvInit, InvNext, PTL DEF Spec, ImplementsBuildSequence, Sequence!Spec
-----------------------------------------------------------------------------
(***************************************************************************)
(* The builds whose activities are collected (the instance A): builds of   *)
(* one branch, one at a time.                                              *)
(***************************************************************************)
ANames == ABranches \X (1 .. AMaxBuild)
ATimes == (0 .. MaxTime) \cup {Nil}

AActivity == [status : {"absent", "running", "terminated"}, run : Nat, started : ATimes, completed : ATimes,
              branch : ABranches \cup {Nil}, buildID : ABuilds \cup {Nil}]
AItem == [name : ANames, run : Nat, started : ATimes, completed : ATimes]
ABuild == [pc : {"new", "list", "readLogs", "get", "create", "failed", "building", "finished"},
           number : Nat, from : {Nil, "activities", "logs", "partOfLogs"}]
APlace == [pc : {"idle", "listJobs", "deleteJob", "pipelineRun", "activity"}, todo : Seq(AItem), listed : {{}}]

ATypes ==
  /\ now \in 0 .. MaxTime
  /\ store \in [ANames -> AActivity]
  /\ finished \subseteq AItem
  /\ logs \subseteq ANames
  /\ alloc \in [ABuilds -> ABuild]
  /\ issued \in [ABuilds -> SUBSET (1 .. AMaxBuild)]
  /\ gc \in [Collectors -> APlace]
  /\ \A c \in Collectors : gc[c].pc # "idle" => gc[c].todo # <<>>

There(n) == store[n].status # "absent"
Works(b) == alloc[b].pc \notin {"new", "finished"}
Number(k) == <<main, k>>

(* One build is at work at a time.                                         *)
OneWorks == \A a, b \in ABuilds : Works(a) /\ Works(b) => a = b

(* Every activity is of the branch and of a build; as long as its name has *)
(* not come back, it runs as long as its build works.                      *)
OfBuilds ==
  \A n \in ANames : There(n) =>
    /\ n[1] = main /\ store[n].branch = main /\ store[n].buildID \in ABuilds /\ store[n].run > 0
    /\ store[n].run = 1 /\ Works(store[n].buildID) => store[n].status = "running"

(* Where a build is on the way to its number, and what it has then.        *)
OnItsWay(b) ==
  /\ alloc[b].pc = "new" => \A n \in ANames : There(n) => store[n].buildID # b
  /\ alloc[b].pc = "readLogs" => \A n \in ANames : ~ There(n)
  /\ alloc[b].pc \in {"get", "create"} => \A n \in ANames : There(n) => n[2] < alloc[b].number
  /\ alloc[b].pc \in {"create", "building"} => alloc[b].number \in 1 .. AMaxBuild
  /\ alloc[b].pc = "building" =>
       \/ store[Number(alloc[b].number)].run > 1
       \/ There(Number(alloc[b].number)) /\ store[Number(alloc[b].number)].buildID = b

(* What a collector has on its list had ended: only a later activity of    *)
(* the name can be running.                                                *)
Dead == {a \in AItem : /\ 0 < a.run /\ a.run <= store[a.name].run
                       /\ a.run = store[a.name].run => store[a.name].status # "running"}

Base ==
  /\ ATypes /\ OneWorks /\ OfBuilds
  /\ \A b \in ABuilds : OnItsWay(b)
  /\ \A c \in Collectors : gc[c].todo \in Seq(Dead)

LEMMA AConstants ==
  /\ AMaxBuild \in Nat \ {0} /\ MaxTime \in Nat /\ main \in ABranches
  /\ Nil \notin Nat /\ Nil \notin 0 .. MaxTime
  /\ IsFiniteSet(ABuilds) /\ IsFiniteSet(ABranches)
  /\ A!Numbering!Names = ANames /\ A!Numbering!Numbers = 1 .. AMaxBuild
  /\ \A k \in 1 .. AMaxBuild : Number(k) \in ANames /\ Number(k)[1] = main /\ Number(k)[2] = k
  /\ \A n \in ANames : n[2] \in 1 .. AMaxBuild /\ n = <<n[1], n[2]>>
BY MCAssumption, BuildNumbersAssumption DEF ANames, Number, A!Numbering!Names, A!Numbering!Numbers

-----------------------------------------------------------------------------
(* The steps of the variables command, for the builds of the branch.       *)

LEMMA ASiblings ==
  ASSUME Base, NEW b \in ABuilds
  PROVE  /\ A!Numbering!Siblings(b) = {n \in ANames : There(n)}
         /\ A!Numbering!Own(b) = {n \in ANames : There(n) /\ store[n].buildID = b}
<1>1. [x \in ABuilds |-> main][b] = main /\ [br \in ABranches |-> br][main] = main
  BY AConstants
<1>2. A!Numbering!Siblings(b) = {n \in ANames : There(n) /\ store[n].branch \in {main}}
  BY <1>1, AConstants DEF A!Numbering!Siblings, A!Numbering!Exists, There
<1>3. A!Numbering!Siblings(b) = {n \in ANames : There(n)}
  BY <1>2 DEF Base, OfBuilds
<1>. QED
  BY <1>3 DEF A!Numbering!Own

LEMMA AChosen ==
  ASSUME NEW b \in ABuilds
  PROVE  A!Numbering!Chosen(b) = Number(alloc[b].number)
BY AConstants DEF A!Numbering!Chosen, Number

LEMMA ACardinality ==
  \A S : /\ A!Numbering!Cardinality(S) = Cardinality(S)
         /\ A!Collection!Cardinality(S) = Cardinality(S)
BY Zenon DEF A!Numbering!Cardinality, A!Collection!Cardinality, Cardinality

(* The greatest of some numbers.                                           *)
LEMMA AHighest ==
  ASSUME NEW S \in SUBSET (1 .. AMaxBuild)
  PROVE  /\ A!Numbering!Highest(S) \in Nat
         /\ S = {} => A!Numbering!Highest(S) = 0
         /\ S # {} => A!Numbering!Highest(S) \in S
         /\ \A k \in S : k <= A!Numbering!Highest(S)
<1>1. CASE S = {}
  BY <1>1 DEF A!Numbering!Highest
<1>2. CASE S # {}
  <2>1. \E i \in S : \A j \in S : j <= i
    BY <1>2, GreatestNumber, AConstants
  <2>. DEFINE h == A!Numbering!Highest(S)
  <2>2. h \in S /\ \A j \in S : j <= h
    BY <1>2, <2>1, Zenon DEF A!Numbering!Highest
  <2>. HIDE DEF h
  <2>3. h \in Nat
    BY <2>2
  <2>. QED
    BY <1>2, <2>2, <2>3 DEF h
<1>. QED
  BY <1>1, <1>2

LEMMA ATrigger ==
  ASSUME ATypes, NEW b \in ABuilds, A!Numbering!Trigger(b)
  PROVE  /\ \A a \in ABuilds : ~ Works(a)
         /\ alloc[b].pc = "new"
         /\ alloc' = [alloc EXCEPT ![b].pc = "list"]
         /\ UNCHANGED <<store, logs, issued>>
<1>. DEFINE R == {a \in ABuilds : /\ [x \in ABuilds |-> main][a] = [x \in ABuilds |-> main][b]
                                  /\ alloc[a].pc \notin {"new", "finished"}}
<1>1. A!Numbering!Cardinality(R) < 1
  BY DEF A!Numbering!Trigger, A!Numbering!Allowed
<1>2. R = {}
  <2>1. IsFiniteSet(R)
    BY AConstants, FS_Subset
  <2>. HIDE DEF R
  <2>2. Cardinality(R) \in Nat /\ Cardinality(R) < 1
    BY <1>1, <2>1, ACardinality, FS_CardinalityType
  <2>3. Cardinality(R) = 0
    BY <2>2
  <2>. QED
    BY <2>1, <2>3, FS_EmptySet
<1>3. \A a \in ABuilds : ~ Works(a)
  BY <1>2 DEF Works
<1>. QED
  BY <1>3 DEF A!Numbering!Trigger

(* ListActivities: what b does when an activity has its label, ...         *)
AFound(b, n) ==
  /\ n \in ANames /\ There(n) /\ store[n].buildID = b
  /\ issued' = [issued EXCEPT ![b] = @ \cup {n[2]}]
  /\ alloc' = [alloc EXCEPT ![b] = [pc |-> "building", number |-> n[2], from |-> "activities"]]

(* ... when only others have one, the newest of which is n, ...            *)
AContinued(b, n) ==
  /\ n \in ANames /\ There(n) /\ \A m \in ANames : There(m) => store[m].buildID # b /\ m[2] <= n[2]
  /\ issued' = issued
  /\ alloc' = [alloc EXCEPT ![b] = [pc |-> "get", number |-> n[2] + 1, from |-> "activities"]]

(* ... and when there is none.                                             *)
ANone(b) ==
  /\ \A n \in ANames : ~ There(n)
  /\ issued' = issued
  /\ alloc' = [alloc EXCEPT ![b].pc = "readLogs"]

LEMMA AListActivities ==
  ASSUME Base, NEW b \in ABuilds, A!Numbering!ListActivities(b)
  PROVE  /\ alloc[b].pc = "list" /\ UNCHANGED <<store, logs>>
         /\ \/ \E n : AFound(b, n)
            \/ \E n : AContinued(b, n)
            \/ ANone(b)
<1>. DEFINE S == {n \in ANames : There(n)}
            N == {n[2] : n \in S}
            O == {n \in ANames : There(n) /\ store[n].buildID = b}
<1>1. /\ alloc[b].pc = "list" /\ UNCHANGED <<store, logs>>
      /\ \/ \E n \in O :
              /\ issued' = [issued EXCEPT ![b] = @ \cup {n[2]}]
              /\ alloc' = [alloc EXCEPT ![b] = [pc |-> "building", number |-> n[2], from |-> "activities"]]
         \/ /\ O = {} /\ S # {}
            /\ alloc' = [alloc EXCEPT ![b] = [pc |-> "get", number |-> A!Numbering!Highest(N) + 1, from |-> "activities"]]
            /\ UNCHANGED issued
         \/ /\ S = {}
            /\ alloc' = [alloc EXCEPT ![b].pc = "readLogs"]
            /\ UNCHANGED issued
  BY ASiblings DEF A!Numbering!ListActivities
<1>2. CASE \E n \in O :
              /\ issued' = [issued EXCEPT ![b] = @ \cup {n[2]}]
              /\ alloc' = [alloc EXCEPT ![b] = [pc |-> "building", number |-> n[2], from |-> "activities"]]
  BY <1>1, <1>2 DEF AFound
<1>3. CASE /\ O = {} /\ S # {}
           /\ alloc' = [alloc EXCEPT ![b] = [pc |-> "get", number |-> A!Numbering!Highest(N) + 1, from |-> "activities"]]
           /\ UNCHANGED issued
  <2>. DEFINE h == A!Numbering!Highest(N)
  <2>1. N \in SUBSET (1 .. AMaxBuild) /\ N # {}
    BY <1>3, AConstants
  <2>2. h \in N /\ \A k \in N : k <= h
    <3>. HIDE DEF N
    <3>. QED
      BY <2>1, AHighest
  <2>3. PICK n \in S : n[2] = h
    BY <2>2
  <2>4. \A m \in S : m[2] \in N
    OBVIOUS
  <2>5. alloc' = [alloc EXCEPT ![b] = [pc |-> "get", number |-> n[2] + 1, from |-> "activities"]]
    BY <1>3, <2>3
  <2>6. \A m \in ANames : There(m) => store[m].buildID # b /\ m[2] <= n[2]
    <3>. HIDE DEF h, N
    <3>1. \A m \in S : m[2] <= n[2]
      BY <2>2, <2>3, <2>4
    <3>. QED
      BY <1>3, <3>1
  <2>7. AContinued(b, n)
    BY <1>3, <2>5, <2>6 DEF AContinued
  <2>. QED
    BY <1>1, <2>7
<1>4. CASE /\ S = {}
           /\ alloc' = [alloc EXCEPT ![b].pc = "readLogs"]
           /\ UNCHANGED issued
  BY <1>1, <1>4 DEF ANone
<1>. QED
  BY <1>1, <1>2, <1>3, <1>4

(* k comes after the greatest of the numbers that were read from the logs. *)
ARead(b, k, f) ==
  /\ k \in Nat \ {0} /\ (k = 1 \/ (k - 1 \in 1 .. AMaxBuild /\ Number(k - 1) \in logs))
  /\ f \in {"logs", "partOfLogs"}
  /\ f = "logs" => \A n \in logs : n[1] = main => n[2] < k
  /\ alloc' = [alloc EXCEPT ![b] = [pc |-> "get", number |-> k, from |-> f]]

LEMMA AReadLogs ==
  ASSUME ATypes, NEW b \in ABuilds, A!Numbering!ReadLogs(b)
  PROVE  /\ alloc[b].pc = "readLogs" /\ UNCHANGED <<store, logs, issued>>
         /\ \E k : \E f : ARead(b, k, f)
<1>. DEFINE all == {n[2] : n \in {m \in logs : m[1] = main}}
<1>1. [x \in ABuilds |-> main][b] = main
  OBVIOUS
<1>2. PICK read \in IF LogsBucket THEN SUBSET all ELSE {{}} :
        alloc' = [alloc EXCEPT ![b] =
          [pc |-> "get", number |-> 1 + A!Numbering!Highest(read),
           from |-> IF read = all THEN "logs" ELSE "partOfLogs"]]
  BY <1>1 DEF A!Numbering!ReadLogs
<1>3. alloc[b].pc = "readLogs" /\ UNCHANGED <<store, logs, issued>>
  BY DEF A!Numbering!ReadLogs
<1>4. read \subseteq all /\ \A j \in all : j \in 1 .. AMaxBuild
  <2>1. \A n \in logs : n[2] \in 1 .. AMaxBuild
    BY AConstants DEF ATypes
  <2>2. \A j \in all : j \in 1 .. AMaxBuild
    BY <2>1
  <2>. QED
    BY <2>2
<1>. DEFINE h == A!Numbering!Highest(read)
            k == 1 + h
            f == IF read = all THEN "logs" ELSE "partOfLogs"
<1>5. /\ h \in Nat /\ (read = {} => h = 0) /\ (read # {} => h \in read)
      /\ \A j \in read : j <= h
  <2>1. read \in SUBSET (1 .. AMaxBuild)
    BY <1>4
  <2>. HIDE DEF all
  <2>. QED
    BY <2>1, AHighest
<1>6. h = 0 \/ (h \in 1 .. AMaxBuild /\ Number(h) \in logs)
  <2>1. CASE read = {}
    BY <1>5, <2>1
  <2>2. CASE read # {}
    <3>1. h \in all
      BY <1>4, <1>5, <2>2
    <3>. HIDE DEF h
    <3>2. PICK n \in logs : n[1] = main /\ n[2] = h
      BY <3>1
    <3>3. n = Number(h)
      BY <3>2, AConstants DEF ATypes, Number
    <3>4. h \in 1 .. AMaxBuild
      BY <1>4, <3>1
    <3>. QED
      BY <3>2, <3>3, <3>4
  <2>. QED
    BY <2>1, <2>2
<1>7. f = "logs" => \A n \in logs : n[1] = main => n[2] < k
  <2>. SUFFICES ASSUME f = "logs", NEW n \in logs, n[1] = main PROVE n[2] < k
    OBVIOUS
  <2>1. read = all
    BY <1>2
  <2>2. n[2] \in all
    OBVIOUS
  <2>. HIDE DEF h, all
  <2>3. n[2] <= h /\ n[2] \in Nat
    BY <1>4, <1>5, <2>1, <2>2
  <2>. QED
    BY <1>5, <2>3
<1>8. ARead(b, k, f)
  <2>1. k \in Nat \ {0} /\ k - 1 = h
    <3>. HIDE DEF h
    <3>. QED
      BY <1>5
  <2>2. f \in {"logs", "partOfLogs"}
    OBVIOUS
  <2>. HIDE DEF k, f
  <2>3. alloc' = [alloc EXCEPT ![b] = [pc |-> "get", number |-> k, from |-> f]]
    BY <1>2 DEF k, f
  <2>4. k = 1 \/ (k - 1 \in 1 .. AMaxBuild /\ Number(k - 1) \in logs)
    <3>. HIDE DEF h
    <3>1. k = 1 + h
      BY DEF k
    <3>. QED
      BY <1>5, <1>6, <2>1, <3>1
  <2>. QED
    BY <1>7, <2>1, <2>2, <2>3, <2>4 DEF ARead
<1>. QED
  BY <1>3, <1>8

LEMMA AGetActivity ==
  ASSUME Base, NEW b \in ABuilds, A!Numbering!GetActivity(b)
  PROVE  /\ alloc[b].pc = "get" /\ alloc[b].number \in 1 .. AMaxBuild
         /\ alloc' = [alloc EXCEPT ![b].pc = "create"]
         /\ UNCHANGED <<store, logs, issued>>
<1>1. alloc[b].pc = "get" /\ alloc[b].number \in 1 .. AMaxBuild /\ OnItsWay(b)
  BY AConstants DEF A!Numbering!GetActivity, Base
<1>2. ~ A!Numbering!Exists(Number(alloc[b].number))
  <2>1. Number(alloc[b].number) \in ANames /\ Number(alloc[b].number)[2] = alloc[b].number
    BY <1>1, AConstants
  <2>. QED
    BY <1>1, <2>1 DEF OnItsWay, There, A!Numbering!Exists
<1>. QED
  BY <1>1, <1>2, AChosen DEF A!Numbering!GetActivity

(* The activity that b creates under the number k.                         *)
ANew(b, k) == [status |-> "running", run |-> store[Number(k)].run + 1, started |-> Nil, completed |-> Nil,
               branch |-> main, buildID |-> b]

LEMMA ACreateActivity ==
  ASSUME Base, NEW b \in ABuilds, A!Numbering!CreateActivity(b)
  PROVE  \E k \in 1 .. AMaxBuild :
            /\ alloc[b].pc = "create" /\ k = alloc[b].number /\ ~ There(Number(k))
            /\ store' = [store EXCEPT ![Number(k)] = ANew(b, k)]
            /\ issued' = [issued EXCEPT ![b] = @ \cup {k}]
            /\ alloc' = [alloc EXCEPT ![b].pc = "building"]
            /\ logs' = logs
<1>1. alloc[b].pc = "create" /\ OnItsWay(b)
  BY DEF A!Numbering!CreateActivity, Base
<1>2. PICK k \in 1 .. AMaxBuild : k = alloc[b].number
  BY <1>1 DEF OnItsWay
<1>3. ~ There(Number(k))
  BY <1>1, <1>2, AConstants DEF OnItsWay
<1>4. A!Numbering!NewActivity(b, Number(k)) = ANew(b, k)
  <2>1. A!Numbering!NewActivity(b, Number(k)) =
          [[status |-> "absent", run |-> 0, started |-> Nil, completed |-> Nil, branch |-> Nil, buildID |-> Nil]
             EXCEPT !.status = "running", !.run = store[Number(k)].run + 1, !.branch = main, !.buildID = b]
    BY Zenon DEF A!Numbering!NewActivity, A!Numbering!NoActivity
  <2>. QED
    BY <2>1 DEF ANew
<1>5. ~ A!Numbering!Exists(A!Numbering!Chosen(b)) /\ A!Numbering!Chosen(b) = Number(k)
  BY <1>2, <1>3, AChosen DEF A!Numbering!Exists, There
<1>. QED
  BY <1>1, <1>2, <1>3, <1>4, <1>5 DEF A!Numbering!CreateActivity

(* The pipeline of b ends; s and t are the timestamps its activity gets.   *)
AStamped(b, n, s, t) ==
  /\ s \in ATimes /\ t \in {now, Nil}
  /\ store[n].status = "running" /\ store[n].buildID = b
  /\ store' = [store EXCEPT ![n].status = "terminated", ![n].started = s, ![n].completed = t]
  /\ finished' = finished \cup {[name |-> n, run |-> store[n].run, started |-> s, completed |-> t]}

LEMMA AItemStamped ==
  ASSUME NEW n, NEW s, NEW t
  PROVE  [A!Collection!Item(n) EXCEPT !.started = s, !.completed = t]
           = [name |-> n, run |-> store[n].run, started |-> s, completed |-> t]
<1>1. [A!Collection!Item(n) EXCEPT !.started = s, !.completed = t]
        = [[A!Collection!Item(n) EXCEPT !.started = s] EXCEPT !.completed = t]
  OBVIOUS
<1>2. [A!Collection!Item(n) EXCEPT !.started = s]
        = [name |-> n, run |-> store[n].run, started |-> s, completed |-> store[n].completed]
  BY DEF A!Collection!Item
<1>3. [[name |-> n, run |-> store[n].run, started |-> s, completed |-> store[n].completed] EXCEPT !.completed = t]
        = [name |-> n, run |-> store[n].run, started |-> s, completed |-> t]
  OBVIOUS
<1>. QED
  BY <1>1, <1>2, <1>3

LEMMA AFinish ==
  ASSUME Base, NEW b \in ABuilds, A!Finish(b)
  PROVE  \E k \in 1 .. AMaxBuild :
            /\ alloc[b].pc = "building" /\ k = alloc[b].number
            /\ alloc' = [alloc EXCEPT ![b].pc = "finished"]
            /\ logs' = logs \cup {Number(k)}
            /\ UNCHANGED <<issued, now, gc>>
            /\ \/ \E s, t : AStamped(b, Number(k), s, t)
               \/ ~ (store[Number(k)].status = "running" /\ store[Number(k)].buildID = b) /\ UNCHANGED <<store, finished>>
<1>1. alloc[b].pc = "building" /\ OnItsWay(b)
  BY DEF A!Finish, Base
<1>2. PICK k \in 1 .. AMaxBuild : k = alloc[b].number
  BY <1>1 DEF OnItsWay
<1>3. A!Numbering!Chosen(b) = Number(k)
  BY <1>2, AChosen
<1>4. /\ alloc' = [alloc EXCEPT ![b].pc = "finished"]
      /\ logs' = logs \cup {Number(k)}
      /\ UNCHANGED <<issued, now, gc>>
  BY <1>2 DEF A!Finish, Number
<1>5. ASSUME store[Number(k)].status = "running" /\ store[Number(k)].buildID = b
      PROVE  \E s, t : AStamped(b, Number(k), s, t)
  <2>1. PICK s, t \in {now, Nil} :
          /\ store' = [store EXCEPT ![Number(k)].status = "terminated", ![Number(k)].started = s, ![Number(k)].completed = t]
          /\ finished' = finished \cup {[A!Collection!Item(Number(k)) EXCEPT !.started = s, !.completed = t]}
    BY <1>3, <1>5 DEF A!Finish
  <2>2. [A!Collection!Item(Number(k)) EXCEPT !.started = s, !.completed = t]
          = [name |-> Number(k), run |-> store[Number(k)].run, started |-> s, completed |-> t]
    BY AItemStamped
  <2>3. s \in ATimes
    BY DEF Base, ATypes, ATimes
  <2>. QED
    BY <1>5, <2>1, <2>2, <2>3 DEF AStamped
<1>6. ASSUME ~ (store[Number(k)].status = "running" /\ store[Number(k)].buildID = b)
      PROVE  UNCHANGED <<store, finished>>
  BY <1>3, <1>6 DEF A!Finish
<1>. QED
  BY <1>1, <1>2, <1>4, <1>5, <1>6

-----------------------------------------------------------------------------
(* The steps of a collector.                                               *)

ADeleted(n) == [store EXCEPT ![n].status = "absent", ![n].started = Nil, ![n].completed = Nil]

(* It decides what to delete, ...                                          *)
AList(c, p) ==
  /\ \E order \in A!Collection!NewestFirst(A!Collection!Terminated) : p.todo \in Seq(A!Collection!Doomed(order))
  /\ p = [pc |-> "listJobs", todo |-> p.todo, listed |-> {}] /\ p.todo # <<>>
  /\ store' = store

(* ... goes on with what it has decided or ends, ...                       *)
AGoOn(c, p) ==
  /\ gc[c].pc # "idle" /\ p \in APlace
  /\ \/ p.pc = "idle" /\ p.todo = <<>>
     \/ p.pc # "idle" /\ p.todo = gc[c].todo
  /\ store' = store

(* ... or deletes the next activity.                                       *)
ADelete(c, p) ==
  /\ gc[c].pc # "idle" /\ p \in APlace /\ p.todo = Tail(gc[c].todo) /\ (p.pc # "idle" => p.todo # <<>>)
  /\ There(Head(gc[c].todo).name)
  /\ store' = ADeleted(Head(gc[c].todo).name)

LEMMA AIdle == A!Collection!Idle = [pc |-> "idle", todo |-> <<>>, listed |-> {}] /\ A!Collection!Idle \in APlace
<1>1. A!Collection!Idle = [pc |-> "idle", todo |-> <<>>, listed |-> {}]
  BY DEF A!Collection!Idle
<1>2. <<>> \in Seq(AItem)
  OBVIOUS
<1>. QED
  BY <1>1, <1>2 DEF APlace

LEMMA AVictim ==
  ASSUME ATypes, NEW c \in Collectors, gc[c].pc # "idle"
  PROVE  /\ gc[c] \in APlace /\ gc[c].todo # <<>> /\ A!Collection!Victim(c) = Head(gc[c].todo)
         /\ Head(gc[c].todo) \in AItem /\ Tail(gc[c].todo) \in Seq(AItem)
         /\ Head(gc[c].todo).name \in ANames
<1>1. gc[c] \in APlace /\ gc[c].todo # <<>> /\ gc[c].todo \in Seq(AItem)
  BY DEF ATypes, APlace
<1>2. Head(gc[c].todo) \in AItem /\ Tail(gc[c].todo) \in Seq(AItem)
  <2>. DEFINE q == gc[c].todo
  <2>1. q \in Seq(AItem) /\ q # <<>>
    BY <1>1
  <2>. HIDE DEF q
  <2>2. Head(q) \in AItem /\ Tail(q) \in Seq(AItem)
    BY <2>1
  <2>. QED
    BY <2>2 DEF q
<1>3. A!Collection!Victim(c) = Head(gc[c].todo)
  BY DEF A!Collection!Victim
<1>. QED
  BY <1>1, <1>2, <1>3 DEF AItem

LEMMA ATerminatedFinite == IsFiniteSet(A!Collection!Terminated)
<1>. DEFINE T == A!Collection!Terminated
            X == {n \in ANames : store[n].status = "terminated"}
            f == [n \in X |-> A!Collection!Item(n)]
<1>1. IsFiniteSet(X)
  <2>1. AMaxBuild \in Int /\ 1 \in Int
    BY AConstants
  <2>2. IsFiniteSet(1 .. AMaxBuild)
    BY <2>1, FS_Interval
  <2>3. IsFiniteSet(ANames)
    BY <2>2, AConstants, FS_Product DEF ANames
  <2>. QED
    BY <2>3, FS_Subset
<1>2. T = {A!Collection!Item(n) : n \in X}
  BY DEF A!Collection!Terminated, ANames
<1>3. f \in Surjection(X, T)
  BY <1>2 DEF Surjection
<1>. QED
  BY <1>1, <1>3, FS_Surjection

LEMMA ADoomedTerminated ==
  ASSUME NEW order \in A!Collection!NewestFirst(A!Collection!Terminated)
  PROVE  A!Collection!Doomed(order) \subseteq A!Collection!Terminated
<1>. DEFINE T == A!Collection!Terminated
<1>1. order \in [1 .. Cardinality(T) -> T]
  BY ACardinality DEF A!Collection!NewestFirst
<1>2. A!Collection!Doomed(order) \subseteq {order[i] : i \in DOMAIN order}
  BY DEF A!Collection!Doomed, A!Collection!Reached
<1>. HIDE DEF T
<1>3. A!Collection!Doomed(order) \subseteq T
  BY <1>1, <1>2
<1>. QED
  BY <1>3 DEF T

LEMMA ACollect ==
  ASSUME ATypes, NEW c \in Collectors, A!Collect(c)
  PROVE  /\ UNCHANGED <<logs, alloc, issued, now, finished>>
         /\ \E p : /\ gc' = [gc EXCEPT ![c] = p]
                   /\ AList(c, p) \/ AGoOn(c, p) \/ ADelete(c, p)
<1>. DEFINE v == Head(gc[c].todo)
            Goal == \E p : /\ gc' = [gc EXCEPT ![c] = p]
                           /\ AList(c, p) \/ AGoOn(c, p) \/ ADelete(c, p)
<1>1. ASSUME A!Collection!List(c) PROVE Goal
  <2>0. PICK order \in A!Collection!NewestFirst(A!Collection!Terminated) :
          \E todo \in A!Collection!DeletionOrders(order) :
            /\ todo # <<>>
            /\ gc' = [gc EXCEPT ![c] = [pc |-> "listJobs", todo |-> todo, listed |-> {}]]
    BY <1>1 DEF A!Collection!List
  <2>1. PICK todo \in A!Collection!DeletionOrders(order) :
          /\ todo # <<>>
          /\ gc' = [gc EXCEPT ![c] = [pc |-> "listJobs", todo |-> todo, listed |-> {}]]
          /\ store' = store
    BY <1>1, <2>0 DEF A!Collection!List
  <2>2. todo \in Seq(A!Collection!Doomed(order))
    <3>. DEFINE D == A!Collection!Doomed(order)
    <3>1. todo \in [1 .. Cardinality(D) -> D]
      BY ACardinality DEF A!Collection!DeletionOrders
    <3>2. IsFiniteSet(D)
      BY ATerminatedFinite, ADoomedTerminated, FS_Subset
    <3>3. Cardinality(D) \in Nat
      BY <3>2, FS_CardinalityType
    <3>. HIDE DEF D
    <3>4. todo \in Seq(D)
      BY <3>1, <3>3
    <3>. QED
      BY <3>4 DEF D
  <2>. DEFINE p == [pc |-> "listJobs", todo |-> todo, listed |-> {}]
  <2>3. AList(c, p)
    BY <2>1, <2>2 DEF AList
  <2>. QED
    BY <2>1, <2>3
<1>2. ASSUME gc[c].pc # "idle", store' = store,
             NEW pc \in {"idle", "listJobs", "deleteJob", "pipelineRun", "activity"},
             \/ gc' = [gc EXCEPT ![c] = A!Collection!Idle]
             \/ pc # "idle" /\ gc' = [gc EXCEPT ![c] = [pc |-> pc, todo |-> gc[c].todo, listed |-> {}]]
      PROVE  Goal
  <2>1. CASE gc' = [gc EXCEPT ![c] = A!Collection!Idle]
    <3>1. A!Collection!Idle.pc = "idle" /\ A!Collection!Idle.todo = <<>>
      BY AIdle
    <3>2. AGoOn(c, A!Collection!Idle)
      BY <1>2, <3>1, AIdle DEF AGoOn
    <3>. QED
      BY <2>1, <3>2
  <2>2. CASE pc # "idle" /\ gc' = [gc EXCEPT ![c] = [pc |-> pc, todo |-> gc[c].todo, listed |-> {}]]
    <3>. DEFINE p == [pc |-> pc, todo |-> gc[c].todo, listed |-> {}]
    <3>1. gc[c].todo \in Seq(AItem)
      BY <1>2, AVictim DEF APlace
    <3>2. p \in APlace
      BY <1>2, <3>1 DEF APlace
    <3>3. AGoOn(c, p)
      BY <1>2, <2>2, <3>2 DEF AGoOn
    <3>. QED
      BY <2>2, <3>3
  <2>. QED
    BY <1>2, <2>1, <2>2
<1>3. ASSUME gc[c].pc # "idle" PROVE A!Collection!Selected(v) = {} /\ gc[c] = [pc |-> gc[c].pc, todo |-> gc[c].todo, listed |-> {}]
  BY <1>3, AVictim DEF A!Collection!Selected, ANames, APlace
<1>4. ASSUME A!Collection!ListJobs(c) PROVE Goal
  <2>1. gc[c].pc # "idle" /\ store' = store
        /\ gc' = [gc EXCEPT ![c] = A!Collection!WithJobs(c, A!Collection!Selected(v))]
    BY <1>4, AVictim DEF A!Collection!ListJobs
  <2>2. A!Collection!WithJobs(c, {}) = [pc |-> "pipelineRun", todo |-> gc[c].todo, listed |-> {}]
    <3>1. A!Collection!WithJobs(c, {}) = [[gc[c] EXCEPT !.listed = {}] EXCEPT !.pc = "pipelineRun"]
      BY DEF A!Collection!WithJobs
    <3>2. gc[c] \in APlace
      BY <2>1, AVictim
    <3>. QED
      BY <3>1, <3>2 DEF APlace
  <2>. QED
    BY <1>2, <1>3, <2>1, <2>2
<1>5. ~ A!Collection!DeleteJob(c)
  <2>. SUFFICES ASSUME A!Collection!DeleteJob(c) PROVE FALSE
    OBVIOUS
  <2>1. gc[c].pc = "deleteJob" /\ gc[c].pc # "idle" /\ gc[c].listed # {}
    BY DEF A!Collection!DeleteJob
  <2>2. gc[c] \in APlace
    BY <2>1, AVictim
  <2>3. gc[c].listed \in {{}}
    BY <2>2 DEF APlace
  <2>. QED
    BY <2>1, <2>3
<1>6. ASSUME A!Collection!DeletePipelineRun(c) \/ A!Collection!Fault(c) PROVE Goal
  <2>1. /\ gc[c].pc # "idle" /\ store' = store
        /\ \/ gc' = [gc EXCEPT ![c] = A!Collection!Idle]
           \/ gc' = [gc EXCEPT ![c].pc = "activity"]
    BY <1>6 DEF A!Collection!DeletePipelineRun, A!Collection!Fault
  <2>2. [gc[c] EXCEPT !.pc = "activity"] = [pc |-> "activity", todo |-> gc[c].todo, listed |-> {}]
    <3>1. gc[c] = [pc |-> gc[c].pc, todo |-> gc[c].todo, listed |-> {}]
      BY <1>3, <2>1
    <3>2. [[pc |-> gc[c].pc, todo |-> gc[c].todo, listed |-> {}] EXCEPT !.pc = "activity"]
            = [pc |-> "activity", todo |-> gc[c].todo, listed |-> {}]
      OBVIOUS
    <3>. QED
      BY <3>1, <3>2
  <2>. QED
    BY <1>2, <2>1, <2>2
<1>7. ASSUME A!Collection!DeleteActivity(c) PROVE Goal
  <2>1. gc[c].pc # "idle" /\ gc[c].pc = "activity"
    BY <1>7 DEF A!Collection!DeleteActivity
  <2>2. CASE A!Collection!Exists(v.name)
    <3>. DEFINE p == A!Collection!Continue(c)
    <3>1. /\ store' = ADeleted(v.name) /\ gc' = [gc EXCEPT ![c] = p] /\ There(v.name)
      BY <1>7, <2>1, <2>2, AVictim DEF A!Collection!DeleteActivity, A!Collection!Deleted, A!Collection!Exists, ADeleted, There
    <3>2. gc[c].todo \in Seq(AItem) /\ gc[c].todo # <<>>
      BY <2>1, AVictim DEF APlace
    <3>3. p \in APlace /\ p.todo = Tail(gc[c].todo) /\ (p.pc # "idle" => p.todo # <<>>)
      <4>. DEFINE q == gc[c].todo
      <4>0. p = IF Len(q) = 1 THEN A!Collection!Idle ELSE [pc |-> "listJobs", todo |-> Tail(q), listed |-> {}]
        BY DEF A!Collection!Continue
      <4>. HIDE DEF q, p
      <4>1. q \in Seq(AItem) /\ q # <<>>
        BY <3>2 DEF q
      <4>2. CASE Len(q) = 1
        <5>0. Len(Tail(q)) = 0 /\ Tail(q) \in Seq(AItem)
          BY <4>1, <4>2, HeadTailProperties
        <5>1. Tail(q) = <<>> /\ p = A!Collection!Idle
          BY <4>0, <4>2, <5>0, EmptySeq
        <5>. QED
          BY <5>1, AIdle DEF q
      <4>3. CASE Len(q) # 1
        <5>0. Tail(q) \in Seq(AItem) /\ Len(Tail(q)) = Len(q) - 1 /\ Len(q) \in Nat
          BY <4>1, HeadTailProperties
        <5>1. Tail(q) \in Seq(AItem) /\ Tail(q) # <<>>
          <6>1. Len(Tail(q)) # 0
            BY <4>3, <5>0
          <6>. QED
            BY <5>0, <6>1, EmptySeq
        <5>. QED
          BY <4>0, <4>3, <5>1 DEF APlace, q
      <4>. QED
        BY <4>2, <4>3
    <3>4. ADelete(c, p)
      BY <2>1, <3>1, <3>3 DEF ADelete
    <3>. QED
      BY <3>1, <3>4
  <2>3. CASE ~ A!Collection!Exists(v.name)
    <3>1. gc' = [gc EXCEPT ![c] = A!Collection!Idle] /\ store' = store
      BY <1>7, <2>1, <2>3, AVictim DEF A!Collection!DeleteActivity
    <3>. QED
      BY <1>2, <2>1, <3>1
  <2>. QED
    BY <2>2, <2>3
<1>8. UNCHANGED <<logs, alloc, issued, now, finished>>
  BY DEF A!Collect, A!numberingVars, A!Collection!Collect, A!Collection!List, A!Collection!ListJobs, A!Collection!DeleteJob,
         A!Collection!DeletePipelineRun, A!Collection!DeleteActivity, A!Collection!Fault
<1>. HIDE DEF Goal
<1>9. Goal
  BY <1>1, <1>4, <1>5, <1>6, <1>7 DEF A!Collect, A!Collection!Collect
<1>. QED
  BY <1>8, <1>9 DEF Goal

-----------------------------------------------------------------------------
(* Base is an invariant.                                                   *)

LEMMA BaseInit == A!Init => Base
<1>. SUFFICES ASSUME A!Init PROVE Base
  OBVIOUS
<1>1. /\ now = 0 /\ finished = {} /\ logs = {}
      /\ store = [n \in ANames |-> A!Numbering!NoActivity]
      /\ alloc = [b \in ABuilds |-> [pc |-> "new", number |-> 0, from |-> Nil]]
      /\ issued = [b \in ABuilds |-> {}]
      /\ gc = [c \in Collectors |-> A!Collection!Idle]
  BY AConstants DEF A!Init, A!Numbering!Init
<1>2. A!Numbering!NoActivity \in AActivity /\ A!Numbering!NoActivity.status = "absent"
  <2>1. A!Numbering!NoActivity = [status |-> "absent", run |-> 0, started |-> Nil, completed |-> Nil, branch |-> Nil, buildID |-> Nil]
    BY DEF A!Numbering!NoActivity
  <2>. HIDE DEF A!Numbering!NoActivity
  <2>. QED
    BY <2>1 DEF AActivity, ATimes
<1>3. [pc |-> "new", number |-> 0, from |-> Nil] \in ABuild
  BY DEF ABuild
<1>4. ATypes
  BY <1>1, <1>2, <1>3, AConstants, AIdle DEF ATypes
<1>5. \A n \in ANames : ~ There(n)
  BY <1>1, <1>2 DEF There
<1>6. \A b \in ABuilds : ~ Works(b) /\ OnItsWay(b)
  BY <1>1, <1>5 DEF Works, OnItsWay
<1>7. \A c \in Collectors : gc[c].todo \in Seq(Dead)
  BY <1>1, AIdle, EmptySeq
<1>. QED
  BY <1>4, <1>5, <1>6, <1>7 DEF Base, OneWorks, OfBuilds

(* A step of the variables command that leaves the activities alone.       *)
LEMMA BaseLocal ==
  ASSUME Base, NEW b \in ABuilds, NEW st \in ABuild,
         alloc' = [alloc EXCEPT ![b] = st], UNCHANGED <<now, store, finished, gc>>,
         logs' \subseteq ANames, issued' \in [ABuilds -> SUBSET (1 .. AMaxBuild)],
         st.pc # "new",
         st.pc # "finished" => /\ \A a \in ABuilds : Works(a) => a = b
                               /\ \A n \in ANames : There(n) /\ store[n].buildID = b /\ store[n].run = 1
                                                      => store[n].status = "running",
         OnItsWay(b)'
  PROVE  Base'
<1>1. alloc'[b] = st /\ (\A a \in ABuilds \ {b} : alloc'[a] = alloc[a]) /\ alloc' \in [ABuilds -> ABuild]
  BY DEF Base, ATypes
<1>2. ATypes'
  BY <1>1 DEF Base, ATypes, APlace
<1>3. Works(b)' <=> st.pc # "finished"
  BY <1>1 DEF Works
<1>4. \A a \in ABuilds \ {b} : Works(a)' <=> Works(a)
  BY <1>1 DEF Works
<1>5. OneWorks'
  BY <1>3, <1>4 DEF Base, OneWorks
<1>6. OfBuilds'
  <2>1. \A n : There(n)' <=> There(n)
    BY DEF There
  <2>. QED
    BY <1>3, <1>4, <2>1 DEF Base, OfBuilds
<1>7. \A a \in ABuilds \ {b} : OnItsWay(a)'
  <2>1. \A a \in ABuilds \ {b} : OnItsWay(a)
    BY DEF Base
  <2>2. \A n : There(n)' <=> There(n)
    BY DEF There
  <2>. QED
    BY <1>1, <2>1, <2>2 DEF OnItsWay
<1>8. \A c \in Collectors : gc'[c].todo \in Seq(Dead')
  BY DEF Base, Dead
<1>. QED
  BY <1>2, <1>5, <1>6, <1>7, <1>8 DEF Base

LEMMA Issues ==
  ASSUME ATypes, NEW b \in ABuilds, NEW k \in 1 .. AMaxBuild
  PROVE  [issued EXCEPT ![b] = @ \cup {k}] \in [ABuilds -> SUBSET (1 .. AMaxBuild)]
BY DEF ATypes

LEMMA WorkingAlone ==
  ASSUME Base, NEW b \in ABuilds, Works(b)
  PROVE  /\ \A a \in ABuilds : Works(a) => a = b
         /\ \A n \in ANames : There(n) /\ store[n].buildID = b /\ store[n].run = 1 => store[n].status = "running"
BY DEF Base, OneWorks, OfBuilds

LEMMA BaseTrigger ==
  ASSUME Base, NEW b \in ABuilds, A!Numbering!Trigger(b), A!collectionVars' = A!collectionVars
  PROVE  Base'
<1>1. /\ \A a \in ABuilds : ~ Works(a)
      /\ alloc[b].pc = "new" /\ alloc' = [alloc EXCEPT ![b].pc = "list"]
      /\ UNCHANGED <<now, store, finished, gc, logs, issued>>
  BY ATrigger DEF A!collectionVars, Base
<1>. DEFINE st == [alloc[b] EXCEPT !.pc = "list"]
<1>2. alloc[b] \in ABuild
  BY DEF Base, ATypes
<1>3. st \in ABuild /\ st.pc = "list" /\ alloc' = [alloc EXCEPT ![b] = st]
  BY <1>1, <1>2 DEF ABuild
<1>4. \A n \in ANames : There(n) => store[n].buildID # b
  BY <1>1 DEF Base, OnItsWay
<1>5. OnItsWay(b)'
  <2>1. alloc'[b].pc = "list"
    BY <1>3 DEF Base, ATypes
  <2>. QED
    BY <2>1 DEF OnItsWay
<1>. HIDE DEF st
<1>. QED
  BY <1>1, <1>3, <1>4, <1>5, BaseLocal DEF Base, ATypes

LEMMA BaseListActivities ==
  ASSUME Base, NEW b \in ABuilds, A!Numbering!ListActivities(b), A!collectionVars' = A!collectionVars
  PROVE  Base'
<1>1. /\ alloc[b].pc = "list" /\ Works(b) /\ UNCHANGED <<now, store, finished, gc, logs>>
      /\ \/ \E n : AFound(b, n)
         \/ \E n : AContinued(b, n)
         \/ ANone(b)
  BY AListActivities DEF A!collectionVars, Works
<1>2. \A n : There(n)' <=> There(n)
  BY <1>1 DEF There
<1>. DEFINE K(st) == /\ st \in ABuild /\ alloc' = [alloc EXCEPT ![b] = st] /\ st.pc \notin {"new", "finished"}
                     /\ issued' \in [ABuilds -> SUBSET (1 .. AMaxBuild)]
                     /\ OnItsWay(b)'
<1>3. ASSUME NEW n, AFound(b, n) PROVE K([pc |-> "building", number |-> n[2], from |-> "activities"])
  <2>. DEFINE st == [pc |-> "building", number |-> n[2], from |-> "activities"]
  <2>1. n \in ANames /\ There(n) /\ store[n].buildID = b /\ n[1] = main /\ n[2] \in 1 .. AMaxBuild /\ n = Number(n[2])
    BY <1>3, AConstants DEF AFound, Base, OfBuilds, Number
  <2>2. st \in ABuild
    BY <2>1 DEF ABuild
  <2>3. alloc' = [alloc EXCEPT ![b] = st] /\ issued' \in [ABuilds -> SUBSET (1 .. AMaxBuild)]
    BY <1>3, <2>1, Issues DEF AFound, Base
  <2>4. alloc'[b] = st
    BY <2>3 DEF Base, ATypes
  <2>5. OnItsWay(b)'
    BY <1>1, <1>2, <2>1, <2>4 DEF OnItsWay
  <2>. QED
    BY <2>2, <2>3, <2>5
<1>4. ASSUME NEW n, AContinued(b, n) PROVE K([pc |-> "get", number |-> n[2] + 1, from |-> "activities"])
  <2>. DEFINE st == [pc |-> "get", number |-> n[2] + 1, from |-> "activities"]
  <2>1. n \in ANames /\ n[2] \in Nat /\ \A m \in ANames : There(m) => m[2] \in Nat /\ m[2] <= n[2]
    BY <1>4, AConstants DEF AContinued
  <2>2. st \in ABuild
    BY <2>1 DEF ABuild
  <2>3. alloc' = [alloc EXCEPT ![b] = st] /\ issued' \in [ABuilds -> SUBSET (1 .. AMaxBuild)]
    BY <1>4 DEF AContinued, Base, ATypes
  <2>4. alloc'[b] = st
    BY <2>3 DEF Base, ATypes
  <2>5. OnItsWay(b)'
    BY <1>1, <1>2, <2>1, <2>4 DEF OnItsWay
  <2>. QED
    BY <2>2, <2>3, <2>5
<1>5. ASSUME ANone(b) PROVE K([alloc[b] EXCEPT !.pc = "readLogs"])
  <2>. DEFINE st == [alloc[b] EXCEPT !.pc = "readLogs"]
  <2>1. alloc[b] \in ABuild
    BY DEF Base, ATypes
  <2>2. st \in ABuild /\ st.pc = "readLogs"
    BY <2>1 DEF ABuild
  <2>3. alloc' = [alloc EXCEPT ![b] = st] /\ issued' \in [ABuilds -> SUBSET (1 .. AMaxBuild)]
    BY <1>5 DEF ANone, Base, ATypes
  <2>. HIDE DEF st
  <2>4. alloc'[b] = st
    BY <2>3 DEF Base, ATypes
  <2>5. OnItsWay(b)'
    BY <1>2, <1>5, <2>2, <2>4 DEF OnItsWay, ANone
  <2>. QED
    BY <2>2, <2>3, <2>5 DEF st
<1>6. PICK st : K(st)
  <2>. HIDE DEF K
  <2>. QED
    BY <1>1, <1>3, <1>4, <1>5
<1>. QED
  BY <1>1, <1>6, WorkingAlone, BaseLocal DEF Base, ATypes

LEMMA BaseReadLogs ==
  ASSUME Base, NEW b \in ABuilds, A!Numbering!ReadLogs(b), A!collectionVars' = A!collectionVars
  PROVE  Base'
<1>1. /\ alloc[b].pc = "readLogs" /\ Works(b) /\ UNCHANGED <<now, store, finished, gc, logs, issued>>
      /\ \E k : \E f : ARead(b, k, f)
  BY AReadLogs DEF A!collectionVars, Works, Base
<1>2. PICK k : \E f : ARead(b, k, f)
  BY <1>1
<1>3. PICK f : ARead(b, k, f)
  BY <1>2
<1>. DEFINE st == [pc |-> "get", number |-> k, from |-> f]
<1>4. st \in ABuild /\ alloc' = [alloc EXCEPT ![b] = st]
  BY <1>3 DEF ARead, ABuild
<1>5. alloc'[b] = st
  BY <1>4 DEF Base, ATypes
<1>6. \A n \in ANames : ~ There(n)
  BY <1>1 DEF Base, OnItsWay
<1>7. OnItsWay(b)'
  BY <1>1, <1>5, <1>6 DEF OnItsWay, There
<1>. QED
  BY <1>1, <1>4, <1>7, WorkingAlone, BaseLocal DEF Base, ATypes

LEMMA BaseGetActivity ==
  ASSUME Base, NEW b \in ABuilds, A!Numbering!GetActivity(b), A!collectionVars' = A!collectionVars
  PROVE  Base'
<1>1. /\ alloc[b].pc = "get" /\ Works(b) /\ alloc[b].number \in 1 .. AMaxBuild
      /\ alloc' = [alloc EXCEPT ![b].pc = "create"]
      /\ UNCHANGED <<now, store, finished, gc, logs, issued>>
  BY AGetActivity DEF A!collectionVars, Works
<1>. DEFINE st == [alloc[b] EXCEPT !.pc = "create"]
<1>2. alloc[b] \in ABuild /\ OnItsWay(b)
  BY DEF Base, ATypes
<1>3. st \in ABuild /\ st.pc = "create" /\ st.number = alloc[b].number /\ alloc' = [alloc EXCEPT ![b] = st]
  BY <1>1, <1>2 DEF ABuild
<1>. HIDE DEF st
<1>4. alloc'[b] = st
  BY <1>3 DEF Base, ATypes
<1>5. OnItsWay(b)'
  BY <1>1, <1>2, <1>3, <1>4 DEF OnItsWay, There
<1>. QED
  BY <1>1, <1>3, <1>5, WorkingAlone, BaseLocal DEF Base, ATypes

LEMMA BaseRerun ==
  ASSUME Base, NEW b \in ABuilds, A!Numbering!Rerun(b) \/ A!Numbering!GiveUp(b), A!collectionVars' = A!collectionVars
  PROVE  Base'
<1>1. Works(b) /\ UNCHANGED <<now, store, finished, gc, logs, issued>>
  BY DEF A!Numbering!Rerun, A!Numbering!GiveUp, A!collectionVars, Works
<1>2. PICK st \in ABuild : alloc' = [alloc EXCEPT ![b] = st] /\ st.pc \in {"list", "finished"}
  <2>1. CASE A!Numbering!Rerun(b)
    <3>1. [pc |-> "list", number |-> 0, from |-> Nil] \in ABuild
      BY DEF ABuild
    <3>. QED
      BY <2>1, <3>1 DEF A!Numbering!Rerun
  <2>2. CASE A!Numbering!GiveUp(b)
    <3>. DEFINE st == [alloc[b] EXCEPT !.pc = "finished"]
    <3>1. alloc[b] \in ABuild
      BY DEF Base, ATypes
    <3>2. st \in ABuild /\ st.pc = "finished"
      BY <3>1 DEF ABuild
    <3>. QED
      BY <2>2, <3>2 DEF A!Numbering!GiveUp
  <2>. QED
    BY <2>1, <2>2
<1>3. alloc'[b] = st
  BY <1>2 DEF Base, ATypes
<1>4. OnItsWay(b)'
  BY <1>2, <1>3 DEF OnItsWay
<1>. QED
  BY <1>1, <1>2, <1>4, WorkingAlone, BaseLocal DEF Base, ATypes

(* What a step does to the activities that keeps the lists of the          *)
(* collectors as they are.                                                 *)
LEMMA DeadStay ==
  ASSUME Base,
         \A n \in ANames : \/ store'[n].run = store[n].run /\ (store'[n].status = "running" => store[n].status = "running")
                           \/ store'[n].run = store[n].run + 1
  PROVE  Dead \subseteq Dead'
<1>. SUFFICES ASSUME NEW a \in Dead PROVE a \in Dead'
  OBVIOUS
<1>1. a \in AItem /\ a.name \in ANames /\ a.run \in Nat /\ store[a.name].run \in Nat
  BY DEF Dead, AItem, Base, ATypes, AActivity
<1>2. 0 < a.run /\ a.run <= store[a.name].run /\ (a.run = store[a.name].run => store[a.name].status # "running")
  BY DEF Dead
<1>3. CASE store'[a.name].run = store[a.name].run /\ (store'[a.name].status = "running" => store[a.name].status = "running")
  BY <1>1, <1>2, <1>3 DEF Dead
<1>4. CASE store'[a.name].run = store[a.name].run + 1
  BY <1>1, <1>2, <1>4 DEF Dead
<1>. QED
  BY <1>1, <1>3, <1>4

LEMMA BaseCreateActivity ==
  ASSUME Base, NEW b \in ABuilds, A!Numbering!CreateActivity(b), A!collectionVars' = A!collectionVars
  PROVE  Base'
<1>1. PICK k \in 1 .. AMaxBuild :
        /\ alloc[b].pc = "create" /\ k = alloc[b].number /\ ~ There(Number(k))
        /\ store' = [store EXCEPT ![Number(k)] = ANew(b, k)]
        /\ issued' = [issued EXCEPT ![b] = @ \cup {k}]
        /\ alloc' = [alloc EXCEPT ![b].pc = "building"]
        /\ logs' = logs
  BY ACreateActivity
<1>2. UNCHANGED <<now, finished, gc>> /\ Works(b) /\ Number(k) \in ANames /\ Number(k)[1] = main
  BY <1>1, AConstants DEF A!collectionVars, Works
<1>3. ANew(b, k) \in AActivity /\ store[Number(k)].run \in Nat
  <2>1. store[Number(k)].run \in Nat
    BY <1>2 DEF Base, ATypes, AActivity
  <2>2. store[Number(k)].run + 1 \in Nat
    BY <2>1
  <2>. QED
    BY <2>1, <2>2, AConstants DEF ANew, AActivity, ATimes
<1>4. /\ store'[Number(k)] = ANew(b, k) /\ \A n \in ANames : n # Number(k) => store'[n] = store[n]
      /\ store' \in [ANames -> AActivity]
  <2>1. store \in [ANames -> AActivity]
    BY DEF Base, ATypes
  <2>. QED
    BY <1>1, <1>2, <1>3, <2>1
<1>5. /\ ANew(b, k).status = "running" /\ ANew(b, k).run = store[Number(k)].run + 1
      /\ ANew(b, k).branch = main /\ ANew(b, k).buildID = b
  BY DEF ANew
<1>6. alloc[b] \in ABuild
  BY DEF Base, ATypes
<1>7. /\ alloc'[b].pc = "building" /\ alloc'[b].number = k /\ \A a \in ABuilds \ {b} : alloc'[a] = alloc[a]
      /\ alloc' \in [ABuilds -> ABuild]
  <2>. DEFINE st == [alloc[b] EXCEPT !.pc = "building"]
  <2>1. st \in ABuild /\ st.pc = "building" /\ st.number = k /\ alloc' = [alloc EXCEPT ![b] = st]
    BY <1>1, <1>6 DEF ABuild
  <2>. HIDE DEF st
  <2>. QED
    BY <2>1 DEF Base, ATypes
<1>8. ATypes'
  BY <1>1, <1>2, <1>4, <1>7, Issues DEF Base, ATypes, APlace
<1>9. Works(b)' /\ \A a \in ABuilds \ {b} : Works(a)' <=> Works(a)
  BY <1>7 DEF Works
<1>10. OneWorks'
  BY <1>2, <1>9 DEF Base, OneWorks
<1>11. OfBuilds'
  <2>. SUFFICES ASSUME NEW n \in ANames, There(n)'
                PROVE  /\ n[1] = main /\ store'[n].branch = main /\ store'[n].buildID \in ABuilds /\ store'[n].run > 0
                       /\ store'[n].run = 1 /\ Works(store[n].buildID)' => store'[n].status = "running"
    BY DEF OfBuilds
  <2>1. CASE n = Number(k)
    BY <1>2, <1>3, <1>4, <1>5, <2>1
  <2>2. CASE n # Number(k)
    <3>1. store'[n] = store[n] /\ There(n)
      BY <1>4, <2>2 DEF There
    <3>. QED
      BY <1>2, <1>9, <3>1 DEF Base, OfBuilds
  <2>. QED
    BY <2>1, <2>2
<1>12. OnItsWay(b)'
  BY <1>4, <1>5, <1>7 DEF OnItsWay, There
<1>13. ASSUME NEW a \in ABuilds \ {b} PROVE OnItsWay(a)'
  <2>1. ~ Works(a) /\ OnItsWay(a) /\ alloc'[a] = alloc[a]
    BY <1>2, <1>7 DEF Base, OneWorks
  <2>2. \A n \in ANames : There(n)' /\ n # Number(k) => There(n) /\ store'[n].buildID = store[n].buildID
    BY <1>4 DEF There
  <2>3. store'[Number(k)].buildID # a
    BY <1>4, <1>5
  <2>. QED
    BY <2>1, <2>2, <2>3 DEF OnItsWay, Works
<1>14. \A c \in Collectors : gc'[c].todo \in Seq(Dead')
  <2>1. \A n \in ANames : \/ store'[n].run = store[n].run /\ (store'[n].status = "running" => store[n].status = "running")
                          \/ store'[n].run = store[n].run + 1
    BY <1>4, <1>5
  <2>2. Dead \subseteq Dead'
    BY <2>1, DeadStay
  <2>3. Seq(Dead) \subseteq Seq(Dead')
    BY <2>2, SeqDef
  <2>. QED
    BY <1>2, <2>3 DEF Base
<1>. QED
  BY <1>8, <1>10, <1>11, <1>12, <1>13, <1>14 DEF Base

LEMMA BaseFinish ==
  ASSUME Base, NEW b \in ABuilds, A!Finish(b)
  PROVE  Base'
<1>1. PICK k \in 1 .. AMaxBuild :
        /\ alloc[b].pc = "building" /\ k = alloc[b].number
        /\ alloc' = [alloc EXCEPT ![b].pc = "finished"]
        /\ logs' = logs \cup {Number(k)}
        /\ UNCHANGED <<issued, now, gc>>
        /\ \/ \E s, t : AStamped(b, Number(k), s, t)
           \/ ~ (store[Number(k)].status = "running" /\ store[Number(k)].buildID = b) /\ UNCHANGED <<store, finished>>
  BY AFinish
<1>. DEFINE st == [alloc[b] EXCEPT !.pc = "finished"]
<1>2. alloc[b] \in ABuild
  BY DEF Base, ATypes
<1>3. st \in ABuild /\ st.pc = "finished" /\ alloc' = [alloc EXCEPT ![b] = st]
  BY <1>1, <1>2 DEF ABuild
<1>. HIDE DEF st
<1>4. /\ alloc'[b].pc = "finished" /\ \A a \in ABuilds \ {b} : alloc'[a] = alloc[a]
      /\ alloc' \in [ABuilds -> ABuild]
  BY <1>3 DEF Base, ATypes
<1>5. Number(k) \in ANames /\ logs' \subseteq ANames
  BY <1>1, AConstants DEF Base, ATypes
<1>6. OnItsWay(b)'
  BY <1>4 DEF OnItsWay
<1>7. CASE UNCHANGED <<store, finished>>
  BY <1>1, <1>3, <1>5, <1>6, <1>7, BaseLocal DEF Base, ATypes
<1>8. CASE \E s, t : AStamped(b, Number(k), s, t)
  <2>1. PICK s, t : AStamped(b, Number(k), s, t)
    BY <1>8
  <2>2. /\ store[Number(k)].status = "running" /\ store[Number(k)].buildID = b /\ s \in ATimes /\ t \in ATimes
        /\ store' = [store EXCEPT ![Number(k)].status = "terminated", ![Number(k)].started = s, ![Number(k)].completed = t]
    BY <2>1 DEF AStamped, Base, ATypes, ATimes
  <2>3. /\ store'[Number(k)].status = "terminated" /\ store'[Number(k)].run = store[Number(k)].run
        /\ store'[Number(k)].branch = store[Number(k)].branch /\ store'[Number(k)].buildID = b
        /\ \A n \in ANames : n # Number(k) => store'[n] = store[n]
        /\ store' \in [ANames -> AActivity]
    <3>. DEFINE new == [store[Number(k)] EXCEPT !.status = "terminated", !.started = s, !.completed = t]
    <3>1. store \in [ANames -> AActivity] /\ store[Number(k)] \in AActivity
      BY <1>5 DEF Base, ATypes
    <3>2. /\ new \in AActivity /\ new.status = "terminated" /\ new.run = store[Number(k)].run
          /\ new.branch = store[Number(k)].branch /\ new.buildID = store[Number(k)].buildID
      BY <2>2, <3>1 DEF AActivity
    <3>3. store' = [store EXCEPT ![Number(k)] = new]
      BY <2>2
    <3>. HIDE DEF new
    <3>4. store'[Number(k)] = new /\ (\A n \in ANames : n # Number(k) => store'[n] = store[n]) /\ store' \in [ANames -> AActivity]
      BY <1>5, <3>1, <3>2, <3>3
    <3>. QED
      BY <2>2, <3>2, <3>4
  <2>4. store[Number(k)].run \in Nat
    BY <1>5 DEF Base, ATypes, AActivity
  <2>5. finished' \subseteq AItem
    <3>1. [name |-> Number(k), run |-> store[Number(k)].run, started |-> s, completed |-> t] \in AItem
      BY <1>5, <2>2, <2>4 DEF AItem
    <3>. QED
      BY <2>1, <3>1 DEF AStamped, Base, ATypes
  <2>6. ATypes'
    BY <1>1, <1>4, <1>5, <2>3, <2>5 DEF Base, ATypes, APlace
  <2>7. ~ Works(b)' /\ \A a \in ABuilds \ {b} : Works(a)' <=> Works(a)
    BY <1>4 DEF Works
  <2>8. OneWorks'
    BY <2>7 DEF Base, OneWorks
  <2>9. \A n \in ANames : /\ There(n)' <=> There(n)
                          /\ store'[n].run = store[n].run /\ store'[n].branch = store[n].branch
                          /\ store'[n].buildID = store[n].buildID
                          /\ store'[n].status = store[n].status \/ store'[n].buildID = b
    BY <2>2, <2>3 DEF There
  <2>10. OfBuilds'
    BY <2>7, <2>9 DEF Base, OfBuilds
  <2>11. ASSUME NEW a \in ABuilds \ {b} PROVE OnItsWay(a)'
    <3>1. OnItsWay(a) /\ alloc'[a] = alloc[a]
      BY <1>4 DEF Base
    <3>2. \A m \in 1 .. AMaxBuild : Number(m) \in ANames
      BY AConstants
    <3>. QED
      BY <2>9, <3>1, <3>2 DEF OnItsWay
  <2>12. \A c \in Collectors : gc'[c].todo \in Seq(Dead')
    <3>1. \A n \in ANames : store'[n].run = store[n].run /\ (store'[n].status = "running" => store[n].status = "running")
      BY <2>3
    <3>2. Dead \subseteq Dead'
      BY <3>1, DeadStay
    <3>3. Seq(Dead) \subseteq Seq(Dead')
      BY <3>2, SeqDef
    <3>. QED
      BY <1>1, <3>3 DEF Base
  <2>. QED
    BY <1>6, <2>6, <2>8, <2>10, <2>11, <2>12 DEF Base
<1>. QED
  BY <1>1, <1>7, <1>8

(* A collector at most deletes an activity, and never the one under which  *)
(* a build runs.                                                           *)
LEMMA BaseCollect ==
  ASSUME Base, NEW c \in Collectors, A!Collect(c)
  PROVE  Base'
<1>1. UNCHANGED <<logs, alloc, issued, now, finished>>
  BY ACollect DEF Base
<1>2. PICK p : gc' = [gc EXCEPT ![c] = p] /\ (AList(c, p) \/ AGoOn(c, p) \/ ADelete(c, p))
  BY ACollect DEF Base
<1>3. ASSUME NEW q, q \in APlace, q.todo \in Seq(Dead'), q.pc # "idle" => q.todo # <<>>,
             gc' = [gc EXCEPT ![c] = q],
             store' \in [ANames -> AActivity],
             \A n \in ANames : store'[n] = store[n] \/ (~ There(n)' /\ There(n) /\ store'[n].run = store[n].run),
             \A n \in ANames, b \in ABuilds :
               alloc[b].pc = "building" /\ n = Number(alloc[b].number) /\ store[n].run = 1 => store'[n] = store[n]
      PROVE  Base'
  <2>1. ATypes'
    BY <1>1, <1>3 DEF Base, ATypes
  <2>2. \A n \in ANames : There(n)' => There(n) /\ store'[n] = store[n]
    BY <1>3 DEF There
  <2>3. OneWorks' /\ OfBuilds'
    BY <1>1, <2>2 DEF Base, OneWorks, OfBuilds, Works
  <2>4. ASSUME NEW b \in ABuilds PROVE OnItsWay(b)'
    <3>1. OnItsWay(b) /\ alloc'[b] = alloc[b]
      BY <1>1 DEF Base
    <3>2. ASSUME alloc[b].pc = "building"
          PROVE  \/ store'[Number(alloc[b].number)].run > 1
                 \/ There(Number(alloc[b].number))' /\ store'[Number(alloc[b].number)].buildID = b
      <4>2. Number(alloc[b].number) \in ANames
        BY <3>1, <3>2, AConstants DEF OnItsWay
      <4>3. store[Number(alloc[b].number)].run \in Nat
        BY <4>2 DEF Base, ATypes, AActivity
      <4>4. CASE store[Number(alloc[b].number)].run > 1
        BY <1>3, <4>2, <4>4
      <4>5. CASE ~ (store[Number(alloc[b].number)].run > 1)
        <5>1. There(Number(alloc[b].number)) /\ store[Number(alloc[b].number)].buildID = b
          BY <3>1, <3>2, <4>5 DEF OnItsWay
        <5>2. store[Number(alloc[b].number)].run > 0
          BY <4>2, <5>1 DEF Base, OfBuilds
        <5>3. store[Number(alloc[b].number)].run = 1
          BY <4>3, <4>5, <5>2
        <5>4. store'[Number(alloc[b].number)] = store[Number(alloc[b].number)]
          BY <1>3, <3>2, <4>2, <5>3
        <5>. QED
          BY <1>1, <5>1, <5>4 DEF There
      <4>. QED
        BY <4>4, <4>5
    <3>. QED
      BY <2>2, <3>1, <3>2 DEF OnItsWay
  <2>5. ASSUME NEW d \in Collectors PROVE gc'[d].todo \in Seq(Dead')
    <3>1. CASE d = c
      BY <1>3, <3>1 DEF Base, ATypes
    <3>2. CASE d # c
      <4>1. gc'[d] = gc[d] /\ gc[d].todo \in Seq(Dead)
        BY <1>3, <3>2 DEF Base, ATypes
      <4>2. \A n \in ANames : store'[n].run = store[n].run /\ (store'[n].status = "running" => store[n].status = "running")
        <5>. SUFFICES ASSUME NEW n \in ANames
                      PROVE  store'[n].run = store[n].run /\ (store'[n].status = "running" => store[n].status = "running")
          OBVIOUS
        <5>1. store'[n] = store[n] \/ (~ There(n)' /\ store'[n].run = store[n].run)
          BY <1>3
        <5>. QED
          BY <5>1 DEF There
      <4>3. Dead \subseteq Dead'
        BY <4>2, DeadStay
      <4>4. Seq(Dead) \subseteq Seq(Dead')
        BY <4>3, SeqDef
      <4>. QED
        BY <4>1, <4>4
    <3>. QED
      BY <3>1, <3>2
  <2>. QED
    BY <2>1, <2>3, <2>4, <2>5 DEF Base
<1>4. CASE AList(c, p)
  <2>1. PICK order \in A!Collection!NewestFirst(A!Collection!Terminated) : p.todo \in Seq(A!Collection!Doomed(order))
    BY <1>4 DEF AList
  <2>2. A!Collection!Terminated \subseteq Dead'
    <3>. SUFFICES ASSUME NEW n \in ANames, store[n].status = "terminated" PROVE A!Collection!Item(n) \in Dead'
      BY DEF A!Collection!Terminated, ANames
    <3>. DEFINE a == A!Collection!Item(n)
    <3>1. store[n] \in AActivity /\ store' = store
      BY <1>4 DEF Base, ATypes, AList
    <3>2. a \in AItem /\ a.name = n /\ a.run = store[n].run
      BY <3>1 DEF A!Collection!Item, AItem, AActivity
    <3>3. a.run > 0 /\ a.run \in Nat
      BY <3>1, <3>2 DEF Base, OfBuilds, There, AActivity
    <3>. HIDE DEF a
    <3>4. a \in Dead'
      BY <3>1, <3>2, <3>3 DEF Dead
    <3>. QED
      BY <3>4 DEF a
  <2>3. Dead' \subseteq AItem
    BY DEF Dead
  <2>4. p.todo \in Seq(Dead') /\ p.todo \in Seq(AItem)
    <3>1. A!Collection!Doomed(order) \subseteq Dead' /\ A!Collection!Doomed(order) \subseteq AItem
      BY <2>2, <2>3, ADoomedTerminated
    <3>2. \A S, T : S \subseteq T => Seq(S) \subseteq Seq(T)
      BY SeqDef
    <3>. QED
      BY <2>1, <3>1, <3>2
  <2>5. p = [pc |-> "listJobs", todo |-> p.todo, listed |-> {}] /\ p.todo # <<>> /\ store' = store
    BY <1>4 DEF AList
  <2>6. p \in APlace
    BY <2>4, <2>5 DEF APlace
  <2>. QED
    BY <1>2, <1>3, <2>4, <2>5, <2>6 DEF Base, ATypes
<1>5. CASE AGoOn(c, p)
  <2>1. store' = store /\ p \in APlace
        /\ ((p.todo = <<>> /\ p.pc = "idle") \/ (p.todo = gc[c].todo /\ p.pc # "idle"))
    BY <1>5 DEF AGoOn
  <2>0. gc[c].todo \in Seq(Dead) /\ gc[c].todo # <<>>
    BY <1>5, AVictim DEF AGoOn, Base
  <2>2. p.todo \in Seq(Dead')
    BY <2>0, <2>1, EmptySeq DEF Dead
  <2>. QED
    BY <1>2, <1>3, <2>0, <2>1, <2>2 DEF Base, ATypes
<1>6. CASE ADelete(c, p)
  <2>. DEFINE v == Head(gc[c].todo)
              q == gc[c].todo
  <2>1. q \in Seq(Dead) /\ q # <<>> /\ p \in APlace /\ p.todo = Tail(q) /\ (p.pc # "idle" => p.todo # <<>>)
        /\ There(v.name) /\ store' = ADeleted(v.name)
    BY <1>6, AVictim DEF ADelete, Base
  <2>2. v \in Dead /\ Tail(q) \in Seq(Dead)
    <3>. HIDE DEF q
    <3>1. Head(q) \in Dead /\ Tail(q) \in Seq(Dead)
      BY <2>1, HeadTailProperties
    <3>. QED
      BY <3>1 DEF q
  <2>3. v.name \in ANames
    BY <2>2 DEF Dead, AItem
  <2>. HIDE DEF v, q
  <2>4. /\ store'[v.name].status = "absent" /\ store'[v.name].run = store[v.name].run
        /\ \A n \in ANames : n # v.name => store'[n] = store[n]
        /\ store' \in [ANames -> AActivity]
    <3>. DEFINE new == [store[v.name] EXCEPT !.status = "absent", !.started = Nil, !.completed = Nil]
    <3>1. store \in [ANames -> AActivity] /\ store[v.name] \in AActivity
      BY <2>3 DEF Base, ATypes
    <3>2. new \in AActivity /\ new.status = "absent" /\ new.run = store[v.name].run
      BY <3>1 DEF AActivity, ATimes
    <3>3. store' = [store EXCEPT ![v.name] = new]
      BY <2>1 DEF ADeleted
    <3>. HIDE DEF new
    <3>. QED
      BY <2>3, <3>1, <3>2, <3>3
  <2>5. \A n \in ANames : store'[n] = store[n] \/ (~ There(n)' /\ There(n) /\ store'[n].run = store[n].run)
    BY <2>1, <2>4 DEF There
  <2>6. ASSUME NEW b \in ABuilds, alloc[b].pc = "building", v.name = Number(alloc[b].number), store[v.name].run = 1 PROVE FALSE
    <3>1. store[v.name].buildID = b /\ There(v.name)
      BY <2>1, <2>6 DEF Base, OnItsWay
    <3>2. store[v.name].status = "running"
      BY <2>3, <2>6, <3>1 DEF Base, OfBuilds, Works
    <3>3. v.run \in Nat /\ 0 < v.run /\ v.run <= 1 /\ v.run # 1
      BY <2>2, <2>6, <3>2 DEF Dead, AItem
    <3>. QED
      BY <3>3
  <2>7. \A n \in ANames, b \in ABuilds :
          alloc[b].pc = "building" /\ n = Number(alloc[b].number) /\ store[n].run = 1 => store'[n] = store[n]
    BY <2>4, <2>6
  <2>8. Dead \subseteq Dead'
    <3>1. \A n \in ANames : store'[n].run = store[n].run /\ (store'[n].status = "running" => store[n].status = "running")
      BY <2>4
    <3>. QED
      BY <3>1, DeadStay
  <2>9. p.todo \in Seq(Dead')
    BY <2>1, <2>2, <2>8, SeqDef
  <2>. QED
    BY <1>2, <1>3, <2>1, <2>4, <2>5, <2>7, <2>9
<1>. QED
  BY <1>2, <1>4, <1>5, <1>6

LEMMA BaseTick ==
  ASSUME Base, A!Tick
  PROVE  Base'
<1>1. now' \in 0 .. MaxTime /\ UNCHANGED <<store, finished, logs, alloc, issued, gc>>
  BY AConstants DEF A!Tick, A!Collection!Tick, A!numberingVars, Base, ATypes
<1>2. ATypes'
  BY <1>1 DEF Base, ATypes
<1>3. OneWorks' /\ OfBuilds' /\ \A b \in ABuilds : OnItsWay(b)'
  BY <1>1 DEF Base, OneWorks, OfBuilds, OnItsWay, Works, There
<1>4. Dead' = Dead
  BY <1>1 DEF Dead
<1>. QED
  BY <1>1, <1>2, <1>3, <1>4 DEF Base

LEMMA BaseNext == Base /\ A!Next => Base'
<1>. SUFFICES ASSUME Base, A!Next PROVE Base'
  OBVIOUS
<1>1. ASSUME NEW b \in ABuilds, A!Number(b) PROVE Base'
  BY <1>1, BaseTrigger, BaseListActivities, BaseReadLogs, BaseGetActivity, BaseCreateActivity, BaseRerun
  DEF A!Number, A!Numbering!FindBuildNumber
<1>. QED
  BY <1>1, BaseFinish, BaseCollect, BaseTick DEF A!Next

(* In the part of the model that collects.                                 *)
MCBase == part = "activities" => Base

LEMMA MCBaseAlways == MCSpec => []MCBase
<1>1. MCInit => MCBase
  BY BaseInit DEF MCInit, MCBase
<1>2. MCBase /\ [MCNext]_mcvars => MCBase'
  <2>. SUFFICES ASSUME MCBase, [MCNext]_mcvars PROVE MCBase'
    OBVIOUS
  <2>1. CASE MCNext
    BY <2>1, BaseNext DEF MCNext, MCBase
  <2>2. CASE UNCHANGED mcvars
    <3>1. UNCHANGED <<part, store, logs, alloc, issued, now, finished, gc>>
      BY <2>2 DEF mcvars
    <3>2. Dead' = Dead
      BY <3>1 DEF Dead
    <3>. QED
      BY <3>1, <3>2 DEF MCBase, Base, ATypes, OneWorks, OfBuilds, OnItsWay, Works, There
  <2>. QED
    BY <2>1, <2>2
<1>. QED
  BY <1>1, <1>2, PTL DEF MCSpec

(* The variables command finds, for a build whose pipeline still runs, the *)
(* activity it gave to it, whatever the collectors do; the exception is a  *)
(* name that has come back while a collector had still to delete its       *)
(* former activity (pkg/cmd/variables, pkg/cmd/gc/activities).             *)
THEOREM RunningBuildsKeepActivity == MCSpec => []RunningBuildFound
<1>1. Base => A!RunningBuildFound
  <2>. SUFFICES ASSUME Base, NEW b \in ABuilds, alloc[b].pc = "building"
                PROVE  A!Numbering!Own(b) # {} \/ A!CameBack(A!Numbering!Chosen(b))
    BY DEF A!RunningBuildFound
  <2>1. OnItsWay(b) /\ Number(alloc[b].number) \in ANames
    BY AConstants DEF Base, OnItsWay
  <2>2. \/ store[Number(alloc[b].number)].run > 1
        \/ There(Number(alloc[b].number)) /\ store[Number(alloc[b].number)].buildID = b
    BY <2>1 DEF OnItsWay
  <2>. QED
    BY <2>1, <2>2, AChosen, ASiblings DEF A!CameBack
<1>2. MCBase => RunningBuildFound
  BY <1>1 DEF MCBase, RunningBuildFound
<1>. QED
  BY <1>2, MCBaseAlways, PTL
=============================================================================
