---------------------------- MODULE BuildNumbers ----------------------------
(***************************************************************************)
(* `jx gitops variables`: how a pipeline finds its build number            *)
(* (GetBuildNumber and FindBuildNumber of pkg/cmd/variables/variables.go). *)
(*                                                                         *)
(* A build is one execution of a pipeline; $BUILD_ID identifies it.  The   *)
(* command looks for a PipelineActivity labelled with the build id; when   *)
(* there is none it takes the highest build number of the branch plus one, *)
(* reading the persisted logs when the branch has no activities at all,    *)
(* and creates the activity of that number (GetOrCreate).  Nothing locks   *)
(* the branch meanwhile, and the command is run again when a pod restarts. *)
(*                                                                         *)
(* The name of an activity is made from its branch by naming.ToValidName,  *)
(* which gives several branches the same one ("a/x" and "a-x").  A branch  *)
(* therefore finds the activities of the branch its own name turns into.   *)
(***************************************************************************)
EXTENDS Integers, FiniteSets

CONSTANTS
  Builds,              \* the build ids
  Branches,            \* owner/repository/branch
  BranchOf,            \* [Builds -> Branches]
  ValidName,           \* [Branches -> Branches], naming.ToValidName
  MaxBuild,            \* bound of the build numbers
  MaxParallel,         \* how many unfinished builds of a branch the scheduler allows
  LogsBucket,          \* whether the requirements configure a bucket for logs
  MaxReruns,           \* bound on how often the command is run again
  Nil

ASSUME BuildNumbersAssumption ==
  /\ BranchOf \in [Builds -> Branches]
  /\ ValidName \in [Branches -> Branches]
  /\ \A br \in Branches : ValidName[ValidName[br]] = ValidName[br]
  /\ MaxBuild \in Nat \ {0}
  /\ MaxParallel \in Nat \ {0}
  /\ LogsBucket \in BOOLEAN
  /\ MaxReruns \in Nat
  /\ Nil \notin Nat /\ Nil \notin Builds /\ Nil \notin Branches

Numbers == 1 .. MaxBuild

(* An activity is named after the valid name of its branch and its number. *)
Names == Branches \X Numbers

VARIABLES
  store,      \* the PipelineActivity of every name: its status, branch and build id
  logs,       \* the branches and numbers whose logs are in the bucket
  alloc,      \* the local state of FindBuildNumber for every build; from says what
              \* the number was derived from
  issued,     \* the build numbers the command has returned to every build
  before,     \* history: the builds that had finished when a build was triggered
  reruns      \* how often the command was run again

vars == <<store, logs, alloc, issued, before, reruns>>

-----------------------------------------------------------------------------

(* run counts the activities that the name has had.  The timestamps are    *)
(* set by other controllers, later.                                        *)
NoActivity == [status |-> "absent", run |-> 0, started |-> Nil, completed |-> Nil,
               branch |-> Nil, buildID |-> Nil]

(* Mutant of NewActivity: the build id label is forgotten.                 *)
NewActivityUnlabelled(b, n) ==
  [NoActivity EXCEPT !.status = "running", !.run = store[n].run + 1, !.branch = BranchOf[b]]

NewActivity(b, n) ==
  [NoActivity EXCEPT !.status = "running", !.run = store[n].run + 1, !.branch = BranchOf[b], !.buildID = b]

Exists(n) == store[n].status # "absent"

(* Mutant of Siblings: terminated activities are overlooked.               *)
RunningSiblings(b) ==
  {n \in Names : store[n].status = "running" /\ store[n].branch \in {BranchOf[b], ValidName[BranchOf[b]]}}

(* The activities of the branch of b (activitySlice): those whose branch   *)
(* is that of b or the valid name of it.                                   *)
Siblings(b) ==
  {n \in Names : Exists(n) /\ store[n].branch \in {BranchOf[b], ValidName[BranchOf[b]]}}

(* Those created for b itself.                                             *)
Own(b) == {n \in Siblings(b) : store[n].buildID = b}

Highest(S) == IF S = {} THEN 0 ELSE CHOOSE i \in S : \A j \in S : j <= i

Allowed(b) ==
  Cardinality({a \in Builds : /\ BranchOf[a] = BranchOf[b]
                              /\ alloc[a].pc \notin {"new", "finished"}}) < MaxParallel

Init ==
  /\ store = [n \in Names |-> NoActivity]
  /\ logs = {}
  /\ alloc = [b \in Builds |-> [pc |-> "new", number |-> 0, from |-> Nil]]
  /\ issued = [b \in Builds |-> {}]
  /\ before = [b \in Builds |-> {}]
  /\ reruns = 0

(* The scheduler (external) starts the pipeline of b.                      *)
Trigger(b) ==
  /\ alloc[b].pc = "new"
  /\ Allowed(b)
  /\ alloc' = [alloc EXCEPT ![b].pc = "list"]
  /\ before' = [before EXCEPT ![b] = {a \in Builds : alloc[a].pc = "finished"}]
  /\ UNCHANGED <<store, logs, issued, reruns>>

(* FindBuildNumber, the list of activities.  Labelled with the build id    *)
(* they give the number; else the highest one of the branch counts.        *)
ListActivities(b) ==
  /\ alloc[b].pc = "list"
  /\ \/ \E n \in Own(b) :
          /\ issued' = [issued EXCEPT ![b] = @ \cup {n[2]}]
          /\ alloc' = [alloc EXCEPT ![b] = [pc |-> "building", number |-> n[2], from |-> "activities"]]
     \/ /\ Own(b) = {} /\ Siblings(b) # {}
        /\ alloc' = [alloc EXCEPT ![b] =
             [pc |-> "get", number |-> Highest({n[2] : n \in Siblings(b)}) + 1, from |-> "activities"]]
        /\ UNCHANGED issued
     \/ /\ Siblings(b) = {}
        /\ alloc' = [alloc EXCEPT ![b].pc = "readLogs"]
        /\ UNCHANGED issued
  /\ UNCHANGED <<store, logs, before, reruns>>

(* findMaxBuildFromPersistedLogs.  An error of opening or listing the      *)
(* bucket is only logged, and what was read up to then counts: nothing     *)
(* without a bucket.                                                       *)
ReadLogs(b) ==
  LET all == {n[2] : n \in {m \in logs : m[1] = BranchOf[b]}}
  IN  /\ alloc[b].pc = "readLogs"
      /\ \E read \in IF LogsBucket THEN SUBSET all ELSE {{}} :
           alloc' = [alloc EXCEPT ![b] =
             [pc |-> "get", number |-> 1 + Highest(read),
              from |-> IF read = all THEN "logs" ELSE "partOfLogs"]]
      /\ UNCHANGED <<store, logs, issued, before, reruns>>

Chosen(b) == <<ValidName[BranchOf[b]], alloc[b].number>>

(* GetOrCreate, the read.  An activity that is there already is used, and  *)
(* its branch and its label may be replaced (the library decides).         *)
GetActivity(b) ==
  /\ alloc[b].pc = "get"
  /\ alloc[b].number \in Numbers
  /\ IF Exists(Chosen(b))
     THEN /\ \E id \in {b, store[Chosen(b)].buildID}, br \in {BranchOf[b], store[Chosen(b)].branch} :
               store' = [store EXCEPT ![Chosen(b)].buildID = id, ![Chosen(b)].branch = br]
          /\ issued' = [issued EXCEPT ![b] = @ \cup {alloc[b].number}]
          /\ alloc' = [alloc EXCEPT ![b].pc = "building"]
     ELSE /\ alloc' = [alloc EXCEPT ![b].pc = "create"]
          /\ UNCHANGED <<store, issued>>
  /\ UNCHANGED <<logs, before, reruns>>

(* GetOrCreate, the creation.  It fails when another command created the   *)
(* activity since, and the command with it.                                *)
CreateActivity(b) ==
  /\ alloc[b].pc = "create"
  /\ IF Exists(Chosen(b))
     THEN /\ alloc' = [alloc EXCEPT ![b].pc = "failed"]
          /\ UNCHANGED <<store, issued>>
     ELSE /\ store' = [store EXCEPT ![Chosen(b)] = NewActivity(b, Chosen(b))]
          /\ issued' = [issued EXCEPT ![b] = @ \cup {alloc[b].number}]
          /\ alloc' = [alloc EXCEPT ![b].pc = "building"]
  /\ UNCHANGED <<logs, before, reruns>>

(* The command is run again for the same build: by a later step, or since  *)
(* it failed or was killed on the way.  Nothing local survives.            *)
Rerun(b) ==
  /\ reruns < MaxReruns
  /\ alloc[b].pc \in {"readLogs", "get", "create", "building", "failed"}
  /\ alloc' = [alloc EXCEPT ![b] = [pc |-> "list", number |-> 0, from |-> Nil]]
  /\ reruns' = reruns + 1
  /\ UNCHANGED <<store, logs, issued, before>>

(* The pipeline ends without a build number.                               *)
GiveUp(b) ==
  /\ alloc[b].pc = "failed"
  /\ alloc' = [alloc EXCEPT ![b].pc = "finished"]
  /\ UNCHANGED <<store, logs, issued, before, reruns>>

(* The pipeline terminates (external): its activity is completed and its   *)
(* logs are persisted under its build number.                              *)
Finish(b) ==
  /\ alloc[b].pc = "building"
  /\ alloc' = [alloc EXCEPT ![b].pc = "finished"]
  /\ store' = [store EXCEPT ![Chosen(b)].status = "terminated"]
  /\ logs' = logs \cup {<<BranchOf[b], alloc[b].number>>}
  /\ UNCHANGED <<issued, before, reruns>>

FindBuildNumber(b) ==
  \/ ListActivities(b)
  \/ ReadLogs(b)
  \/ GetActivity(b)
  \/ CreateActivity(b)

Next == \E b \in Builds : \/ Trigger(b)
                          \/ FindBuildNumber(b)
                          \/ Rerun(b)
                          \/ GiveUp(b)
                          \/ Finish(b)

Spec == Init /\ [][Next]_vars

-----------------------------------------------------------------------------
(* Properties.                                                             *)

(* The state is well formed (the Options and local variables of the        *)
(* command, and the resources it reads and creates).                       *)
TypeOK ==
  /\ store \in [Names -> [status : {"absent", "running", "terminated"}, run : Nat,
                          started : {Nil}, completed : {Nil},
                          branch : Branches \cup {Nil}, buildID : Builds \cup {Nil}]]
  /\ logs \subseteq Names
  /\ alloc \in [Builds -> [pc : {"new", "list", "readLogs", "get", "create", "failed",
                                "building", "finished"},
                          number : 0 .. MaxBuild + 1,
                          from : {Nil, "activities", "logs", "partOfLogs"}]]
  /\ issued \in [Builds -> SUBSET Numbers]
  /\ before \in [Builds -> SUBSET Builds]
  /\ reruns \in 0 .. MaxReruns

(* What the callers of FindBuildNumber count on: every build of a branch   *)
(* gets one number, greater than the numbers given out before, whenever    *)
(* and however often the command runs for it.                              *)
Sequence == INSTANCE BuildSequence

ImplementsBuildSequence == Sequence!Spec

(* A branch sees all activities that have its valid name, unless yet       *)
(* another branch has the same one: a-x does not see those of a/x.         *)
SeesAll(br) == \A o \in Branches : ValidName[o] = ValidName[br] => o \in {br, ValidName[br]}

(* However many builds of a branch choose their number at the same time:   *)
(* one that is triggered after another finished gets a greater number,     *)
(* unless the activities of the branch can be taken by another branch      *)
(* whose name turns into the same one.                                     *)
LaterBuildGreaterNumber ==
  \A b \in Builds : \A a \in before[b] :
    BranchOf[a] = BranchOf[b] /\ SeesAll(BranchOf[b]) => \A m \in issued[a], n \in issued[b] : m < n

(* "lets lazy create a new PipelineActivity for this new build number":    *)
(* two builds of a branch are never given the same number.                 *)
NumberIsNew ==
  \A a, b \in Builds : a # b /\ BranchOf[a] = BranchOf[b] => issued[a] \cap issued[b] = {}

=============================================================================
