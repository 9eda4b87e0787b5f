--------------------------- MODULE GitMerge_proofs ---------------------------
(* Theorems about GitMerge, for any pull requests, filters and bounds: a    *)
(* command that succeeds without filters merged exactly what was triggered, *)
(* and with filters all that they accept of it, whatever was pushed, was    *)
(* not fetched, or failed before.                                           *)
EXTENDS GitMerge, FiniteSetTheorems, FunctionTheorems, SequenceTheorems, TLAPS

(* What is merged once the commits s are.                                  *)
Merged(s) == UNION {Reach(c) : c \in Range(s)}

(* What the branch has to be in the end.                                   *)
Target == ws.cloned \cup Merged(refs.heads)

(* Commits that exist, of pull requests.                                   *)
Heads == {c \in Commits : c[1] \in PullRequests /\ c[2] <= length[c[1]]}

(* The types of the model.                                                 *)
Types ==
  /\ length \in [{Base} \cup PullRequests -> 0 .. MaxCommits]
  /\ fork \in [PullRequests -> 0 .. MaxCommits]
  /\ refs = [base |-> refs.base, heads |-> refs.heads, filtering |-> refs.filtering]
  /\ ws = [pc |-> ws.pc, branch |-> ws.branch, cloned |-> ws.cloned, objects |-> ws.objects,
           todo |-> ws.todo, reruns |-> ws.reruns]
  /\ refs.heads \in Seq(Heads)

(* There is a workspace only after the trigger.                            *)
Order == refs.base = None \/ ws.pc = "none" => ws.branch = {} /\ ws.cloned = {} /\ ws.pc = "none"

(* Without filters, the branch is between the clone and the target, and    *)
(* what it lacks of the target is still to be merged.                      *)
Progress ==
  ~ refs.filtering =>
    /\ ws.cloned \subseteq ws.branch /\ ws.branch \subseteq Target
    /\ ws.pc \in {"fetch", "merge"} =>
         /\ ws.todo \in Seq(Heads) /\ Range(ws.todo) \subseteq Range(refs.heads)
         /\ Target \subseteq ws.branch \cup Merged(ws.todo)
    /\ ws.pc = "done" => ws.branch = Target

Inv == Types /\ Order /\ Progress

-----------------------------------------------------------------------------
(* What a sequence has is its head and what its tail has.                  *)
LEMMA RangeHeadTail ==
  ASSUME NEW S, NEW s \in Seq(S), s # <<>>
  PROVE  Tail(s) \in Seq(S) /\ Head(s) \in S /\ Range(s) = {Head(s)} \cup Range(Tail(s))
  <1>1. /\ Head(s) \in S /\ Tail(s) \in Seq(S) /\ Len(Tail(s)) = Len(s) - 1
        /\ \A i \in 1 .. Len(Tail(s)) : Tail(s)[i] = s[i + 1]
    BY HeadTailProperties
  <1>2. Len(s) \in Nat \ {0} /\ Head(s) = s[1]
    BY EmptySeq, LenProperties
  <1>3. \A i \in 1 .. Len(s) : i = 1 \/ (i - 1 \in 1 .. Len(Tail(s)) /\ s[i] = Tail(s)[i - 1])
    BY <1>1, <1>2
  <1>4. DOMAIN s = 1 .. Len(s) /\ DOMAIN Tail(s) = 1 .. Len(Tail(s))
    BY <1>1, LenProperties
  <1>5. Range(s) \subseteq {Head(s)} \cup Range(Tail(s))
    <2> SUFFICES ASSUME NEW i \in 1 .. Len(s) PROVE s[i] \in {Head(s)} \cup Range(Tail(s))
      BY <1>4 DEF Range
    <2>1. CASE i = 1
      BY <1>2, <2>1
    <2>2. CASE i - 1 \in 1 .. Len(Tail(s)) /\ s[i] = Tail(s)[i - 1]
      BY <1>4, <2>2 DEF Range
    <2> QED BY <1>3, <2>1, <2>2
  <1>6. Range(Tail(s)) \subseteq Range(s)
    <2>1. \A i \in 1 .. Len(Tail(s)) : i + 1 \in 1 .. Len(s)
      BY <1>1, <1>2
    <2> QED BY <1>1, <1>4, <2>1 DEF Range
  <1>7. Head(s) \in Range(s)
    BY <1>2, <1>4 DEF Range
  <1> QED BY <1>1, <1>5, <1>6, <1>7

(* The elements of a sequence are in the set it is made of.                *)
LEMMA RangeIn ==
  ASSUME NEW S, NEW s \in Seq(S)
  PROVE  Range(s) \subseteq S
  BY LenProperties, ElementOfSeq DEF Range

(* The orders of a batch are sequences.                                    *)
LEMMA OrdersAreSequences ==
  ASSUME NEW B, IsFiniteSet(B), NEW order \in SetToSeqs(B)
  PROVE  order \in Seq(B)
  <1>1. Cardinality(B) \in Nat
    BY FS_CardinalityType
  <1>2. order \in [1 .. Cardinality(B) -> B]
    BY DEF SetToSeqs
  <1> QED BY <1>1, <1>2

-----------------------------------------------------------------------------
(* At first nothing is triggered.                                          *)
LEMMA InitInv == Init => Inv
  <1> SUFFICES ASSUME Init PROVE Inv
    OBVIOUS
  <1>1. <<>> \in Seq(Heads)
    BY EmptySeq
  <1>2. Types
    BY <1>1, GitMergeAssumption DEF Init, Types, NoWorkspace
  <1>3. Order
    BY DEF Init, Order, NoWorkspace
  <1>4. Progress
    BY DEF Init, Progress, NoWorkspace
  <1> QED BY <1>2, <1>3, <1>4 DEF Inv

(* Pushing changes nothing of what can be reached from commits that exist. *)
LEMMA PushReach ==
  ASSUME Types, NEW b \in {Base} \cup PullRequests, Push(b), NEW c \in Heads
  PROVE  Reach(c)' = Reach(c)
  <1>1. c[1] \in PullRequests /\ c[1] # Base /\ c[2] \in 1 .. MaxCommits /\ c[2] <= length[c[1]]
    BY GitMergeAssumption DEF Heads, Commits
  <1>2. length[c[1]] # 0
    BY <1>1, GitMergeAssumption DEF Types
  <1>3. fork'[c[1]] = fork[c[1]]
    BY <1>1, <1>2 DEF Push, Types
  <1>4. Commits' = Commits
    BY DEF Commits
  <1> QED BY <1>1, <1>3, <1>4 DEF Reach

(* Commits that exist stay.                                                *)
LEMMA PushHeads ==
  ASSUME Types, NEW b \in {Base} \cup PullRequests, Push(b)
  PROVE  Heads \subseteq Heads'
  <1>1. \A x \in {Base} \cup PullRequests : length[x] \in Int /\ length[x] <= length'[x]
    BY GitMergeAssumption DEF Push, Types
  <1>2. ASSUME NEW c \in Heads PROVE c \in Heads'
    <2>1. c \in Commits /\ c[1] \in PullRequests /\ c[2] \in Int /\ c[2] <= length[c[1]]
      BY GitMergeAssumption DEF Heads, Commits
    <2>2. length'[c[1]] \in Int
      BY <2>1, GitMergeAssumption DEF Push, Types
    <2>3. c[2] <= length'[c[1]]
      BY <1>1, <2>1, <2>2
    <2> QED BY <2>1, <2>3 DEF Heads, Commits
  <1> QED BY <1>2

(* Pushing leaves the command alone.                                       *)
LEMMA PushInv ==
  ASSUME Inv, NEW b \in {Base} \cup PullRequests, Push(b)
  PROVE  Inv'
  <1> USE DEF Inv
  <1>1. refs' = refs /\ ws' = ws
    BY DEF Push
  <1>2. Heads \subseteq Heads'
    BY PushHeads
  <1>3. refs'.heads \in Seq(Heads')
    BY <1>1, <1>2, SeqMonotonic DEF Types
  <1>4. Types'
    <2>1. length' \in [{Base} \cup PullRequests -> 0 .. MaxCommits]
      BY GitMergeAssumption DEF Push, Types
    <2>2. fork' \in [PullRequests -> 0 .. MaxCommits]
      BY GitMergeAssumption DEF Push, Types
    <2> QED BY <1>1, <1>3, <2>1, <2>2 DEF Types
  <1>5. Order'
    BY <1>1 DEF Order
  <1>6. ASSUME NEW s \in Seq(Heads) PROVE Merged(s)' = Merged(s)
    BY RangeIn, PushReach DEF Merged
  <1>7. Target' = Target
    BY <1>1, <1>6 DEF Types, Target, Merged
  <1>8. Progress'
    <2>1. ASSUME ws.todo \in Seq(Heads)
          PROVE  ws'.todo \in Seq(Heads') /\ Merged(ws.todo)' = Merged(ws.todo)
      BY <1>1, <1>2, <1>6, <2>1, SeqMonotonic DEF Merged
    <2> QED BY <1>1, <1>7, <2>1 DEF Progress
  <1> QED BY <1>4, <1>5, <1>8

(* A trigger is for commits that exist.                                    *)
LEMMA TriggerInv == Inv /\ Trigger => Inv'
  <1> SUFFICES ASSUME Inv, Trigger PROVE Inv'
    OBVIOUS
  <1> USE DEF Inv
  <1>1. length' = length /\ fork' = fork /\ ws' = ws /\ refs.base = None
    BY DEF Trigger
  <1>2. PICK batch \in SUBSET {p \in PullRequests : length[p] > 0} :
          \E order \in SetToSeqs(batch), filtering \in {FALSE, Cardinality(batch) = 1} :
            refs' = [base |-> Remote(Base), heads |-> [i \in DOMAIN order |-> Remote(order[i])],
                     filtering |-> filtering]
    BY DEF Trigger
  <1>3. PICK order \in SetToSeqs(batch), filtering \in {FALSE, Cardinality(batch) = 1} :
          refs' = [base |-> Remote(Base), heads |-> [i \in DOMAIN order |-> Remote(order[i])],
                   filtering |-> filtering]
    BY <1>2
  <1>4. order \in Seq(batch)
    <2>1. batch \subseteq PullRequests
      BY <1>2
    <2>2. IsFiniteSet(batch)
      BY <2>1, FS_Subset, GitMergeAssumption
    <2> QED BY <2>2, <1>3, OrdersAreSequences
  <1>5. \A p \in batch : Remote(p) \in Heads
    <2>1. \A p \in batch : p \in PullRequests /\ length[p] \in 1 .. MaxCommits
      BY <1>2, GitMergeAssumption DEF Types
    <2> QED BY <2>1, GitMergeAssumption DEF Remote, Heads, Commits
  <1>6. refs'.heads \in Seq(Heads)
    <2>1. Len(order) \in Nat /\ DOMAIN order = 1 .. Len(order) /\ order \in [1 .. Len(order) -> batch]
      BY <1>4, LenProperties
    <2>2. refs'.heads \in [1 .. Len(order) -> Heads]
      BY <1>3, <1>5, <2>1
    <2> QED BY <2>1, <2>2
  <1>7. Heads' = Heads
    BY <1>1 DEF Heads, Commits
  <1>8. Types'
    BY <1>1, <1>3, <1>6, <1>7 DEF Types
  <1>9. ws'.branch = {} /\ ws'.cloned = {} /\ ws'.pc = "none"
    BY <1>1 DEF Order
  <1>10. Order' /\ Progress'
    BY <1>9 DEF Order, Progress
  <1> QED BY <1>8, <1>10

(* What the steps of the pipeline leave alone.                             *)
LEMMA Unchanged ==
  ASSUME UNCHANGED <<length, fork, refs>>
  PROVE  Heads' = Heads /\ \A s : Merged(s)' = Merged(s)
  <1>1. Heads' = Heads
    BY DEF Heads, Commits
  <1>2. ASSUME NEW c PROVE Reach(c)' = Reach(c)
    BY DEF Reach, Commits
  <1> QED BY <1>1, <1>2 DEF Merged

(* The clone is where the branch begins.                                   *)
LEMMA CloneInv == Inv /\ Clone => Inv'
  <1> SUFFICES ASSUME Inv, Clone PROVE Inv'
    OBVIOUS
  <1> USE DEF Inv
  <1>1. UNCHANGED <<length, fork, refs>> /\ refs.base # None
    BY DEF Clone
  <1>2. Types'
    BY <1>1, Unchanged DEF Types, Clone
  <1>3. /\ ws'.pc = "start" /\ ws'.branch = Reach(Remote(Base)) /\ ws'.cloned = Reach(Remote(Base))
    BY DEF Clone, Types
  <1>4. Order' /\ Progress'
    BY <1>1, <1>3 DEF Order, Progress, Target
  <1> QED BY <1>2, <1>4

(* The commits to merge are those of the trigger, or the filters choose.   *)
LEMMA ChooseInv == Inv /\ (UseRefs \/ FindCommitsToMerge) => Inv'
  <1> SUFFICES ASSUME Inv, UseRefs \/ FindCommitsToMerge PROVE Inv'
    OBVIOUS
  <1> USE DEF Inv
  <1>1. UNCHANGED <<length, fork, refs>> /\ ws.pc = "start" /\ refs.base # None
    BY DEF UseRefs, FindCommitsToMerge, Order
  <1>2. /\ ws' = [pc |-> ws'.pc, branch |-> ws'.branch, cloned |-> ws'.cloned, objects |-> ws'.objects,
                  todo |-> ws'.todo, reruns |-> ws'.reruns]
        /\ ws'.pc \in {"fetch", "failed"} /\ ws'.branch = ws.branch /\ ws'.cloned = ws.cloned
    <2>1. CASE UseRefs
      BY <2>1 DEF UseRefs, Types
    <2>2. CASE FindCommitsToMerge
      BY <2>2 DEF FindCommitsToMerge, Types
    <2> QED BY <2>1, <2>2
  <1>3. Types'
    BY <1>1, <1>2, Unchanged DEF Types
  <1>4. Order'
    BY <1>1, <1>2 DEF Order
  <1>5. Progress'
    <2> SUFFICES ASSUME ~ refs.filtering PROVE Progress'
      BY <1>1 DEF Progress
    <2>1. ws'.todo = refs.heads
      BY DEF UseRefs, FindCommitsToMerge, Types
    <2>2. Target' = Target /\ Merged(ws.todo)' = Merged(refs.heads)
      BY <1>1, <1>2, <2>1, Unchanged DEF Target, Merged
    <2> QED BY <1>1, <1>2, <2>1, <2>2, Unchanged DEF Progress, Target, Types
  <1> QED BY <1>3, <1>4, <1>5

(* Fetching and running the step again leave the branch alone.             *)
LEMMA FetchInv == Inv /\ (Fetch \/ Rerun) => Inv'
  <1> SUFFICES ASSUME Inv, Fetch \/ Rerun PROVE Inv'
    OBVIOUS
  <1> USE DEF Inv
  <1>1. UNCHANGED <<length, fork, refs>> /\ refs.base # None
    BY DEF Fetch, Rerun, Order
  <1>2. /\ ws' = [pc |-> ws'.pc, branch |-> ws'.branch, cloned |-> ws'.cloned, objects |-> ws'.objects,
                  todo |-> ws'.todo, reruns |-> ws'.reruns]
        /\ ws'.branch = ws.branch /\ ws'.cloned = ws.cloned /\ ws'.todo = ws.todo
        /\ ws'.pc = "start" \/ (ws'.pc = "merge" /\ ws.pc = "fetch")
    <2>1. CASE Fetch
      BY <2>1 DEF Fetch, Types
    <2>2. CASE Rerun
      BY <2>2 DEF Rerun, Types
    <2> QED BY <2>1, <2>2
  <1>3. Types'
    BY <1>1, <1>2, Unchanged DEF Types
  <1>4. Order'
    BY <1>1, <1>2 DEF Order
  <1>5. Target' = Target /\ Merged(ws.todo)' = Merged(ws.todo)
    BY <1>1, <1>2, Unchanged DEF Target, Merged
  <1>6. Progress'
    BY <1>1, <1>2, <1>5, Unchanged DEF Progress
  <1> QED BY <1>3, <1>4, <1>6

(* A commit that is merged is one of the target, and no longer lacks.      *)
LEMMA MergeInv == Inv /\ Merge => Inv'
  <1> SUFFICES ASSUME Inv, Merge PROVE Inv'
    OBVIOUS
  <1> USE DEF Inv
  <1>1. UNCHANGED <<length, fork, refs>> /\ refs.base # None /\ ws.pc = "merge"
    BY DEF Merge, Order
  <1>2. /\ ws' = [pc |-> ws'.pc, branch |-> ws'.branch, cloned |-> ws'.cloned, objects |-> ws'.objects,
                  todo |-> ws'.todo, reruns |-> ws'.reruns]
        /\ ws'.cloned = ws.cloned
        /\ \/ ws'.pc = "done" /\ ws.todo = <<>> /\ ws'.branch = ws.branch
           \/ /\ ws'.pc = "merge" /\ ws.todo # <<>>
              /\ ws'.branch = ws.branch \cup Reach(Head(ws.todo)) /\ ws'.todo = Tail(ws.todo)
           \/ ws'.pc \in {"failed", "conflict"} /\ ws'.branch = ws.branch
    BY DEF Merge, Types
  <1>3. Types'
    BY <1>1, <1>2, Unchanged DEF Types
  <1>4. Order'
    BY <1>1, <1>2 DEF Order
  <1>5. Target' = Target
    BY <1>1, <1>2, Unchanged DEF Target, Merged
  <1>6. Progress'
    <2> SUFFICES ASSUME ~ refs.filtering PROVE Progress'
      BY <1>1 DEF Progress
    <2>1. /\ ws.cloned \subseteq ws.branch /\ ws.branch \subseteq Target
          /\ ws.todo \in Seq(Heads) /\ Range(ws.todo) \subseteq Range(refs.heads)
          /\ Target \subseteq ws.branch \cup Merged(ws.todo)
      BY <1>1 DEF Progress
    <2>2. CASE ws'.pc = "done"
      <3>1. Merged(<<>>) = {}
        BY DEF Merged, Range
      <3> QED BY <1>1, <1>2, <1>5, <2>1, <2>2, <3>1 DEF Progress
    <2>3. CASE ws'.pc = "merge"
      <3>1. /\ Tail(ws.todo) \in Seq(Heads)
            /\ Range(ws.todo) = {Head(ws.todo)} \cup Range(Tail(ws.todo))
        BY <1>2, <2>1, <2>3, RangeHeadTail
      <3>2. Merged(ws.todo) = Reach(Head(ws.todo)) \cup Merged(Tail(ws.todo))
        BY <3>1 DEF Merged
      <3>3. Reach(Head(ws.todo)) \subseteq Target
        BY <2>1, <3>1 DEF Target, Merged
      <3>4. Merged(ws.todo)' = Merged(Tail(ws.todo))
        BY <1>1, <1>2, <2>3, Unchanged DEF Merged
      <3> QED BY <1>1, <1>2, <1>5, <2>1, <2>3, <3>1, <3>2, <3>3, <3>4, Unchanged DEF Progress
    <2>4. CASE ws'.pc \in {"failed", "conflict"}
      BY <1>1, <1>2, <1>5, <2>1, <2>4 DEF Progress
    <2> QED BY <1>2, <2>2, <2>3, <2>4
  <1> QED BY <1>3, <1>4, <1>6

-----------------------------------------------------------------------------
(* Every step keeps the invariant.                                         *)
LEMMA NextInv == Inv /\ [Next]_vars => Inv'
  <1> SUFFICES ASSUME Inv, [Next]_vars PROVE Inv'
    OBVIOUS
  <1>1. ASSUME NEW b \in {Base} \cup PullRequests, Push(b) PROVE Inv'
    BY <1>1, PushInv
  <1>2. CASE Trigger
    BY <1>2, TriggerInv
  <1>3. CASE Clone
    BY <1>3, CloneInv
  <1>4. CASE UseRefs \/ FindCommitsToMerge
    BY <1>4, ChooseInv
  <1>5. CASE Fetch \/ Rerun
    BY <1>5, FetchInv
  <1>6. CASE Merge
    BY <1>6, MergeInv
  <1>7. CASE UNCHANGED vars
    <2>1. UNCHANGED <<length, fork, refs>> /\ ws' = ws
      BY <1>7 DEF vars
    <2>2. Target' = Target /\ Merged(ws.todo)' = Merged(ws.todo)
      BY <2>1, Unchanged DEF Target, Merged
    <2> QED BY <2>1, <2>2, Unchanged DEF Inv, Types, Order, Progress
  <1> QED BY <1>1, <1>2, <1>3, <1>4, <1>5, <1>6, <1>7 DEF Next

(* Always: the workspace is well formed, and what the branch lacks of the  *)
(* triggered commits (pkg/cmd/git/merge/merge_shas.go) is still to merge.  *)
THEOREM Invariance == Spec => []Inv
  <1> QED BY InitInv, NextInv, PTL DEF Spec

(* Without filters, the command succeeds only with a branch that has what  *)
(* was cloned and what was triggered, and no more (pkg/cmd/git/merge).     *)
THEOREM MergesExactlyTriggered == Spec => []ExactlyTriggered
  <1>1. Inv => ExactlyTriggered
    BY DEF Inv, Progress, Target, Merged, ExactlyTriggered
  <1> QED BY <1>1, Invariance, PTL

-----------------------------------------------------------------------------
(* With filters.                                                           *)

(* What the filters accept of the pull request as it was triggered.        *)
Accepted == {c \in Reach(refs.heads[1]) : c[1] # Base /\ c[2] \notin Filtered}

(* A pipeline is triggered for something; and what is accepted is merged   *)
(* or still to be merged.                                                  *)
Filtering ==
  /\ refs.base # None => refs.heads # <<>>
  /\ refs.filtering =>
       /\ ws.pc \in {"fetch", "merge"} =>
            ws.todo \in Seq(Commits) /\ Accepted \subseteq ws.branch \cup Range(ws.todo)
       /\ ws.pc = "done" => Accepted \subseteq ws.branch

LEMMA CommitsFinite == IsFiniteSet(Commits)
  <1>1. IsFiniteSet({Base} \cup PullRequests)
    <2>1. IsFiniteSet(PullRequests \cup {Base})
      BY GitMergeAssumption, FS_AddElement
    <2>2. PullRequests \cup {Base} = {Base} \cup PullRequests
      OBVIOUS
    <2> QED BY <2>1, <2>2, Zenon
  <1>2. IsFiniteSet(1 .. MaxCommits)
    BY GitMergeAssumption, FS_Interval
  <1> QED BY <1>1, <1>2, FS_Product DEF Commits

(* An order of a finite set is a sequence of all of it.                    *)
LEMMA OrderOfAll ==
  ASSUME NEW S, IsFiniteSet(S), NEW s \in OldestFirst(S)
  PROVE  s \in Seq(S) /\ Range(s) = S
  <1>1. s \in SetToSeqs(S) /\ Cardinality(S) \in Nat
    BY FS_CardinalityType DEF OldestFirst
  <1>2. s \in Seq(S)
    BY <1>1, OrdersAreSequences
  <1> DEFINE D == 1 .. Cardinality(S)
  <1>3. s \in [D -> S] /\ \A i, j \in D : s[i] = s[j] => i = j
    BY <1>1 DEF SetToSeqs
  <1>4. Cardinality(D) = Cardinality(S)
    BY <1>1, FS_Interval
  <1>5. s \in Injection(D, S)
    BY <1>3, Fun_IsInj
  <1>6. s \in Surjection(D, S)
    BY <1>4, <1>5, FS_Injection
  <1>7. \A x \in S : \E i \in D : s[i] = x
    BY <1>6 DEF Surjection
  <1> QED BY <1>2, <1>3, <1>7 DEF Range

(* The first commit of the trigger.                                        *)
LEMMA FirstHead ==
  ASSUME Inv, Filtering, refs.base # None
  PROVE  refs.heads[1] \in Heads
  BY EmptySeq, LenProperties, ElementOfSeq DEF Inv, Types, Filtering

LEMMA InitFiltering == Init => Filtering
  BY DEF Init, Filtering, NoWorkspace

(* Commits that are pushed later take nothing away.                        *)
LEMMA PushFiltering ==
  ASSUME Inv, Filtering, NEW b \in {Base} \cup PullRequests, Push(b)
  PROVE  Filtering'
  <1>1. refs' = refs /\ ws' = ws /\ Commits' = Commits
    BY DEF Push, Commits
  <1>2. refs.base # None => Accepted' = Accepted
    <2>1. refs.base # None => Reach(refs.heads[1])' = Reach(refs.heads[1])
      BY <1>1, FirstHead, PushReach DEF Inv
    <2> QED BY <1>1, <2>1 DEF Accepted
  <1>3. CASE refs.base = None
    <2>1. ws.pc = "none"
      BY <1>3 DEF Inv, Order
    <2> QED BY <1>1, <1>3, <2>1 DEF Filtering
  <1>4. CASE refs.base # None
    BY <1>1, <1>2, <1>4 DEF Filtering
  <1> QED BY <1>3, <1>4

LEMMA TriggerFiltering == Inv /\ Filtering /\ Trigger => Filtering'
  <1> SUFFICES ASSUME Inv, Filtering, Trigger PROVE Filtering'
    OBVIOUS
  <1>1. ws'.pc = "none"
    BY DEF Trigger, Inv, Order
  <1>2. PICK batch \in SUBSET {p \in PullRequests : length[p] > 0} :
          /\ batch # {}
          /\ \E order \in SetToSeqs(batch) : refs'.heads = [i \in DOMAIN order |-> Remote(order[i])]
    BY DEF Trigger
  <1>3. PICK order \in SetToSeqs(batch) : refs'.heads = [i \in DOMAIN order |-> Remote(order[i])]
    BY <1>2
  <1>4. IsFiniteSet(batch) /\ Cardinality(batch) \in Nat /\ Cardinality(batch) # 0
    <2>1. batch \subseteq PullRequests
      BY <1>2
    <2>2. IsFiniteSet(batch)
      BY <2>1, FS_Subset, GitMergeAssumption
    <2> QED BY <1>2, <2>2, FS_EmptySet, FS_CardinalityType
  <1>5. DOMAIN order = 1 .. Cardinality(batch)
    BY <1>3 DEF SetToSeqs
  <1>6. 1 \in DOMAIN refs'.heads
    BY <1>3, <1>4, <1>5
  <1>7. refs'.heads # <<>>
    BY <1>6
  <1> QED BY <1>1, <1>7 DEF Filtering

(* What the pull request has now includes what it had when triggered.      *)
LEMMA FindFiltering == Inv /\ Filtering /\ FindCommitsToMerge => Filtering'
  <1> SUFFICES ASSUME Inv, Filtering, FindCommitsToMerge PROVE Filtering'
    OBVIOUS
  <1>1. UNCHANGED <<length, fork, refs>> /\ ws.pc = "start" /\ refs.base # None
    BY DEF FindCommitsToMerge, Inv, Order
  <1>2. Accepted' = Accepted /\ Commits' = Commits
    BY <1>1 DEF Accepted, Reach, Commits
  <1> DEFINE head == Remote(refs.heads[1][1])
             accepted == {c \in Reach(head) \ ws.branch : c[2] \notin Filtered}
  <1>3. CASE ws' = [ws EXCEPT !.pc = "failed"]
    <2>1. ws'.pc = "failed"
      BY <1>3 DEF Inv, Types
    <2> QED BY <1>1, <2>1 DEF Filtering
  <1>4. CASE \E todo \in OldestFirst(accepted) :
               ws' = [ws EXCEPT !.pc = "fetch", !.todo = todo, !.objects = @ \cup Reach(head)]
    <2>1. PICK todo \in OldestFirst(accepted) :
            ws' = [ws EXCEPT !.pc = "fetch", !.todo = todo, !.objects = @ \cup Reach(head)]
      BY <1>4
    <2>2. ws'.pc = "fetch" /\ ws'.todo = todo /\ ws'.branch = ws.branch
      BY <2>1 DEF Inv, Types
    <2>3. accepted \subseteq Commits
      BY DEF Reach
    <2>4. todo \in Seq(accepted) /\ Range(todo) = accepted
      <3>1. IsFiniteSet(accepted)
        BY <2>3, CommitsFinite, FS_Subset
      <3> HIDE DEF accepted
      <3> QED BY <2>1, <3>1, OrderOfAll
    <2>5. todo \in Seq(Commits)
      BY <2>3, <2>4, SeqMonotonic
    <2>6. Accepted \subseteq ws.branch \cup accepted
      <3> SUFFICES ASSUME NEW c \in Accepted PROVE c \in Reach(head) /\ c[2] \notin Filtered
        OBVIOUS
      <3>1. refs.heads[1] \in Heads
        BY <1>1, FirstHead
      <3>2. /\ c \in Commits /\ c[1] = refs.heads[1][1] /\ c[2] <= refs.heads[1][2] /\ c[2] \notin Filtered
        BY DEF Accepted, Reach
      <3>3. refs.heads[1][2] <= length[refs.heads[1][1]] /\ refs.heads[1][1] \in PullRequests
        BY <3>1 DEF Heads
      <3>4. c[2] \in Int /\ refs.heads[1][2] \in Int /\ length[refs.heads[1][1]] \in Int
        BY <3>1, <3>2, <3>3, GitMergeAssumption DEF Heads, Commits, Inv, Types
      <3>5. c[2] <= length[refs.heads[1][1]]
        BY <3>2, <3>3, <3>4
      <3> QED BY <3>2, <3>5 DEF Reach, Remote
    <2> QED BY <1>1, <1>2, <2>2, <2>4, <2>5, <2>6 DEF Filtering
  <1> QED BY <1>3, <1>4 DEF FindCommitsToMerge

LEMMA MergeFiltering == Inv /\ Filtering /\ Merge => Filtering'
  <1> SUFFICES ASSUME Inv, Filtering, Merge PROVE Filtering'
    OBVIOUS
  <1>1. UNCHANGED <<length, fork, refs>> /\ ws.pc = "merge"
    BY DEF Merge
  <1>2. Accepted' = Accepted /\ Commits' = Commits
    BY <1>1 DEF Accepted, Reach, Commits
  <1>3. \/ ws'.pc = "done" /\ ws.todo = <<>> /\ ws'.branch = ws.branch
        \/ /\ ws'.pc = "merge" /\ ws.todo # <<>>
           /\ ws'.branch = ws.branch \cup Reach(Head(ws.todo)) /\ ws'.todo = Tail(ws.todo)
        \/ ws'.pc \in {"failed", "conflict"}
    BY DEF Merge, Inv, Types
  <1>4. CASE ~ refs.filtering
    BY <1>1, <1>4 DEF Filtering
  <1>5. CASE refs.filtering
    <2>1. ws.todo \in Seq(Commits) /\ Accepted \subseteq ws.branch \cup Range(ws.todo)
      BY <1>1, <1>5 DEF Filtering
    <2>2. CASE ws.todo = <<>>
      <3>1. Range(<<>>) = {}
        BY DEF Range
      <3> QED BY <1>1, <1>2, <1>3, <2>1, <2>2, <3>1 DEF Filtering
    <2>3. CASE ws.todo # <<>>
      <3>1. /\ Tail(ws.todo) \in Seq(Commits) /\ Head(ws.todo) \in Commits
            /\ Range(ws.todo) = {Head(ws.todo)} \cup Range(Tail(ws.todo))
        BY <2>1, <2>3, RangeHeadTail
      <3>2. Head(ws.todo) \in Reach(Head(ws.todo))
        BY <3>1, GitMergeAssumption DEF Reach, Commits
      <3> QED BY <1>1, <1>2, <1>3, <2>1, <2>3, <3>1, <3>2 DEF Filtering
    <2> QED BY <2>2, <2>3
  <1> QED BY <1>4, <1>5

LEMMA NextFiltering == Inv /\ Filtering /\ [Next]_vars => Filtering'
  <1> SUFFICES ASSUME Inv, Filtering, [Next]_vars PROVE Filtering'
    OBVIOUS
  <1>1. ASSUME NEW b \in {Base} \cup PullRequests, Push(b) PROVE Filtering'
    BY <1>1, PushFiltering
  <1>2. CASE Trigger \/ FindCommitsToMerge \/ Merge
    BY <1>2, TriggerFiltering, FindFiltering, MergeFiltering
  <1>3. CASE Clone \/ UseRefs \/ Rerun
    <2>1. UNCHANGED refs /\ (ws'.pc = "start" \/ ~ refs.filtering)
      BY <1>3 DEF Clone, UseRefs, Rerun, Inv, Types
    <2> QED BY <2>1 DEF Filtering
  <1>4. CASE Fetch
    <2>1. UNCHANGED <<length, fork, refs>> /\ ws.pc = "fetch"
      BY <1>4 DEF Fetch
    <2>2. ws'.pc = "merge" /\ ws'.branch = ws.branch /\ ws'.todo = ws.todo
      BY <1>4 DEF Fetch, Inv, Types
    <2>3. Accepted' = Accepted /\ Commits' = Commits
      BY <2>1 DEF Accepted, Reach, Commits
    <2> QED BY <2>1, <2>2, <2>3 DEF Filtering
  <1>5. CASE UNCHANGED vars
    <2>1. UNCHANGED <<length, fork, refs, ws>>
      BY <1>5 DEF vars
    <2>2. Accepted' = Accepted /\ Commits' = Commits
      BY <2>1 DEF Accepted, Reach, Commits
    <2> QED BY <2>1, <2>2 DEF Filtering
  <1> QED BY <1>1, <1>2, <1>3, <1>4, <1>5 DEF Next

(* With filters, the command succeeds only with all that they accept of    *)
(* the pull request as it was triggered, whatever was pushed to it since   *)
(* (pkg/cmd/git/merge).                                                    *)
THEOREM MergesAccepted == Spec => []AcceptedMerged
  <1>1. Inv /\ Filtering /\ [Next]_vars => (Inv /\ Filtering)'
    BY NextInv, NextFiltering
  <1>2. Filtering => AcceptedMerged
    BY DEF Filtering, Accepted, AcceptedMerged
  <1> QED BY <1>1, <1>2, InitInv, InitFiltering, PTL DEF Spec


=============================================================================
