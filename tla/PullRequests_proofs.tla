-------------------------- MODULE PullRequests_proofs --------------------------
(***************************************************************************)
(* Theorems about the commands of the pipeline of a pull request, for any  *)
(* pipelines, people, page size and bounds: a pipeline comments once,      *)
(* pushes keep what their workspace has not seen, and all comments are     *)
(* read; and about the variables that are generated, for whatever the      *)
(* command finds: they agree with each other and keep their values.        *)
(***************************************************************************)
EXTENDS MCPullRequests, FiniteSetTheorems, FunctionTheorems, SequenceTheorems, WellFoundedInduction, TLAPS

-----------------------------------------------------------------------------
(* The commands on the pull request.                                       *)

CommandBody == {commands[c].body : c \in {d \in DOMAIN commands : commands[d].kind = "comment"}}
PostedComment ==
  [id : Nat, by : {Bot, "someone"}, body : People \cup CommandBody, from : {None} \cup DOMAIN commands]

IsSequence(s) == \E S : s \in Seq(S)

ThreadTypes ==
  /\ commands \in Pipelines
  /\ ids \in Nat
  /\ comments \in Seq(PostedComment)
  /\ history = [crowded |-> history.crowded, replacing |-> history.replacing] /\ history.crowded \in BOOLEAN

WorkTypes ==
  /\ branches = [pr |-> branches.pr, base |-> branches.base]
  /\ proc = [c \in DOMAIN commands |-> proc[c]]
  /\ env = [c \in DOMAIN commands |-> env[c]] /\ \A c \in DOMAIN commands : IsSequence(env[c])

(* Comments are in the order of their numbers.                             *)
Numbered ==
  /\ \A k \in DOMAIN comments : comments[k].id < ids
  /\ \A j, k \in DOMAIN comments : j < k => comments[j].id < comments[k].id

(* The comment of a pipeline is one that it recognises.                    *)
Authors ==
  \A k \in DOMAIN comments :
    IF comments[k].from = None THEN comments[k].by = "someone"
    ELSE commands[comments[k].from].kind = "comment" /\ C!Own(comments[k].from, comments[k])

Fits == ~ history.crowded => Len(comments) <= PageSize

(* The rest is about a command c in the state r, which is proc[c].         *)
Record(r) ==
  /\ r = [pc |-> r.pc, todo |-> r.todo, read |-> r.read, since |-> r.since,
          page |-> r.page, local |-> r.local, cloned |-> r.cloned, lease |-> r.lease]
  /\ r.todo \subseteq Nat /\ \A i \in r.todo : i < ids
  /\ r.read \in Seq(PostedComment) /\ \A i \in DOMAIN r.read : r.read[i].id < ids
  /\ r.since \subseteq Nat /\ \A i \in r.since : i < ids
  /\ r.page \in Nat \ {0}

(* What a program counter says: which command it is, and what it has seen  *)
(* of the branch that it may overwrite.                                    *)
Place(c, r) ==
  /\ r.pc = "idle" => r.read = <<>> /\ r.page = 1
  /\ r.pc = "label" => commands[c].kind = "label"
  /\ r.pc = "push" => commands[c].kind = "push" /\ \A l \in r.lease : l \subseteq r.cloned
  /\ r.pc \in {"page", "write"} => commands[c].kind = "variables"
  /\ r.pc \in {"delete", "create"} => commands[c].kind = "comment"
  /\ r.pc = "delete" => commands[c].strategy = "delete-and-create" /\ r.todo # {}

(* A pipeline deletes only what is its own, and adds its comment only when *)
(* the ones that it added before are gone.                                 *)
Deleting(c, r) == \A k \in DOMAIN comments : comments[k].id \in r.todo => C!Own(c, comments[k])

Adding(c, r) ==
  ~ history.crowded /\ commands[c].kind = "comment" /\ commands[c].strategy # "create" =>
    \A k \in DOMAIN comments : comments[k].from = c =>
      /\ r.pc # "create"
      /\ r.pc = "delete" => comments[k].id \in r.todo

(* The comment is shown, or one that replaces it is on its way.            *)
ShownOf(c, r) ==
  commands[c].kind = "comment" /\ r.pc = "done" =>
    C!Comments(c) # {} \/ \E d \in C!Posting(c) : d \in history.replacing

(* What a command has read of the comments: it is in order, and before     *)
(* what the next pages have; assignments stay.                             *)
Before(r) == (r.page - 1) * PageSize

Reading(r) ==
  /\ \A k \in DOMAIN comments, i \in r.since : comments[k].id \notin r.since => i < comments[k].id
  /\ \A i, j \in DOMAIN r.read : i < j => r.read[i].id < r.read[j].id
  /\ \A i \in DOMAIN r.read, k \in DOMAIN comments : k > Before(r) => r.read[i].id < comments[k].id
  /\ \A i \in DOMAIN r.read : r.read[i].body[1] \in C!Names => \E k \in DOMAIN comments : comments[k] = r.read[i]

(* Of the comments that were there when it started, it has those of        *)
(* earlier pages, if none of them was deleted.                             *)
Covered(r) ==
  r.since \subseteq C!CommentIds =>
    \A k \in DOMAIN comments : comments[k].id \in r.since =>
      /\ k <= Before(r) => \E i \in DOMAIN r.read : r.read[i] = comments[k]
      /\ r.pc = "write" => k <= Before(r)

Settled(c, r) ==
  /\ Record(r) /\ Place(c, r) /\ Deleting(c, r) /\ Adding(c, r)
  /\ r.pc \in {"page", "write"} => Reading(r) /\ Covered(r)

Thread == ThreadTypes /\ Numbered /\ Authors /\ Fits /\ C!CommentedOnce

CommandInv == Thread /\ WorkTypes /\ \A c \in DOMAIN commands : Settled(c, proc[c]) /\ ShownOf(c, proc[c])


-----------------------------------------------------------------------------
(* A non-empty set of numbers has a least one, and if it is bounded a      *)
(* greatest one.                                                           *)
LEMMA Least ==
  ASSUME NEW S \in SUBSET Nat, S # {}
  PROVE  \E i \in S : \A j \in S : i <= j
<1>1. PICK k \in S : \A l \in S : ~ (<<l, k>> \in OpToRel(<, Nat))
  BY WFMin, NatLessThanWellFounded, Zenon
<1>2. OpToRel(<, Nat) = {ss \in Nat \X Nat : ss[1] < ss[2]}
  BY Zenon DEF OpToRel
<1>3. \A l \in S : ~ (<<l, k>> \in {ss \in Nat \X Nat : ss[1] < ss[2]})
  BY <1>1, <1>2, Zenon
<1>4. ASSUME NEW l \in S PROVE k <= l
  <2>1. l \in Nat /\ k \in Nat
    OBVIOUS
  <2>2. <<l, k>> \in Nat \X Nat /\ <<l, k>>[1] = l /\ <<l, k>>[2] = k
    BY <2>1
  <2>3. ~ (l < k)
    BY <1>3, <2>2, Zenon
  <2>. QED
    BY <2>1, <2>3
<1>. QED
  BY <1>4

(* If it is bounded, it has a greatest one.                                *)
LEMMA Greatest ==
  ASSUME NEW n \in Nat, NEW S \in SUBSET (1 .. n), S # {}
  PROVE  \E i \in S : \A j \in S : j <= i
<1>. DEFINE T == {n - i : i \in S}
<1>1. T \in SUBSET Nat /\ T # {}
  <2>1. \A i \in S : i \in 1 .. n /\ n - i \in Nat
    OBVIOUS
  <2>. QED
    BY <2>1
<1>2. PICK k \in T : \A l \in T : k <= l
  <2>. HIDE DEF T
  <2>. QED
    BY <1>1, Least
<1>3. PICK i \in S : k = n - i
  OBVIOUS
<1>4. ASSUME NEW j \in S PROVE j <= i
  <2>1. n - j \in T
    OBVIOUS
  <2>2. k <= n - j
    BY <1>2, <2>1
  <2>. QED
    BY <1>3, <2>2
<1>. QED
  BY <1>4

(* What the operators of PullRequests on sequences return.                 *)
LEMMA Removed ==
  ASSUME NEW S, NEW s \in Seq(S), NEW k \in DOMAIN s, NEW t, t = C!RemoveAt(s, k)
  PROVE  /\ t \in Seq(S)
         /\ \A i \in DOMAIN t : /\ i < k => i \in DOMAIN s /\ t[i] = s[i]
                                /\ i >= k => i + 1 \in DOMAIN s /\ t[i] = s[i + 1]
         /\ \A i \in DOMAIN s : /\ i < k => i \in DOMAIN t
                                /\ i > k => i - 1 \in DOMAIN t
         /\ Len(t) <= Len(s)
<1>1. t = SubSeq(s, 1, k - 1) \o SubSeq(s, k + 1, Len(s))
  BY Zenon DEF C!RemoveAt
<1>2. Len(s) \in Nat /\ DOMAIN s = 1 .. Len(s) /\ k \in 1 .. Len(s)
  BY LenProperties
<1>. DEFINE a == SubSeq(s, 1, k - 1)
            b == SubSeq(s, k + 1, Len(s))
<1>3. a \in Seq(S) /\ Len(a) = k - 1 /\ \A i \in 1 .. k - 1 : a[i] = s[i]
  BY <1>2, SubSeqProperties
<1>4. b \in Seq(S) /\ Len(b) = Len(s) - k /\ \A i \in 1 .. Len(s) - k : b[i] = s[k + i]
  BY <1>2, SubSeqProperties
<1>. HIDE DEF a, b
<1>5. /\ t \in Seq(S) /\ Len(t) = Len(s) - 1 /\ DOMAIN t = 1 .. Len(s) - 1
      /\ \A i \in 1 .. Len(s) - 1 : t[i] = IF i <= k - 1 THEN a[i] ELSE b[i - (k - 1)]
  <2>1. t = a \o b
    BY <1>1 DEF a, b
  <2>2. /\ t \in Seq(S) /\ Len(t) = Len(a) + Len(b)
        /\ \A i \in 1 .. Len(a) + Len(b) : t[i] = IF i <= Len(a) THEN a[i] ELSE b[i - Len(a)]
    BY <1>3, <1>4, <2>1, ConcatProperties
  <2>3. Len(a) + Len(b) = Len(s) - 1
    BY <1>2, <1>3, <1>4
  <2>. QED
    BY <1>3, <2>2, <2>3, LenProperties
<1>6. ASSUME NEW i \in 1 .. Len(s) - 1 PROVE t[i] = IF i < k THEN s[i] ELSE s[i + 1]
  <2>1. CASE i < k
    BY <1>2, <1>3, <1>5, <2>1
  <2>2. CASE i >= k
    <3>1. i - (k - 1) \in 1 .. Len(s) - k /\ k + (i - (k - 1)) = i + 1 /\ ~ (i <= k - 1) /\ ~ (i < k)
      BY <1>2, <2>2
    <3>2. t[i] = b[i - (k - 1)]
      BY <1>3, <1>5, <3>1
    <3>3. b[i - (k - 1)] = s[k + (i - (k - 1))]
      BY <1>4, <3>1
    <3>. QED
      BY <3>1, <3>2, <3>3
  <2>. QED
    BY <1>2, <2>1, <2>2
<1>7. ASSUME NEW i \in DOMAIN t
      PROVE  /\ i < k => i \in DOMAIN s /\ t[i] = s[i]
             /\ i >= k => i + 1 \in DOMAIN s /\ t[i] = s[i + 1]
  <2>1. i \in 1 .. Len(s) - 1 /\ i \in 1 .. Len(s) /\ i + 1 \in 1 .. Len(s)
    BY <1>2, <1>5
  <2>2. k \in Int /\ i \in Int
    BY <1>2, <2>1
  <2>. QED
    BY <1>2, <1>6, <2>1, <2>2
<1>8. ASSUME NEW i \in DOMAIN s
      PROVE  (i < k => i \in DOMAIN t) /\ (i > k => i - 1 \in DOMAIN t)
  BY <1>2, <1>5
<1>. QED
  BY <1>2, <1>5, <1>7, <1>8

(* PageSize comments are a page.                                           *)
LEMMA Pages ==
  ASSUME NEW n \in Nat \ {0}
  PROVE  /\ (n - 1) * PageSize \in Nat /\ n * PageSize \in Nat
         /\ n * PageSize = (n - 1) * PageSize + PageSize
<1>1. PageSize \in Nat
  BY MCAssumption
<1>2. PICK m \in Nat : m = n - 1
  OBVIOUS
<1>3. m * PageSize \in Nat /\ (m + 1) * PageSize = m * PageSize + PageSize
  BY <1>1
<1>4. n = m + 1
  BY <1>2
<1>. QED
  BY <1>1, <1>2, <1>3, <1>4

(* What a page has of the comments.                                        *)
LEMMA OnPage ==
  ASSUME comments \in Seq(PostedComment), NEW n \in Nat \ {0}, NEW low, low = (n - 1) * PageSize, NEW q, q = C!Page(n)
  PROVE  /\ q \in Seq(PostedComment)
         /\ \A i \in DOMAIN q : low + i \in DOMAIN comments /\ q[i] = comments[low + i]
         /\ \A k \in DOMAIN comments : k > low /\ k <= n * PageSize => k - low \in DOMAIN q
         /\ \A i \in DOMAIN q : i <= PageSize
<1>. DEFINE high == IF n * PageSize < Len(comments) THEN n * PageSize ELSE Len(comments)
<1>1. q = SubSeq(comments, low + 1, high)
  BY Zenon DEF C!Page
<1>2. low \in Nat /\ n * PageSize = low + PageSize /\ PageSize \in Nat
  BY Pages, MCAssumption
<1>3. PICK L \in Nat : L = Len(comments) /\ DOMAIN comments = 1 .. L
  BY LenProperties
<1>4. high \in Nat /\ high <= L /\ high <= low + PageSize /\ (high = L \/ high = low + PageSize)
  BY <1>2, <1>3
<1>. HIDE DEF high
<1>6. CASE high < low + 1
  <2>1. q = << >>
    BY <1>1, <1>2, <1>4, <1>6, SubSeqEmpty
  <2>. QED
    BY <1>2, <1>3, <1>4, <1>6, <2>1
<1>7. CASE high >= low + 1
  <2>1. /\ q \in Seq(PostedComment) /\ Len(q) = high - low
        /\ \A i \in 1 .. high - low : q[i] = comments[low + i]
    <3>1. low + 1 \in 1 .. L + 1 /\ high \in low .. L
      BY <1>2, <1>4, <1>7
    <3>2. \A i \in low + 1 .. high : comments[i] \in PostedComment
      BY <1>2, <1>3, <3>1, ElementOfSeq
    <3>3. high - (low + 1) + 1 = high - low /\ \A i \in 1 .. high - low : low + 1 + i - 1 = low + i
      BY <1>2, <1>4
    <3>. QED
      BY <1>1, <1>2, <1>4, <1>7, <3>2, <3>3, SubSeqProperties
  <2>2. DOMAIN q = 1 .. high - low
    BY <2>1, LenProperties
  <2>3. \A i \in 1 .. high - low : low + i \in 1 .. L /\ i <= PageSize
    BY <1>2, <1>4
  <2>4. \A k \in 1 .. L : k > low /\ k <= low + PageSize => k - low \in 1 .. high - low
    BY <1>2, <1>4
  <2>. QED
    BY <1>2, <1>3, <2>1, <2>2, <2>3, <2>4
<1>. QED
  BY <1>2, <1>4, <1>6, <1>7


-----------------------------------------------------------------------------
(* What is kept when comments are added, are deleted, and stay.            *)

LEMMA PostedNumbers ==
  ASSUME NEW s \in Seq(PostedComment)
  PROVE  \A k \in DOMAIN s : s[k] \in PostedComment /\ s[k].id \in Nat
<1>1. \A k \in DOMAIN s : s[k] \in PostedComment
  BY ElementOfSeq, LenProperties
<1>. QED
  BY <1>1 DEF PostedComment

(* Pages are not empty.                                                    *)
LEMMA SomeOnPage == PageSize \in Nat /\ PageSize > 0
BY MCAssumption

(* People add what they have to say, pipelines the comment of theirs.      *)
Poster(author, body, c) ==
  \/ c = None /\ author = "someone" /\ body \in People
  \/ c \in DOMAIN commands /\ commands[c].kind = "comment" /\ author = Bot /\ body = commands[c].body

(* People are nobody of a pipeline.                                        *)
LEMMA PipelineNames == commands \in Pipelines => None \notin DOMAIN commands
BY MCAssumption

(* A comment that is added is the last one, with a number of its own.      *)
LEMMA AddedComment ==
  ASSUME ThreadTypes, UNCHANGED commands, NEW author, NEW body, NEW f, Poster(author, body, f), C!AddComment(author, body, f),
         NEW n, n = Len(comments)
  PROVE  /\ ThreadTypes' /\ PostedComment' = PostedComment
         /\ n \in Nat /\ DOMAIN comments = 1 .. n /\ DOMAIN comments' = 1 .. n + 1 /\ Len(comments') = n + 1
         /\ \A k \in 1 .. n : comments'[k] = comments[k]
         /\ comments'[n + 1] = [id |-> ids, by |-> author, body |-> body, from |-> f]
         /\ ids' = ids + 1 /\ ids \in Nat
         /\ (~ history'.crowded => ~ history.crowded /\ n + 1 <= PageSize) /\ history'.replacing = history.replacing \ {f}
<1>. DEFINE e == [id |-> ids, by |-> author, body |-> body, from |-> f]
<1>1. e \in PostedComment /\ PostedComment' = PostedComment
  <2>1. author \in {Bot, "someone"} /\ body \in People \cup CommandBody /\ f \in {None} \cup DOMAIN commands
    BY DEF Poster, CommandBody
  <2>. QED
    BY <2>1 DEF PostedComment, ThreadTypes, CommandBody
<1>2. /\ comments' = Append(comments, e) /\ ids' = ids + 1
      /\ history' = [crowded |-> history.crowded \/ Len(comments) >= PageSize, replacing |-> history.replacing \ {f}]
  BY DEF C!AddComment
<1>3. comments \in Seq(PostedComment) /\ ids \in Nat /\ history.crowded \in BOOLEAN /\ commands \in Pipelines
  BY DEF ThreadTypes
<1>. HIDE DEF e
<1>4. n \in Nat /\ DOMAIN comments = 1 .. n
  BY <1>3, LenProperties
<1>5. /\ comments' \in Seq(PostedComment) /\ Len(comments') = n + 1
      /\ \A k \in 1 .. n : comments'[k] = comments[k]
      /\ comments'[n + 1] = e
  BY <1>1, <1>2, <1>3, <1>4, AppendProperties
<1>6. DOMAIN comments' = 1 .. n + 1
  BY <1>5, LenProperties
<1>7. (~ history'.crowded => ~ history.crowded /\ n + 1 <= PageSize) /\ history'.replacing = history.replacing \ {f}
  <2>1. history'.crowded = (history.crowded \/ Len(comments) >= PageSize) /\ history'.replacing = history.replacing \ {f}
    BY <1>2
  <2>2. ~ history'.crowded => ~ history.crowded /\ ~ (Len(comments) >= PageSize)
    BY <2>1, Zenon
  <2>3. ~ (n >= PageSize) => n + 1 <= PageSize
    BY <1>4, SomeOnPage
  <2>. QED
    BY <2>1, <2>2, <2>3
<1>8. ThreadTypes'
  <2>1. ids' \in Nat /\ commands' \in Pipelines
    BY <1>2, <1>3
  <2>2. /\ history' = [crowded |-> history'.crowded, replacing |-> history'.replacing]
        /\ history'.crowded \in BOOLEAN
    BY <1>2
  <2>. QED
    BY <1>1, <1>5, <2>1, <2>2 DEF ThreadTypes
<1>. QED
  BY <1>1, <1>2, <1>3, <1>4, <1>5, <1>6, <1>7, <1>8 DEF e

(* The comments stay as they should be,                                    *)
LEMMA AddedThread ==
  ASSUME Thread, UNCHANGED commands, NEW author, NEW body, NEW f, Poster(author, body, f), C!AddComment(author, body, f),
         f # None /\ commands[f].strategy # "create" /\ ~ history.crowded =>
           \A k \in DOMAIN comments : comments[k].from # f
  PROVE  Thread'
<1>1. ThreadTypes /\ \E n : n = Len(comments)
  BY DEF Thread
<1>2. PICK n :
      /\ n = Len(comments) /\ ThreadTypes' /\ PostedComment' = PostedComment
      /\ n \in Nat /\ DOMAIN comments = 1 .. n /\ DOMAIN comments' = 1 .. n + 1 /\ Len(comments') = n + 1
      /\ \A k \in 1 .. n : comments'[k] = comments[k]
      /\ comments'[n + 1] = [id |-> ids, by |-> author, body |-> body, from |-> f]
      /\ ids' = ids + 1 /\ ids \in Nat
      /\ (~ history'.crowded => ~ history.crowded /\ n + 1 <= PageSize) /\ history'.replacing = history.replacing \ {f}
  BY <1>1, AddedComment
<1>3. PICK e : e = comments'[n + 1] /\ e.id = ids /\ e.by = author /\ e.body = body /\ e.from = f
  BY <1>2
<1>4. \A k \in 1 .. n : comments[k].id \in Nat
  BY <1>2, ElementOfSeq DEF Thread, ThreadTypes, PostedComment
<1>5. Numbered'
  <2>1. \A k \in 1 .. n : comments[k].id < ids
    BY <1>2 DEF Thread, Numbered
  <2>2. \A j, k \in 1 .. n : j < k => comments[j].id < comments[k].id
    BY <1>2 DEF Thread, Numbered
  <2>3. \A k \in 1 .. n + 1 : comments'[k].id < ids'
    BY <1>2, <1>3, <1>4, <2>1
  <2>4. \A j, k \in 1 .. n + 1 : j < k => comments'[j].id < comments'[k].id
    <3>. SUFFICES ASSUME NEW j \in 1 .. n + 1, NEW k \in 1 .. n + 1, j < k PROVE comments'[j].id < comments'[k].id
      OBVIOUS
    <3>1. j \in 1 .. n /\ comments'[j] = comments[j]
      BY <1>2
    <3>2. CASE k \in 1 .. n
      BY <1>2, <2>2, <3>1, <3>2
    <3>3. CASE k = n + 1
      BY <1>3, <2>1, <3>1, <3>3
    <3>. QED
      BY <1>2, <3>2, <3>3
  <2>. QED
    BY <1>2, <2>3, <2>4 DEF Numbered
<1>6. Authors'
  <2>1. \A k \in 1 .. n : IF comments[k].from = None THEN comments[k].by = "someone"
          ELSE commands[comments[k].from].kind = "comment" /\ C!Own(comments[k].from, comments[k])
    BY <1>2 DEF Thread, Authors
  <2>2. IF e.from = None THEN e.by = "someone" ELSE commands[e.from].kind = "comment" /\ C!Own(e.from, e)
    BY <1>3, PipelineNames DEF Poster, C!Own, Thread, ThreadTypes
  <2>. QED
    BY <1>2, <1>3, <2>1, <2>2 DEF Authors, C!Own
<1>7. Fits'
  BY <1>1, <1>2, MCAssumption DEF Thread, Fits
<1>8. C!CommentedOnce'
  <2>. SUFFICES ASSUME ~ history'.crowded, NEW j \in 1 .. n + 1, NEW k \in 1 .. n + 1,
                       comments'[j].from = comments'[k].from, comments'[k].from # None,
                       commands[comments'[k].from].strategy # "create"
                PROVE  j = k
    BY <1>2 DEF C!CommentedOnce
  <2>1. ~ history.crowded
    BY <1>2
  <2>2. CASE j \in 1 .. n /\ k \in 1 .. n
    BY <1>2, <2>1, <2>2 DEF Thread, C!CommentedOnce
  <2>3. j = n + 1 /\ k \in 1 .. n => FALSE
    BY <1>2, <1>3, <2>1
  <2>4. k = n + 1 /\ j \in 1 .. n => FALSE
    BY <1>2, <1>3, <2>1
  <2>. QED
    BY <1>2, <2>2, <2>3, <2>4
<1>. QED
  BY <1>2, <1>5, <1>6, <1>7, <1>8 DEF Thread

(* what is said of each command stays,                                     *)
LEMMA AddedSettled ==
  ASSUME Thread, UNCHANGED commands, NEW author, NEW body, NEW f, Poster(author, body, f), C!AddComment(author, body, f),
         NEW c \in DOMAIN commands, NEW r, Settled(c, r), f = c => r.pc \notin {"create", "delete"}
  PROVE  Settled(c, r)'
<1>1. ThreadTypes /\ \E n : n = Len(comments)
  BY DEF Thread
<1>2. PICK n :
      /\ n = Len(comments) /\ ThreadTypes' /\ PostedComment' = PostedComment
      /\ n \in Nat /\ DOMAIN comments = 1 .. n /\ DOMAIN comments' = 1 .. n + 1 /\ Len(comments') = n + 1
      /\ \A k \in 1 .. n : comments'[k] = comments[k]
      /\ comments'[n + 1] = [id |-> ids, by |-> author, body |-> body, from |-> f]
      /\ ids' = ids + 1 /\ ids \in Nat
      /\ (~ history'.crowded => ~ history.crowded /\ n + 1 <= PageSize) /\ history'.replacing = history.replacing \ {f}
  BY <1>1, AddedComment
<1>3. PICK e : e = comments'[n + 1] /\ e.id = ids /\ e.by = author /\ e.body = body /\ e.from = f
  BY <1>2
<1>4. /\ \A i \in r.todo : i \in Nat /\ i < ids
      /\ \A i \in r.since : i \in Nat /\ i < ids
      /\ \A i \in DOMAIN r.read : r.read[i].id \in Nat /\ r.read[i].id < ids
  <2>1. r.read \in Seq(PostedComment)
    BY DEF Settled, Record
  <2>2. \A i \in DOMAIN r.read : r.read[i] \in PostedComment
    BY <2>1, ElementOfSeq, LenProperties
  <2>. QED
    BY <2>2 DEF Settled, Record, PostedComment
<1>5. Record(r)'
  <2>1. /\ \A i \in r.todo : i < ids'
        /\ \A i \in r.since : i < ids'
        /\ \A i \in DOMAIN r.read : r.read[i].id < ids'
    BY <1>2, <1>4
  <2>. QED
    BY <1>2, <2>1 DEF Settled, Record
<1>6. Place(c, r)'
  BY DEF Settled, Place
<1>7. Deleting(c, r)'
  <2>1. \A k \in 1 .. n : comments[k].id \in r.todo => C!Own(c, comments[k])
    BY <1>2 DEF Settled, Deleting
  <2>2. e.id \notin r.todo
    BY <1>2, <1>3, <1>4
  <2>. QED
    BY <1>2, <1>3, <2>1, <2>2 DEF Deleting, C!Own
<1>8. Adding(c, r)'
  BY <1>2, <1>3 DEF Settled, Adding
<1>9. ASSUME r.pc \in {"page", "write"} PROVE (Reading(r) /\ Covered(r))'
  <2>1. Reading(r) /\ Covered(r)
    BY <1>9 DEF Settled
  <2>2. Before(r)' = Before(r) /\ C!Names' = C!Names /\ (C!CommentIds \subseteq C!CommentIds')
    <3>1. \A x : x \in C!Range(comments) => x \in C!Range(comments')
      BY <1>2 DEF C!Range
    <3>. QED
      BY <3>1 DEF Before, C!Names, C!CommentIds
  <2>3. \A k \in 1 .. n + 1 : k = n + 1 \/ k \in 1 .. n
    BY <1>2
  <2>4. Reading(r)'
    <3>1. ASSUME NEW k \in 1 .. n + 1, NEW i \in r.since, comments'[k].id \notin r.since PROVE i < comments'[k].id
      BY <1>2, <1>3, <1>4, <2>1, <2>3, <3>1 DEF Reading
    <3>2. ASSUME NEW i \in DOMAIN r.read, NEW k \in 1 .. n + 1, k > Before(r) PROVE r.read[i].id < comments'[k].id
      BY <1>2, <1>3, <1>4, <2>1, <2>3, <3>2 DEF Reading
    <3>3. ASSUME NEW i \in DOMAIN r.read, r.read[i].body[1] \in C!Names PROVE \E k \in 1 .. n + 1 : comments'[k] = r.read[i]
      <4>1. PICK k \in 1 .. n : comments[k] = r.read[i]
        BY <1>2, <2>1, <3>3 DEF Reading
      <4>. QED
        BY <1>2, <4>1
    <3>. QED
      BY <1>2, <2>1, <2>2, <3>1, <3>2, <3>3 DEF Reading
  <2>5. Covered(r)'
    <3>. SUFFICES ASSUME r.since \subseteq C!CommentIds', NEW k \in 1 .. n + 1, comments'[k].id \in r.since
                  PROVE  /\ k <= Before(r) => \E i \in DOMAIN r.read : r.read[i] = comments'[k]
                         /\ r.pc = "write" => k <= Before(r)
      BY <1>2, <2>2 DEF Covered
    <3>1. k \in 1 .. n
      BY <1>2, <1>3, <1>4
    <3>2. r.since \subseteq C!CommentIds
      <4>1. \A x : x \in C!Range(comments') => x = e \/ x \in C!Range(comments)
        BY <1>2, <1>3, <2>3 DEF C!Range
      <4>. QED
        BY <1>3, <1>4, <4>1 DEF C!CommentIds
    <3>. QED
      BY <1>2, <2>1, <3>1, <3>2 DEF Covered
  <2>. QED
    BY <2>4, <2>5
<1>. QED
  BY <1>5, <1>6, <1>7, <1>8, <1>9 DEF Settled

(* and so does what is shown, also of the command whose comment it is.     *)
LEMMA AddedShown ==
  ASSUME Thread, UNCHANGED commands, NEW author, NEW body, NEW f, Poster(author, body, f), C!AddComment(author, body, f),
         NEW c \in DOMAIN commands, NEW r, ShownOf(c, r) \/ f = c
  PROVE  ShownOf(c, r)'
<1>1. ThreadTypes /\ \E n : n = Len(comments)
  BY DEF Thread
<1>2. PICK n :
      /\ n = Len(comments) /\ ThreadTypes' /\ PostedComment' = PostedComment
      /\ n \in Nat /\ DOMAIN comments = 1 .. n /\ DOMAIN comments' = 1 .. n + 1 /\ Len(comments') = n + 1
      /\ \A k \in 1 .. n : comments'[k] = comments[k]
      /\ comments'[n + 1] = [id |-> ids, by |-> author, body |-> body, from |-> f]
      /\ ids' = ids + 1 /\ ids \in Nat
      /\ (~ history'.crowded => ~ history.crowded /\ n + 1 <= PageSize) /\ history'.replacing = history.replacing \ {f}
  BY <1>1, AddedComment
<1>. SUFFICES ASSUME commands[c].kind = "comment", r.pc = "done"
              PROVE  (C!Comments(c) # {})' \/ \E d \in C!Posting(c)' : d \in history'.replacing
  BY DEF ShownOf
<1>3. C!Posting(c)' = C!Posting(c)
  BY DEF C!Posting, C!Is
<1>4. ASSUME f \in C!Posting(c) PROVE C!Comments(c)' # {}
  <2>1. f \in DOMAIN commands /\ commands[f].body = commands[c].body
    BY <1>4 DEF C!Posting
  <2>2. n + 1 \in 1 .. n + 1 /\ comments'[n + 1].by = Bot /\ comments'[n + 1].body = commands[c].body
    BY <1>2, <2>1, PipelineNames DEF Poster, Thread, ThreadTypes
  <2>. QED
    BY <1>2, <2>2 DEF C!Comments, C!Own
<1>5. c \in C!Posting(c)
  BY DEF C!Posting, C!Is
<1>6. ASSUME NEW k \in C!Comments(c) PROVE k \in C!Comments(c)'
  <2>1. k \in 1 .. n /\ C!Own(c, comments[k])
    BY <1>2 DEF C!Comments
  <2>. QED
    BY <1>2, <2>1 DEF C!Comments, C!Own
<1>7. CASE f \in C!Posting(c)
  BY <1>4, <1>7
<1>8. CASE f \notin C!Posting(c)
  <2>1. ShownOf(c, r)
    BY <1>5, <1>8
  <2>. QED
    BY <1>2, <1>3, <1>6, <1>8, <2>1 DEF ShownOf
<1>. QED
  BY <1>7, <1>8


(* Pipeline d deletes comment k, which is its own.                         *)
Removes(d, k) ==
  /\ d \in DOMAIN commands /\ commands[d].kind = "comment"
  /\ k \in DOMAIN comments /\ C!Own(d, comments[k]) /\ comments' = C!RemoveAt(comments, k)
  /\ history' = [history EXCEPT !.replacing = @ \cup {d}]
  /\ UNCHANGED <<commands, ids>>

(* Where comment i of the ones that are left was before.                   *)
Was(i, k) == IF i < k THEN i ELSE i + 1

(* A comment that is deleted: the others stay in their order, some of them *)
(* on an earlier place.                                                    *)
LEMMA RemovedComment ==
  ASSUME ThreadTypes, NEW d, NEW k, Removes(d, k)
  PROVE  /\ ThreadTypes' /\ PostedComment' = PostedComment /\ UNCHANGED <<commands, ids>>
         /\ Len(comments') <= Len(comments) /\ Len(comments) \in Nat /\ Len(comments') \in Nat
         /\ DOMAIN comments \subseteq Nat /\ DOMAIN comments' \subseteq Nat
         /\ \A i \in DOMAIN comments' : Was(i, k) \in DOMAIN comments /\ comments'[i] = comments[Was(i, k)]
         /\ \A i \in DOMAIN comments : i # k => \E j \in DOMAIN comments' : j <= i /\ comments'[j] = comments[i] /\ (i < k => j = i)
         /\ history'.crowded = history.crowded /\ history'.replacing = history.replacing \cup {d}
<1>1. /\ comments \in Seq(PostedComment) /\ k \in DOMAIN comments /\ comments' = C!RemoveAt(comments, k)
      /\ commands' = commands /\ ids' = ids /\ history' = [history EXCEPT !.replacing = @ \cup {d}]
      /\ history = [crowded |-> history.crowded, replacing |-> history.replacing] /\ history.crowded \in BOOLEAN
      /\ commands \in Pipelines /\ ids \in Nat
  BY DEF Removes, ThreadTypes
<1>2. PICK t : t = comments'
  OBVIOUS
<1>3. /\ t \in Seq(PostedComment)
      /\ \A i \in DOMAIN t : /\ i < k => i \in DOMAIN comments /\ t[i] = comments[i]
                             /\ i >= k => i + 1 \in DOMAIN comments /\ t[i] = comments[i + 1]
      /\ \A i \in DOMAIN comments : /\ i < k => i \in DOMAIN t
                                    /\ i > k => i - 1 \in DOMAIN t
      /\ Len(t) <= Len(comments)
  BY <1>1, <1>2, Removed
<1>4. /\ Len(t) \in Nat /\ Len(comments) \in Nat /\ DOMAIN t = 1 .. Len(t) /\ DOMAIN comments = 1 .. Len(comments)
  BY <1>1, <1>3, LenProperties
<1>5. PostedComment' = PostedComment
  BY <1>1 DEF PostedComment, CommandBody
<1>6. history' = [crowded |-> history.crowded, replacing |-> history.replacing \cup {d}]
  BY <1>1
<1>7. ThreadTypes'
  BY <1>1, <1>2, <1>3, <1>5, <1>6 DEF ThreadTypes
<1>8. \A i \in DOMAIN t : Was(i, k) \in DOMAIN comments /\ t[i] = comments[Was(i, k)]
  BY <1>1, <1>3, <1>4 DEF Was
<1>9. ASSUME NEW i \in DOMAIN comments, i # k
      PROVE  \E j \in DOMAIN t : j <= i /\ t[j] = comments[i] /\ (i < k => j = i)
  <2>1. CASE i < k
    BY <1>3, <1>4, <2>1
  <2>2. CASE i > k
    <3>1. i - 1 \in DOMAIN t /\ i - 1 >= k /\ (i - 1) + 1 = i /\ i - 1 <= i
      BY <1>1, <1>3, <1>4, <2>2
    <3>. QED
      BY <1>3, <2>2, <3>1
  <2>. QED
    BY <1>1, <1>4, <1>9, <2>1, <2>2
<1>. QED
  BY <1>1, <1>2, <1>3, <1>4, <1>5, <1>6, <1>7, <1>8, <1>9

(* The comments stay as they should be,                                    *)
LEMMA RemovedThread ==
  ASSUME Thread, NEW d, NEW k, Removes(d, k)
  PROVE  Thread'
<1>1. /\ ThreadTypes' /\ UNCHANGED <<commands, ids>>
      /\ Len(comments') <= Len(comments) /\ Len(comments) \in Nat /\ Len(comments') \in Nat
      /\ DOMAIN comments \subseteq Nat /\ DOMAIN comments' \subseteq Nat
      /\ \A i \in DOMAIN comments' : Was(i, k) \in DOMAIN comments /\ comments'[i] = comments[Was(i, k)]
      /\ history'.crowded = history.crowded
  BY RemovedComment DEF Thread
<1>2. \A i, j \in DOMAIN comments' : i < j => Was(i, k) < Was(j, k)
  BY <1>1 DEF Removes, Was
<1>3. \A i, j \in DOMAIN comments' : Was(i, k) = Was(j, k) => i = j
  BY <1>1 DEF Removes, Was
<1>4. Numbered'
  BY <1>1, <1>2 DEF Thread, Numbered
<1>5. Authors'
  BY <1>1 DEF Thread, Authors, C!Own
<1>6. Fits'
  BY <1>1, SomeOnPage DEF Thread, Fits
<1>7. C!CommentedOnce'
  BY <1>1, <1>3 DEF Thread, C!CommentedOnce
<1>. QED
  BY <1>1, <1>4, <1>5, <1>6, <1>7 DEF Thread

(* what is said of each command stays, also of one that reads: what is     *)
(* left is on the same or an earlier place,                                *)
LEMMA RemovedSettled ==
  ASSUME Thread, NEW d, NEW k, Removes(d, k), NEW c \in DOMAIN commands, NEW r, Settled(c, r)
  PROVE  Settled(c, r)'
<1>1. /\ PostedComment' = PostedComment /\ UNCHANGED <<commands, ids>>
      /\ DOMAIN comments \subseteq Nat /\ DOMAIN comments' \subseteq Nat
      /\ \A i \in DOMAIN comments' : Was(i, k) \in DOMAIN comments /\ comments'[i] = comments[Was(i, k)]
      /\ \A i \in DOMAIN comments : i # k => \E j \in DOMAIN comments' : j <= i /\ comments'[j] = comments[i] /\ (i < k => j = i)
      /\ history'.crowded = history.crowded
  BY RemovedComment DEF Thread
<1>2. Record(r)' /\ Place(c, r)'
  BY <1>1 DEF Settled, Record, Place
<1>3. Deleting(c, r)'
  BY <1>1 DEF Settled, Deleting, C!Own
<1>4. Adding(c, r)'
  BY <1>1 DEF Settled, Adding
<1>5. ASSUME r.pc \in {"page", "write"} PROVE (Reading(r) /\ Covered(r))'
  <2>1. Reading(r) /\ Covered(r) /\ r.page \in Nat \ {0}
    BY <1>5 DEF Settled, Record
  <2>2. Before(r)' = Before(r) /\ C!Names' = C!Names /\ Before(r) \in Nat
    BY <2>1, Pages DEF Before, C!Names
  <2>3. \A i \in DOMAIN comments' : i <= Was(i, k) /\ (i < k => Was(i, k) = i) /\ Was(i, k) # k
    BY <1>1 DEF Was, Removes
  <2>4. k \in DOMAIN comments /\ comments[k].body[1] \notin C!Names
    BY MCAssumption DEF Removes, C!Own, C!Names, Thread, ThreadTypes
  <2>5. Reading(r)'
    <3>1. ASSUME NEW j \in DOMAIN comments', NEW i \in r.since, comments'[j].id \notin r.since PROVE i < comments'[j].id
      BY <1>1, <2>1, <3>1 DEF Reading
    <3>2. ASSUME NEW i \in DOMAIN r.read, NEW j \in DOMAIN comments', j > Before(r) PROVE r.read[i].id < comments'[j].id
      BY <1>1, <2>1, <2>2, <2>3, <3>2 DEF Reading
    <3>3. ASSUME NEW i \in DOMAIN r.read, r.read[i].body[1] \in C!Names PROVE \E j \in DOMAIN comments' : comments'[j] = r.read[i]
      <4>1. PICK l \in DOMAIN comments : comments[l] = r.read[i]
        BY <2>1, <3>3 DEF Reading
      <4>2. l # k
        BY <2>4, <3>3, <4>1
      <4>. QED
        BY <1>1, <4>1, <4>2
    <3>. QED
      BY <2>1, <2>2, <3>1, <3>2, <3>3 DEF Reading
  <2>6. Covered(r)'
    <3>. SUFFICES ASSUME r.since \subseteq C!CommentIds', NEW j \in DOMAIN comments', comments'[j].id \in r.since
                  PROVE  /\ j <= Before(r) => \E i \in DOMAIN r.read : r.read[i] = comments'[j]
                         /\ r.pc = "write" => j <= Before(r)
      BY <2>2 DEF Covered
    <3>1. \A x \in C!Range(comments') : \E i \in DOMAIN comments : i # k /\ x = comments[i]
      BY <1>1, <2>3 DEF C!Range
    <3>2. \A x \in r.since : \E i \in DOMAIN comments : i # k /\ x = comments[i].id
      BY <3>1 DEF C!CommentIds
    <3>3. \A i, l \in DOMAIN comments : i < l => comments[i].id < comments[l].id
      BY DEF Thread, Numbered
    <3>4. \A i \in DOMAIN comments : comments[i].id \in Nat
      BY PostedNumbers DEF Thread, ThreadTypes
    <3>5. comments[k].id \notin r.since
      BY <1>1, <2>4, <3>2, <3>3, <3>4
    <3>6. r.since \subseteq C!CommentIds
      BY <3>2 DEF C!CommentIds, C!Range
    <3>7. Was(j, k) \in DOMAIN comments /\ comments[Was(j, k)].id = comments'[j].id
      BY <1>1
    <3>8. Was(j, k) < k
      <4>1. comments'[j].id < comments[k].id
        BY <2>1, <2>4, <3>5 DEF Reading
      <4>2. ~ (k < Was(j, k))
        BY <2>4, <3>3, <3>4, <3>7, <4>1
      <4>. QED
        BY <1>1, <2>3, <2>4, <3>7, <4>2
    <3>9. Was(j, k) = j
      BY <1>1, <2>4, <3>8 DEF Was
    <3>. QED
      BY <1>1, <2>1, <3>6, <3>9 DEF Covered
  <2>. QED
    BY <2>5, <2>6
<1>. QED
  BY <1>2, <1>3, <1>4, <1>5 DEF Settled

(* and what was shown is shown, or is being replaced.                      *)
LEMMA RemovedShown ==
  ASSUME Thread, NEW d, NEW k, Removes(d, k), NEW c \in DOMAIN commands, NEW r, ShownOf(c, r)
  PROVE  ShownOf(c, r)'
<1>1. /\ UNCHANGED <<commands, ids>>
      /\ \A i \in DOMAIN comments : i # k => \E j \in DOMAIN comments' : j <= i /\ comments'[j] = comments[i] /\ (i < k => j = i)
      /\ history'.replacing = history.replacing \cup {d}
  BY RemovedComment DEF Thread
<1>. SUFFICES ASSUME commands[c].kind = "comment", r.pc = "done"
              PROVE  (C!Comments(c) # {})' \/ \E e \in C!Posting(c)' : e \in history'.replacing
  BY <1>1 DEF ShownOf
<1>2. C!Posting(c)' = C!Posting(c)
  BY <1>1 DEF C!Posting, C!Is
<1>3. CASE k \in C!Comments(c)
  <2>1. d \in C!Posting(c)
    BY <1>3 DEF C!Comments, C!Posting, C!Is, C!Own, Removes
  <2>. QED
    BY <1>1, <1>2, <2>1
<1>4. CASE k \notin C!Comments(c)
  <2>1. ASSUME NEW i \in C!Comments(c) PROVE C!Comments(c)' # {}
    <3>1. i \in DOMAIN comments /\ i # k /\ C!Own(c, comments[i])
      BY <1>4 DEF C!Comments
    <3>2. PICK j \in DOMAIN comments' : comments'[j] = comments[i]
      BY <1>1, <3>1
    <3>. QED
      BY <1>1, <3>1, <3>2 DEF C!Comments, C!Own
  <2>. QED
    BY <1>1, <1>2, <2>1 DEF ShownOf
<1>. QED
  BY <1>3, <1>4

(* Nothing happens to the comments.                                        *)
LEMMA SameComments ==
  ASSUME Thread, UNCHANGED <<commands, comments, history>>, ids' \in Nat, ids <= ids'
  PROVE  /\ Thread'
         /\ \A c \in DOMAIN commands : \A r : Settled(c, r) => Settled(c, r)'
         /\ \A c \in DOMAIN commands : \A r : ShownOf(c, r) => ShownOf(c, r)'
<1>1. PostedComment' = PostedComment
  BY DEF PostedComment, CommandBody
<1>2. \A k \in DOMAIN comments : comments[k].id \in Nat
  BY PostedNumbers DEF Thread, ThreadTypes
<1>3. ids \in Nat
  BY DEF Thread, ThreadTypes
<1>4. Thread'
  <2>1. ThreadTypes'
    BY <1>1 DEF Thread, ThreadTypes
  <2>2. Numbered'
    BY <1>2, <1>3 DEF Thread, Numbered
  <2>3. (Authors /\ Fits /\ C!CommentedOnce)'
    BY DEF Thread, Authors, Fits, C!CommentedOnce, C!Own
  <2>. QED
    BY <2>1, <2>2, <2>3 DEF Thread
<1>5. ASSUME NEW c \in DOMAIN commands, NEW r, Settled(c, r) PROVE Settled(c, r)'
  <2>1. r.read \in Seq(PostedComment) /\ \A i \in DOMAIN r.read : r.read[i] \in PostedComment
    BY <1>5, ElementOfSeq, LenProperties DEF Settled, Record
  <2>2. /\ \A i \in r.todo : i < ids'
        /\ \A i \in r.since : i < ids'
        /\ \A i \in DOMAIN r.read : r.read[i].id < ids'
    BY <1>3, <1>5, <2>1 DEF Settled, Record, PostedComment
  <2>3. Record(r)'
    BY <1>1, <1>5, <2>2 DEF Settled, Record
  <2>4. Place(c, r)' /\ Deleting(c, r)' /\ Adding(c, r)'
    BY <1>5 DEF Settled, Place, Deleting, Adding, C!Own
  <2>5. Reading(r) /\ Covered(r) => (Reading(r) /\ Covered(r))'
    BY DEF Reading, Covered, Before, C!Names, C!CommentIds, C!Range
  <2>. QED
    BY <1>5, <2>3, <2>4, <2>5 DEF Settled
<1>6. ASSUME NEW c \in DOMAIN commands, NEW r, ShownOf(c, r) PROVE ShownOf(c, r)'
  BY <1>6 DEF ShownOf, C!Comments, C!Posting, C!Is, C!Own
<1>. QED
  BY <1>4, <1>5, <1>6


-----------------------------------------------------------------------------
(* The steps of the commands.                                              *)

BranchTypes == branches = [pr |-> branches.pr, base |-> branches.base]
EnvTypes == env = [c \in DOMAIN commands |-> env[c]] /\ \A c \in DOMAIN commands : IsSequence(env[c])

(* One command goes to the state q; the others have not moved.             *)
LEMMA OneMoves ==
  ASSUME WorkTypes, UNCHANGED commands, NEW c \in DOMAIN commands, NEW q, proc' = [proc EXCEPT ![c] = q],
         Thread', BranchTypes', EnvTypes', Settled(c, q)', ShownOf(c, q)',
         \A d \in DOMAIN commands : \A r : d # c /\ r = proc[d] => Settled(d, r)' /\ ShownOf(d, r)'
  PROVE  CommandInv'
<1>1. proc = [d \in DOMAIN commands |-> proc[d]]
  BY DEF WorkTypes
<1>2. /\ proc' = [d \in DOMAIN commands |-> proc'[d]] /\ proc'[c] = q
      /\ \A d \in DOMAIN commands : d # c => proc'[d] = proc[d]
  BY <1>1
<1>3. WorkTypes'
  BY <1>2 DEF WorkTypes, BranchTypes, EnvTypes
<1>4. ASSUME NEW d \in DOMAIN commands PROVE Settled(d, proc[d])' /\ ShownOf(d, proc[d])'
  <2>1. PICK r : r = proc'[d]
    OBVIOUS
  <2>2. Settled(d, r)' /\ ShownOf(d, r)'
    BY <1>2, <2>1
  <2>3. Record(r)' /\ Place(d, r)' /\ Deleting(d, r)' /\ Adding(d, r)' /\ (r.pc \in {"page", "write"} => Reading(r)' /\ Covered(r)')
    BY <2>2 DEF Settled
  <2>4. Record(proc[d])' /\ Place(d, proc[d])'
    BY <2>1, <2>3 DEF Record, Place
  <2>5. Deleting(d, proc[d])' /\ Adding(d, proc[d])'
    BY <2>1, <2>3 DEF Deleting, Adding
  <2>6. proc[d]'.pc \in {"page", "write"} => Reading(proc[d])'
    BY <2>1, <2>3 DEF Reading, Before
  <2>7. proc[d]'.pc \in {"page", "write"} => Covered(proc[d])'
    BY <2>1, <2>3 DEF Covered, Before
  <2>8. Settled(d, proc[d])'
    BY <2>4, <2>5, <2>6, <2>7 DEF Settled
  <2>9. ShownOf(d, proc[d])'
    BY <2>1, <2>2 DEF ShownOf
  <2>. QED
    BY <2>8, <2>9
<1>. QED
  BY <1>3, <1>4 DEF CommandInv

(* It moves and nothing happens to the comments.                           *)
LEMMA QuietStep ==
  ASSUME CommandInv, UNCHANGED <<commands, comments, history>>, ids' \in Nat, ids <= ids',
         NEW c \in DOMAIN commands, NEW q, proc' = [proc EXCEPT ![c] = q], Settled(c, q), ShownOf(c, q),
         BranchTypes', EnvTypes'
  PROVE  CommandInv'
<1>1. Thread /\ WorkTypes /\ commands' = commands
  BY DEF CommandInv
<1>2. Thread' /\ Settled(c, q)' /\ ShownOf(c, q)'
  BY <1>1, SameComments
<1>3. \A d \in DOMAIN commands : \A r : d # c /\ r = proc[d] => Settled(d, r)' /\ ShownOf(d, r)'
  <2>. SUFFICES ASSUME NEW d \in DOMAIN commands, NEW r, r = proc[d] PROVE Settled(d, r)' /\ ShownOf(d, r)'
    OBVIOUS
  <2>1. Settled(d, r) /\ ShownOf(d, r)
    BY DEF CommandInv
  <2>. QED
    BY <1>1, <2>1, SameComments
<1>. QED
  BY <1>1, <1>2, <1>3, OneMoves

(* Ends, reruns and the labels.                                            *)
LEMMA Ends ==
  ASSUME CommandInv, NEW c \in DOMAIN commands, NEW p \in {"done", "failed", "label"},
         p = "done" => commands[c].kind # "comment", p = "label" => commands[c].kind = "label",
         NEW q, q = [proc[c] EXCEPT !.pc = p]
  PROVE  Settled(c, q) /\ ShownOf(c, q)
<1>1. PICK r : r = proc[c]
  OBVIOUS
<1>2. Settled(c, r)
  BY <1>1 DEF CommandInv
<1>3. /\ q.pc = p /\ q.todo = r.todo /\ q.read = r.read /\ q.since = r.since /\ q.page = r.page
      /\ q = [pc |-> q.pc, todo |-> q.todo, read |-> q.read, since |-> q.since,
              page |-> q.page, local |-> q.local, cloned |-> q.cloned, lease |-> q.lease]
  BY <1>1, <1>2 DEF Settled, Record
<1>4. Record(q)
  BY <1>2, <1>3 DEF Settled, Record
<1>5. Place(c, q) /\ Deleting(c, q) /\ Adding(c, q)
  BY <1>2, <1>3 DEF Settled, Place, Deleting, Adding
<1>6. ShownOf(c, q)
  BY <1>3 DEF ShownOf
<1>. QED
  BY <1>3, <1>4, <1>5, <1>6 DEF Settled

(* Of a command that is about to start nothing is said.                    *)
LEMMA Starts ==
  ASSUME CommandInv, NEW c \in DOMAIN commands
  PROVE  Settled(c, C!Idle) /\ ShownOf(c, C!Idle)
<1>1. Record(C!Idle)
  <2>1. C!Idle.read = <<>> /\ <<>> \in Seq(PostedComment) /\ DOMAIN <<>> = {}
    BY DEF C!Idle
  <2>. QED
    BY <2>1 DEF Record, C!Idle
<1>. QED
  BY <1>1 DEF Settled, ShownOf, Place, Deleting, Adding, C!Idle

(* Each step of a command.                                                 *)
LEMMA FailInv == ASSUME CommandInv, NEW c \in DOMAIN commands, C!Fail(c) PROVE CommandInv'
<1>1. PICK q : q = [proc[c] EXCEPT !.pc = "failed"]
  OBVIOUS
<1>2. proc' = [proc EXCEPT ![c] = q] /\ UNCHANGED <<commands, comments, history, branches, env, ids>>
  BY <1>1 DEF C!Fail, C!Goto
<1>3. Settled(c, q) /\ ShownOf(c, q)
  BY <1>1, Ends
<1>4. BranchTypes' /\ EnvTypes' /\ ids \in Nat /\ ids' \in Nat /\ ids <= ids'
  BY <1>2 DEF CommandInv, WorkTypes, BranchTypes, EnvTypes, Thread, ThreadTypes
<1>. QED
  BY <1>2, <1>3, <1>4, QuietStep

(* Running again.                                                          *)
LEMMA RerunInv == ASSUME CommandInv, NEW c \in DOMAIN commands, C!Rerun(c) PROVE CommandInv'
<1>1. PICK q : q = C!Idle
  OBVIOUS
<1>2. proc' = [proc EXCEPT ![c] = q] /\ UNCHANGED <<commands, comments, history, branches, env, ids>>
  BY <1>1 DEF C!Rerun
<1>3. Settled(c, q) /\ ShownOf(c, q)
  BY <1>1, Starts
<1>4. BranchTypes' /\ EnvTypes' /\ ids \in Nat /\ ids' \in Nat /\ ids <= ids'
  BY <1>2 DEF CommandInv, WorkTypes, BranchTypes, EnvTypes, Thread, ThreadTypes
<1>. QED
  BY <1>2, <1>3, <1>4, QuietStep

(* Looking at the labels.                                                  *)
LEMMA LabelInv == ASSUME CommandInv, NEW c \in DOMAIN commands, C!Label(c) PROVE CommandInv'
<1>1. PICK p \in {"done", "label"} : proc' = [proc EXCEPT ![c].pc = p]
  BY DEF C!Label, C!Goto
<1>2. PICK q : q = [proc[c] EXCEPT !.pc = p]
  OBVIOUS
<1>3. proc' = [proc EXCEPT ![c] = q] /\ UNCHANGED <<commands, comments, history, branches, env, ids>>
  BY <1>1, <1>2 DEF C!Label
<1>4. Settled(c, q) /\ ShownOf(c, q)
  BY <1>2, Ends DEF C!Label, C!Is
<1>5. BranchTypes' /\ EnvTypes' /\ ids \in Nat /\ ids' \in Nat /\ ids <= ids'
  BY <1>3 DEF CommandInv, WorkTypes, BranchTypes, EnvTypes, Thread, ThreadTypes
<1>. QED
  BY <1>3, <1>4, <1>5, QuietStep

(* Adding the label.                                                       *)
LEMMA AddLabelInv == ASSUME CommandInv, NEW c \in DOMAIN commands, C!AddLabel(c) PROVE CommandInv'
<1>1. PICK p \in {"done", "failed"} : proc' = [proc EXCEPT ![c].pc = p]
  BY DEF C!AddLabel, C!Answered, C!Goto
<1>2. PICK q : q = [proc[c] EXCEPT !.pc = p]
  OBVIOUS
<1>3. proc' = [proc EXCEPT ![c] = q] /\ UNCHANGED <<commands, comments, history, branches, env, ids>>
  BY <1>1, <1>2 DEF C!AddLabel
<1>4. commands[c].kind = "label"
  BY DEF C!AddLabel, C!At, CommandInv, Settled, Place
<1>5. Settled(c, q) /\ ShownOf(c, q)
  BY <1>2, <1>4, Ends
<1>6. BranchTypes' /\ EnvTypes' /\ ids \in Nat /\ ids' \in Nat /\ ids <= ids'
  BY <1>3 DEF CommandInv, WorkTypes, BranchTypes, EnvTypes, Thread, ThreadTypes
<1>. QED
  BY <1>3, <1>5, <1>6, QuietStep

(* pr push                                                                 *)
LEMMA CloneInv == ASSUME CommandInv, NEW c \in DOMAIN commands, C!Clone(c) PROVE CommandInv'
<1>1. PICK r : r = proc[c]
  OBVIOUS
<1>2. Settled(c, r) /\ WorkTypes
  BY <1>1 DEF CommandInv
<1>3. PICK rewritten, tracked \in BOOLEAN :
        proc' = [proc EXCEPT
          ![c].pc = "push", ![c].cloned = branches.pr \cup branches.base,
          ![c].local = {ids} \cup IF rewritten THEN {} ELSE branches.pr \cup branches.base,
          ![c].lease = IF tracked THEN {branches.pr} ELSE {}]
  BY DEF C!Clone
<1>. DEFINE own == {ids} \cup IF rewritten THEN {} ELSE branches.pr \cup branches.base
            known == IF tracked THEN {branches.pr} ELSE {}
<1>a. /\ proc' = [proc EXCEPT ![c].pc = "push", ![c].cloned = branches.pr \cup branches.base, ![c].local = own, ![c].lease = known]
      /\ \A l \in known : l \subseteq branches.pr \cup branches.base
  BY <1>3
<1>. HIDE DEF own, known
<1>4. PICK q : q = [r EXCEPT !.pc = "push", !.cloned = branches.pr \cup branches.base, !.local = own, !.lease = known]
  OBVIOUS
<1>5. /\ q.pc = "push" /\ q.todo = r.todo /\ q.read = r.read /\ q.since = r.since /\ q.page = r.page
      /\ q.cloned = branches.pr \cup branches.base /\ q.lease = known
      /\ q = [pc |-> q.pc, todo |-> q.todo, read |-> q.read, since |-> q.since,
              page |-> q.page, local |-> q.local, cloned |-> q.cloned, lease |-> q.lease]
  BY <1>2, <1>4 DEF Settled, Record
<1>6. proc' = [proc EXCEPT ![c] = q]
  BY <1>1, <1>2, <1>a, <1>4 DEF WorkTypes
<1>7. UNCHANGED <<commands, comments, history, branches, env>> /\ ids' = ids + 1 /\ commands[c].kind = "push"
  BY DEF C!Clone, C!Is
<1>8. Settled(c, q) /\ ShownOf(c, q)
  <2>1. Record(q)
    BY <1>2, <1>5 DEF Settled, Record
  <2>2. Place(c, q)
    BY <1>a, <1>5, <1>7 DEF Place
  <2>3. Deleting(c, q) /\ Adding(c, q)
    BY <1>2, <1>5 DEF Settled, Deleting, Adding
  <2>. QED
    BY <1>5, <2>1, <2>2, <2>3 DEF Settled, ShownOf
<1>9. BranchTypes' /\ EnvTypes' /\ ids \in Nat /\ ids' \in Nat /\ ids <= ids'
  BY <1>7 DEF CommandInv, WorkTypes, BranchTypes, EnvTypes, Thread, ThreadTypes
<1>. QED
  BY <1>6, <1>7, <1>8, <1>9, QuietStep

(* Pushing what the workspace has.                                         *)
LEMMA PushInv ==
  ASSUME CommandInv, NEW c \in DOMAIN commands, C!Push(c)
  PROVE  CommandInv' /\ C!KeepsUnseen
<1>1. PICK b \in {"pr", "base"} :
        IF C!Accepts(c, b) THEN branches' = [branches EXCEPT ![b] = proc[c].local] /\ C!Answered(c, "done")
        ELSE UNCHANGED <<branches, failures>> /\ C!Goto(c, "failed")
  BY DEF C!Push
<1>2. PICK p \in {"done", "failed"} : proc' = [proc EXCEPT ![c].pc = p]
  BY <1>1 DEF C!Answered, C!Goto
<1>3. PICK q : q = [proc[c] EXCEPT !.pc = p]
  OBVIOUS
<1>4. proc' = [proc EXCEPT ![c] = q] /\ UNCHANGED <<commands, comments, history, env, ids>> /\ proc[c].pc = "push"
  BY <1>2, <1>3 DEF C!Push, C!At
<1>5. commands[c].kind = "push" /\ \A l \in proc[c].lease : l \subseteq proc[c].cloned
  BY <1>4 DEF CommandInv, Settled, Place
<1>6. Settled(c, q) /\ ShownOf(c, q)
  BY <1>3, <1>5, Ends
<1>7. BranchTypes /\ DOMAIN branches = {"pr", "base"}
  BY DEF CommandInv, WorkTypes, BranchTypes
<1>8. BranchTypes'
  BY <1>1, <1>7 DEF BranchTypes
<1>9. EnvTypes' /\ ids \in Nat /\ ids' \in Nat /\ ids <= ids'
  BY <1>4 DEF CommandInv, WorkTypes, EnvTypes, Thread, ThreadTypes
<1>10. C!KeepsUnseen
  <2>1. c \in {d \in DOMAIN commands : C!At(d, "push") /\ proc'[d] # proc[d]}
    <3>1. proc'[c].pc = p
      BY <1>3, <1>4 DEF CommandInv, WorkTypes, Settled, Record
    <3>. QED
      BY <1>4, <3>1 DEF C!At
  <2>2. ASSUME NEW a \in DOMAIN branches PROVE branches[a] \ branches'[a] \subseteq proc[c].cloned
    <3>1. CASE C!Accepts(c, b) /\ a = b
      <4>1. branches'[b] = proc[c].local
        BY <1>1, <1>7, <3>1
      <4>. QED
        BY <1>5, <3>1, <4>1 DEF C!Accepts
    <3>2. CASE ~ (C!Accepts(c, b) /\ a = b)
      BY <1>1, <1>7, <3>2
    <3>. QED
      BY <3>1, <3>2
  <2>. QED
    BY <2>1, <2>2 DEF C!KeepsUnseen
<1>. QED
  BY <1>4, <1>6, <1>8, <1>9, <1>10, QuietStep


-----------------------------------------------------------------------------
(* pr variables                                                            *)

LEMMA DiscoverInv == ASSUME CommandInv, NEW c \in DOMAIN commands, C!Discover(c) PROVE CommandInv'
<1>1. PICK r : r = proc[c]
  OBVIOUS
<1>2. Settled(c, r) /\ WorkTypes /\ r.pc = "idle" /\ Thread
  BY <1>1 DEF CommandInv, C!Discover, C!At
<1>3. PICK q : q = [r EXCEPT !.pc = "page", !.local = labels, !.since = C!CommentIds]
  OBVIOUS
<1>4. /\ q.pc = "page" /\ q.todo = r.todo /\ q.read = r.read /\ q.since = C!CommentIds /\ q.page = r.page
      /\ q = [pc |-> q.pc, todo |-> q.todo, read |-> q.read, since |-> q.since,
              page |-> q.page, local |-> q.local, cloned |-> q.cloned, lease |-> q.lease]
  BY <1>2, <1>3 DEF Settled, Record
<1>5. proc' = [proc EXCEPT ![c] = q]
  BY <1>1, <1>2, <1>3 DEF WorkTypes, C!Discover
<1>6. UNCHANGED <<commands, comments, history, branches, env, ids>> /\ commands[c].kind = "variables"
  BY DEF C!Discover, C!Is
<1>7. /\ C!CommentIds \subseteq Nat /\ \A i \in C!CommentIds : i < ids
      /\ \A k \in DOMAIN comments : comments[k].id \in C!CommentIds
  BY <1>2, PostedNumbers DEF Thread, ThreadTypes, Numbered, C!CommentIds, C!Range
<1>8. Settled(c, q) /\ ShownOf(c, q)
  <2>1. Record(q)
    BY <1>2, <1>4, <1>7 DEF Settled, Record
  <2>2. Place(c, q)
    BY <1>4, <1>6 DEF Place
  <2>3. Deleting(c, q) /\ Adding(c, q)
    BY <1>2, <1>4, <1>6 DEF Settled, Deleting, Adding
  <2>4. q.read = <<>> /\ Before(q) = 0 /\ DOMAIN q.read = {}
    BY <1>2, <1>4, SomeOnPage DEF Settled, Place, Before
  <2>5. Reading(q)
    BY <1>4, <1>7, <2>4 DEF Reading
  <2>6. Covered(q)
    <3>1. \A k \in DOMAIN comments : ~ (k <= 0)
      BY <1>2, LenProperties DEF Thread, ThreadTypes
    <3>. QED
      BY <1>4, <2>4, <3>1 DEF Covered
  <2>. QED
    BY <1>4, <2>1, <2>2, <2>3, <2>5, <2>6 DEF Settled, ShownOf
<1>9. BranchTypes' /\ EnvTypes' /\ ids \in Nat /\ ids' \in Nat /\ ids <= ids'
  BY <1>6 DEF CommandInv, WorkTypes, BranchTypes, EnvTypes, Thread, ThreadTypes
<1>. QED
  BY <1>5, <1>6, <1>8, <1>9, QuietStep

(* After the last page there are no more comments.                         *)
LEMMA LastPageCovers ==
  ASSUME comments \in Seq(PostedComment), NEW n \in Nat \ {0}, ~ (n + 1 <= C!LastPage)
  PROVE  Len(comments) <= n * PageSize
<1>1. PICK L \in Nat : L = Len(comments)
  BY LenProperties
<1>2. PICK P \in Nat : P = PageSize /\ P > 0
  BY SomeOnPage
<1>3. PICK d : d = (L + P - 1) \div P
  OBVIOUS
<1>4. d \in Int /\ L + P - 1 < (d + 1) * P
  BY <1>2, <1>3
<1>5. d <= n
  BY <1>1, <1>2, <1>3, <1>4 DEF C!LastPage
<1>6. (d + 1) * P <= (n + 1) * P
  BY <1>2, <1>4, <1>5
<1>7. (n + 1) * P = n * P + P /\ n * P \in Nat
  BY <1>2
<1>. QED
  BY <1>1, <1>2, <1>4, <1>6, <1>7

(* Reading a page.                                                         *)
LEMMA LoadInv == ASSUME CommandInv, NEW c \in DOMAIN commands, C!loadPRComments(c) PROVE CommandInv'
<1>1. PICK r, page, pc : r = proc[c] /\ page = C!Page(r.page) /\ pc = IF r.page + 1 <= C!LastPage THEN "page" ELSE "write"
  OBVIOUS
<1>2. Settled(c, r) /\ WorkTypes /\ r.pc = "page" /\ Thread
  BY <1>1 DEF CommandInv, C!loadPRComments, C!At
<1>3. PICK q : q = [r EXCEPT !.read = @ \o page, !.page = @ + 1, !.pc = pc]
  OBVIOUS
<1>4. /\ q.pc = pc /\ q.todo = r.todo /\ q.read = r.read \o page /\ q.since = r.since /\ q.page = r.page + 1
      /\ q = [pc |-> q.pc, todo |-> q.todo, read |-> q.read, since |-> q.since,
              page |-> q.page, local |-> q.local, cloned |-> q.cloned, lease |-> q.lease]
  BY <1>2, <1>3 DEF Settled, Record
<1>5. proc' = [proc EXCEPT ![c] = q]
  BY <1>1, <1>2, <1>3 DEF WorkTypes, C!loadPRComments, Settled, Record
<1>6. UNCHANGED <<commands, comments, history, branches, env, ids>> /\ commands[c].kind = "variables"
  BY <1>2 DEF C!loadPRComments, Settled, Place
<1>7. r.page \in Nat \ {0} /\ r.read \in Seq(PostedComment) /\ comments \in Seq(PostedComment)
  BY <1>2 DEF Settled, Record, Thread, ThreadTypes
<1>8. PICK low : low = Before(r)
  OBVIOUS
<1>9. /\ low \in Nat /\ PageSize \in Nat /\ Before(q) = low + PageSize /\ r.page * PageSize = low + PageSize
  BY <1>4, <1>7, <1>8, Pages, SomeOnPage DEF Before
<1>10. /\ page \in Seq(PostedComment)
       /\ \A i \in DOMAIN page : low + i \in DOMAIN comments /\ page[i] = comments[low + i] /\ i <= PageSize
       /\ \A k \in DOMAIN comments : k > low /\ k <= low + PageSize => k - low \in DOMAIN page
  <2>1. low = (r.page - 1) * PageSize
    BY <1>8 DEF Before
  <2>2. PICK n \in Nat \ {0} : n = r.page
    BY <1>7
  <2>3. low = (n - 1) * PageSize /\ page = C!Page(n) /\ comments \in Seq(PostedComment)
    BY <1>1, <1>7, <2>1, <2>2
  <2>4. /\ page \in Seq(PostedComment)
        /\ \A i \in DOMAIN page : low + i \in DOMAIN comments /\ page[i] = comments[low + i]
        /\ \A k \in DOMAIN comments : k > low /\ k <= n * PageSize => k - low \in DOMAIN page
        /\ \A i \in DOMAIN page : i <= PageSize
    BY <2>3, OnPage
  <2>. QED
    BY <1>9, <2>2, <2>4
<1>0. PICK old, new : old = r.read /\ new = q.read
  OBVIOUS
<1>11. PICK m \in Nat, l \in Nat :
         /\ m = Len(old) /\ DOMAIN old = 1 .. m
         /\ l = Len(page) /\ DOMAIN page = 1 .. l
  BY <1>0, <1>7, <1>10, LenProperties
<1>12. /\ new \in Seq(PostedComment) /\ Len(new) = m + l
       /\ \A i \in 1 .. m + l : new[i] = IF i <= m THEN old[i] ELSE page[i - m]
  BY <1>0, <1>4, <1>7, <1>10, <1>11, ConcatProperties
<1>13. DOMAIN new = 1 .. m + l
  BY <1>12, LenProperties
<1>14. \A i \in 1 .. m : i \in DOMAIN new /\ new[i] = old[i]
  BY <1>12, <1>13
<1>15. ASSUME NEW i \in DOMAIN new, ~ (i <= m)
       PROVE  /\ i - m \in 1 .. l /\ low + (i - m) \in DOMAIN comments /\ new[i] = comments[low + (i - m)]
              /\ low + (i - m) <= low + PageSize /\ low + (i - m) > low
  <2>1. i - m \in 1 .. l
    BY <1>11, <1>13, <1>15
  <2>. QED
    BY <1>9, <1>10, <1>11, <1>12, <1>13, <1>15, <2>1
<1>16. \A i \in DOMAIN new : i <= m => i \in DOMAIN old /\ new[i] = old[i]
  BY <1>11, <1>12, <1>13
<1>17. /\ \A k \in DOMAIN comments : comments[k].id < ids
       /\ \A j, k \in DOMAIN comments : j < k => comments[j].id < comments[k].id
       /\ DOMAIN comments \subseteq Nat /\ \A k \in DOMAIN comments : comments[k].id \in Nat
  BY <1>2, <1>7, PostedNumbers, LenProperties DEF Thread, Numbered
<1>18. /\ \A i, j \in DOMAIN old : i < j => old[i].id < old[j].id
       /\ \A i \in DOMAIN old, k \in DOMAIN comments : k > low => old[i].id < comments[k].id
       /\ \A i \in DOMAIN old : old[i].body[1] \in C!Names => \E k \in DOMAIN comments : comments[k] = old[i]
       /\ r.since \subseteq C!CommentIds =>
            \A k \in DOMAIN comments : comments[k].id \in r.since /\ k <= low => \E i \in DOMAIN old : old[i] = comments[k]
       /\ \A i \in DOMAIN old : old[i].id < ids
  BY <1>0, <1>2, <1>8 DEF Settled, Record, Reading, Covered
<1>19. Reading(q)
  <2>1. ASSUME NEW i \in DOMAIN new, NEW j \in DOMAIN new, i < j PROVE new[i].id < new[j].id
    <3>1. CASE j <= m
      BY <1>11, <1>13, <1>14, <1>16, <1>18, <2>1, <3>1
    <3>2. CASE i <= m /\ ~ (j <= m)
      BY <1>8, <1>9, <1>14, <1>15, <1>16, <1>17, <1>18, <3>2
    <3>3. CASE ~ (i <= m)
      <4>1. ~ (j <= m) /\ low + (i - m) < low + (j - m)
        BY <1>9, <1>11, <1>13, <2>1, <3>3
      <4>. QED
        BY <1>15, <1>17, <3>3, <4>1
    <3>. QED
      BY <1>11, <1>13, <3>1, <3>2, <3>3
  <2>2. ASSUME NEW i \in DOMAIN new, NEW k \in DOMAIN comments, k > Before(q) PROVE new[i].id < comments[k].id
    <3>1. k > low /\ k > low + PageSize
      BY <1>9, <1>17, <2>2
    <3>2. CASE i <= m
      BY <1>8, <1>14, <1>16, <1>18, <3>1, <3>2
    <3>3. CASE ~ (i <= m)
      <4>1. low + (i - m) < k
        BY <1>9, <1>15, <1>17, <3>1, <3>3
      <4>. QED
        BY <1>15, <1>17, <3>3, <4>1
    <3>. QED
      BY <3>2, <3>3
  <2>3. ASSUME NEW i \in DOMAIN new, new[i].body[1] \in C!Names PROVE \E k \in DOMAIN comments : comments[k] = new[i]
    <3>1. CASE i <= m
      BY <1>14, <1>16, <1>18, <2>3, <3>1
    <3>2. CASE ~ (i <= m)
      BY <1>15, <3>2
    <3>. QED
      BY <3>1, <3>2
  <2>. QED
    BY <1>0, <1>2, <1>4, <2>1, <2>2, <2>3 DEF Settled, Reading
<1>20. Covered(q)
  <2>. SUFFICES ASSUME r.since \subseteq C!CommentIds, NEW k \in DOMAIN comments, comments[k].id \in r.since
                PROVE  /\ k <= Before(q) => \E i \in DOMAIN new : new[i] = comments[k]
                       /\ q.pc = "write" => k <= Before(q)
    BY <1>0, <1>4 DEF Covered
  <2>1. ASSUME k <= low PROVE \E i \in DOMAIN new : new[i] = comments[k]
    <3>1. PICK i \in DOMAIN old : old[i] = comments[k]
      BY <1>18, <2>1
    <3>. QED
      BY <1>11, <1>14, <3>1
  <2>2. ASSUME k > low, k <= low + PageSize PROVE \E i \in DOMAIN new : new[i] = comments[k]
    <3>1. k - low \in 1 .. l /\ page[k - low] = comments[k]
      <4>1. k - low \in DOMAIN page /\ low + (k - low) = k
        BY <1>9, <1>10, <1>17, <2>2
      <4>. QED
        BY <1>10, <1>11, <4>1
    <3>2. PICK i : i = m + (k - low)
      OBVIOUS
    <3>3. i \in 1 .. m + l /\ ~ (i <= m) /\ i - m = k - low
      BY <1>9, <1>11, <1>17, <3>1, <3>2
    <3>. QED
      BY <1>12, <1>13, <3>1, <3>3
  <2>3. ASSUME q.pc = "write" PROVE k <= Before(q)
    <3>1. ~ (r.page + 1 <= C!LastPage)
      BY <1>1, <1>4, <2>3
    <3>2. Len(comments) <= low + PageSize
      BY <1>7, <1>9, <3>1, LastPageCovers
    <3>. QED
      BY <1>7, <1>9, <3>2, LenProperties
  <2>. QED
    BY <1>9, <1>17, <2>1, <2>2, <2>3
<1>21. Settled(c, q) /\ ShownOf(c, q)
  <2>1. \A i \in DOMAIN new : new[i].id < ids
    BY <1>14, <1>15, <1>16, <1>17, <1>18
  <2>2. Record(q)
    <3>1. q.page \in Nat \ {0} /\ q.read \in Seq(PostedComment) /\ \A i \in DOMAIN q.read : q.read[i].id < ids
      BY <1>0, <1>4, <1>7, <1>12, <2>1
    <3>. QED
      BY <1>2, <1>4, <3>1 DEF Settled, Record
  <2>3. pc \in {"page", "write"}
    BY <1>1
  <2>4. Place(c, q)
    BY <1>4, <1>6, <2>3 DEF Place
  <2>5. Deleting(c, q) /\ Adding(c, q)
    BY <1>2, <1>4, <1>6 DEF Settled, Deleting, Adding
  <2>. QED
    BY <1>4, <1>6, <1>19, <1>20, <2>2, <2>3, <2>4, <2>5 DEF Settled, ShownOf
<1>22. BranchTypes' /\ EnvTypes' /\ ids \in Nat /\ ids' \in Nat /\ ids <= ids'
  BY <1>6 DEF CommandInv, WorkTypes, BranchTypes, EnvTypes, Thread, ThreadTypes
<1>. QED
  BY <1>5, <1>6, <1>21, <1>22, QuietStep


(* The value that is parsed is that of the last comment for a name.        *)
LEMMA ParsedLast ==
  ASSUME NEW list \in Seq(PostedComment), NEW name, NEW first \in DOMAIN list, list[first].body[1] = name
  PROVE  \E i \in DOMAIN list :
           /\ list[i].body[1] = name /\ C!Parsed(list, name) = list[i].body[2]
           /\ \A j \in DOMAIN list : list[j].body[1] = name => j <= i
<1>. DEFINE mine == {k \in DOMAIN list : list[k].body[1] = name}
<1>1. PICK n \in Nat : DOMAIN list = 1 .. n
  BY LenProperties
<1>2. mine \in SUBSET (1 .. n) /\ first \in mine
  BY <1>1
<1>3. C!Parsed(list, name) = list[C!Max(mine)].body[2]
  BY <1>2 DEF C!Parsed
<1>4. \A k : k \in mine <=> k \in DOMAIN list /\ list[k].body[1] = name
  OBVIOUS
<1>. HIDE DEF mine
<1>5. \E i \in mine : \A j \in mine : j <= i
  BY <1>2, Greatest
<1>6. \E i \in mine : \A j \in mine : i >= j
  BY <1>1, <1>2, <1>5
<1>7. C!Max(mine) \in mine /\ \A j \in mine : C!Max(mine) >= j
  BY <1>6, Zenon DEF C!Max
<1>8. PICK i \in mine : i = C!Max(mine)
  BY <1>7
<1>9. \A j \in mine : j <= i
  BY <1>1, <1>2, <1>7, <1>8
<1>. QED
  BY <1>3, <1>4, <1>8, <1>9

(* Writing the variables.                                                  *)
LEMMA WriteVariablesInv ==
  ASSUME CommandInv, NEW c \in DOMAIN commands, C!WriteVariables(c)
  PROVE  CommandInv' /\ C!ReadsComments
<1>1. PICK r : r = proc[c]
  OBVIOUS
<1>2. Settled(c, r) /\ WorkTypes /\ r.pc = "write" /\ Thread
  BY <1>1 DEF CommandInv, C!WriteVariables, C!At
<1>3. PICK q : q = [proc[c] EXCEPT !.pc = "done"]
  OBVIOUS
<1>4. proc' = [proc EXCEPT ![c] = q] /\ UNCHANGED <<commands, comments, history, branches, ids>>
  BY <1>3 DEF C!WriteVariables, C!Goto
<1>5. commands[c].kind = "variables"
  BY <1>2 DEF Settled, Place
<1>6. Settled(c, q) /\ ShownOf(c, q)
  BY <1>3, <1>5, Ends
<1>7. BranchTypes' /\ ids \in Nat /\ ids' \in Nat /\ ids <= ids'
  BY <1>4 DEF CommandInv, WorkTypes, BranchTypes, Thread, ThreadTypes
<1>8. PICK block :
        /\ block = [labels |-> {Sanitized(l) : l \in proc[c].local} \ {None},
                    values |-> [n \in C!Names |-> C!Parsed(proc[c].read, n)]]
        /\ env' = [env EXCEPT ![c] = <<block>> \o @]
  BY DEF C!WriteVariables
<1>9. env = [d \in DOMAIN commands |-> env[d]] /\ \A d \in DOMAIN commands : IsSequence(env[d])
  BY <1>2 DEF WorkTypes
<1>10. /\ env' = [d \in DOMAIN commands |-> env'[d]] /\ env'[c] = <<block>> \o env[c]
       /\ \A d \in DOMAIN commands : d # c => env'[d] = env[d]
  BY <1>8, <1>9
<1>11. IsSequence(<<block>> \o env[c]) /\ (<<block>> \o env[c])[1] = block
  <2>1. PICK S : env[c] \in Seq(S)
    BY <1>9 DEF IsSequence
  <2>2. <<block>> \in Seq(S \cup {block}) /\ env[c] \in Seq(S \cup {block}) /\ Len(<<block>>) = 1 /\ <<block>>[1] = block
    BY <2>1
  <2>3. /\ <<block>> \o env[c] \in Seq(S \cup {block})
        /\ \A i \in 1 .. 1 + Len(env[c]) : (<<block>> \o env[c])[i] = IF i <= 1 THEN <<block>>[i] ELSE env[c][i - 1]
    BY <2>2, ConcatProperties
  <2>4. 1 \in 1 .. 1 + Len(env[c])
    BY <2>1, LenProperties
  <2>. QED
    BY <2>2, <2>3, <2>4 DEF IsSequence
<1>12. EnvTypes'
  <2>1. \A d \in DOMAIN commands : IsSequence(env'[d])
    BY <1>9, <1>10, <1>11
  <2>. QED
    BY <1>4, <1>10, <2>1 DEF EnvTypes
<1>13. ASSUME r.since \subseteq C!CommentIds, NEW n \in C!Names,
              NEW b \in DOMAIN comments, comments[b].body[1] = n, comments[b].id \in r.since
       PROVE  \E k \in DOMAIN comments :
                /\ comments[k].body = <<n, C!Parsed(r.read, n)>>
                /\ \A j \in DOMAIN comments : comments[j].body[1] = n /\ comments[j].id \in r.since => j <= k
  <2>1. Reading(r) /\ r.read \in Seq(PostedComment) /\ comments \in Seq(PostedComment)
    BY <1>2 DEF Settled, Record, Thread, ThreadTypes
  <2>2. \A j \in DOMAIN comments : comments[j].id \in r.since => \E i \in DOMAIN r.read : r.read[i] = comments[j]
    BY <1>2, <1>13 DEF Settled, Covered
  <2>3. PICK first \in DOMAIN r.read : r.read[first] = comments[b]
    BY <1>13, <2>2
  <2>4. PICK i \in DOMAIN r.read :
          /\ r.read[i].body[1] = n /\ C!Parsed(r.read, n) = r.read[i].body[2]
          /\ \A j \in DOMAIN r.read : r.read[j].body[1] = n => j <= i
    BY <1>13, <2>1, <2>3, ParsedLast
  <2>5. PICK k \in DOMAIN comments : comments[k] = r.read[i]
    BY <2>1, <2>4 DEF Reading
  <2>6. comments[k].body = <<n, C!Parsed(r.read, n)>>
    <3>1. comments[k].body \in People \cup CommandBody /\ comments[k].body[1] = n /\ n \in {t[1] : t \in People} \ {None}
      BY <2>1, <2>4, <2>5, PostedNumbers DEF PostedComment, C!Names
    <3>2. comments[k].body \in People
      BY <1>2, <3>1, MCAssumption DEF CommandBody, Thread, ThreadTypes
    <3>. QED
      BY <2>4, <2>5, <3>1, <3>2, MCAssumption
  <2>7. ASSUME NEW j \in DOMAIN comments, comments[j].body[1] = n, comments[j].id \in r.since PROVE j <= k
    <3>1. PICK l \in DOMAIN r.read : r.read[l] = comments[j]
      BY <2>2, <2>7
    <3>2. l <= i
      BY <2>4, <2>7, <3>1
    <3>3. DOMAIN r.read \subseteq Nat /\ DOMAIN comments \subseteq Nat
      BY <2>1, LenProperties
    <3>4. l = i \/ comments[j].id < comments[k].id
      BY <2>1, <2>5, <3>1, <3>2, <3>3 DEF Reading
    <3>5. comments[j].id <= comments[k].id /\ comments[j].id \in Nat /\ comments[k].id \in Nat
      BY <2>1, <2>5, <3>1, <3>4, PostedNumbers
    <3>6. ~ (k < j)
      BY <1>2, <3>5 DEF Thread, Numbered
    <3>. QED
      BY <3>3, <3>6
  <2>. QED
    BY <2>6, <2>7
<1>14. C!ReadsComments
  <2>. SUFFICES ASSUME r.since \subseteq C!CommentIds, NEW n \in C!Names,
                       {k \in DOMAIN comments : comments[k].body[1] = n /\ comments[k].id \in r.since} # {}
                PROVE  \E k \in DOMAIN comments :
                         /\ comments[k].body = <<n, env'[c][1].values[n]>>
                         /\ \A j \in {k2 \in DOMAIN comments : comments[k2].body[1] = n /\ comments[k2].id \in r.since} : j <= k
    BY <1>1, <1>10 DEF C!ReadsComments
  <2>1. env'[c][1].values[n] = C!Parsed(r.read, n)
    BY <1>1, <1>8, <1>10, <1>11
  <2>2. PICK b \in DOMAIN comments : comments[b].body[1] = n /\ comments[b].id \in r.since
    OBVIOUS
  <2>3. \E k \in DOMAIN comments :
                /\ comments[k].body = <<n, C!Parsed(r.read, n)>>
                /\ \A j \in DOMAIN comments : comments[j].body[1] = n /\ comments[j].id \in r.since => j <= k
    BY <1>13, <2>2
  <2>. QED
    BY <2>1, <2>3
<1>. QED
  BY <1>4, <1>6, <1>7, <1>12, <1>14, QuietStep

-----------------------------------------------------------------------------
(* pr comment                                                              *)

LEMMA CommentInv == ASSUME CommandInv, NEW c \in DOMAIN commands, C!Comment(c) PROVE CommandInv'
<1>1. PICK r, similar, pc :
        /\ r = proc[c]
        /\ similar = IF commands[c].strategy \in {"create-if-not-exists", "delete-and-create"}
                     THEN C!Similar(c, C!Page(1)) ELSE {}
        /\ pc = IF similar = {} THEN "create" ELSE IF commands[c].strategy = "create-if-not-exists" THEN "done" ELSE "delete"
  OBVIOUS
<1>2. Settled(c, r) /\ WorkTypes /\ Thread /\ r.pc = "idle"
  BY <1>1 DEF CommandInv, C!Comment, C!At
<1>3. PICK q : q = [r EXCEPT !.todo = similar, !.pc = pc]
  OBVIOUS
<1>4. /\ q.pc = pc /\ q.todo = similar /\ q.read = r.read /\ q.since = r.since /\ q.page = r.page
      /\ q = [pc |-> q.pc, todo |-> q.todo, read |-> q.read, since |-> q.since,
              page |-> q.page, local |-> q.local, cloned |-> q.cloned, lease |-> q.lease]
  BY <1>2, <1>3 DEF Settled, Record
<1>5. proc' = [proc EXCEPT ![c] = q]
  BY <1>1, <1>2, <1>3 DEF WorkTypes, C!Comment
<1>6. UNCHANGED <<commands, comments, history, branches, env, ids>> /\ commands[c].kind = "comment"
  BY DEF C!Comment, C!Is
<1>7. comments \in Seq(PostedComment) /\ commands \in Pipelines
  BY <1>2 DEF Thread, ThreadTypes
<1>8. PICK page : page = C!Page(1)
  OBVIOUS
<1>9. /\ \A i \in DOMAIN page : i \in DOMAIN comments /\ page[i] = comments[i]
      /\ \A k \in DOMAIN comments : k <= PageSize => k \in DOMAIN page
  <2>1. (1 - 1) * PageSize = 0 /\ 1 * PageSize = PageSize
    BY SomeOnPage
  <2>2. /\ page \in Seq(PostedComment)
        /\ \A i \in DOMAIN page : 0 + i \in DOMAIN comments /\ page[i] = comments[0 + i]
        /\ \A k \in DOMAIN comments : k > 0 /\ k <= 1 * PageSize => k - 0 \in DOMAIN page
    BY <1>7, <1>8, <2>1, OnPage
  <2>3. DOMAIN page \subseteq Nat \ {0} /\ DOMAIN comments \subseteq Nat \ {0}
    BY <1>7, <2>2, LenProperties
  <2>. QED
    BY <2>1, <2>2, <2>3
<1>10. \A x : x \in C!Similar(c, page) <=> \E i \in DOMAIN page : C!Own(c, page[i]) /\ x = page[i].id
  BY DEF C!Similar, C!Range
<1>11. \A x \in similar : \E k \in DOMAIN comments : C!Own(c, comments[k]) /\ x = comments[k].id
  BY <1>1, <1>8, <1>9, <1>10
<1>12. /\ \A j, k \in DOMAIN comments : comments[j].id = comments[k].id => j = k
       /\ \A k \in DOMAIN comments : comments[k].id \in Nat /\ comments[k].id < ids
  <2>1. \A k \in DOMAIN comments : comments[k].id \in Nat /\ comments[k].id < ids /\ k \in Nat
    BY <1>2, <1>7, PostedNumbers, LenProperties DEF Thread, Numbered
  <2>2. \A j, k \in DOMAIN comments : j < k => comments[j].id < comments[k].id
    BY <1>2 DEF Thread, Numbered
  <2>. QED
    BY <2>1, <2>2
<1>13. commands[c].strategy \in {"create", "create-if-not-exists", "delete-and-create"}
  BY <1>6, <1>7, MCAssumption
<1>14. Record(q)
  <2>1. similar \subseteq Nat /\ \A i \in similar : i < ids
    BY <1>11, <1>12
  <2>. QED
    BY <1>2, <1>4, <2>1 DEF Settled, Record
<1>15. Place(c, q)
  BY <1>1, <1>4, <1>6, <1>13 DEF Place
<1>16. Deleting(c, q)
  BY <1>4, <1>11, <1>12 DEF Deleting
<1>17. Adding(c, q)
  <2>. SUFFICES ASSUME ~ history.crowded, commands[c].strategy # "create", NEW k \in DOMAIN comments, comments[k].from = c
                PROVE  comments[k].id \in similar
    BY <1>1, <1>4 DEF Adding
  <2>1. C!Own(c, comments[k])
    BY <1>2, <1>7, PipelineNames DEF Thread, Authors
  <2>2. k \in DOMAIN page
    <3>1. Len(comments) <= PageSize
      BY <1>2 DEF Thread, Fits
    <3>. QED
      BY <1>7, <1>9, <3>1, SomeOnPage, LenProperties
  <2>3. comments[k].id \in C!Similar(c, page)
    BY <1>9, <1>10, <2>1, <2>2
  <2>. QED
    BY <1>1, <1>8, <1>13, <2>3
<1>18. ShownOf(c, q)
  <2>. SUFFICES ASSUME pc = "done" PROVE C!Comments(c) # {}
    BY <1>4 DEF ShownOf
  <2>1. PICK x : x \in similar
    BY <1>1
  <2>. QED
    BY <1>11, <2>1 DEF C!Comments
<1>19. Settled(c, q)
  BY <1>1, <1>4, <1>14, <1>15, <1>16, <1>17 DEF Settled
<1>20. BranchTypes' /\ EnvTypes' /\ ids \in Nat /\ ids' \in Nat /\ ids <= ids'
  BY <1>6 DEF CommandInv, WorkTypes, BranchTypes, EnvTypes, Thread, ThreadTypes
<1>. QED
  BY <1>5, <1>6, <1>18, <1>19, <1>20, QuietStep


(* Deleting the first of the comments to delete.                           *)
LEMMA DeleteCommentInv == ASSUME CommandInv, NEW c \in DOMAIN commands, C!DeleteComment(c) PROVE CommandInv'
<1>1. PICK r, id : r = proc[c] /\ id = C!Min(r.todo)
  OBVIOUS
<1>2. Settled(c, r) /\ ShownOf(c, r) /\ WorkTypes /\ Thread /\ r.pc = "delete"
  BY <1>1 DEF CommandInv, C!DeleteComment, C!At
<1>3. UNCHANGED <<commands, branches, env, ids>> /\ commands[c].kind = "comment"
  BY <1>2 DEF C!DeleteComment, Settled, Place
<1>4. BranchTypes' /\ EnvTypes' /\ ids \in Nat /\ ids' \in Nat /\ ids <= ids'
  BY <1>3 DEF CommandInv, WorkTypes, BranchTypes, EnvTypes, Thread, ThreadTypes
<1>5. CASE (\A k \in DOMAIN comments : comments[k].id # id) /\ C!Goto(c, "failed") /\ UNCHANGED <<comments, history>>
  <2>1. PICK q : q = [proc[c] EXCEPT !.pc = "failed"]
    OBVIOUS
  <2>2. proc' = [proc EXCEPT ![c] = q]
    BY <1>5, <2>1 DEF C!Goto
  <2>3. Settled(c, q) /\ ShownOf(c, q)
    BY <2>1, Ends
  <2>. QED
    BY <1>3, <1>4, <1>5, <2>2, <2>3, QuietStep
<1>6. CASE /\ \E k \in DOMAIN comments : comments[k].id = id /\ comments' = C!RemoveAt(comments, k)
           /\ proc' = [proc EXCEPT ![c].todo = @ \ {id}, ![c].pc = IF proc[c].todo = {id} THEN "create" ELSE "delete"]
           /\ history' = [history EXCEPT !.replacing = @ \cup {c}]
  <2>1. PICK k \in DOMAIN comments : comments[k].id = id /\ comments' = C!RemoveAt(comments, k)
    BY <1>6
  <2>2. id \in r.todo
    <3>1. r.todo \in SUBSET Nat /\ r.todo # {}
      BY <1>2 DEF Settled, Record, Place
    <3>2. \E i \in r.todo : \A j \in r.todo : i <= j
      BY <3>1, Least
    <3>. QED
      BY <1>1, <3>2, Zenon DEF C!Min
  <2>3. C!Own(c, comments[k])
    BY <1>2, <2>1, <2>2 DEF Settled, Deleting
  <2>4. Removes(c, k)
    BY <1>3, <1>6, <2>1, <2>3 DEF Removes
  <2>5. PICK pc : pc = IF r.todo = {id} THEN "create" ELSE "delete"
    OBVIOUS
  <2>6. PICK q : q = [r EXCEPT !.todo = r.todo \ {id}, !.pc = pc]
    OBVIOUS
  <2>7. /\ q.pc = pc /\ q.todo = r.todo \ {id} /\ q.read = r.read /\ q.since = r.since /\ q.page = r.page
        /\ q = [pc |-> q.pc, todo |-> q.todo, read |-> q.read, since |-> q.since,
                page |-> q.page, local |-> q.local, cloned |-> q.cloned, lease |-> q.lease]
    BY <1>2, <2>6 DEF Settled, Record
  <2>8. proc' = [proc EXCEPT ![c] = q]
    BY <1>1, <1>2, <1>6, <2>5, <2>6 DEF WorkTypes, Settled, Record
  <2>9. Thread' /\ Settled(c, r)' /\ ShownOf(c, r)'
    BY <1>2, <2>4, RemovedThread, RemovedSettled, RemovedShown
  <2>10. commands[c].strategy = "delete-and-create"
    BY <1>2 DEF Settled, Place
  <2>11. \A j \in DOMAIN comments' : comments'[j].id # id
    <3>1. \A i \in DOMAIN comments' : Was(i, k) \in DOMAIN comments /\ comments'[i] = comments[Was(i, k)]
      BY <1>2, <2>4, RemovedComment DEF Thread
    <3>2. \A i, j \in DOMAIN comments : comments[i].id = comments[j].id => i = j
      <4>1. DOMAIN comments \subseteq Nat /\ \A i \in DOMAIN comments : comments[i].id \in Nat
        BY <1>2, PostedNumbers, LenProperties DEF Thread, ThreadTypes
      <4>. QED
        BY <1>2, <4>1 DEF Thread, Numbered
    <3>3. DOMAIN comments' \subseteq Nat /\ DOMAIN comments \subseteq Nat
      BY <1>2, <2>4, RemovedComment DEF Thread
    <3>4. \A i \in DOMAIN comments' : Was(i, k) # k
      BY <3>3 DEF Was
    <3>. QED
      BY <2>1, <3>1, <3>2, <3>4
  <2>12. Settled(c, q)'
    <3>1. Record(q)'
      BY <2>7, <2>9 DEF Settled, Record
    <3>2. Place(c, q)'
      BY <1>3, <2>2, <2>5, <2>7, <2>10 DEF Place
    <3>3. Deleting(c, q)'
      BY <2>7, <2>9 DEF Settled, Deleting
    <3>4. Adding(c, q)'
      <4>. SUFFICES ASSUME ~ history'.crowded, commands[c].strategy # "create", NEW j \in DOMAIN comments', comments'[j].from = c
                    PROVE  pc # "create" /\ comments'[j].id \in r.todo \ {id}
        BY <1>3, <2>7 DEF Adding
      <4>1. comments'[j].id \in r.todo
        BY <1>2, <1>3, <2>9 DEF Settled, Adding
      <4>. QED
        BY <2>5, <2>11, <4>1
    <3>. QED
      BY <2>5, <2>7, <3>1, <3>2, <3>3, <3>4 DEF Settled
  <2>13. ShownOf(c, q)'
    BY <2>5, <2>7 DEF ShownOf
  <2>14. \A d \in DOMAIN commands : \A s : d # c /\ s = proc[d] => Settled(d, s)' /\ ShownOf(d, s)'
    <3>. SUFFICES ASSUME NEW d \in DOMAIN commands, NEW s, s = proc[d] PROVE Settled(d, s)' /\ ShownOf(d, s)'
      OBVIOUS
    <3>1. Settled(d, s) /\ ShownOf(d, s)
      BY DEF CommandInv
    <3>. QED
      BY <1>2, <2>4, <3>1, RemovedSettled, RemovedShown
  <2>. QED
    BY <1>2, <1>3, <1>4, <2>8, <2>9, <2>12, <2>13, <2>14, OneMoves
<1>. QED
  BY <1>1, <1>5, <1>6 DEF C!DeleteComment

(* Creating the comment.                                                   *)
LEMMA CreateCommentInv == ASSUME CommandInv, NEW c \in DOMAIN commands, C!CreateComment(c) PROVE CommandInv'
<1>1. PICK r : r = proc[c]
  OBVIOUS
<1>2. Settled(c, r) /\ WorkTypes /\ Thread /\ r.pc = "create"
  BY <1>1 DEF CommandInv, C!CreateComment, C!At
<1>3. UNCHANGED <<commands, branches, env>> /\ commands[c].kind = "comment" /\ C!AddComment(Bot, commands[c].body, c)
  BY <1>2 DEF C!CreateComment, Settled, Place
<1>4. Poster(Bot, commands[c].body, c)
  BY <1>3 DEF Poster
<1>5. BranchTypes' /\ EnvTypes'
  BY <1>2, <1>3 DEF WorkTypes, BranchTypes, EnvTypes
<1>6. PICK p \in {"done", "failed"} : proc' = [proc EXCEPT ![c].pc = p]
  BY DEF C!CreateComment, C!Answered, C!Goto
<1>7. PICK q : q = [r EXCEPT !.pc = p]
  OBVIOUS
<1>8. /\ q.pc = p /\ q.todo = r.todo /\ q.read = r.read /\ q.since = r.since /\ q.page = r.page
      /\ q = [pc |-> q.pc, todo |-> q.todo, read |-> q.read, since |-> q.since,
              page |-> q.page, local |-> q.local, cloned |-> q.cloned, lease |-> q.lease]
  BY <1>2, <1>7 DEF Settled, Record
<1>9. proc' = [proc EXCEPT ![c] = q]
  BY <1>1, <1>6, <1>7
<1>10. Settled(c, q)
  <2>1. Record(q)
    BY <1>2, <1>8 DEF Settled, Record
  <2>2. Place(c, q) /\ Deleting(c, q) /\ Adding(c, q)
    BY <1>2, <1>8 DEF Settled, Place, Deleting, Adding
  <2>. QED
    BY <1>8, <2>1, <2>2 DEF Settled
<1>11. c # None
  BY <1>2, PipelineNames DEF Thread, ThreadTypes
<1>12. commands[c].strategy # "create" /\ ~ history.crowded => \A k \in DOMAIN comments : comments[k].from # c
  BY <1>2, <1>3 DEF Settled, Adding
<1>13. Thread'
  BY <1>2, <1>3, <1>4, <1>12, AddedThread
<1>14. Settled(c, q)' /\ ShownOf(c, q)'
  <2>1. q.pc \notin {"create", "delete"}
    BY <1>8
  <2>. QED
    BY <1>2, <1>3, <1>4, <1>10, <2>1, AddedSettled, AddedShown
<1>15. \A d \in DOMAIN commands : \A s : d # c /\ s = proc[d] => Settled(d, s)' /\ ShownOf(d, s)'
  <2>. SUFFICES ASSUME NEW d \in DOMAIN commands, NEW s, d # c, s = proc[d] PROVE Settled(d, s)' /\ ShownOf(d, s)'
    OBVIOUS
  <2>1. Settled(d, s) /\ ShownOf(d, s)
    BY DEF CommandInv
  <2>. QED
    BY <1>2, <1>3, <1>4, <2>1, AddedSettled, AddedShown
<1>. QED
  BY <1>2, <1>3, <1>5, <1>9, <1>13, <1>14, <1>15, OneMoves

-----------------------------------------------------------------------------
(* People.                                                                 *)

LEMMA NobodyMoves ==
  ASSUME WorkTypes, UNCHANGED <<commands, proc, env>>, Thread', BranchTypes',
         \A d \in DOMAIN commands : \A r : r = proc[d] => Settled(d, r)' /\ ShownOf(d, r)'
  PROVE  CommandInv'
<1>1. WorkTypes'
  BY DEF WorkTypes, BranchTypes
<1>2. ASSUME NEW d \in DOMAIN commands PROVE Settled(d, proc[d])' /\ ShownOf(d, proc[d])'
  <2>1. PICK r : r = proc[d]
    OBVIOUS
  <2>2. Settled(d, r)' /\ ShownOf(d, r)' /\ r = proc'[d]
    BY <2>1
  <2>3. Record(r)' /\ Place(d, r)' /\ Deleting(d, r)' /\ Adding(d, r)' /\ (r.pc \in {"page", "write"} => Reading(r)' /\ Covered(r)')
    BY <2>2 DEF Settled
  <2>4. Record(proc[d])' /\ Place(d, proc[d])'
    BY <2>2, <2>3 DEF Record, Place
  <2>5. Deleting(d, proc[d])' /\ Adding(d, proc[d])'
    BY <2>2, <2>3 DEF Deleting, Adding
  <2>6. proc[d]'.pc \in {"page", "write"} => Reading(proc[d])'
    BY <2>2, <2>3 DEF Reading, Before
  <2>7. proc[d]'.pc \in {"page", "write"} => Covered(proc[d])'
    BY <2>2, <2>3 DEF Covered, Before
  <2>8. Settled(d, proc[d])'
    BY <2>4, <2>5, <2>6, <2>7 DEF Settled
  <2>9. ShownOf(d, proc[d])'
    BY <2>2, <2>2 DEF ShownOf
  <2>. QED
    BY <2>8, <2>9
<1>. QED
  BY <1>1, <1>2 DEF CommandInv

(* People write comments.                                                  *)
LEMMA WriteInv == ASSUME CommandInv, NEW body \in People, C!Write(body) PROVE CommandInv'
<1>1. WorkTypes /\ Thread
  BY DEF CommandInv
<1>2. UNCHANGED <<commands, proc, env, branches>> /\ C!AddComment("someone", body, None)
  BY DEF C!Write, C!Event
<1>3. Poster("someone", body, None)
  BY DEF Poster
<1>4. Thread'
  BY <1>1, <1>2, <1>3, AddedThread
<1>5. \A d \in DOMAIN commands : \A r : r = proc[d] => Settled(d, r)' /\ ShownOf(d, r)'
  <2>. SUFFICES ASSUME NEW d \in DOMAIN commands, NEW r, r = proc[d] PROVE Settled(d, r)' /\ ShownOf(d, r)'
    OBVIOUS
  <2>1. Settled(d, r) /\ ShownOf(d, r)
    BY DEF CommandInv
  <2>2. d # None
    BY <1>1, PipelineNames DEF Thread, ThreadTypes
  <2>. QED
    BY <1>1, <1>2, <1>3, <2>1, <2>2, AddedSettled, AddedShown
<1>6. BranchTypes'
  BY <1>1, <1>2 DEF WorkTypes, BranchTypes
<1>. QED
  BY <1>1, <1>2, <1>4, <1>5, <1>6, NobodyMoves

(* Steps that change nothing but the branches, the labels and the next     *)
(* number.                                                                 *)
LEMMA ElsewhereInv ==
  ASSUME CommandInv, UNCHANGED <<commands, comments, history, proc, env>>, ids' \in Nat, ids <= ids', BranchTypes'
  PROVE  CommandInv'
<1>1. WorkTypes /\ Thread
  BY DEF CommandInv
<1>2. \A d \in DOMAIN commands : \A r : r = proc[d] => Settled(d, r)' /\ ShownOf(d, r)'
  <2>. SUFFICES ASSUME NEW d \in DOMAIN commands, NEW r, r = proc[d] PROVE Settled(d, r)' /\ ShownOf(d, r)'
    OBVIOUS
  <2>1. Settled(d, r) /\ ShownOf(d, r)
    BY DEF CommandInv
  <2>. QED
    BY <1>1, <2>1, SameComments
<1>3. Thread'
  BY <1>1, SameComments
<1>. QED
  BY <1>1, <1>2, <1>3, NobodyMoves

(* People set labels and push commits.                                     *)
LEMMA PeopleInv ==
  ASSUME CommandInv, (\E l \in {"deployed", "ready"} : C!SetLabel(l)) \/ (\E b \in DOMAIN branches : C!PushCommit(b))
  PROVE  CommandInv' /\ (\A b \in DOMAIN branches : branches[b] \subseteq branches'[b])
<1>1. BranchTypes /\ ids \in Nat
  BY DEF CommandInv, WorkTypes, BranchTypes, Thread, ThreadTypes
<1>2. CASE \E l \in {"deployed", "ready"} : C!SetLabel(l)
  <2>1. UNCHANGED <<commands, comments, history, proc, env, branches, ids>>
    BY <1>2 DEF C!SetLabel, C!Event
  <2>2. BranchTypes' /\ ids' \in Nat /\ ids <= ids'
    BY <1>1, <2>1 DEF BranchTypes
  <2>. QED
    BY <2>1, <2>2, ElsewhereInv
<1>3. CASE \E b \in DOMAIN branches : C!PushCommit(b)
  <2>1. PICK b \in DOMAIN branches : branches' = [branches EXCEPT ![b] = @ \cup {ids}]
    BY <1>3 DEF C!PushCommit
  <2>2. UNCHANGED <<commands, comments, history, proc, env>> /\ ids' = ids + 1
    BY <1>3 DEF C!PushCommit, C!Event
  <2>3. BranchTypes' /\ \A a \in DOMAIN branches : branches[a] \subseteq branches'[a]
    BY <1>1, <2>1 DEF BranchTypes
  <2>4. ids' \in Nat /\ ids <= ids'
    BY <1>1, <2>2
  <2>. QED
    BY <2>2, <2>3, <2>4, ElsewhereInv
<1>. QED
  BY <1>2, <1>3

(* At first nothing runs and nothing is written.                           *)
LEMMA CommandInit == C!Init => CommandInv
<1>. SUFFICES ASSUME C!Init PROVE CommandInv
  OBVIOUS
<1>1. /\ commands \in Pipelines /\ comments = <<>> /\ history = [crowded |-> FALSE, replacing |-> {}] /\ ids = 1
      /\ branches = [pr |-> {0}, base |-> {}] /\ env = [c \in DOMAIN commands |-> <<>>]
      /\ proc = [c \in DOMAIN commands |-> C!Idle]
  BY DEF C!Init
<1>2. DOMAIN comments = {} /\ Len(comments) = 0 /\ comments \in Seq(PostedComment)
  BY <1>1
<1>3. Thread
  BY <1>1, <1>2, SomeOnPage DEF Thread, ThreadTypes, Numbered, Authors, Fits, C!CommentedOnce
<1>4. WorkTypes
  <2>1. IsSequence(<<>>)
    <3>1. <<>> \in Seq(Nat)
      OBVIOUS
    <3>. QED
      BY <3>1 DEF IsSequence
  <2>. QED
    BY <1>1, <2>1 DEF WorkTypes
<1>5. ASSUME NEW c \in DOMAIN commands PROVE Settled(c, proc[c]) /\ ShownOf(c, proc[c])
  <2>1. Record(C!Idle)
    <3>1. C!Idle.read = <<>> /\ <<>> \in Seq(PostedComment) /\ DOMAIN <<>> = {}
      BY DEF C!Idle
    <3>. QED
      BY <1>1, <3>1 DEF Record, C!Idle
  <2>2. proc[c] = C!Idle
    BY <1>1
  <2>. QED
    BY <2>1, <2>2 DEF Settled, ShownOf, Place, Deleting, Adding, C!Idle
<1>. QED
  BY <1>3, <1>4, <1>5 DEF CommandInv

(* Most steps neither push nor write variables.                            *)
LEMMA QuietProperties ==
  /\ CommandInv /\ (\A b \in DOMAIN branches : branches[b] \subseteq branches'[b]) => C!KeepsUnseen
  /\ UNCHANGED env => C!ReadsComments
<1>1. UNCHANGED env => C!ReadsComments
  BY DEF C!ReadsComments
<1>2. (\A b \in DOMAIN branches : branches[b] \subseteq branches'[b]) => C!KeepsUnseen
  BY DEF C!KeepsUnseen
<1>. QED
  BY <1>1, <1>2

(* Every step keeps the invariant, and does what the action properties     *)
(* say.                                                                    *)
LEMMA CommandNext == CommandInv /\ C!Next => CommandInv' /\ C!KeepsUnseen /\ C!ReadsComments
<1>. SUFFICES ASSUME CommandInv, C!Next PROVE CommandInv' /\ C!KeepsUnseen /\ C!ReadsComments
  OBVIOUS
<1>1. CASE \E body \in People : C!Write(body)
  <2>1. UNCHANGED <<branches, env>>
    BY <1>1 DEF C!Write, C!Event
  <2>. QED
    BY <1>1, <2>1, WriteInv, QuietProperties
<1>2. CASE (\E l \in {"deployed", "ready"} : C!SetLabel(l)) \/ (\E b \in DOMAIN branches : C!PushCommit(b))
  <2>1. UNCHANGED env
    BY <1>2 DEF C!SetLabel, C!PushCommit, C!Event
  <2>. QED
    BY <1>2, <2>1, PeopleInv, QuietProperties
<1>3. ASSUME NEW c \in DOMAIN commands, C!RunNext(c) PROVE CommandInv' /\ C!KeepsUnseen /\ C!ReadsComments
  <2>1. CASE C!Comment(c) \/ C!DeleteComment(c) \/ C!CreateComment(c)
    <3>1. UNCHANGED <<branches, env>>
      BY <2>1 DEF C!Comment, C!DeleteComment, C!CreateComment
    <3>. QED
      BY <2>1, <3>1, CommentInv, DeleteCommentInv, CreateCommentInv, QuietProperties
  <2>2. CASE C!Label(c) \/ C!AddLabel(c)
    <3>1. UNCHANGED <<branches, env>>
      BY <2>2 DEF C!Label, C!AddLabel
    <3>. QED
      BY <2>2, <3>1, LabelInv, AddLabelInv, QuietProperties
  <2>3. CASE C!Clone(c) \/ C!Discover(c) \/ C!loadPRComments(c)
    <3>1. UNCHANGED <<branches, env>>
      BY <2>3 DEF C!Clone, C!Discover, C!loadPRComments
    <3>. QED
      BY <2>3, <3>1, CloneInv, DiscoverInv, LoadInv, QuietProperties
  <2>4. CASE C!Push(c)
    <3>1. UNCHANGED env
      BY <2>4 DEF C!Push
    <3>. QED
      BY <2>4, <3>1, PushInv, QuietProperties
  <2>5. CASE C!WriteVariables(c)
    <3>1. UNCHANGED branches
      BY <2>5 DEF C!WriteVariables
    <3>. QED
      BY <2>5, <3>1, WriteVariablesInv, QuietProperties
  <2>6. CASE C!Fail(c) \/ C!Rerun(c)
    <3>1. UNCHANGED <<branches, env>>
      BY <2>6 DEF C!Fail, C!Rerun
    <3>. QED
      BY <2>6, <3>1, FailInv, RerunInv, QuietProperties
  <2>. QED
    BY <1>3, <2>1, <2>2, <2>3, <2>4, <2>5, <2>6 DEF C!RunNext
<1>. QED
  BY <1>1, <1>2, <1>3 DEF C!Next

CommandsInv == part = "commands" => CommandInv

(* The same for the part of the runs that this is,                         *)
LEMMA CommandsNext == CommandsInv /\ [MCNext]_mcvars => CommandsInv'
<1>. SUFFICES ASSUME CommandInv, part = "commands", [MCNext]_mcvars PROVE CommandInv'
  BY DEF CommandsInv, MCNext, mcvars
<1>1. CASE MCNext
  BY <1>1, CommandNext DEF MCNext
<1>2. CASE UNCHANGED mcvars
  <2>1. UNCHANGED <<commands, comments, history, proc, env, branches, ids>>
    BY <1>2 DEF mcvars
  <2>2. BranchTypes' /\ ids' \in Nat /\ ids <= ids'
    BY <2>1 DEF CommandInv, WorkTypes, BranchTypes, Thread, ThreadTypes
  <2>. QED
    BY <2>1, <2>2, ElsewhereInv
<1>. QED
  BY <1>1, <1>2

(* so that it always holds.                                                *)
LEMMA CommandsAlways == MCSpec => []CommandsInv
<1>1. MCInit => CommandsInv
  BY CommandInit DEF MCInit, CommandsInv
<1>. QED
  BY <1>1, CommandsNext, PTL DEF MCSpec

(* Whatever calls fail, answers are lost and pipelines overlap and run     *)
(* again: while the comments fit on a page a pipeline has one comment, and *)
(* the comment of one that ended well is shown or being replaced           *)
(* (pkg/cmd/pr/comment).                                                   *)
THEOREM CommentsOnce == MCSpec => []Commented
<1>1. CommandsInv => Commented
  BY DEF CommandsInv, CommandInv, Thread, Commented, C!Commented, C!Shown, ShownOf, C!Is, C!At
<1>. QED
  BY <1>1, CommandsAlways, PTL

(* No push of a pipeline drops a commit that its workspace has not seen    *)
(* (pkg/cmd/pr/push).                                                      *)
THEOREM PushesKeepUnseen == MCSpec => PushKeepsUnseen
<1>1. CommandsInv /\ [MCNext]_mcvars => [part = "commands" => C!KeepsUnseen]_mcvars
  BY CommandNext DEF CommandsInv, MCNext
<1>. QED
  BY <1>1, CommandsAlways, PTL DEF MCSpec, PushKeepsUnseen

(* The variables take account of every comment that was there when the     *)
(* command started and still is, however the pages shift while it reads    *)
(* them (pkg/cmd/pr/variables).                                            *)
THEOREM ReadsAllComments == MCSpec => CommentsRead
<1>1. CommandsInv /\ [MCNext]_mcvars => [part = "commands" => C!ReadsComments]_mcvars
  BY CommandNext DEF CommandsInv, MCNext
<1>. QED
  BY <1>1, CommandsAlways, PTL DEF MCSpec, CommentsRead


-----------------------------------------------------------------------------
(* The variables of a pipeline.                                            *)

(* What the repository has, and what one pipeline may generate.            *)
BlocksOf(pipeline) == Local \cup {V!Factories(w) : w \in {u \in Worlds : V!Pipeline(u) = pipeline}}

(* The file has what the repository has and what was generated.            *)
FileInv ==
  /\ world \in Worlds
  /\ file \in Seq(BlocksOf(V!Pipeline(world)))

(* At first the file has what the repository has,                          *)
LEMMA FileInit == V!Init => FileInv
<1>. SUFFICES ASSUME V!Init PROVE FileInv
  OBVIOUS
<1>. DEFINE Blocks == BlocksOf(V!Pipeline(world))
<1>1. world \in Worlds /\ (file = <<>> \/ \E b \in Blocks : file = <<b>>)
  BY DEF V!Init, BlocksOf
<1>. HIDE DEF Blocks
<1>2. CASE file = <<>>
  <2>1. file \in Seq(Blocks)
    BY <1>2, EmptySeq
  <2>. QED
    BY <1>1, <2>1 DEF FileInv, Blocks
<1>3. CASE \E b \in Blocks : file = <<b>>
  <2>1. file \in Seq(Blocks)
    BY <1>3
  <2>. QED
    BY <1>1, <2>1 DEF FileInv, Blocks
<1>. QED
  BY <1>1, <1>2, <1>3

(* and each run adds a block.                                              *)
LEMMA FileNext == FileInv /\ V!Next => FileInv'
<1>. SUFFICES ASSUME FileInv, V!Next PROVE FileInv'
  OBVIOUS
<1>. DEFINE Blocks == BlocksOf(V!Pipeline(world))
<1>1. CASE V!Change
  <2>1. V!Pipeline(world') = V!Pipeline(world) /\ world' \in Worlds /\ file' = file
    BY <1>1 DEF V!Change
  <2>. QED
    BY <2>1 DEF FileInv
<1>2. CASE V!Run
  <2>1. world' = world /\ (file' = file \/ file' = <<V!Factories(world)>> \o file)
    BY <1>2 DEF V!Run, V!Generated
  <2>2. V!Factories(world) \in Blocks /\ file \in Seq(Blocks)
    BY DEF FileInv, BlocksOf
  <2>. HIDE DEF Blocks
  <2>3. <<V!Factories(world)>> \o file \in Seq(Blocks)
    BY <2>2, ConcatProperties
  <2>4. file' \in Seq(Blocks)
    BY <2>1, <2>2, <2>3
  <2>. QED
    BY <2>1, <2>4 DEF FileInv, Blocks
<1>. QED
  BY <1>1, <1>2 DEF V!Next

(* Of the blocks that set a variable, the last one counts.                 *)
Setting(f, n) == {k \in DOMAIN f : n \in DOMAIN f[k] /\ f[k][n] # None}

(* The value is that of the last block that sets the variable;             *)
LEMMA SourcedLast ==
  ASSUME NEW S, NEW f \in Seq(S), NEW n, NEW k \in Setting(f, n), \A j \in Setting(f, n) : j <= k
  PROVE  V!Sourced(f, n) = f[k][n]
<1>1. DOMAIN f \subseteq Nat
  BY LenProperties
<1>2. Setting(f, n) \subseteq Nat /\ Setting(f, n) # {}
  BY <1>1 DEF Setting
<1>3. V!Sourced(f, n) = f[CHOOSE i \in Setting(f, n) : \A j \in Setting(f, n) : j <= i][n]
  BY <1>2, Zenon DEF V!Sourced, Setting
<1>4. \A i \in Setting(f, n) : (\A j \in Setting(f, n) : j <= i) => i = k
  BY <1>2
<1>5. (CHOOSE i \in Setting(f, n) : \A j \in Setting(f, n) : j <= i) = k
  BY <1>4, Zenon
<1>. QED
  BY <1>3, <1>5

(* a variable with a value has such a block.                               *)
LEMMA SettingLast ==
  ASSUME NEW S, NEW f \in Seq(S), NEW n, V!Sourced(f, n) # None
  PROVE  \E k \in Setting(f, n) : \A j \in Setting(f, n) : j <= k
<1>1. Setting(f, n) # {}
  BY DEF V!Sourced, Setting
<1>2. PICK m \in Nat : DOMAIN f = 1 .. m
  BY LenProperties
<1>3. Setting(f, n) \in SUBSET (1 .. m)
  BY <1>2 DEF Setting
<1>. QED
  BY <1>1, <1>3, Greatest

(* A block in front of the others takes no value from them.                *)
LEMMA ValuesKept == FileInv /\ V!Next => V!KeepsValues
<1>. SUFFICES ASSUME FileInv, V!Next, NEW n, V!Sourced(file, n) # None PROVE V!Sourced(file', n) = V!Sourced(file, n)
  BY DEF V!KeepsValues
<1>. DEFINE Blocks == BlocksOf(V!Pipeline(world))
<1>1. file \in Seq(Blocks) /\ file' \in Seq(Blocks)
  <2>1. V!Pipeline(world') = V!Pipeline(world)
    BY DEF V!Next, V!Change, V!Run
  <2>. QED
    BY <2>1, FileNext DEF FileInv
<1>2. CASE V!Change
  BY <1>2 DEF V!Change
<1>3. CASE V!Run
  <2>. PICK b : b = V!Factories(world)
    OBVIOUS
  <2>1. CASE file' = file
    BY <2>1
  <2>2. CASE file' = <<b>> \o file
    <3>1. b \in Blocks
      BY DEF FileInv, BlocksOf
    <3>. HIDE DEF Blocks
    <3>2. PICK m \in Nat : m = Len(file) /\ DOMAIN file = 1 .. m
      BY <1>1, LenProperties
    <3>3. DOMAIN file' = 1 .. m + 1 /\ \A i \in 1 .. m : file'[i + 1] = file[i]
      <4>1. <<b>> \in Seq(Blocks) /\ Len(<<b>>) = 1
        BY <3>1
      <4>2. /\ Len(file') = 1 + m
            /\ \A i \in 1 .. 1 + m : file'[i] = IF i <= 1 THEN <<b>>[i] ELSE file[i - 1]
        BY <1>1, <2>2, <3>2, <4>1, ConcatProperties
      <4>3. \A i \in 1 .. m : i + 1 \in 1 .. 1 + m /\ ~ (i + 1 <= 1) /\ (i + 1) - 1 = i
        OBVIOUS
      <4>. QED
        BY <1>1, <4>2, <4>3, LenProperties
    <3>4. PICK k \in Setting(file, n) : \A j \in Setting(file, n) : j <= k
      BY <1>1, SettingLast
    <3>5. k \in 1 .. m /\ n \in DOMAIN file[k] /\ file[k][n] # None
      BY <3>2, <3>4 DEF Setting
    <3>6. k + 1 \in Setting(file', n)
      BY <3>3, <3>5 DEF Setting
    <3>7. ASSUME NEW j \in Setting(file', n) PROVE j <= k + 1
      <4>1. j \in 1 .. m + 1 /\ n \in DOMAIN file'[j] /\ file'[j][n] # None
        BY <3>3 DEF Setting
      <4>2. CASE j = 1
        BY <3>5, <4>2
      <4>3. CASE j # 1
        <5>1. j - 1 \in 1 .. m /\ (j - 1) + 1 = j
          BY <4>1, <4>3
        <5>2. j - 1 \in Setting(file, n)
          <6>1. file'[j] = file[j - 1]
            BY <3>3, <5>1
          <6>. QED
            BY <3>2, <4>1, <5>1, <6>1 DEF Setting
        <5>. QED
          BY <3>4, <3>5, <5>1, <5>2
      <4>. QED
        BY <4>2, <4>3
    <3>8. V!Sourced(file, n) = file[k][n] /\ V!Sourced(file', n) = file'[k + 1][n]
      BY <1>1, <3>4, <3>6, <3>7, SourcedLast
    <3>. QED
      BY <3>3, <3>5, <3>8
  <2>. QED
    BY <1>3, <2>1, <2>2 DEF V!Run, V!Generated
<1>. QED
  BY <1>2, <1>3 DEF V!Next

(* The ConfigMap changes nothing of the other variables.                   *)
LEMMA FactoriesAre ==
  ASSUME NEW w
  PROVE  LET b == V!Factories(w)
         IN /\ b.APP_NAME = w.repo /\ b.BUILD_NUMBER = w.build
            /\ b.DOCKERFILE_PATH = V!FindDockerfilePath(w)
            /\ b.DOCKER_REGISTRY = V!dockerRegistry(w) /\ b.DOCKER_REGISTRY_ORG = V!dockerRegistryOrg(w)
            /\ b.MINK_IMAGE = V!minkImage(w) /\ b.PIPELINE_KIND = V!FindPipelineKind(w) /\ b.VERSION = V!FindVersion(w)
<1>. DEFINE names == {"APP_NAME", "BUILD_NUMBER", "DOCKERFILE_PATH", "DOCKER_REGISTRY", "DOCKER_REGISTRY_ORG",
                      "MINK_IMAGE", "PIPELINE_KIND", "VERSION"}
            g == V!Functions(w)
<1>1. /\ g.APP_NAME = w.repo /\ g.BUILD_NUMBER = w.build
      /\ g.DOCKERFILE_PATH = V!FindDockerfilePath(w)
      /\ g.DOCKER_REGISTRY = V!dockerRegistry(w) /\ g.DOCKER_REGISTRY_ORG = V!dockerRegistryOrg(w)
      /\ g.MINK_IMAGE = V!minkImage(w) /\ g.PIPELINE_KIND = V!FindPipelineKind(w) /\ g.VERSION = V!FindVersion(w)
      /\ names \subseteq DOMAIN g
  BY DEF V!Functions
<1>. HIDE DEF g
<1>2. \A n \in names : V!Factories(w)[n] = g[n]
  BY <1>1 DEF V!Factories, g
<1>. QED
  BY <1>1, <1>2

(* A variable once set stays, whatever is found later.                     *)
LEMMA FileStep == (part = "variables" => FileInv) /\ [MCNext]_mcvars => (part = "variables" => FileInv)'
<1>. SUFFICES ASSUME part = "variables" => FileInv, [MCNext]_mcvars, part' = "variables" PROVE FileInv'
  OBVIOUS
<1>1. part = "variables"
  BY DEF MCNext, mcvars
<1>2. CASE V!Next
  BY <1>1, <1>2, FileNext
<1>3. CASE UNCHANGED mcvars
  BY <1>1, <1>3 DEF mcvars, FileInv
<1>. QED
  BY <1>1, <1>2, <1>3 DEF MCNext

(* The invariant of the file always holds.                                 *)
LEMMA FileAlways == MCSpec => [](part = "variables" => FileInv)
<1>1. MCInit => (part = "variables" => FileInv)
  BY FileInit DEF MCInit
<1>. QED
  BY <1>1, FileStep, PTL DEF MCSpec

(* Theorem about the file of variables (pkg/cmd/variables): whatever       *)
(* changes and however often the command runs again, a variable that the   *)
(* steps of the pipeline have keeps its value.                             *)
THEOREM VariablesKeepValues == MCSpec => ValuesStay
<1>1. (part = "variables" => FileInv) /\ [MCNext]_mcvars => [part = "variables" => V!KeepsValues]_mcvars
  <2>. SUFFICES ASSUME part = "variables" => FileInv, MCNext, part = "variables" PROVE V!KeepsValues
    BY DEF mcvars
  <2>. QED
    BY ValuesKept DEF MCNext
<1>. QED
  BY <1>1, FileAlways, PTL DEF MCSpec, ValuesStay

(* The versions of snapshots of pull requests.                             *)
Snapshots == {<<"snapshot", x, v.build>> : x \in PrBranches \cup {u.pull : u \in Worlds}, v \in Worlds}

(* What is generated agrees.                                               *)
LEMMA Agreeing ==
  ASSUME NEW w \in Worlds
  PROVE  LET b == V!Factories(w)
         IN /\ b.MINK_IMAGE = <<b.DOCKER_REGISTRY, b.DOCKER_REGISTRY_ORG, Dashed(b.APP_NAME), b.VERSION>>
            /\ b.PIPELINE_KIND \in {"release", "pullrequest"}
            /\ b.PIPELINE_KIND = "release" =>
                 b.VERSION \notin Snapshots /\ b.DOCKERFILE_PATH = "Dockerfile"
<1>1. PICK b : b = V!Factories(w)
  OBVIOUS
<1>2. \A v \in Worlds, x \in PrBranches \cup {u.pull : u \in Worlds} :
        <<"snapshot", x, v.build>> \notin {w.versionFile, w.versionEnv}
  BY MCAssumption
<1>3. /\ b.MINK_IMAGE = V!minkImage(w) /\ b.DOCKER_REGISTRY = V!dockerRegistry(w)
      /\ b.DOCKER_REGISTRY_ORG = V!dockerRegistryOrg(w) /\ b.APP_NAME = w.repo
      /\ b.PIPELINE_KIND = V!FindPipelineKind(w) /\ b.VERSION = V!FindVersion(w)
      /\ b.DOCKERFILE_PATH = V!FindDockerfilePath(w)
  BY <1>1, FactoriesAre
<1>4. b.MINK_IMAGE = <<b.DOCKER_REGISTRY, b.DOCKER_REGISTRY_ORG, Dashed(b.APP_NAME), b.VERSION>>
  BY <1>3 DEF V!minkImage
<1>5. b.PIPELINE_KIND \in {"release", "pullrequest"}
  BY <1>3 DEF V!FindPipelineKind
<1>6. ASSUME b.PIPELINE_KIND = "release" PROVE b.VERSION \notin Snapshots /\ b.DOCKERFILE_PATH = "Dockerfile"
  <2>1. V!FindPipelineKind(w) = "release"
    BY <1>3, <1>6
  <2>2. /\ V!FindVersion(w) \in {w.versionFile, w.versionEnv, None}
        /\ V!FindVersion(w) = None => None \in {w.versionFile, w.versionEnv}
        /\ V!FindDockerfilePath(w) = "Dockerfile"
    BY <2>1 DEF V!FindPipelineKind, V!FindVersion, V!FindDockerfilePath, V!OrElse
  <2>3. w.versionFile \notin Snapshots /\ w.versionEnv \notin Snapshots
    BY <1>2 DEF Snapshots
  <2>4. V!FindVersion(w) \notin Snapshots
    BY <2>2, <2>3
  <2>. QED
    BY <1>3, <2>2, <2>4
<1>7. /\ b.MINK_IMAGE = <<b.DOCKER_REGISTRY, b.DOCKER_REGISTRY_ORG, Dashed(b.APP_NAME), b.VERSION>>
      /\ b.PIPELINE_KIND \in {"release", "pullrequest"}
      /\ b.PIPELINE_KIND = "release" => b.VERSION \notin Snapshots /\ b.DOCKERFILE_PATH = "Dockerfile"
  BY <1>4, <1>5, <1>6
<1>. QED
  BY <1>1, <1>7

(* The kind is that of the pipeline: all runs of the command find the same.*)
LEMMA OneKind ==
  ASSUME NEW v \in Worlds, NEW w \in Worlds, V!Pipeline(v) = V!Pipeline(w)
  PROVE  V!Factories(v).PIPELINE_KIND = V!Factories(w).PIPELINE_KIND
<1>1. v.branch = w.branch /\ v.jobType = w.jobType /\ v.pull = w.pull
  BY DEF V!Pipeline
<1>. QED
  BY <1>1, FactoriesAre DEF V!FindPipelineKind

(* Every generated block is one of the pipeline.                           *)
LEMMA BlockOf ==
  ASSUME FileInv, NEW k \in DOMAIN file, file[k] \notin Local
  PROVE  \E w \in Worlds : V!Pipeline(w) = V!Pipeline(world) /\ file[k] = V!Factories(w)
<1>. DEFINE Blocks == BlocksOf(V!Pipeline(world))
<1>1. file \in Seq(Blocks)
  BY DEF FileInv
<1>. HIDE DEF Blocks
<1>2. file[k] \in Blocks
  BY <1>1, LenProperties, ElementOfSeq
<1>. QED
  BY <1>2 DEF Blocks, BlocksOf

(* A name that the repository does not set has the value of a generated    *)
(* block, or no block sets it.                                             *)
LEMMA SourcedOf ==
  ASSUME FileInv, NEW n, \A j \in DOMAIN file : file[j] \in Local => n \notin DOMAIN file[j]
  PROVE  \/ V!Sourced(file, n) = None /\ Setting(file, n) = {}
         \/ \E j \in Setting(file, n) : file[j] \notin Local /\ V!Sourced(file, n) = file[j][n]
<1>1. PICK S : S = BlocksOf(V!Pipeline(world))
  OBVIOUS
<1>2. file \in Seq(S)
  BY <1>1 DEF FileInv
<1>3. CASE Setting(file, n) = {}
  BY <1>3 DEF V!Sourced, Setting
<1>4. CASE Setting(file, n) # {}
  <2>1. PICK m \in Nat : DOMAIN file = 1 .. m
    BY <1>2, LenProperties
  <2>2. Setting(file, n) \in SUBSET (1 .. m)
    BY <2>1 DEF Setting
  <2>3. PICK k \in Setting(file, n) : \A j \in Setting(file, n) : j <= k
    BY <1>4, <2>2, Greatest
  <2>4. V!Sourced(file, n) = file[k][n]
    BY <1>2, <2>3, SourcedLast
  <2>. QED
    BY <2>3, <2>4 DEF Setting
<1>. QED
  BY <1>3, <1>4

(* What the first run found counts, but where the repository has its own.  *)
LEMMA FirstCounts ==
  ASSUME FileInv, NEW k \in V!FirstRun, NEW n \in DOMAIN file[k], file[k][n] # None,
         \A j \in DOMAIN file : file[j] \in Local => n \notin DOMAIN file[j]
  PROVE  V!Sourced(file, n) = file[k][n]
<1>1. PICK S : S = BlocksOf(V!Pipeline(world))
  OBVIOUS
<1>2. file \in Seq(S)
  BY <1>1 DEF FileInv
<1>3. k \in DOMAIN file /\ \A j \in DOMAIN file : file[j] \notin Local => j <= k
  BY DEF V!FirstRun
<1>4. k \in Setting(file, n) /\ \A j \in Setting(file, n) : j <= k
  BY <1>3 DEF Setting
<1>. QED
  BY <1>2, <1>4, SourcedLast

(* All the names that agree are generated.                                 *)
LEMMA Generates ==
  ASSUME NEW w \in Worlds
  PROVE  V!ImageNames \cup V!KindNames \subseteq DOMAIN V!Factories(w)
  BY DEF V!ImageNames, V!KindNames, V!Factories, V!Functions

LEMMA ImageAgrees ==
  ASSUME FileInv, NEW k \in V!FirstRun, V!NotOwn(V!ImageNames), \A n \in V!ImageNames : file[k][n] # None
  PROVE  V!Sourced(file, "MINK_IMAGE") =
           <<V!Sourced(file, "DOCKER_REGISTRY"), V!Sourced(file, "DOCKER_REGISTRY_ORG"),
             Dashed(V!Sourced(file, "APP_NAME")), V!Sourced(file, "VERSION")>>
<1>1. k \in DOMAIN file /\ file[k] \notin Local
  BY DEF V!FirstRun
<1>2. PICK w \in Worlds : file[k] = V!Factories(w)
  BY <1>1, BlockOf
<1>3. ASSUME NEW n \in V!ImageNames PROVE V!Sourced(file, n) = V!Factories(w)[n]
  <2>1. n \in DOMAIN file[k] /\ file[k][n] # None
    BY <1>2, Generates
  <2>2. \A j \in DOMAIN file : file[j] \in Local => n \notin DOMAIN file[j]
    BY DEF V!NotOwn
  <2>. QED
    BY <1>2, <2>1, <2>2, FirstCounts
<1>4. \A n \in {"MINK_IMAGE", "DOCKER_REGISTRY", "DOCKER_REGISTRY_ORG", "APP_NAME", "VERSION"} :
        V!Sourced(file, n) = V!Factories(w)[n]
  BY <1>3 DEF V!ImageNames
<1>. QED
  BY <1>4, Agreeing

LEMMA KindAgrees ==
  ASSUME FileInv, NEW k \in V!FirstRun, V!NotOwn(V!KindNames), V!Sourced(file, "PIPELINE_KIND") = "release"
  PROVE  /\ V!Sourced(file, "VERSION") \notin Snapshots
         /\ V!Sourced(file, "DOCKERFILE_PATH") = "Dockerfile"
<1>1. k \in DOMAIN file /\ file[k] \notin Local
  BY DEF V!FirstRun
<1>2. \A n \in V!KindNames : \A j \in DOMAIN file : file[j] \in Local => n \notin DOMAIN file[j]
  BY DEF V!NotOwn
<1>3. PICK j \in DOMAIN file : file[j] \notin Local /\ file[j].PIPELINE_KIND = "release"
  <2>1. "PIPELINE_KIND" \in V!KindNames
    BY DEF V!KindNames
  <2>2. None # "release"
    BY MCAssumption
  <2>. QED
    BY <1>2, <2>1, <2>2, SourcedOf DEF Setting
<1>4. PICK v \in Worlds : V!Pipeline(v) = V!Pipeline(world) /\ file[j] = V!Factories(v)
  BY <1>3, BlockOf
<1>5. ASSUME NEW i \in DOMAIN file, file[i] \notin Local
      PROVE  file[i].VERSION \notin Snapshots /\ file[i].DOCKERFILE_PATH = "Dockerfile"
  <2>1. PICK w \in Worlds : V!Pipeline(w) = V!Pipeline(world) /\ file[i] = V!Factories(w)
    BY <1>5, BlockOf
  <2>2. file[i].PIPELINE_KIND = "release"
    BY <1>3, <1>4, <2>1, OneKind
  <2>. QED
    BY <2>1, <2>2, Agreeing
<1>6. V!Sourced(file, "VERSION") \notin Snapshots
  <2>1. "VERSION" \in V!KindNames
    BY DEF V!KindNames
  <2>2. CASE V!Sourced(file, "VERSION") = None /\ Setting(file, "VERSION") = {}
    <3>1. "VERSION" \in DOMAIN file[k]
      BY <1>1, <2>1, BlockOf, Generates
    <3>2. file[k].VERSION = None
      BY <1>1, <2>2, <3>1 DEF Setting
    <3>. QED
      BY <1>1, <1>5, <2>2, <3>2
  <2>3. CASE \E i \in Setting(file, "VERSION") : file[i] \notin Local /\ V!Sourced(file, "VERSION") = file[i]["VERSION"]
    BY <1>5, <2>3 DEF Setting
  <2>. QED
    BY <1>2, <2>1, <2>2, <2>3, SourcedOf
<1>7. V!Sourced(file, "DOCKERFILE_PATH") = "Dockerfile"
  <2>1. "DOCKERFILE_PATH" \in V!KindNames
    BY DEF V!KindNames
  <2>2. "DOCKERFILE_PATH" \in DOMAIN file[k] /\ file[k]["DOCKERFILE_PATH"] = "Dockerfile"
    BY <1>1, <1>5, <2>1, BlockOf, Generates
  <2>3. None # "Dockerfile"
    BY MCAssumption
  <2>. QED
    BY <1>2, <2>1, <2>2, <2>3, FirstCounts
<1>. QED
  BY <1>6, <1>7

(* Theorem about the variables of a pipeline (pkg/cmd/variables,           *)
(* pkg/variablefinders): what a step has agrees, however often the command *)
(* ran and whatever changed in between, if the first run found all of it.  *)
THEOREM VariablesAgree == MCSpec => []Coherent
<1>1. (part = "variables" => FileInv) => Coherent
  <2>. SUFFICES ASSUME FileInv PROVE V!Coherent
    BY DEF Coherent
  <2>. QED
    BY ImageAgrees, KindAgrees DEF V!Coherent, Snapshots
<1>. QED
  BY <1>1, FileAlways, PTL
================================================================================
