----------------------- MODULE ApplyRegeneration_proofs -----------------------
(* Theorems about ApplyRegeneration, for any changes, pull requests,       *)
(* histories and times, as long as pull requests are not squashed.         *)
(*                                                                         *)
(* Ancestors and Verification are recursive functions over the history.    *)
(* That such a function exists is proved for functions over 0 .. N whose   *)
(* value depends on smaller arguments only (Recursion), as parents come    *)
(* before their children; what it computes is proved by looking at the     *)
(* first commit for which it would be wrong.                               *)
EXTENDS ApplyRegeneration, WellFoundedInduction, TLAPS

CommitRecord ==
  [parents : Seq(Nat), marked : BOOLEAN, time : Nat,
   sources : SUBSET Changes, generated : SUBSET Changes]

NeverSquashed == "squash" \notin MergeMethods

(* What a commit has of its parents: nothing is lost, a merge adds no      *)
(* sources, and a marked one has one parent and everything generated       *)
(* (unless a squashed commit got its mark from a commit in it).            *)
WellFormed(c) ==
  LET parents == commits[c].parents
  IN  /\ Len(parents) <= 2
      /\ \A i \in 1 .. Len(parents) : parents[i] \in 1 .. c - 1
      /\ \A i \in 1 .. Len(parents) :
           /\ commits[parents[i]].sources \subseteq commits[c].sources
           /\ commits[parents[i]].generated \subseteq commits[c].generated
      /\ Len(parents) = 2 =>
           commits[c].sources = commits[parents[1]].sources \cup commits[parents[2]].sources
      /\ commits[c].marked /\ NeverSquashed =>
           Len(parents) = 1 /\ commits[c].generated = commits[c].sources
      /\ commits[c].generated \subseteq commits[c].sources
      /\ commits[c].time <= now

History ==
  /\ now \in Nat
  /\ commits \in Seq(CommitRecord)
  /\ \A c \in 1 .. Len(commits) : WellFormed(c)

-----------------------------------------------------------------------------
(* Recursion over the history.                                             *)

(* A set of naturals that is not empty has a least element.                *)
LEMMA Least ==
  ASSUME NEW S, S \subseteq Nat, S # {}
  PROVE  \E n \in S : \A m \in S : n <= m
  <1>1. PICK n \in S : \A m \in S : ~ (<<m, n>> \in OpToRel(<, Nat))
    BY WFMin, NatLessThanWellFounded, Zenon
  <1>2. OpToRel(<, Nat) = {ss \in Nat \X Nat : ss[1] < ss[2]}
    BY Zenon DEF OpToRel
  <1>3. \A m \in S : ~ (<<m, n>> \in {ss \in Nat \X Nat : ss[1] < ss[2]})
    BY <1>1, <1>2, Zenon
  <1>4. \A m \in S : ~ (m < n)
    BY <1>3
  <1> QED BY <1>4

(* G[n][f] looks at f only below n.                                        *)
LooksBelow(G, N, T) ==
  \A n \in 0 .. N : \A f, g \in [0 .. N -> T] :
    (\A m \in 0 .. n - 1 : f[m] = g[m]) => G[n][f] = G[n][g]

(* f is everywhere what G makes of it.                                     *)
Solves(f, G, N, T) == f \in [0 .. N -> T] /\ \A n \in 0 .. N : f[n] = G[n][f]

(* What looks below itself only defines a function.                        *)
LEMMA Recursion ==
  ASSUME NEW N \in Nat, NEW T, NEW t \in T,
         NEW G \in [0 .. N -> [[0 .. N -> T] -> T]],
         LooksBelow(G, N, T)
  PROVE  \E f : Solves(f, G, N, T)
  <1> USE DEF LooksBelow, Solves
  <1> DEFINE Upto(f, k) == \A n \in 0 .. k : f[n] = G[n][f]
             Bad == {k \in 0 .. N : ~ \E f \in [0 .. N -> T] : Upto(f, k)}
  <1>1. SUFFICES ASSUME Bad # {} PROVE FALSE
    <2>1. Bad = {} /\ N \in 0 .. N
      <3> HIDE DEF Bad
      <3> QED BY <1>1
    <2>2. \E f \in [0 .. N -> T] : Upto(f, N)
      BY <2>1
    <2> QED BY <2>2
  <1>2. PICK k \in Bad : \A m \in Bad : k <= m
    <2>1. Bad \subseteq Nat
      OBVIOUS
    <2> HIDE DEF Bad
    <2> QED BY <1>1, <2>1, Least
  <1>3. k \in 0 .. N
    OBVIOUS
  <1>4. PICK f \in [0 .. N -> T] : Upto(f, k - 1)
    <2>1. CASE k = 0
      <3>1. [n \in 0 .. N |-> t] \in [0 .. N -> T]
        OBVIOUS
      <3>2. 0 .. k - 1 = {}
        BY <2>1
      <3> QED BY <3>1, <3>2
    <2>2. CASE k # 0
      <3>1. k - 1 \in 0 .. N /\ ~ (k <= k - 1)
        BY <1>3, <2>2
      <3>2. k - 1 \notin Bad
        BY <1>2, <3>1
      <3> QED BY <3>1, <3>2
    <2> QED BY <2>1, <2>2
  <1> DEFINE g == [f EXCEPT ![k] = G[k][f]]
  <1>5. g \in [0 .. N -> T]
    BY <1>3
  <1>6. \A m \in 0 .. k - 1 : m \in 0 .. N /\ g[m] = f[m]
    BY <1>3
  <1>7. g[k] = G[k][f]
    BY <1>3
  <1> HIDE DEF g
  <1>8. \A n \in 0 .. k : G[n][f] = G[n][g]
    <2> SUFFICES ASSUME NEW n \in 0 .. k PROVE G[n][f] = G[n][g]
      OBVIOUS
    <2>1. n \in 0 .. N /\ \A m \in 0 .. n - 1 : m \in 0 .. k - 1
      BY <1>3
    <2>2. \A m \in 0 .. n - 1 : f[m] = g[m]
      BY <1>6, <2>1
    <2> QED BY <1>5, <2>1, <2>2
  <1>9. Upto(g, k)
    <2> SUFFICES ASSUME NEW n \in 0 .. k PROVE g[n] = G[n][g]
      OBVIOUS
    <2>1. CASE n = k
      BY <1>7, <1>8, <2>1
    <2>2. CASE n # k
      <3>1. n \in 0 .. k - 1
        BY <1>3, <2>2
      <3> QED BY <1>4, <1>6, <1>8, <3>1
    <2> QED BY <2>1, <2>2
  <1> QED BY <1>2, <1>5, <1>9

(* The parents of a commit come before it.                                 *)
LEMMA ParentsBefore ==
  ASSUME History, NEW c \in 1 .. Len(commits)
  PROVE  /\ commits[c] \in CommitRecord
         /\ Len(commits[c].parents) \in 0 .. 2
         /\ DOMAIN commits[c].parents = 1 .. Len(commits[c].parents)
         /\ \A p \in Parents(c) : p \in 1 .. c - 1 /\ p \in 1 .. Len(commits)
  <1>1. Len(commits) \in Nat /\ commits[c] \in CommitRecord /\ WellFormed(c)
    BY DEF History
  <1>2. commits[c].parents \in Seq(Nat)
    BY <1>1 DEF CommitRecord
  <1>3. /\ DOMAIN commits[c].parents = 1 .. Len(commits[c].parents)
        /\ Len(commits[c].parents) \in Nat
    BY <1>2
  <1>4. \A p \in Parents(c) : p \in 1 .. c - 1
    BY <1>1, <1>3 DEF WellFormed, Parents
  <1>5. Len(commits[c].parents) <= 2
    BY <1>1 DEF WellFormed
  <1>6. 1 .. c - 1 \subseteq 1 .. Len(commits)
    <2>1. Len(commits) \in Nat
      BY <1>1
    <2> QED BY <2>1
  <1>7. Len(commits[c].parents) \in 0 .. 2
    <2> DEFINE n == Len(commits[c].parents)
    <2>1. n \in Nat /\ n <= 2
      BY <1>3, <1>5
    <2> HIDE DEF n
    <2>2. n \in 0 .. 2
      BY <2>1
    <2> QED BY <2>2 DEF n
  <1> QED BY <1>1, <1>3, <1>4, <1>6, <1>7, Zenon

(* Ancestors is what its definition says: a commit and those that its      *)
(* parents reach.                                                          *)
LEMMA AncestorsOf ==
  ASSUME History
  PROVE  \A c \in 0 .. Len(commits) :
           Ancestors(c) = IF c = 0 THEN {} ELSE {c} \cup UNION {Ancestors(p) : p \in Parents(c)}
  <1> DEFINE L == Len(commits)
             T == SUBSET (1 .. L)
             Step(n, f) == IF n = 0 THEN {} ELSE {n} \cup UNION {f[p] : p \in Parents(n)}
             G == [n \in 0 .. L |-> [f \in [0 .. L -> T] |-> Step(n, f)]]
             Reach == CHOOSE f : f = [n \in 0 .. L |-> Step(n, f)]
  <1>1. L \in Nat
    BY DEF History
  <1>2. ASSUME NEW n \in 0 .. L, NEW p \in Parents(n), n # 0
        PROVE  p \in 0 .. n - 1 /\ p \in 0 .. L
    BY <1>1, <1>2, ParentsBefore
  <1> HIDE DEF L
  <1>3. G \in [0 .. L -> [[0 .. L -> T] -> T]]
    <2> SUFFICES ASSUME NEW n \in 0 .. L, NEW f \in [0 .. L -> T] PROVE Step(n, f) \in T
      OBVIOUS
    <2>1. CASE n = 0
      BY <2>1
    <2>2. CASE n # 0
      <3>1. \A p \in Parents(n) : f[p] \in T
        BY <1>2, <2>2
      <3>2. n \in 1 .. L
        BY <1>1, <2>2
      <3> QED BY <3>1, <3>2
    <2> QED BY <2>1, <2>2
  <1>4. LooksBelow(G, L, T)
    <2> SUFFICES ASSUME NEW n \in 0 .. L, NEW f \in [0 .. L -> T], NEW g \in [0 .. L -> T],
                        \A m \in 0 .. n - 1 : f[m] = g[m]
                 PROVE  Step(n, f) = Step(n, g)
      <3> HIDE DEF Step, T
      <3> QED BY DEF LooksBelow
    <2>1. n # 0 => \A p \in Parents(n) : f[p] = g[p]
      BY <1>2
    <2>2. n # 0 => {f[p] : p \in Parents(n)} = {g[p] : p \in Parents(n)}
      BY <2>1
    <2> QED BY <2>2, Zenon
  <1>5. PICK f : Solves(f, G, L, T)
    <2>1. {} \in T
      OBVIOUS
    <2> HIDE DEF G, T
    <2> QED BY <1>1, <1>3, <1>4, <2>1, Recursion, Zenon
  <1>6. f = [n \in 0 .. L |-> Step(n, f)]
    <2>1. \A n \in 0 .. L : f[n] = Step(n, f)
      BY <1>5 DEF Solves
    <2> HIDE DEF Step, T
    <2> QED BY <1>5, <2>1 DEF Solves
  <1>7. Reach = [n \in 0 .. L |-> Step(n, Reach)]
    <2> HIDE DEF Step
    <2> QED BY <1>6, Zenon
  <1>8. \A c : Ancestors(c) = Reach[c]
    BY Zenon DEF Ancestors, L
  <1>9. \A c \in 0 .. L : Reach[c] = Step(c, Reach)
    <2> HIDE DEF Step, Reach
    <2> QED BY <1>7
  <1> HIDE DEF Reach
  <1>10. SUFFICES ASSUME NEW c \in 0 .. L
                  PROVE  Ancestors(c) = IF c = 0 THEN {} ELSE {c} \cup UNION {Ancestors(p) : p \in Parents(c)}
    BY Zenon DEF L
  <1>11. {Ancestors(p) : p \in Parents(c)} = {Reach[p] : p \in Parents(c)}
    BY <1>8
  <1>12. Ancestors(c) = Step(c, Reach)
    BY <1>8, <1>9
  <1> QED BY <1>11, <1>12, Zenon

(* A commit has the sources of all its ancestors.                          *)
LEMMA AncestorsContained ==
  ASSUME History, NEW c \in 0 .. Len(commits), NEW a \in Ancestors(c)
  PROVE  c # 0 /\ a \in 1 .. Len(commits) /\ commits[a].sources \subseteq commits[c].sources
  <1> DEFINE L == Len(commits)
             Within(n) == \A m \in Ancestors(n) :
                            n # 0 /\ m \in 1 .. L /\ commits[m].sources \subseteq commits[n].sources
             Wrong == {n \in 0 .. L : ~ Within(n)}
  <1>1. SUFFICES ASSUME Wrong # {} PROVE FALSE
    <2>1. Wrong = {}
      <3> HIDE DEF Wrong
      <3> QED BY <1>1
    <2>2. Within(c)
      BY <2>1
    <2> QED BY <2>2
  <1>2. PICK n \in Wrong : \A m \in Wrong : n <= m
    <2>1. Wrong \subseteq Nat
      OBVIOUS
    <2> HIDE DEF Wrong
    <2> QED BY <1>1, <2>1, Least
  <1>3. L \in Nat /\ n \in 0 .. L /\ ~ Within(n)
    BY DEF History
  <1>4. Ancestors(n) = IF n = 0 THEN {} ELSE {n} \cup UNION {Ancestors(p) : p \in Parents(n)}
    BY <1>3, AncestorsOf
  <1>5. n # 0
    <2> SUFFICES ASSUME n = 0 PROVE Within(n)
      BY <1>3
    <2>1. Ancestors(n) = {}
      BY <1>4
    <2> QED BY <2>1
  <1>6. n \in 1 .. L
    BY <1>3, <1>5
  <1>7. ASSUME NEW p \in Parents(n)
        PROVE  Within(p) /\ commits[p].sources \subseteq commits[n].sources
    <2>1. p \in 1 .. n - 1 /\ p \in 1 .. L
      BY <1>6, ParentsBefore
    <2>2. p \notin Wrong
      BY <1>2, <1>3, <2>1
    <2>3. Within(p)
      BY <1>3, <2>1, <2>2
    <2>4. commits[p].sources \subseteq commits[n].sources
      <3>1. DOMAIN commits[n].parents = 1 .. Len(commits[n].parents) /\ WellFormed(n)
        BY <1>6, ParentsBefore DEF History
      <3> QED BY <3>1 DEF Parents, WellFormed
    <2> QED BY <2>3, <2>4
  <1>8. Within(n)
    <2> SUFFICES ASSUME NEW m \in Ancestors(n)
                 PROVE  m \in 1 .. L /\ commits[m].sources \subseteq commits[n].sources
      BY <1>5
    <2>1. CASE m = n
      BY <1>6, <2>1
    <2>2. CASE m # n
      <3>1. PICK p \in Parents(n) : m \in Ancestors(p)
        BY <1>4, <1>5, <2>2
      <3>2. m \in 1 .. L /\ commits[m].sources \subseteq commits[p].sources
        BY <1>7, <3>1
      <3> QED BY <1>7, <3>2
    <2> QED BY <2>1, <2>2
  <1> QED BY <1>3, <1>8

Verdicts == [ok : BOOLEAN, latest : 0 .. Len(commits)]

(* verifyRegenerated only uses the verdicts on parents.                    *)
LEMMA VerifyLooksBelow ==
  ASSUME History, NEW c \in 1 .. Len(commits), NEW latest \in 0 .. Len(commits), NEW v, NEW w,
         \A p \in 1 .. c - 1, l \in 0 .. Len(commits) : v[p][l] = w[p][l] /\ v[p][l] \in Verdicts
  PROVE  /\ verifyRegenerated(v, c, latest) = verifyRegenerated(w, c, latest)
         /\ verifyRegenerated(v, c, latest) \in Verdicts
  <1> DEFINE L == Len(commits)
             parents == commits[c].parents
             found == NumParents(latest) = 1
  <1>1. L \in Nat /\ c \in 0 .. L /\ c # 0
    BY DEF History
  <1>2. \A q : \A l : [ok |-> q, latest |-> l] \in Verdicts <=> q \in BOOLEAN /\ l \in 0 .. L
    BY DEF Verdicts
  <1>3. CASE commits[c].marked
    <2>1. \A u : verifyRegenerated(u, c, latest) = [ok |-> TRUE, latest |-> IF found THEN latest ELSE c]
      BY <1>3 DEF verifyRegenerated
    <2>2. (IF found THEN latest ELSE c) \in 0 .. L
      BY <1>1
    <2> HIDE DEF L, found
    <2> QED BY <1>2, <2>1, <2>2
  <1>4. CASE ~ commits[c].marked /\ found /\ commits[c].time + Window < commits[latest].time
    <2>1. \A u : verifyRegenerated(u, c, latest) = [ok |-> TRUE, latest |-> latest]
      BY <1>4 DEF verifyRegenerated
    <2> QED BY <1>2, <2>1
  <1>5. CASE /\ ~ commits[c].marked
             /\ ~ (found /\ commits[c].time + Window < commits[latest].time)
             /\ NumParents(c) < 2
    <2> DEFINE below == NumParents(c) = 1 /\ {c, parents[1]} \subseteq Ancestors(latest)
    <2>1. \A u : verifyRegenerated(u, c, latest) = [ok |-> below, latest |-> latest]
      BY <1>5, Zenon DEF verifyRegenerated
    <2>2. below \in BOOLEAN
      OBVIOUS
    <2> HIDE DEF below
    <2> QED BY <1>2, <2>1, <2>2
  <1>6. CASE /\ ~ commits[c].marked
             /\ ~ (found /\ commits[c].time + Window < commits[latest].time)
             /\ ~ NumParents(c) < 2
    <2>1. \A u : verifyRegenerated(u, c, latest) =
                   IF u[parents[1]][latest].ok THEN u[parents[2]][u[parents[1]][latest].latest]
                                               ELSE u[parents[1]][latest]
      BY <1>6, Zenon DEF verifyRegenerated
    <2>2. parents[1] \in 1 .. c - 1 /\ parents[2] \in 1 .. c - 1
      <3>1. Len(parents) \in 0 .. 2 /\ WellFormed(c)
        BY ParentsBefore DEF History
      <3>2. Len(parents) = 2
        <4> DEFINE n == Len(parents)
        <4>1. n \in 0 .. 2 /\ NumParents(c) = n /\ ~ NumParents(c) < 2
          BY <1>1, <1>6, <3>1, Zenon DEF NumParents
        <4> HIDE DEF n
        <4>2. n = 2
          BY <4>1
        <4> QED BY <4>2 DEF n
      <3>3. 1 \in 1 .. Len(parents) /\ 2 \in 1 .. Len(parents)
        BY <3>2
      <3> QED BY <3>1, <3>3 DEF WellFormed
    <2>3. v[parents[1]][latest] = w[parents[1]][latest] /\ v[parents[1]][latest] \in Verdicts
      BY <2>2
    <2> DEFINE next == v[parents[1]][latest].latest
    <2>4. next \in 0 .. L /\ next = w[parents[1]][latest].latest
      BY <2>3 DEF Verdicts
    <2>5. v[parents[2]][next] = w[parents[2]][next] /\ v[parents[2]][next] \in Verdicts
      BY <2>2, <2>4
    <2> HIDE DEF next, parents
    <2>6. v[parents[2]][next] = w[parents[2]][w[parents[1]][latest].latest]
      BY <2>4, <2>5
    <2> QED BY <2>1, <2>3, <2>5, <2>6 DEF next
  <1> QED BY <1>3, <1>4, <1>5, <1>6


(* Verification is what its definition says: what verifyRegenerated makes  *)
(* of the verdicts on the parents.                                         *)
LEMMA VerificationOf ==
  ASSUME History
  PROVE  \E verify :
           /\ \A head : Verification(head) = verify[head][0]
           /\ \A c \in 1 .. Len(commits), latest \in 0 .. Len(commits) :
                verify[c][latest] = verifyRegenerated(verify, c, latest)
  <1> DEFINE L == Len(commits)
             T == [0 .. L -> Verdicts]
             Step(c, f) == [latest \in 0 .. L |-> verifyRegenerated(f, c, latest)]
             none == [latest \in 0 .. L |-> [ok |-> FALSE, latest |-> 0]]
             G == [n \in 0 .. L |-> [f \in [0 .. L -> T] |-> IF n = 0 THEN none ELSE Step(n, f)]]
             verify == CHOOSE f : f = [c \in 1 .. L |-> Step(c, f)]
  <1>1. L \in Nat /\ DOMAIN commits = 1 .. L
    BY DEF History
  <1>2. none \in T
    <2>1. [ok |-> FALSE, latest |-> 0] \in Verdicts
      BY <1>1 DEF Verdicts
    <2> QED BY <2>1
  <1>3. ASSUME NEW c \in 1 .. L, NEW f, NEW g,
               \A p \in 1 .. c - 1 : f[p] \in T /\ f[p] = g[p]
        PROVE  Step(c, f) = Step(c, g) /\ Step(c, f) \in T
    <2>1. \A p \in 1 .. c - 1, l \in 0 .. L : f[p][l] = g[p][l] /\ f[p][l] \in Verdicts
      BY <1>3
    <2>2. \A latest \in 0 .. L : /\ verifyRegenerated(f, c, latest) = verifyRegenerated(g, c, latest)
                                 /\ verifyRegenerated(f, c, latest) \in Verdicts
      BY <1>3, <2>1, VerifyLooksBelow
    <2> QED BY <2>2
  <1> HIDE DEF L, T, none, Step
  <1>4. ASSUME NEW n \in 0 .. L, n # 0
        PROVE  n \in 1 .. L /\ 1 .. n - 1 \subseteq 0 .. n - 1 /\ 0 .. n - 1 \subseteq 0 .. L
    BY <1>1, <1>4
  <1>5. G \in [0 .. L -> [[0 .. L -> T] -> T]]
    <2> SUFFICES ASSUME NEW n \in 0 .. L, NEW f \in [0 .. L -> T], n # 0 PROVE Step(n, f) \in T
      BY <1>2
    <2>1. \A p \in 1 .. n - 1 : f[p] \in T
      BY <1>4
    <2> QED BY <1>3, <1>4, <2>1
  <1>6. LooksBelow(G, L, T)
    <2> SUFFICES ASSUME NEW n \in 0 .. L, NEW f \in [0 .. L -> T], NEW g \in [0 .. L -> T],
                        \A m \in 0 .. n - 1 : f[m] = g[m], n # 0
                 PROVE  Step(n, f) = Step(n, g)
      BY DEF LooksBelow
    <2>1. \A p \in 1 .. n - 1 : f[p] \in T /\ f[p] = g[p]
      BY <1>4
    <2> QED BY <1>3, <1>4, <2>1
  <1>7. PICK f : Solves(f, G, L, T)
    <2> HIDE DEF G
    <2> QED BY <1>1, <1>2, <1>5, <1>6, Recursion, Zenon
  <1> DEFINE h == [c \in 1 .. L |-> Step(c, f)]
  <1>8. \A c \in 1 .. L : h[c] = f[c] /\ f[c] \in T
    <2> SUFFICES ASSUME NEW c \in 1 .. L PROVE h[c] = f[c] /\ f[c] \in T
      OBVIOUS
    <2>1. c \in 0 .. L /\ c # 0
      BY <1>1
    <2> QED BY <1>7, <2>1 DEF Solves
  <1>9. h = [c \in 1 .. L |-> Step(c, h)]
    <2>1. \A c \in 1 .. L : Step(c, f) = Step(c, h)
      <3> SUFFICES ASSUME NEW c \in 1 .. L PROVE Step(c, f) = Step(c, h)
        OBVIOUS
      <3>1. \A p \in 1 .. c - 1 : p \in 1 .. L
        BY <1>1
      <3>2. \A p \in 1 .. c - 1 : f[p] \in T /\ f[p] = h[p]
        BY <1>8, <3>1
      <3> QED BY <1>3, <3>2
    <2> QED BY <2>1
  <1> HIDE DEF h
  <1>10. verify = [c \in 1 .. L |-> Step(c, verify)]
    BY <1>9, Zenon
  <1>11. \A head : Verification(head) = verify[head][0]
    <2>1. Commits = 1 .. L
      BY <1>1 DEF Commits
    <2> QED BY <2>1, Zenon DEF Verification, Step, L
  <1> HIDE DEF verify
  <1>12. \A c \in 1 .. L, latest \in 0 .. L : verify[c][latest] = verifyRegenerated(verify, c, latest)
    <2> SUFFICES ASSUME NEW c \in 1 .. L, NEW latest \in 0 .. L
                 PROVE  verify[c][latest] = verifyRegenerated(verify, c, latest)
      OBVIOUS
    <2>1. verify[c] = Step(c, verify)
      BY <1>10
    <2>2. Step(c, verify)[latest] = verifyRegenerated(verify, c, latest)
      BY DEF Step
    <2> QED BY <2>1, <2>2
  <1> QED BY <1>11, <1>12 DEF L

-----------------------------------------------------------------------------
(* What a verdict says.                                                    *)

(* There is no latest regeneration yet, or it is a marked commit.          *)
Regeneration(latest) == latest \in 0 .. Len(commits) /\ (latest # 0 => commits[latest].marked)

(* What the latest regeneration generated.                                 *)
Has(latest, ch) == latest # 0 /\ ch \in commits[latest].generated

(* The verdict v on c, with the latest regeneration found before: the one  *)
(* it leaves behind is that one, or one below c; and if it is good, all    *)
(* changes of c are stale, or generated in c or by that regeneration.      *)
Sound(v, c, latest) ==
  /\ Regeneration(v.latest)
  /\ v.latest = latest \/ commits[v.latest].generated \subseteq commits[c].generated
  /\ v.ok => \A ch \in commits[c].sources :
                Stale(ch) \/ ch \in commits[c].generated \/ Has(latest, ch)

(* The good verdicts are sound: one step of the recursion.                 *)
LEMMA StepSound ==
  ASSUME History, NeverSquashed, NEW verify,
         NEW c \in 1 .. Len(commits), NEW latest, Regeneration(latest),
         \A p \in 1 .. c - 1 : \A l : Regeneration(l) => Sound(verify[p][l], p, l)
  PROVE  Sound(verifyRegenerated(verify, c, latest), c, latest)
  <1> DEFINE L == Len(commits)
             parents == commits[c].parents
             found == NumParents(latest) = 1
             v == verifyRegenerated(verify, c, latest)
  <1>1. /\ L \in Nat /\ DOMAIN commits = 1 .. L /\ c \in 0 .. L /\ c # 0
        /\ WellFormed(c)
        /\ \A d \in 1 .. L : WellFormed(d)
        /\ Len(parents) \in 0 .. 2
    BY ParentsBefore DEF History
  <1>2. latest \in 0 .. L /\ (latest # 0 => latest \in 1 .. L /\ commits[latest].marked)
    BY <1>1 DEF Regeneration
  <1>3. CASE commits[c].marked
    <2>1. v = [ok |-> TRUE, latest |-> IF found THEN latest ELSE c]
      BY <1>3 DEF verifyRegenerated
    <2>2. commits[c].generated = commits[c].sources
      BY <1>1, <1>3 DEF WellFormed
    <2>3. Regeneration(c)
      BY <1>1, <1>3 DEF Regeneration
    <2>4. v.ok = TRUE /\ v.latest = IF found THEN latest ELSE c
      BY <2>1
    <2> HIDE DEF v, found
    <2>5. v.latest = latest \/ v.latest = c
      BY <2>4
    <2> QED BY <2>2, <2>3, <2>5 DEF Sound, v
  <1>4. CASE ~ commits[c].marked /\ found /\ commits[c].time + Window < commits[latest].time
    <2>1. v = [ok |-> TRUE, latest |-> latest]
      BY <1>4 DEF verifyRegenerated
    <2>2. latest # 0
      BY <1>4 DEF NumParents
    <2>3. \A ch \in commits[c].sources : Stale(ch)
      <3>1. c \in Commits /\ latest \in Commits
        BY <1>1, <1>2, <2>2 DEF Commits
      <3> QED BY <1>2, <1>4, <2>2, <3>1 DEF Stale
    <2>4. v.ok = TRUE /\ v.latest = latest
      BY <2>1
    <2> HIDE DEF v
    <2> QED BY <2>3, <2>4 DEF Sound, v
  <1>5. CASE /\ ~ commits[c].marked
             /\ ~ (found /\ commits[c].time + Window < commits[latest].time)
             /\ NumParents(c) < 2
    <2> DEFINE below == NumParents(c) = 1 /\ {c, parents[1]} \subseteq Ancestors(latest)
    <2>1. v = [ok |-> below, latest |-> latest]
      BY <1>5, Zenon DEF verifyRegenerated
    <2>2. v.latest = latest /\ (v.ok => c \in Ancestors(latest))
      <3>1. below => c \in Ancestors(latest)
        OBVIOUS
      <3> HIDE DEF v, below
      <3>2. v.latest = latest /\ v.ok = below
        BY <2>1
      <3> QED BY <3>1, <3>2
    <2> HIDE DEF v, below
    <2>3. ASSUME c \in Ancestors(latest), NEW ch \in commits[c].sources
          PROVE  Has(latest, ch)
      <3>1. latest # 0 /\ commits[c].sources \subseteq commits[latest].sources
        BY <1>2, <2>3, AncestorsContained
      <3>2. commits[latest].generated = commits[latest].sources
        BY <1>1, <1>2, <3>1 DEF WellFormed
      <3> QED BY <2>3, <3>1, <3>2 DEF Has
    <2> QED BY <2>2, <2>3 DEF Sound, v
  <1>6. CASE /\ ~ commits[c].marked
             /\ ~ (found /\ commits[c].time + Window < commits[latest].time)
             /\ ~ NumParents(c) < 2
    <2> DEFINE p == parents[1]
               q == parents[2]
               first == verify[p][latest]
               second == verify[q][first.latest]
    <2>1. v = IF first.ok THEN second ELSE first
      BY <1>6, Zenon DEF verifyRegenerated
    <2>2. Len(parents) = 2
      <3> DEFINE n == Len(parents)
      <3>1. n \in 0 .. 2 /\ NumParents(c) = n /\ ~ NumParents(c) < 2
        BY <1>1, <1>6, Zenon DEF NumParents
      <3> HIDE DEF n
      <3>2. n = 2
        BY <3>1
      <3> QED BY <3>2 DEF n
    <2>3. /\ p \in 1 .. c - 1 /\ q \in 1 .. c - 1
          /\ commits[p].generated \subseteq commits[c].generated
          /\ commits[q].generated \subseteq commits[c].generated
          /\ commits[c].sources = commits[p].sources \cup commits[q].sources
      <3>1. 1 \in 1 .. Len(parents) /\ 2 \in 1 .. Len(parents)
        BY <2>2
      <3> QED BY <1>1, <2>2, <3>1 DEF WellFormed
    <2> HIDE DEF v, p, q, first, second
    <2>4. Sound(first, p, latest)
      <3>1. \A l : Regeneration(l) => Sound(verify[p][l], p, l)
        BY <2>3
      <3> QED BY <3>1 DEF first
    <2>5. Sound(second, q, first.latest)
      <3>1. \A l : Regeneration(l) => Sound(verify[q][l], q, l)
        BY <2>3
      <3>2. Regeneration(first.latest)
        BY <2>4 DEF Sound
      <3> QED BY <3>1, <3>2 DEF second
    <2>6. first.latest = latest \/ commits[first.latest].generated \subseteq commits[c].generated
      BY <2>3, <2>4 DEF Sound
    <2>7. CASE ~ first.ok
      <3>1. v = first
        BY <2>1, <2>7
      <3> QED BY <2>4, <2>6, <2>7, <3>1 DEF Sound, v
    <2>8. CASE first.ok
      <3>1. v = second
        BY <2>1, <2>8
      <3>2. Regeneration(second.latest)
        BY <2>5 DEF Sound
      <3>3. second.latest = latest \/ commits[second.latest].generated \subseteq commits[c].generated
        BY <2>3, <2>5, <2>6 DEF Sound
      <3>4. ASSUME second.ok, NEW ch \in commits[c].sources
            PROVE  Stale(ch) \/ ch \in commits[c].generated \/ Has(latest, ch)
        <4>1. CASE ch \in commits[p].sources
          BY <2>3, <2>4, <2>8, <4>1 DEF Sound
        <4>2. CASE ch \in commits[q].sources
          <5>1. Stale(ch) \/ ch \in commits[q].generated \/ Has(first.latest, ch)
            BY <2>5, <3>4, <4>2 DEF Sound
          <5> QED BY <2>3, <2>6, <5>1 DEF Has
        <4> QED BY <2>3, <3>4, <4>1, <4>2
      <3> QED BY <3>1, <3>2, <3>3, <3>4 DEF Sound, v
    <2> QED BY <2>7, <2>8
  <1> QED BY <1>3, <1>4, <1>5, <1>6

(* What is skipped is generated, but for what is stale: the first commit   *)
(* with a wrong verdict cannot be, as those on its parents are right.      *)
LEMMA VerificationSound ==
  ASSUME History, NeverSquashed, NEW head \in 1 .. Len(commits), Verification(head).ok,
         NEW ch \in commits[head].sources \ commits[head].generated
  PROVE  Stale(ch)
  <1> DEFINE L == Len(commits)
  <1>1. L \in Nat
    BY DEF History
  <1>2. PICK verify :
          /\ \A c : Verification(c) = verify[c][0]
          /\ \A c \in 1 .. L, latest \in 0 .. L : verify[c][latest] = verifyRegenerated(verify, c, latest)
    BY VerificationOf
  <1> DEFINE Good(c) == \A l : Regeneration(l) => Sound(verify[c][l], c, l)
             Wrong == {c \in 1 .. L : ~ Good(c)}
  <1>3. Wrong = {}
    <2> SUFFICES ASSUME Wrong # {} PROVE FALSE
      OBVIOUS
    <2>1. PICK c \in Wrong : \A m \in Wrong : c <= m
      <3>1. Wrong \subseteq Nat
        OBVIOUS
      <3> HIDE DEF Wrong
      <3> QED BY <3>1, Least
    <2>2. c \in 1 .. L /\ ~ Good(c)
      OBVIOUS
    <2>3. \A p \in 1 .. c - 1 : Good(p)
      <3> SUFFICES ASSUME NEW p \in 1 .. c - 1 PROVE Good(p)
        OBVIOUS
      <3>1. p \in 1 .. L /\ ~ (c <= p)
        BY <1>1, <2>2
      <3>2. p \notin Wrong
        BY <2>1, <3>1
      <3> HIDE DEF Good
      <3> QED BY <3>1, <3>2
    <2>4. ASSUME NEW l, Regeneration(l) PROVE Sound(verify[c][l], c, l)
      <3>1. Sound(verifyRegenerated(verify, c, l), c, l)
        BY <2>2, <2>3, <2>4, StepSound
      <3>2. l \in 0 .. L
        BY <2>4 DEF Regeneration
      <3> QED BY <1>2, <2>2, <3>1, <3>2
    <2> QED BY <2>2, <2>4
  <1>4. Good(head)
    BY <1>3
  <1>5. Regeneration(0)
    BY <1>1 DEF Regeneration
  <1>6. Sound(Verification(head), head, 0)
    BY <1>2, <1>4, <1>5
  <1> QED BY <1>6 DEF Sound, Has

-----------------------------------------------------------------------------
(* The invariant.                                                          *)

(* The commit that a pipeline has made but not pushed.                     *)
Fresh(r) ==
  /\ r \in CommitRecord
  /\ r.parents = <<run.head>> /\ r.marked
  /\ r.sources = commits[run.head].sources /\ r.generated = r.sources
  /\ r.time <= now

(* The types, and what the pipeline of main works on.                      *)
Types ==
  /\ now \in 0 .. MaxTime
  /\ History
  /\ main \in 1 .. Len(commits)
  /\ branch \in [PullRequests -> 0 .. Len(commits)]
  /\ newCluster \in BOOLEAN /\ triggered \in BOOLEAN
  /\ skipped \subseteq 1 .. Len(commits)
  /\ run.pc \in {"idle", "failed", "phase-1", "phase-2", "phase-3"}
  /\ run.head \in 0 .. Len(commits)
  /\ run = [pc |-> run.pc, head |-> run.head, local |-> run.local]
  /\ run.pc \in {"phase-1", "phase-2", "phase-3"} => run.head \in 1 .. Len(commits)
  /\ run.local = <<>> \/ (run.head # 0 /\ \E r : run.local = <<r>> /\ Fresh(r))

Inv == Types /\ (NeverSquashed => OnlyStaleMissed)

(* A commit that may follow the history.                                   *)
Follows(r) ==
  /\ r \in CommitRecord
  /\ Len(r.parents) <= 2
  /\ \A i \in 1 .. Len(r.parents) :
       /\ r.parents[i] \in 1 .. Len(commits)
       /\ commits[r.parents[i]].sources \subseteq r.sources
       /\ commits[r.parents[i]].generated \subseteq r.generated
  /\ Len(r.parents) = 2 =>
       r.sources = commits[r.parents[1]].sources \cup commits[r.parents[2]].sources
  /\ r.marked /\ NeverSquashed => Len(r.parents) = 1 /\ r.generated = r.sources
  /\ r.generated \subseteq r.sources
  /\ r.time <= now

(* The history only grows.                                                 *)
Grows ==
  /\ History'
  /\ Len(commits) \in Nat /\ Len(commits') \in Nat /\ Len(commits) <= Len(commits')
  /\ \A c \in 1 .. Len(commits) : c \in 1 .. Len(commits') /\ commits'[c] = commits[c]

(* Appending a commit that may follow grows the history.                   *)
LEMMA AppendGrows ==
  ASSUME History, NEW r, Follows(r), commits' = Append(commits, r), now' = now
  PROVE  /\ Grows
         /\ Len(commits') = Len(commits) + 1
         /\ Len(commits) + 1 \in 1 .. Len(commits')
  <1>0. PICK L : L = Len(commits)
    OBVIOUS
  <1>1. commits \in Seq(CommitRecord) /\ r \in CommitRecord /\ now \in Nat
    BY DEF History, Follows
  <1>2. /\ commits' \in Seq(CommitRecord) /\ L \in Nat
        /\ Len(commits') = L + 1
        /\ \A c \in 1 .. L : commits'[c] = commits[c]
        /\ commits'[L + 1] = r
    BY <1>0, <1>1
  <1>3. ASSUME NEW c \in 1 .. L PROVE WellFormed(c)'
    <2>1. WellFormed(c)
      BY <1>0, <1>3 DEF History
    <2>2. commits'[c] = commits[c]
      BY <1>2
    <2>3. \A i \in 1 .. Len(commits[c].parents) :
            commits[c].parents[i] \in 1 .. c - 1 /\ commits'[commits[c].parents[i]] = commits[commits[c].parents[i]]
      <3>1. \A p \in 1 .. c - 1 : commits'[p] = commits[p]
        BY <1>2
      <3> QED BY <2>1, <3>1 DEF WellFormed
    <2>4. Len(commits[c].parents) = 2 =>
            /\ 1 \in 1 .. Len(commits[c].parents)
            /\ 2 \in 1 .. Len(commits[c].parents)
      OBVIOUS
    <2> DEFINE parents == commits[c].parents
    <2>5. \A i \in 1 .. Len(parents) :
            /\ commits'[parents[i]].sources \subseteq commits'[c].sources
            /\ commits'[parents[i]].generated \subseteq commits'[c].generated
      BY <2>1, <2>2, <2>3 DEF WellFormed
    <2>6. Len(parents) = 2 =>
            commits'[c].sources = commits'[parents[1]].sources \cup commits'[parents[2]].sources
      BY <2>1, <2>2, <2>3, <2>4 DEF WellFormed
    <2>7. /\ Len(parents) <= 2
          /\ \A i \in 1 .. Len(parents) : parents[i] \in 1 .. c - 1
          /\ commits'[c].marked /\ NeverSquashed =>
               Len(parents) = 1 /\ commits'[c].generated = commits'[c].sources
          /\ commits'[c].generated \subseteq commits'[c].sources
          /\ commits'[c].time <= now'
      BY <2>1, <2>2 DEF WellFormed
    <2>8. commits'[c].parents = parents
      BY <2>2
    <2> HIDE DEF parents
    <2> QED BY <2>5, <2>6, <2>7, <2>8 DEF WellFormed
  <1>4. WellFormed(L + 1)'
    <2>1. \A i \in 1 .. Len(r.parents) :
            r.parents[i] \in 1 .. L /\ commits'[r.parents[i]] = commits[r.parents[i]]
      BY <1>0, <1>2 DEF Follows
    <2>2. Len(r.parents) = 2 => 1 \in 1 .. Len(r.parents) /\ 2 \in 1 .. Len(r.parents)
      OBVIOUS
    <2>3. (L + 1) - 1 = L
      BY <1>2
    <2>4. \A i \in 1 .. Len(r.parents) :
            /\ commits'[r.parents[i]].sources \subseteq r.sources
            /\ commits'[r.parents[i]].generated \subseteq r.generated
      BY <2>1 DEF Follows
    <2>5. Len(r.parents) = 2 =>
            r.sources = commits'[r.parents[1]].sources \cup commits'[r.parents[2]].sources
      BY <2>1, <2>2 DEF Follows
    <2>6. /\ Len(r.parents) <= 2
          /\ r.marked /\ NeverSquashed => Len(r.parents) = 1 /\ r.generated = r.sources
          /\ r.generated \subseteq r.sources
          /\ r.time <= now'
      BY DEF Follows
    <2>7. commits'[L + 1] = r /\ \A i \in 1 .. Len(r.parents) : r.parents[i] \in 1 .. (L + 1) - 1
      BY <1>2, <2>1, <2>3
    <2> QED BY <2>4, <2>5, <2>6, <2>7 DEF WellFormed
  <1>5. \A c \in 1 .. Len(commits') : WellFormed(c)'
    <2> SUFFICES ASSUME NEW c \in 1 .. Len(commits') PROVE WellFormed(c)'
      OBVIOUS
    <2>1. c \in 1 .. L \/ c = L + 1
      BY <1>2
    <2> QED BY <1>3, <1>4, <2>1
  <1>6. History'
    BY <1>1, <1>2, <1>5 DEF History
  <1>7. \A c \in 1 .. L : c \in 1 .. Len(commits')
    BY <1>2
  <1>8. L + 1 \in 1 .. Len(commits') /\ Len(commits') \in Nat /\ L <= Len(commits')
    BY <1>2
  <1> QED BY <1>0, <1>2, <1>6, <1>7, <1>8 DEF Grows

(* What was stale stays so, and what was skipped stays as it was.          *)
LEMMA StillStale ==
  ASSUME History, Grows, skipped \subseteq 1 .. Len(commits), OnlyStaleMissed, skipped' = skipped
  PROVE  OnlyStaleMissed'
  <1>1. Commits = 1 .. Len(commits) /\ Commits' = 1 .. Len(commits')
    BY DEF Commits, History, Grows
  <1>2. \A ch : Stale(ch) => Stale(ch)'
    BY <1>1 DEF Stale, Grows
  <1> QED BY <1>2 DEF OnlyStaleMissed, Grows

(* At first there is one commit, in which nothing is.                      *)
LEMMA InitInv == Init => Inv
  <1> SUFFICES ASSUME Init PROVE Inv
    OBVIOUS
  <1> DEFINE first == [parents |-> <<>>, marked |-> FALSE, time |-> 0, sources |-> {}, generated |-> {}]
  <1>1. commits = <<first>> /\ now = 0
    BY DEF Init
  <1>2. first \in CommitRecord
    BY DEF CommitRecord
  <1>3. /\ first.parents = <<>> /\ first.marked = FALSE /\ first.time = 0
        /\ first.sources = {} /\ first.generated = {}
    OBVIOUS
  <1> HIDE DEF first
  <1>4. commits \in Seq(CommitRecord) /\ Len(commits) = 1 /\ commits[1] = first
    BY <1>1, <1>2
  <1>5. WellFormed(1)
    <2>1. Len(first.parents) = 0 /\ 1 .. Len(first.parents) = {}
      BY <1>3
    <2> QED BY <1>1, <1>3, <1>4, <2>1 DEF WellFormed
  <1>6. History
    <2>1. \A c \in 1 .. Len(commits) : c = 1
      BY <1>4
    <2> QED BY <1>1, <1>4, <1>5, <2>1 DEF History
  <1>7. Types
    <2>1. run = [pc |-> "idle", head |-> 0, local |-> <<>>]
      BY DEF Init, Idle
    <2>2. 0 .. Len(commits) = {0, 1} /\ 1 .. Len(commits) = {1} /\ now \in 0 .. MaxTime
      BY <1>1, <1>4, ApplyRegenerationAssumption
    <2>3. main = 1 /\ branch = [p \in PullRequests |-> 0] /\ newCluster = TRUE /\ triggered = TRUE /\ skipped = {}
      BY DEF Init
    <2>4. run.pc = "idle" /\ run.head = 0 /\ run.local = <<>>
      BY <2>1
    <2>5. run = [pc |-> run.pc, head |-> run.head, local |-> run.local]
      BY <2>1, <2>4
    <2>6. branch \in [PullRequests -> 0 .. Len(commits)]
      BY <2>2, <2>3
    <2>7. main \in 1 .. Len(commits) /\ run.head \in 0 .. Len(commits) /\ skipped \subseteq 1 .. Len(commits)
      BY <2>2, <2>3, <2>4
    <2>8. newCluster \in BOOLEAN /\ triggered \in BOOLEAN /\ now \in 0 .. MaxTime
      BY <2>2, <2>3
    <2>9. /\ run.pc \in {"idle", "failed", "phase-1", "phase-2", "phase-3"}
          /\ run.pc \notin {"phase-1", "phase-2", "phase-3"}
      BY <2>4
    <2>10. run.local = <<>> \/ (run.head # 0 /\ \E r : run.local = <<r>> /\ Fresh(r))
      BY <2>4
    <2>11. run.pc \in {"phase-1", "phase-2", "phase-3"} => run.head \in 1 .. Len(commits)
      BY <2>9
    <2> QED BY <1>6, <2>5, <2>6, <2>7, <2>8, <2>9, <2>10, <2>11, Zenon DEF Types
  <1>8. OnlyStaleMissed
    BY DEF Init, OnlyStaleMissed
  <1> QED BY <1>7, <1>8 DEF Inv

(* A commit on top of another one, with a change in the sources.           *)
LEMMA ChangeFollows ==
  ASSUME Types, NEW p \in 1 .. Len(commits), NEW ch \in Changes
  PROVE  Follows(Commit(<<p>>, FALSE, commits[p].sources \cup {ch}, commits[p].generated))
  <1> DEFINE r == Commit(<<p>>, FALSE, commits[p].sources \cup {ch}, commits[p].generated)
  <1>1. now \in Nat /\ commits[p] \in CommitRecord /\ WellFormed(p) /\ p \in Nat
    BY DEF Types, History
  <1>2. /\ r.parents = <<p>> /\ r.marked = FALSE /\ r.time = now
        /\ r.sources = commits[p].sources \cup {ch} /\ r.generated = commits[p].generated
    BY DEF Commit
  <1>3. r \in CommitRecord
    BY <1>1 DEF Commit, CommitRecord
  <1>4. Len(<<p>>) = 1 /\ \A i \in 1 .. Len(<<p>>) : <<p>>[i] = p
    OBVIOUS
  <1>5. commits[p].generated \subseteq commits[p].sources
    BY <1>1 DEF WellFormed
  <1> HIDE DEF r
  <1>6. /\ Len(r.parents) = 1
        /\ \A i \in 1 .. Len(r.parents) :
             /\ r.parents[i] \in 1 .. Len(commits)
             /\ commits[r.parents[i]].sources \subseteq r.sources
             /\ commits[r.parents[i]].generated \subseteq r.generated
    BY <1>2, <1>4
  <1>7. Len(r.parents) <= 2 /\ ~ Len(r.parents) = 2 /\ r.time <= now
    BY <1>1, <1>2, <1>6
  <1>8. r.generated \subseteq r.sources /\ ~ r.marked
    BY <1>2, <1>5
  <1> QED BY <1>3, <1>6, <1>7, <1>8 DEF Follows, r

(* A merge of two commits, and one that squashes the second onto the first *)
(* and is marked or not.                                                   *)
LEMMA MergeFollows ==
  ASSUME Types, NEW p \in 1 .. Len(commits), NEW q \in 1 .. Len(commits),
         NEW parents, NEW marked \in BOOLEAN,
         \/ parents = <<p, q>> /\ ~ marked
         \/ parents = <<q, p>> /\ ~ marked
         \/ parents = <<q>> /\ (marked => ~ NeverSquashed)
  PROVE  Follows(Commit(parents, marked, commits[p].sources \cup commits[q].sources,
                                         commits[p].generated \cup commits[q].generated))
  <1> DEFINE r == Commit(parents, marked, commits[p].sources \cup commits[q].sources,
                                         commits[p].generated \cup commits[q].generated)
  <1>1. /\ now \in Nat /\ p \in Nat /\ q \in Nat
        /\ commits[p] \in CommitRecord /\ WellFormed(p)
        /\ commits[q] \in CommitRecord /\ WellFormed(q)
    BY DEF Types, History
  <1>2. /\ r.parents = parents /\ r.marked = marked /\ r.time = now
        /\ r.sources = commits[p].sources \cup commits[q].sources
        /\ r.generated = commits[p].generated \cup commits[q].generated
    BY DEF Commit
  <1>3. r \in CommitRecord
    <2>1. <<p, q>> \in Seq(Nat) /\ <<q, p>> \in Seq(Nat) /\ <<q>> \in Seq(Nat)
      BY <1>1
    <2>2. parents \in Seq(Nat)
      BY <2>1
    <2> QED BY <1>1, <2>2 DEF Commit, CommitRecord
  <1>4. /\ Len(parents) \in {1, 2}
        /\ \A i \in 1 .. Len(parents) : parents[i] \in {p, q}
        /\ Len(parents) = 2 => {parents[1], parents[2]} = {p, q} /\ ~ marked
    OBVIOUS
  <1>5. r.generated \subseteq r.sources
    BY <1>1, <1>2 DEF WellFormed
  <1>6. Len(parents) = 2 => r.sources = commits[parents[1]].sources \cup commits[parents[2]].sources
    <2>1. CASE parents = <<p, q>>
      BY <1>2, <2>1
    <2>2. CASE parents = <<q, p>>
      BY <1>2, <2>2
    <2>3. CASE parents = <<q>>
      BY <2>3
    <2> QED BY <2>1, <2>2, <2>3
  <1>7. marked => ~ NeverSquashed
    OBVIOUS
  <1> HIDE DEF r
  <1>8. \A i \in 1 .. Len(parents) :
          /\ parents[i] \in 1 .. Len(commits)
          /\ commits[parents[i]].sources \subseteq r.sources
          /\ commits[parents[i]].generated \subseteq r.generated
    BY <1>2, <1>4
  <1>9. Len(parents) <= 2 /\ r.time <= now
    BY <1>1, <1>2, <1>4
  <1> QED BY <1>2, <1>3, <1>5, <1>6, <1>7, <1>8, <1>9 DEF Follows, r

(* What was generated from a commit, and committed now or before.          *)
LEMMA RegenerationFollows ==
  ASSUME Types, NEW p \in 1 .. Len(commits), NEW r, r \in CommitRecord,
         r.parents = <<p>>, r.marked, r.time <= now,
         r.sources = commits[p].sources, r.generated = r.sources
  PROVE  Follows(r)
  <1>1. WellFormed(p)
    BY DEF Types, History
  <1>2. Len(r.parents) = 1 /\ \A i \in 1 .. Len(r.parents) : r.parents[i] = p
    OBVIOUS
  <1>3. commits[p].generated \subseteq r.generated
    BY <1>1 DEF WellFormed
  <1> QED BY <1>2, <1>3 DEF Follows

(* Generated makes such a commit.                                          *)
LEMMA GeneratedRecord ==
  ASSUME Types, NEW p \in 1 .. Len(commits)
  PROVE  LET r == Generated(p)
         IN  /\ r \in CommitRecord
             /\ r.parents = <<p>> /\ r.marked /\ r.time = now
             /\ r.sources = commits[p].sources /\ r.generated = r.sources
  <1>1. now \in Nat /\ commits[p] \in CommitRecord /\ p \in Nat
    BY DEF Types, History
  <1> QED BY <1>1 DEF Generated, Commit, CommitRecord

(* A step that makes the history grow and leaves the pipeline of main      *)
(* alone keeps the types.                                                  *)
LEMMA GrowTypes ==
  ASSUME Types, Grows, now' = now, run' = run, skipped' = skipped, newCluster' = newCluster,
         triggered' \in BOOLEAN,
         main' \in 1 .. Len(commits'),
         branch' \in [PullRequests -> 0 .. Len(commits')]
  PROVE  Types'
  <1>1. run.head \in 0 .. Len(commits) /\ run.head \in 0 .. Len(commits')
    BY DEF Types, Grows
  <1>2. ASSUME run.head # 0, NEW r, Fresh(r)
        PROVE  Fresh(r)'
    <2>1. run.head \in 1 .. Len(commits)
      BY <1>1, <1>2 DEF Grows
    <2>2. commits'[run.head] = commits[run.head]
      BY <2>1 DEF Grows
    <2> QED BY <1>2, <2>2 DEF Fresh
  <1>3. run'.local = <<>> \/ (run'.head # 0 /\ \E r : run'.local = <<r>> /\ Fresh(r)')
    BY <1>2 DEF Types
  <1>4. skipped' \subseteq 1 .. Len(commits')
    BY DEF Types, Grows
  <1>5. run'.pc \in {"phase-1", "phase-2", "phase-3"} => run'.head \in 1 .. Len(commits')
    BY DEF Types, Grows
  <1>6. History'
    BY DEF Grows
  <1>7. /\ now' \in 0 .. MaxTime
        /\ newCluster' \in BOOLEAN
        /\ run'.pc \in {"idle", "failed", "phase-1", "phase-2", "phase-3"}
        /\ run'.head \in 0 .. Len(commits')
        /\ run' = [pc |-> run'.pc, head |-> run'.head, local |-> run'.local]
    BY <1>1 DEF Types
  <1> QED BY <1>3, <1>4, <1>5, <1>6, <1>7, Zenon DEF Types

(* A commit that is pushed or merged keeps the invariant.                  *)
LEMMA GrowInv ==
  ASSUME Inv, NEW r, Follows(r), commits' = Append(commits, r),
         now' = now, run' = run, skipped' = skipped, newCluster' = newCluster,
         triggered' \in BOOLEAN,
         main' \in {main, Len(commits) + 1},
         \/ branch' = branch
         \/ \E p \in PullRequests, b \in {0, Len(commits) + 1} : branch' = [branch EXCEPT ![p] = b]
  PROVE  Inv'
  <1>1. History /\ Types
    BY DEF Inv, Types
  <1>2. Grows /\ Len(commits) + 1 \in 1 .. Len(commits')
    BY <1>1, AppendGrows
  <1>3. main' \in 1 .. Len(commits')
    BY <1>1, <1>2 DEF Types, Grows
  <1>4. branch' \in [PullRequests -> 0 .. Len(commits')]
    <2>1. {0, Len(commits) + 1} \subseteq 0 .. Len(commits')
      BY <1>2 DEF Grows
    <2>2. 0 .. Len(commits) \subseteq 0 .. Len(commits')
      BY <1>2 DEF Grows
    <2>3. branch \in [PullRequests -> 0 .. Len(commits)]
      BY <1>1 DEF Types
    <2>4. branch \in [PullRequests -> 0 .. Len(commits')]
      BY <2>2, <2>3
    <2> QED BY <2>1, <2>2, <2>4
  <1>5. Types'
    BY <1>1, <1>2, <1>3, <1>4, GrowTypes
  <1>6. NeverSquashed => OnlyStaleMissed'
    BY <1>1, <1>2, StillStale DEF Inv, Types
  <1> QED BY <1>5, <1>6 DEF Inv, NeverSquashed

(* A step that leaves the history alone keeps OnlyStaleMissed if it adds   *)
(* nothing to what was skipped.                                            *)
LEMMA SameHistory ==
  ASSUME Inv, commits' = commits, skipped' = skipped
  PROVE  NeverSquashed => OnlyStaleMissed'
  BY DEF Inv, OnlyStaleMissed, Stale, Commits

(* The pipeline of main may do anything to its own commit but leave one    *)
(* that does not follow its head.                                          *)
LEMMA SameHistoryTypes ==
  ASSUME Types, commits' = commits, main' = main, branch' = branch, skipped' = skipped,
         now' \in now .. MaxTime, newCluster' \in BOOLEAN, triggered' \in BOOLEAN,
         NEW pc, NEW head, NEW local,
         run' = [pc |-> pc, head |-> head, local |-> local],
         pc \in {"idle", "failed", "phase-1", "phase-2", "phase-3"},
         head \in 0 .. Len(commits),
         pc \in {"phase-1", "phase-2", "phase-3"} => head # 0,
         local = <<>> \/ (head # 0 /\ \E r : local = <<r>> /\ Fresh(r)')
  PROVE  Types'
  <1>1. run'.pc = pc /\ run'.head = head /\ run'.local = local
    OBVIOUS
  <1>2. now \in Nat /\ now' \in Nat /\ now <= now' /\ now' \in 0 .. MaxTime
    BY ApplyRegenerationAssumption DEF Types
  <1>3. History'
    <2>1. \A c \in 1 .. Len(commits) : WellFormed(c)'
      <3> SUFFICES ASSUME NEW c \in 1 .. Len(commits) PROVE WellFormed(c)'
        OBVIOUS
      <3>1. WellFormed(c) /\ commits[c].time \in Nat
        <4>1. WellFormed(c) /\ commits[c] \in CommitRecord
          BY ParentsBefore DEF Types, History
        <4> QED BY <4>1 DEF CommitRecord
      <3>2. commits[c].time <= now'
        BY <1>2, <3>1 DEF WellFormed
      <3> QED BY <3>1, <3>2 DEF WellFormed
    <2> QED BY <1>2, <2>1 DEF Types, History
  <1>4. pc \in {"phase-1", "phase-2", "phase-3"} => head \in 1 .. Len(commits)
    BY DEF Types
  <1> QED BY <1>1, <1>2, <1>3, <1>4 DEF Types

(* Apply skips only what is generated, but for what is stale.              *)
LEMMA ApplyInv == ASSUME Inv, Apply PROVE Inv'
  <1>1. Types /\ History /\ main \in 1 .. Len(commits)
    BY DEF Inv, Types
  <1>2. \/ /\ run' = [pc |-> "phase-1", head |-> main, local |-> <<>>]
           /\ skipped' = skipped
        \/ /\ run' = [pc |-> "idle", head |-> 0, local |-> <<>>]
           /\ Verification(main).ok
           /\ skipped' = skipped \cup {main}
    BY DEF Apply, Idle, Regen
  <1>3. UNCHANGED <<now, commits, main, branch, newCluster>> /\ triggered' = FALSE
    BY DEF Apply
  <1>4. Types'
    <2>1. PICK pc \in {"idle", "phase-1"}, head \in {0, main} :
            /\ run' = [pc |-> pc, head |-> head, local |-> <<>>]
            /\ pc = "phase-1" => head = main
      BY <1>2
    <2>2. head \in 0 .. Len(commits) /\ main # 0 /\ Len(commits) \in Nat
      BY <1>1 DEF History
    <2>3. History' /\ skipped' \subseteq 1 .. Len(commits)
      <3>1. \A c : WellFormed(c)' <=> WellFormed(c)
        BY <1>3 DEF WellFormed
      <3> QED BY <1>1, <1>2, <1>3, <3>1 DEF Types, History
    <2>4. run'.pc = pc /\ run'.head = head /\ run'.local = <<>>
      BY <2>1
    <2>5. pc \in {"phase-1", "phase-2", "phase-3"} => head \in 1 .. Len(commits)
      BY <1>1, <2>1
    <2> QED BY <1>1, <1>3, <2>1, <2>2, <2>3, <2>4, <2>5 DEF Types
  <1>5. ASSUME NeverSquashed PROVE OnlyStaleMissed'
    <2>1. \A ch : Stale(ch)' <=> Stale(ch)
      BY <1>3 DEF Stale, Commits
    <2>2. \A c \in skipped : \A ch \in commits[c].sources \ commits[c].generated : Stale(ch)
      BY <1>5 DEF Inv, OnlyStaleMissed
    <2>3. Verification(main).ok =>
            \A ch \in commits[main].sources \ commits[main].generated : Stale(ch)
      BY <1>1, <1>5, VerificationSound
    <2> QED BY <1>2, <1>3, <2>1, <2>2, <2>3 DEF OnlyStaleMissed
  <1> QED BY <1>4, <1>5 DEF Inv, NeverSquashed

(* The steps of people and of the pipelines of pull requests: each appends *)
(* a commit that may follow.                                               *)
LEMMA PeopleInv ==
  ASSUME Inv, NEW ch, NEW p,
         \/ ch \in Changes /\ Push(ch)
         \/ ch \in Changes /\ p \in PullRequests /\ PushToPullRequest(p, ch)
         \/ p \in PullRequests /\ (UpdateBranch(p) \/ Merge(p) \/ ApplyToPullRequest(p))
  PROVE  Inv'
  <1>1. /\ Types /\ Len(commits) \in Nat /\ main \in 1 .. Len(commits)
        /\ branch \in [PullRequests -> 0 .. Len(commits)]
        /\ triggered \in BOOLEAN
        /\ p \in PullRequests /\ branch[p] # 0 => branch[p] \in 1 .. Len(commits)
    BY DEF Inv, Types, History
  <1>2. CASE ch \in Changes /\ Push(ch)
    <2> DEFINE r == Commit(<<main>>, FALSE, commits[main].sources \cup {ch}, commits[main].generated)
    <2>1. Follows(r)
      BY <1>1, <1>2, ChangeFollows
    <2>2. /\ commits' = Append(commits, r) /\ main' = Len(commits) + 1 /\ triggered' = TRUE
          /\ UNCHANGED <<now, branch, newCluster, run, skipped>>
      BY <1>2 DEF Push
    <2> HIDE DEF r
    <2> QED BY <1>1, <2>1, <2>2, GrowInv
  <1>3. CASE ch \in Changes /\ p \in PullRequests /\ PushToPullRequest(p, ch)
    <2> DEFINE parent == IF branch[p] = 0 THEN main ELSE branch[p]
               r == Commit(<<parent>>, FALSE, commits[parent].sources \cup {ch}, commits[parent].generated)
    <2>1. Follows(r)
      <3>1. parent \in 1 .. Len(commits)
        BY <1>1, <1>3
      <3> HIDE DEF parent
      <3> QED BY <1>1, <1>3, <3>1, ChangeFollows
    <2>2. /\ commits' = Append(commits, r) /\ branch' = [branch EXCEPT ![p] = Len(commits) + 1]
          /\ UNCHANGED <<now, main, newCluster, triggered, run, skipped>>
      BY <1>3 DEF PushToPullRequest
    <2> HIDE DEF r
    <2> QED BY <1>1, <1>3, <2>1, <2>2, GrowInv
  <1>4. CASE p \in PullRequests /\ UpdateBranch(p)
    <2> DEFINE r == Commit(<<branch[p], main>>, FALSE,
                           commits[branch[p]].sources \cup commits[main].sources,
                           commits[branch[p]].generated \cup commits[main].generated)
    <2>1. Follows(r)
      <3>1. branch[p] \in 1 .. Len(commits)
        BY <1>1, <1>4 DEF UpdateBranch
      <3> QED BY <1>1, <3>1, MergeFollows
    <2>2. /\ commits' = Append(commits, r) /\ branch' = [branch EXCEPT ![p] = Len(commits) + 1]
          /\ UNCHANGED <<now, main, newCluster, triggered, run, skipped>>
      BY <1>4 DEF UpdateBranch
    <2> HIDE DEF r
    <2> QED BY <1>1, <1>4, <2>1, <2>2, GrowInv
  <1>5. CASE p \in PullRequests /\ Merge(p)
    <2>1. PICK method \in MergeMethods :
            commits' = Append(commits,
              Commit(IF method = "merge" THEN <<main, branch[p]>> ELSE <<main>>,
                     /\ method = "squash"
                     /\ \E c \in Ancestors(branch[p]) \ Ancestors(main) : commits[c].marked,
                     commits[branch[p]].sources \cup commits[main].sources,
                     commits[branch[p]].generated \cup commits[main].generated))
      BY <1>5 DEF Merge
    <2> DEFINE parents == IF method = "merge" THEN <<main, branch[p]>> ELSE <<main>>
               marked == /\ method = "squash"
                         /\ \E c \in Ancestors(branch[p]) \ Ancestors(main) : commits[c].marked
               r == Commit(parents, marked, commits[branch[p]].sources \cup commits[main].sources,
                           commits[branch[p]].generated \cup commits[main].generated)
    <2>2. branch[p] \in 1 .. Len(commits)
      BY <1>1, <1>5 DEF Merge
    <2>3. \/ parents = <<main, branch[p]>> /\ ~ marked
          \/ parents = <<main>> /\ (marked => ~ NeverSquashed)
      BY DEF NeverSquashed
    <2>4. marked \in BOOLEAN
      OBVIOUS
    <2>5. commits' = Append(commits, r)
      BY <2>1
    <2>6. Follows(r)
      <3> HIDE DEF parents, marked
      <3> QED BY <1>1, <2>2, <2>3, <2>4, MergeFollows
    <2>7. /\ main' = Len(commits) + 1 /\ branch' = [branch EXCEPT ![p] = 0] /\ triggered' = TRUE
          /\ UNCHANGED <<now, newCluster, run, skipped>>
      BY <1>5 DEF Merge
    <2> HIDE DEF r
    <2> QED BY <1>1, <1>5, <2>5, <2>6, <2>7, GrowInv
  <1>6. CASE p \in PullRequests /\ ApplyToPullRequest(p)
    <2> DEFINE r == Generated(branch[p])
    <2>1. branch[p] \in 1 .. Len(commits)
      BY <1>1, <1>6 DEF ApplyToPullRequest
    <2>2. Follows(r)
      <3>1. /\ r \in CommitRecord
            /\ r.parents = <<branch[p]>> /\ r.marked /\ r.time = now
            /\ r.sources = commits[branch[p]].sources /\ r.generated = r.sources
        BY <1>1, <2>1, GeneratedRecord
      <3>2. r.time <= now
        BY <1>1, <3>1 DEF Types, History
      <3> HIDE DEF r
      <3> QED BY <1>1, <2>1, <3>1, <3>2, RegenerationFollows
    <2>3. /\ commits' = Append(commits, r) /\ branch' = [branch EXCEPT ![p] = Len(commits) + 1]
          /\ UNCHANGED <<now, main, newCluster, triggered, run, skipped>>
      BY <1>6 DEF ApplyToPullRequest
    <2> HIDE DEF r
    <2> QED BY <1>1, <1>6, <2>2, <2>3, GrowInv
  <1> QED BY <1>2, <1>3, <1>4, <1>5, <1>6

(* Phases 1 and 2 and the failure of a target change nothing but the       *)
(* pipeline, and time passes.                                              *)
LEMMA LocalInv ==
  ASSUME Inv, Phase1 \/ Phase2 \/ Abort \/ Tick \/ UNCHANGED vars
  PROVE  Inv'
  <1>1. /\ Types /\ now \in Nat /\ MaxTime \in Nat /\ now \in now .. MaxTime
        /\ newCluster \in BOOLEAN /\ triggered \in BOOLEAN
    BY ApplyRegenerationAssumption DEF Inv, Types
  <1>2. /\ UNCHANGED <<commits, main, branch, newCluster, triggered, skipped>>
        /\ now' = now \/ (now < MaxTime /\ now' = now + 1)
    BY DEF Phase1, Phase2, Abort, Tick, vars
  <1>3. now' \in now .. MaxTime
    BY <1>1, <1>2
  <1>4. \A r : Fresh(r) => r.time \in Nat
    BY DEF Fresh, CommitRecord
  <1>5. ASSUME NEW pc, NEW local, run' = [pc |-> pc, head |-> run.head, local |-> local],
               pc \in {"idle", "failed", "phase-1", "phase-2", "phase-3"},
               pc \in {"phase-1", "phase-2", "phase-3"} => run.head # 0,
               local = <<>> \/ (run.head # 0 /\ \E r : local = <<r>> /\ Fresh(r))
        PROVE  Types'
    <2>1. run'.head = run.head
      BY <1>5
    <2>2. \A r : Fresh(r) => Fresh(r)'
      <3> SUFFICES ASSUME NEW r, Fresh(r) PROVE Fresh(r)'
        OBVIOUS
      <3>1. r.time <= now'
        BY <1>1, <1>3, <1>4 DEF Fresh
      <3> QED BY <1>2, <2>1, <3>1 DEF Fresh
    <2>3. local = <<>> \/ (run.head # 0 /\ \E r : local = <<r>> /\ Fresh(r)')
      BY <1>5, <2>2
    <2>4. run.head \in 0 .. Len(commits) /\ newCluster' \in BOOLEAN /\ triggered' \in BOOLEAN
      BY <1>1, <1>2 DEF Types
    <2>5. UNCHANGED <<commits, main, branch, skipped>>
      BY <1>2
    <2> QED BY <1>1, <1>3, <1>5, <2>3, <2>4, <2>5, SameHistoryTypes
  <1>6. /\ run = [pc |-> run.pc, head |-> run.head, local |-> run.local]
        /\ run.pc \in {"idle", "failed", "phase-1", "phase-2", "phase-3"}
        /\ run.pc \in {"phase-1", "phase-2", "phase-3"} => run.head \in 1 .. Len(commits) /\ run.head # 0
        /\ run.local = <<>> \/ (run.head # 0 /\ \E r : run.local = <<r>> /\ Fresh(r))
    BY <1>1 DEF Types
  <1>7. Types'
    <2>1. CASE run' = run
      BY <1>5, <1>6, <2>1
    <2>2. CASE Phase1
      <3>1. run.head \in 1 .. Len(commits) /\ run.head # 0
        BY <1>6, <2>2 DEF Phase1
      <3>2. PICK pc \in {"phase-2", "phase-3"}, local \in {<<>>, <<Generated(run.head)>>} :
              run' = [run EXCEPT !.pc = pc, !.local = local]
        BY <2>2 DEF Phase1
      <3>3. run' = [pc |-> pc, head |-> run.head, local |-> local]
        BY <1>6, <3>2
      <3>4. Fresh(Generated(run.head))
        <4> DEFINE r == Generated(run.head)
        <4>1. /\ r \in CommitRecord
              /\ r.parents = <<run.head>> /\ r.marked /\ r.time = now
              /\ r.sources = commits[run.head].sources /\ r.generated = r.sources
          BY <1>1, <3>1, GeneratedRecord
        <4> HIDE DEF r
        <4> QED BY <1>1, <4>1 DEF Fresh, r
      <3>5. local = <<>> \/ (run.head # 0 /\ \E r : local = <<r>> /\ Fresh(r))
        BY <3>1, <3>2, <3>4
      <3> QED BY <1>5, <3>1, <3>2, <3>3, <3>5
    <2>3. CASE Phase2
      <3>1. run.head # 0
        BY <1>6, <2>3 DEF Phase2
      <3>2. run' = [pc |-> "phase-3", head |-> run.head, local |-> run.local]
        BY <1>6, <2>3 DEF Phase2
      <3> QED BY <1>5, <1>6, <3>1, <3>2
    <2>4. CASE Abort
      <3>1. run' = [pc |-> "failed", head |-> run.head, local |-> <<>>]
        BY <1>6, <2>4 DEF Abort
      <3> QED BY <1>5, <3>1
    <2> QED BY <2>1, <2>2, <2>3, <2>4 DEF Tick, vars
  <1> QED BY <1>2, <1>7, SameHistory DEF Inv, NeverSquashed

(* Phase 3 pushes the commit of the pipeline onto its head, or nothing.    *)
LEMMA Phase3Inv == ASSUME Inv, Phase3 PROVE Inv'
  <1>1. /\ Types /\ History /\ run.pc = "phase-3"
        /\ run.head \in 1 .. Len(commits) /\ Len(commits) \in Nat
        /\ branch \in [PullRequests -> 0 .. Len(commits)]
        /\ now \in Nat /\ MaxTime \in Nat /\ now \in now .. MaxTime
        /\ triggered \in BOOLEAN
    BY ApplyRegenerationAssumption DEF Inv, Types, Phase3, History
  <1>2. /\ run' = [pc |-> "idle", head |-> 0, local |-> <<>>]
        /\ newCluster' = FALSE
        /\ UNCHANGED <<now, branch, skipped>>
    BY DEF Phase3, Idle
  <1>3. CASE UNCHANGED <<commits, main, triggered>>
    <2>1. 0 \in 0 .. Len(commits) /\ newCluster' \in BOOLEAN /\ triggered' \in BOOLEAN
      <3>1. Len(commits) \in Nat
        BY <1>1
      <3>2. 0 \in 0 .. Len(commits)
        BY <3>1
      <3> QED BY <1>1, <1>2, <1>3, <3>2, Zenon
    <2>2. Types'
      BY <1>1, <1>2, <1>3, <2>1, SameHistoryTypes
    <2> QED BY <1>2, <1>3, <2>2, SameHistory DEF Inv, NeverSquashed
  <1>4. CASE /\ run.local # <<>>
             /\ commits' = commits \o run.local
             /\ main' = Len(commits) + 1
             /\ triggered' = TRUE
    <2>1. PICK r : run.local = <<r>> /\ Fresh(r)
      BY <1>1, <1>4 DEF Types
    <2>2. commits' = Append(commits, r)
      <3>1. commits \in Seq(CommitRecord) /\ r \in CommitRecord
        BY <1>1, <2>1 DEF History, Fresh
      <3> QED BY <1>4, <2>1, <3>1
    <2>3. Follows(r)
      BY <1>1, <2>1, RegenerationFollows DEF Fresh
    <2>4. Grows /\ Len(commits) + 1 \in 1 .. Len(commits')
      BY <1>1, <1>2, <2>2, <2>3, AppendGrows
    <2>5. Types'
      <3>1. run'.pc = "idle" /\ run'.head = 0 /\ run'.local = <<>>
        BY <1>2
      <3>2. branch' \in [PullRequests -> 0 .. Len(commits')] /\ 0 \in 0 .. Len(commits')
        <4>1. 0 .. Len(commits) \subseteq 0 .. Len(commits') /\ 0 \in 0 .. Len(commits')
          BY <2>4 DEF Grows
        <4> QED BY <1>1, <1>2, <4>1
      <3>3. skipped' \subseteq 1 .. Len(commits')
        BY <1>1, <1>2, <2>4 DEF Types, Grows
      <3>4. now' \in 0 .. MaxTime /\ main' \in 1 .. Len(commits')
        BY <1>1, <1>2, <1>4, <2>4 DEF Types
      <3> QED BY <1>2, <1>4, <2>4, <3>1, <3>2, <3>3, <3>4 DEF Types, Grows
    <2>6. NeverSquashed => OnlyStaleMissed'
      BY <1>1, <1>2, <2>4, StillStale DEF Inv, Types
    <2> QED BY <2>5, <2>6 DEF Inv, NeverSquashed
  <1> QED BY <1>3, <1>4 DEF Phase3

-----------------------------------------------------------------------------

(* The invariant holds in every state.                                     *)
LEMMA Inductive == Spec => []Inv
  <1>1. Init => Inv
    BY InitInv
  <1>2. Inv /\ [Next]_vars => Inv'
    <2> SUFFICES ASSUME Inv, [Next]_vars PROVE Inv'
      OBVIOUS
    <2>1. CASE \E ch \in Changes : Push(ch) \/ \E p \in PullRequests : PushToPullRequest(p, ch)
      BY <2>1, PeopleInv
    <2>2. CASE \E p \in PullRequests : UpdateBranch(p) \/ Merge(p) \/ ApplyToPullRequest(p)
      BY <2>2, PeopleInv
    <2>3. CASE MainPipeline
      BY <2>3, ApplyInv, LocalInv, Phase3Inv DEF MainPipeline
    <2>4. CASE Tick \/ Abort \/ UNCHANGED vars
      BY <2>4, LocalInv
    <2> QED BY <2>1, <2>2, <2>3, <2>4 DEF Next
  <1> QED BY <1>1, <1>2, PTL DEF Spec

(* Type correctness, whatever the ways to merge: parents come before their *)
(* children, commits are no later than now, and nothing is generated that  *)
(* is not in the sources.                                                  *)
THEOREM TypeCorrect == Spec => []TypeOK
  <1>1. Inv => TypeOK
    <2> SUFFICES ASSUME Inv PROVE TypeOK
      OBVIOUS
    <2>1. /\ Types /\ Len(commits) \in Nat /\ Commits = 1 .. Len(commits)
          /\ Commits \cup {0} = 0 .. Len(commits)
      BY DEF Inv, Types, History, Commits
    <2>2. ASSUME NEW c \in Commits
          PROVE  /\ \A i \in DOMAIN commits[c].parents : commits[c].parents[i] \in 1 .. c - 1
                 /\ commits[c].marked \in BOOLEAN
                 /\ commits[c].time \in 0 .. now
                 /\ commits[c].generated \subseteq commits[c].sources
                 /\ commits[c].sources \subseteq Changes
      <3>1. /\ commits[c] \in CommitRecord /\ WellFormed(c) /\ now \in Nat
            /\ DOMAIN commits[c].parents = 1 .. Len(commits[c].parents)
        BY <2>1, <2>2, ParentsBefore DEF Types, History
      <3>2. commits[c].time \in Nat /\ commits[c].time <= now
        BY <3>1 DEF CommitRecord, WellFormed
      <3>3. commits[c].time \in 0 .. now
        BY <3>1, <3>2
      <3> QED BY <3>1, <3>3 DEF CommitRecord, WellFormed
    <2> QED BY <2>1, <2>2 DEF TypeOK, Types
  <1> QED BY <1>1, Inductive, PTL

(* As long as pull requests are not squashed, the heads that apply skips   *)
(* have everything generated, except for changes that were left to go      *)
(* stale (verifyRegenerated): for any history that people and pipelines    *)
(* make of pushes, merges and updates of branches.                         *)
THEOREM SkipsOnlyGenerated ==
  ASSUME NeverSquashed
  PROVE  Spec => []OnlyStaleMissed
  <1>1. Inv => OnlyStaleMissed
    BY DEF Inv
  <1> QED BY <1>1, Inductive, PTL

=============================================================================
