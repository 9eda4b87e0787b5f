---------------------------- MODULE Helmfiles_proofs ----------------------------
(***************************************************************************)
(* Theorem about helmfile move (pkg/cmd/helmfile/move): when it is done,   *)
(* every resource is in the directory of its namespace and chart, every    *)
(* custom resource is where the definition that was rendered says, every   *)
(* file that cannot be taken for another one is there, and each namespace  *)
(* has one Namespace.                                                      *)
(***************************************************************************)
EXTENDS MCHelmfiles, TLAPS

-----------------------------------------------------------------------------
(* The invariant.                                                          *)

Chosen == {f \in inputs : Selected(f)}
Releases == {f.ns : f \in inputs}
Moved(f) == f \in Chosen /\ f \notin unread /\ f \notin deferred

MoveTypes ==
  /\ inputs \in Inputs
  /\ unread \subseteq inputs
  /\ deferred \subseteq Chosen /\ \A f \in deferred : f \notin unread /\ f.defines = Nil
  /\ scopes = [k \in DOMAIN scopes |-> scopes[k]]
  /\ pending \subseteq Releases

(* What definitions say counts, once they are read.                        *)
Scoped ==
  /\ \A d \in Chosen : d \notin unread /\ d.defines # Nil => d.defines \in DOMAIN scopes /\ scopes[d.defines] = d.namespaced
  /\ "Namespace" \in DOMAIN scopes => scopes["Namespace"] = FALSE

(* A file is where it belongs: a resource only once all are read.          *)
PlacedFile(o) ==
  /\ o = [place |-> o.place, source |-> o.source, ns |-> o.ns]
  /\ Moved(o.source)
  /\ o.source.defines # Nil =>
       o.place = M!At("customresourcedefinitions", o.source.ns, M!PathOf(o.source), o.source.rel)
  /\ o.source.defines = Nil =>
       /\ unread = {}
       /\ o.place = M!Place(o.source)
       /\ o.ns = IF M!IsNamespaced(o.source.kind) THEN M!NamespaceOf(o.source) ELSE Nil

(* So is a Namespace that move adds, when all else is done.                *)
PlacedNamespace(o) ==
  \E ns \in Releases \ pending :
    o = [place |-> M!At("cluster", Nil, "namespaces", ns), source |-> M!Generated(ns), ns |-> Nil]

(* A file that is missing was overwritten by another one.                  *)
Present ==
  \A f \in Chosen : Moved(f) => (\E o \in out : o.source = f) \/ (\E g \in inputs \ {f} : M!Confusable(f, g))

(* A namespace has one Namespace, from when it is ensured.                 *)
Ensured ==
  /\ pending # Releases => unread = {} /\ deferred = {}
  /\ \A ns \in Releases \ pending : \E o \in out : M!IsNamespace(o, ns)
  /\ \A ns \in Releases, o, p \in out : M!IsNamespace(o, ns) /\ M!IsNamespace(p, ns) => o = p

OutInv ==
  /\ \A o \in out : PlacedFile(o) \/ PlacedNamespace(o)
  /\ \A o, p \in out : o.source = p.source => o = p
  /\ Present /\ Ensured

MoveInv == MoveTypes /\ Scoped /\ OutInv

-----------------------------------------------------------------------------
(* Files are complete records in a namespace, ...                          *)
LEMMA FileFields ==
  ASSUME inputs \in Inputs, NEW f \in inputs
  PROVE  /\ f = [ns |-> f.ns, release |-> f.release, chart |-> f.chart, rel |-> f.rel, kind |-> f.kind, name |-> f.name,
                 own |-> f.own, defines |-> f.defines, namespaced |-> f.namespaced]
         /\ f.ns # Nil /\ f.namespaced \in BOOLEAN
         /\ f.defines # Nil => f.kind = "CustomResourceDefinition"
         /\ f.defines # "CustomResourceDefinition" /\ f.defines # "Namespace"
BY MCAssumption DEF M!HelmfileMoveAssumption

(* and those of charts agree with each other.                              *)
LEMMA FilesAgree ==
  ASSUME inputs \in Inputs, NEW f \in Chosen, NEW g \in Chosen
  PROVE  /\ f.defines = g.defines /\ f.defines # Nil => f.namespaced = g.namespaced
         /\ f.kind = "Namespace" /\ g.kind = "Namespace" /\ f.name = g.name => f = g
BY MCAssumption DEF M!HelmfileMoveAssumption, Chosen

(* What move adds is none of the files.                                    *)
LEMMA GeneratedIsNoFile ==
  ASSUME inputs \in Inputs, NEW f \in inputs, NEW ns
  PROVE  f # M!Generated(ns)
<1>1. DOMAIN f = {"ns", "release", "chart", "rel", "kind", "name", "own", "defines", "namespaced"}
  BY FileFields
<1>2. DOMAIN M!Generated(ns) = {"kind", "name"}
  BY DEF M!Generated
<1>. QED
  BY <1>1, <1>2

(* Of the place of a file: its namespace is one of those that it has.      *)
Where(f, place) ==
  \E ns \in {f.ns, f.own} \ {Nil} : \E dir : place = M!At(dir, ns, M!PathOf(f), f.rel)

LEMMA PlacesAreWhere ==
  ASSUME inputs \in Inputs, NEW f \in inputs
  PROVE  Where(f, M!Place(f)) /\ Where(f, M!At("customresourcedefinitions", f.ns, M!PathOf(f), f.rel))
<1>1. f.ns # Nil
  BY FileFields
<1>2. M!NamespaceOf(f) \in {f.ns, f.own} \ {Nil}
  BY <1>1 DEF M!NamespaceOf
<1>. QED
  BY <1>1, <1>2 DEF Where, M!Place

(* Files that meet can be taken for each other.                            *)
LEMMA SamePlace ==
  ASSUME NEW f, NEW g, NEW place, Where(f, place), Where(g, place)
  PROVE  M!Confusable(f, g)
<1>1. PICK m \in {f.ns, f.own} \ {Nil} : \E d : place = M!At(d, m, M!PathOf(f), f.rel)
  BY DEF Where
<1>2. PICK n \in {g.ns, g.own} \ {Nil} : \E e : place = M!At(e, n, M!PathOf(g), g.rel)
  BY DEF Where
<1>3. m = n /\ M!PathOf(f) = M!PathOf(g) /\ f.rel = g.rel
  BY <1>1, <1>2 DEF M!At
<1>. QED
  BY <1>1, <1>2, <1>3 DEF M!Confusable

(* A file that was written is in such a place.                             *)
LEMMA PlacedWhere ==
  ASSUME inputs \in Inputs, NEW o, PlacedFile(o)
  PROVE  o.source \in inputs /\ Where(o.source, o.place)
BY PlacesAreWhere DEF PlacedFile, Moved, Chosen

-----------------------------------------------------------------------------
(* The steps.                                                              *)

(* At first nothing is read and nothing is written.                        *)
LEMMA MoveInit == M!Init => MoveInv
<1>. SUFFICES ASSUME M!Init PROVE MoveInv
  OBVIOUS
<1>1. inputs \in Inputs /\ unread = inputs /\ deferred = {} /\ out = {} /\ pending = Releases /\ scopes \in ServerScopes
  BY DEF M!Init, Releases
<1>2. MoveTypes
  BY <1>1, MCAssumption DEF MoveTypes, M!HelmfileMoveAssumption
<1>3. Scoped
  BY <1>1, MCAssumption DEF Scoped, Chosen, M!HelmfileMoveAssumption
<1>4. OutInv
  BY <1>1 DEF OutInv, Present, Ensured, Moved, Chosen
<1>. QED
  BY <1>2, <1>3, <1>4 DEF MoveInv

(* A file is written: another one that was in its place can be taken for   *)
(* it.                                                                     *)
LEMMA FileWritten ==
  ASSUME MoveInv, UNCHANGED <<inputs, override, pending>>,
         NEW f \in Chosen, f \in unread \/ f \in deferred,
         NEW place, NEW ns, M!writeNodeToDir(place, f, ns), Where(f, place),
         \A x \in Chosen : Moved(x)' <=> Moved(x) \/ x = f,
         \A o \in out : PlacedFile(o) => PlacedFile(o)',
         PlacedFile([place |-> place, source |-> f, ns |-> ns])'
  PROVE  OutInv'
<1>. DEFINE e == [place |-> place, source |-> f, ns |-> ns]
<1>1. out' = {o \in out : o.place # place} \cup {e} /\ e.place = place /\ e.source = f
  BY DEF M!writeNodeToDir
<1>2. inputs \in Inputs /\ inputs' = inputs /\ Chosen' = Chosen /\ Releases' = Releases /\ pending' = Releases
  BY DEF MoveInv, OutInv, Ensured, MoveTypes, Chosen, Releases
<1>3. \A o \in out : PlacedFile(o) /\ Moved(o.source) /\ o.source # f
  <2>1. \A o \in out : PlacedFile(o)
    BY <1>2 DEF MoveInv, OutInv, PlacedNamespace
  <2>. QED
    BY <2>1 DEF PlacedFile, Moved
<1>6. \A o \in out' : PlacedFile(o)'
  BY <1>1, <1>3
<1>. HIDE DEF e
<1>7. \A o, p \in out' : o.source = p.source => o = p
  BY <1>1, <1>3 DEF MoveInv, OutInv
<1>8. Present'
  <2>. SUFFICES ASSUME NEW x \in Chosen, Moved(x) \/ x = f
                PROVE  (\E o \in out' : o.source = x) \/ (\E g \in inputs \ {x} : M!Confusable(x, g)')
    BY <1>2 DEF Present
  <2>1. CASE x = f
    BY <1>1, <2>1
  <2>2. CASE x # f
    <3>1. (\E o \in out : o.source = x) \/ (\E g \in inputs \ {x} : M!Confusable(x, g))
      BY <2>2 DEF MoveInv, OutInv, Present
    <3>2. CASE \E g \in inputs \ {x} : M!Confusable(x, g)
      BY <3>2 DEF M!Confusable, M!PathOf, M!pathName
    <3>3. CASE \E o \in out : o.source = x
      <4>1. PICK o \in out : o.source = x
        BY <3>3
      <4>2. CASE o.place # place
        BY <1>1, <4>1, <4>2
      <4>3. CASE o.place = place
        <5>1. Where(x, place)
          BY <1>2, <1>3, <4>1, <4>3, PlacedWhere
        <5>2. M!Confusable(x, f)
          BY <5>1, SamePlace
        <5>3. f \in inputs \ {x}
          BY <2>2 DEF Chosen
        <5>. QED
          BY <5>2, <5>3 DEF M!Confusable, M!PathOf, M!pathName
      <4>. QED
        BY <4>2, <4>3
    <3>. QED
      BY <3>1, <3>2, <3>3
  <2>. QED
    BY <2>1, <2>2
<1>9. Ensured'
  <2>1. pending' = Releases'
    BY <1>2
  <2>2. ASSUME NEW n, NEW o \in out', NEW p \in out', M!IsNamespace(o, n), M!IsNamespace(p, n) PROVE o = p
    <3>1. o.source \in Chosen /\ p.source \in Chosen
      BY <1>2, <1>6 DEF PlacedFile, Moved
    <3>2. o.source = p.source
      BY <1>2, <2>2, <3>1, FilesAgree DEF M!IsNamespace
    <3>. QED
      BY <1>7, <3>2
  <2>. QED
    BY <2>1, <2>2 DEF Ensured, M!IsNamespace
<1>. QED
  BY <1>6, <1>7, <1>8, <1>9 DEF OutInv

(* Reading a file.                                                         *)
LEMMA ReadInv == ASSUME MoveInv, NEW f \in inputs, M!ReadFile(f) PROVE MoveInv'
<1>1. /\ f \in unread /\ unread' = unread \ {f} /\ UNCHANGED <<inputs, override, pending>>
      /\ inputs \in Inputs /\ f \notin deferred /\ Chosen' = Chosen /\ Releases' = Releases
  BY DEF M!ReadFile, MoveInv, MoveTypes, Chosen, Releases
<1>2. pending = Releases /\ \A o \in out : PlacedFile(o)
  BY <1>1 DEF MoveInv, OutInv, Ensured, PlacedNamespace
<1>3. ASSUME UNCHANGED scopes PROVE \A o \in out : PlacedFile(o) => PlacedFile(o)' \/ o.source \in deferred'
  BY <1>1, <1>3 DEF PlacedFile, Moved, M!Place, M!IsNamespaced, M!NamespaceOf, M!PathOf, M!pathName
<1>4. CASE ~ Selected(f) \/ (f.defines = Nil /\ deferred' = deferred \cup {f} /\ Selected(f) /\ UNCHANGED <<scopes, out>>)
  <2>1. UNCHANGED <<scopes, out>> /\ deferred' \in {deferred, deferred \cup {f}} /\ (f \in deferred' => f \in Chosen /\ f.defines = Nil)
        /\ (f \in Chosen => f \in deferred')
    BY <1>1, <1>4 DEF M!ReadFile, Chosen
  <2>2. \A x \in Chosen : Moved(x)' <=> Moved(x)
    BY <1>1, <2>1 DEF Moved
  <2>3. MoveTypes'
    BY <1>1, <2>1 DEF MoveInv, MoveTypes
  <2>4. Scoped'
    <3>1. ASSUME NEW d \in Chosen, d \notin unread', d.defines # Nil PROVE d \notin unread
      BY <1>1, <2>1, <3>1 DEF Chosen
    <3>. QED
      BY <1>1, <2>1, <3>1 DEF MoveInv, Scoped
  <2>5. \A o \in out : PlacedFile(o)'
    <3>1. \A o \in out : Moved(o.source)'
      BY <1>1, <1>2, <2>2 DEF PlacedFile, Moved
    <3>. QED
      BY <1>1, <1>2, <2>1, <3>1 DEF PlacedFile, M!Place, M!IsNamespaced, M!NamespaceOf, M!PathOf, M!pathName, M!At
  <2>6. Present'
    BY <1>1, <2>1, <2>2 DEF MoveInv, OutInv, Present, M!Confusable, M!PathOf, M!pathName
  <2>7. Ensured'
    BY <1>1, <1>2, <2>1 DEF MoveInv, OutInv, Ensured, M!IsNamespace
  <2>8. OutInv'
    BY <2>1, <2>5, <2>6, <2>7 DEF MoveInv, OutInv
  <2>. QED
    BY <2>3, <2>4, <2>8 DEF MoveInv
<1>5. CASE Selected(f) /\ f.defines # Nil
  <2>. DEFINE place == M!At("customresourcedefinitions", f.ns, M!PathOf(f), f.rel)
  <2>1. scopes' = M!Known(f.defines, f.namespaced) /\ M!writeNodeToDir(place, f, f.own) /\ deferred' = deferred /\ f \in Chosen
    BY <1>1, <1>5 DEF M!ReadFile, Chosen
  <2>2. \A x \in Chosen : Moved(x)' <=> Moved(x) \/ x = f
    BY <1>1, <2>1 DEF Moved
  <2>3. MoveTypes'
    BY <1>1, <2>1 DEF MoveInv, MoveTypes, M!Known
  <2>4. Scoped'
    <3>1. DOMAIN scopes' = DOMAIN scopes \cup {f.defines} /\ scopes'[f.defines] = f.namespaced
          /\ \A k \in DOMAIN scopes : k # f.defines => scopes'[k] = scopes[k]
      BY <2>1 DEF M!Known
    <3>2. f.defines # "Namespace"
      BY <1>1, FileFields
    <3>3. ASSUME NEW d \in Chosen, d \notin unread', d.defines # Nil
          PROVE  d.defines \in DOMAIN scopes' /\ scopes'[d.defines] = d.namespaced
      <4>1. CASE d.defines = f.defines
        BY <1>1, <2>1, <3>1, <3>3, <4>1, FilesAgree
      <4>2. CASE d.defines # f.defines
        BY <1>1, <3>1, <3>3, <4>2 DEF MoveInv, Scoped
      <4>. QED
        BY <4>1, <4>2
    <3>. QED
      BY <1>1, <3>1, <3>2, <3>3 DEF MoveInv, Scoped
  <2>5. \A o \in out : PlacedFile(o) => PlacedFile(o)'
    <3>1. \A o \in out : Moved(o.source)' /\ o.source.defines # Nil
      BY <1>1, <1>2, <2>2 DEF PlacedFile, Moved
    <3>. QED
      BY <1>1, <3>1 DEF PlacedFile, M!PathOf, M!pathName, M!At
  <2>6. PlacedFile([place |-> place, source |-> f, ns |-> f.own])'
    <3>1. Moved(f)'
      BY <2>1, <2>2
    <3>. QED
      BY <1>5, <3>1 DEF PlacedFile, M!PathOf, M!pathName, M!At
  <2>8. Where(f, place)
    BY <1>1, PlacesAreWhere
  <2>. HIDE DEF place
  <2>7. OutInv'
    BY <1>1, <2>1, <2>2, <2>5, <2>6, <2>8, FileWritten
  <2>. QED
    BY <2>3, <2>4, <2>7 DEF MoveInv
<1>. QED
  BY <1>4, <1>5 DEF M!ReadFile

(* Moving a resource, by a scope that stays as it is.                      *)
LEMMA ResourceInv == ASSUME MoveInv, NEW f \in inputs, M!MoveResource(f) PROVE MoveInv'
<1>. PICK place, ns : place = M!Place(f) /\ ns = IF M!IsNamespaced(f.kind) THEN M!NamespaceOf(f) ELSE Nil
  OBVIOUS
<1>1. /\ unread = {} /\ f \in deferred /\ deferred' = deferred \ {f} /\ UNCHANGED <<inputs, unread, override, pending>>
      /\ scopes' = M!Known(f.kind, M!IsNamespaced(f.kind)) /\ M!writeNodeToDir(place, f, ns)
  BY DEF M!MoveResource, M!MayMove
<1>2. inputs \in Inputs /\ f \in Chosen /\ f.defines = Nil /\ Chosen' = Chosen /\ Releases' = Releases
  BY <1>1 DEF MoveInv, MoveTypes, Chosen, Releases
<1>3. /\ DOMAIN scopes' = DOMAIN scopes \cup {f.kind} /\ scopes'[f.kind] = M!IsNamespaced(f.kind)
      /\ \A k \in DOMAIN scopes : scopes'[k] = scopes[k]
  BY <1>1 DEF M!Known, M!IsNamespaced
<1>4. \A k : M!IsNamespaced(k)' = M!IsNamespaced(k)
  BY <1>3 DEF M!IsNamespaced
<1>5. \A g : M!Place(g)' = M!Place(g) /\ M!NamespaceOf(g)' = M!NamespaceOf(g)
  <2>1. \A g : M!NamespaceOf(g)' = M!NamespaceOf(g)
    BY <1>1 DEF M!NamespaceOf
  <2>2. ASSUME NEW g PROVE M!Place(g)' = M!Place(g)
    <3>1. M!IsNamespaced(g.kind)' = M!IsNamespaced(g.kind)
      BY <1>4
    <3>. QED
      BY <2>1, <3>1 DEF M!Place, M!At, M!PathOf, M!pathName
  <2>. QED
    BY <2>1, <2>2
<1>6. \A x \in Chosen : Moved(x)' <=> Moved(x) \/ x = f
  BY <1>1, <1>2 DEF Moved
<1>7. MoveTypes'
  BY <1>1, <1>2 DEF MoveInv, MoveTypes, M!Known
<1>8. Scoped'
  <2>1. "Namespace" \in ClusterKinds
    BY MCAssumption DEF M!HelmfileMoveAssumption
  <2>. QED
    BY <1>1, <1>2, <1>3, <2>1 DEF MoveInv, Scoped, M!IsNamespaced
<1>9. ASSUME NEW o, PlacedFile(o) PROVE PlacedFile(o)'
  <2>1. o.source \in Chosen /\ Moved(o.source)'
    BY <1>6, <1>9 DEF PlacedFile, Moved
  <2>2. /\ M!Place(o.source)' = M!Place(o.source) /\ M!NamespaceOf(o.source)' = M!NamespaceOf(o.source)
        /\ M!IsNamespaced(o.source.kind)' = M!IsNamespaced(o.source.kind)
    BY <1>4, <1>5
  <2>. QED
    BY <1>1, <1>9, <2>1, <2>2 DEF PlacedFile, M!At, M!PathOf, M!pathName
<1>10. PlacedFile([place |-> place, source |-> f, ns |-> ns])'
  <2>1. Moved(f)' /\ unread' = {}
    BY <1>1, <1>2, <1>6
  <2>2. M!Place(f)' = place /\ (IF M!IsNamespaced(f.kind) THEN M!NamespaceOf(f) ELSE Nil)' = ns
    BY <1>4, <1>5
  <2>. QED
    BY <1>2, <2>1, <2>2 DEF PlacedFile
<1>11. Where(f, place)
  BY <1>2, PlacesAreWhere DEF Chosen
<1>12. OutInv'
  BY <1>1, <1>2, <1>6, <1>9, <1>10, <1>11, FileWritten
<1>. QED
  BY <1>7, <1>8, <1>12 DEF MoveInv

(* Ensuring a namespace.                                                   *)
LEMMA EnsureInv == ASSUME MoveInv, NEW ns \in pending, M!lazyCreateNamespaceResource(ns) PROVE MoveInv'
<1>1. /\ unread = {} /\ deferred = {} /\ pending' = pending \ {ns} /\ UNCHANGED <<inputs, unread, override, scopes, deferred>>
      /\ ns \in Releases /\ inputs \in Inputs /\ Chosen' = Chosen /\ Releases' = Releases
  BY DEF M!lazyCreateNamespaceResource, M!MayEnsure, MoveInv, MoveTypes, Chosen, Releases
<1>2. MoveTypes' /\ Scoped'
  BY <1>1 DEF MoveInv, MoveTypes, Scoped
<1>3. \A x : Moved(x)' = Moved(x)
  BY <1>1 DEF Moved
<1>4. \A o : (PlacedFile(o) => PlacedFile(o)') /\ (PlacedNamespace(o) => PlacedNamespace(o)')
  <2>1. ASSUME NEW o, PlacedFile(o) PROVE PlacedFile(o)'
    BY <1>1, <1>3, <2>1 DEF PlacedFile, M!Place, M!IsNamespaced, M!NamespaceOf, M!PathOf, M!pathName, M!At
  <2>2. ASSUME NEW o, PlacedNamespace(o) PROVE PlacedNamespace(o)'
    BY <1>1, <2>2 DEF PlacedNamespace, M!At, M!Generated
  <2>. QED
    BY <2>1, <2>2
<1>5. \A f, g : M!Confusable(f, g)' = M!Confusable(f, g)
  BY DEF M!Confusable, M!PathOf, M!pathName
<1>6. CASE (\E o \in out : M!IsNamespace(o, ns)) /\ out' = out
  <2>1. Present'
    BY <1>1, <1>3, <1>5, <1>6 DEF MoveInv, OutInv, Present
  <2>2. Ensured'
    BY <1>1, <1>6 DEF MoveInv, OutInv, Ensured, M!IsNamespace
  <2>. QED
    BY <1>2, <1>4, <1>6, <2>1, <2>2 DEF MoveInv, OutInv
<1>7. CASE (~ \E o \in out : M!IsNamespace(o, ns)) /\ M!writeNodeToDir(M!At("cluster", Nil, "namespaces", ns), M!Generated(ns), Nil)
  <2>. DEFINE place == M!At("cluster", Nil, "namespaces", ns)
              e == [place |-> place, source |-> M!Generated(ns), ns |-> Nil]
  <2>1. \A o \in out : o.place # place /\ o.source # M!Generated(ns)
    <3>. SUFFICES ASSUME NEW o \in out PROVE o.place # place /\ o.source # M!Generated(ns)
      OBVIOUS
    <3>1. CASE PlacedFile(o)
      <4>1. o.source \in inputs /\ Where(o.source, o.place)
        BY <1>1, <3>1, PlacedWhere
      <4>2. o.place # place
        BY <4>1 DEF Where, M!At
      <4>. QED
        BY <1>1, <4>1, <4>2, GeneratedIsNoFile
    <3>2. CASE PlacedNamespace(o)
      <4>1. PICK m \in Releases \ pending : o = [place |-> M!At("cluster", Nil, "namespaces", m), source |-> M!Generated(m), ns |-> Nil]
        BY <3>2 DEF PlacedNamespace
      <4>2. m # ns
        OBVIOUS
      <4>. QED
        BY <4>1, <4>2 DEF M!At, M!Generated
    <3>. QED
      BY <3>1, <3>2 DEF MoveInv, OutInv
  <2>2. out' = out \cup {e} /\ e.source = M!Generated(ns) /\ e.place = place
    BY <1>7, <2>1 DEF M!writeNodeToDir
  <2>3. PlacedNamespace(e)' /\ M!IsNamespace(e, ns) /\ \A m : m # ns => ~ M!IsNamespace(e, m)
    BY <1>1 DEF PlacedNamespace, M!IsNamespace, M!At, M!Generated
  <2>. HIDE DEF place, e
  <2>4. Present'
    BY <1>1, <1>3, <1>5, <2>2 DEF MoveInv, OutInv, Present
  <2>5. Ensured'
    <3>1. \A m : \A o \in out : M!IsNamespace(o, m)' = M!IsNamespace(o, m)
      BY DEF M!IsNamespace
    <3>2. \A m \in Releases \ pending' : \E o \in out' : M!IsNamespace(o, m)
      BY <1>1, <2>2, <2>3 DEF MoveInv, OutInv, Ensured
    <3>3. \A m \in Releases, o, p \in out' : M!IsNamespace(o, m) /\ M!IsNamespace(p, m) => o = p
      BY <1>7, <2>2, <2>3 DEF MoveInv, OutInv, Ensured
    <3>. QED
      BY <1>1, <3>2, <3>3 DEF Ensured, M!IsNamespace
  <2>6. \A o, p \in out' : o.source = p.source => o = p
    BY <2>1, <2>2 DEF MoveInv, OutInv
  <2>7. \A o \in out' : PlacedFile(o)' \/ PlacedNamespace(o)'
    BY <1>4, <2>2, <2>3 DEF MoveInv, OutInv
  <2>. QED
    BY <1>2, <2>4, <2>5, <2>6, <2>7 DEF MoveInv, OutInv
<1>. QED
  BY <1>6, <1>7 DEF M!lazyCreateNamespaceResource

-----------------------------------------------------------------------------
(* The theorem.                                                            *)
InMove == part = "move" => MoveInv

(* The invariant holds in the part of the run that moves.                  *)
LEMMA MoveNext == InMove /\ [Next]_vars => InMove'
<1>. SUFFICES ASSUME InMove, [Next]_vars, part' = "move" PROVE MoveInv'
  BY DEF InMove
<1>1. part = "move" /\ MoveInv
  BY DEF InMove, Next, vars
<1>2. CASE M!Next
  BY <1>1, <1>2, ReadInv, ResourceInv, EnsureInv DEF M!Next
<1>3. CASE UNCHANGED vars
  <2>1. UNCHANGED moving
    BY <1>3 DEF vars, moving
  <2>. QED
    BY <1>1, <2>1 DEF moving, MoveInv, MoveTypes, Scoped, OutInv, PlacedFile, PlacedNamespace, Present, Ensured, Moved, Chosen, Releases,
       M!Confusable, M!Place, M!IsNamespaced, M!NamespaceOf, M!PathOf, M!pathName, M!At, M!IsNamespace, M!Generated
<1>. QED
  BY <1>1, <1>2, <1>3 DEF Next

(* When all is done, the invariant is the property.                        *)
LEMMA DoneInPlace == MoveInv => M!EachInItsPlace /\ M!OneNamespaceEach
<1>. SUFFICES ASSUME MoveInv, M!Done PROVE M!EachInItsPlace /\ M!OneNamespaceEach
  BY DEF M!EachInItsPlace, M!OneNamespaceEach
<1>1. unread = {} /\ deferred = {} /\ pending = {} /\ inputs \in Inputs
  BY DEF M!Done, MoveInv, MoveTypes
<1>2. ASSUME NEW o \in out, NEW d \in Chosen, d.defines # Nil, o.source.kind = d.defines
      PROVE  (o.place.dir = "namespaces") = d.namespaced /\ (o.ns # Nil) = d.namespaced
  <2>1. d.namespaced \in BOOLEAN /\ d.defines # "CustomResourceDefinition" /\ d.defines # "Namespace"
    BY <1>1, FileFields DEF Chosen
  <2>2. M!IsNamespaced(d.defines) = d.namespaced
    BY <1>1, <1>2 DEF MoveInv, Scoped, M!IsNamespaced
  <2>3. PlacedFile(o)
    <3>1. CASE PlacedNamespace(o)
      BY <1>2, <2>1, <3>1 DEF PlacedNamespace, M!Generated
    <3>. QED
      BY <3>1 DEF MoveInv, OutInv
  <2>4. o.source \in inputs /\ o.source.defines = Nil /\ o.source.ns # Nil
    BY <1>1, <1>2, <2>1, <2>3, FileFields DEF PlacedFile, Moved, Chosen
  <2>5. M!NamespaceOf(o.source) # Nil
    BY <2>4 DEF M!NamespaceOf
  <2>. QED
    BY <1>2, <2>1, <2>2, <2>3, <2>4, <2>5 DEF PlacedFile, M!Place, M!At
<1>3. \A f \in Chosen : (\E o \in out : o.source = f) \/ (\E g \in inputs \ {f} : M!Confusable(f, g))
  BY <1>1 DEF MoveInv, OutInv, Present, Moved
<1>6. ASSUME NEW o \in out, o.source \in inputs
      PROVE  Selected(o.source) /\ M!InOwnDirectory(o)
  <2>1. o.source.ns = o.source.ns /\ DOMAIN o.source =
          {"ns", "release", "chart", "rel", "kind", "name", "own", "defines", "namespaced"}
    BY <1>1, <1>6, FileFields
  <2>2. PlacedFile(o)
    <3>1. CASE PlacedNamespace(o)
      <4>1. PICK ns : o = [place |-> M!At("cluster", Nil, "namespaces", ns), source |-> M!Generated(ns), ns |-> Nil]
        BY <3>1 DEF PlacedNamespace
      <4>2. DOMAIN o.source = {"kind", "name"}
        BY <4>1 DEF M!Generated
      <4>. QED
        BY <2>1, <4>2
    <3>. QED
      BY <3>1 DEF MoveInv, OutInv
  <2>3. Selected(o.source)
    BY <2>2 DEF PlacedFile, Moved, Chosen
  <2>4. CASE o.source.defines # Nil
    BY <2>2, <2>3, <2>4 DEF PlacedFile, M!InOwnDirectory, M!At
  <2>5. CASE o.source.defines = Nil
    BY <2>2, <2>3, <2>5 DEF PlacedFile, M!InOwnDirectory, M!Place, M!At
  <2>. QED
    BY <2>4, <2>5
<1>4. M!EachInItsPlace
  BY <1>2, <1>3, <1>6 DEF M!EachInItsPlace, Chosen
<1>5. ASSUME NEW ns \in Releases PROVE \E o \in out : {p \in out : M!IsNamespace(p, ns)} = {o}
  <2>1. PICK o \in out : M!IsNamespace(o, ns)
    BY <1>1 DEF MoveInv, OutInv, Ensured
  <2>2. {p \in out : M!IsNamespace(p, ns)} = {o}
    BY <2>1 DEF MoveInv, OutInv, Ensured
  <2>. QED
    BY <2>2
<1>. QED
  BY <1>4, <1>5 DEF M!OneNamespaceEach, Releases

(* Theorem about helmfile move (pkg/cmd/helmfile/move): when it is done,   *)
(* every resource is in the directory of its namespace and chart, every    *)
(* custom resource is where the definition that was rendered says, every   *)
(* file that cannot be taken for another one is there, and each namespace  *)
(* has one Namespace.                                                      *)
THEOREM ResourcesInTheirPlace == Spec => []EachInItsPlace
<1>1. Init => InMove
  BY MoveInit DEF Init, InMove
<1>2. InMove => EachInItsPlace
  BY DoneInPlace DEF InMove, EachInItsPlace
<1>. QED
  BY <1>1, <1>2, MoveNext, PTL DEF Spec
=================================================================================
