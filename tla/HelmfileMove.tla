------------------------------ MODULE HelmfileMove ------------------------------
(***************************************************************************)
(* jx gitops helmfile move (pkg/cmd/helmfile/move): the files that helmfile*)
(* template wrote, a directory per namespace, release and chart, go where  *)
(* they are applied from: customresourcedefinitions, namespaces or cluster.*)
(* Where a custom resource goes depends on its definition, which another   *)
(* chart may have.                                                         *)
(*                                                                         *)
(* A file is a record of the directory it is in (ns, release and chart),   *)
(* its path without templates and crds (rel), its kind, its name, the      *)
(* namespace in it and, when it is a definition, the kind that it defines  *)
(* and whether that is namespaced.                                         *)
(***************************************************************************)
EXTENDS Naturals

CONSTANTS
  Nil,
  Inputs,        \* the sets of files that are moved
  Selected(_),   \* whether the selector takes a file
  Combined(_, _),\* the directory of a release with another name than its chart
  Begins(_, _),  \* whether the name of a release begins with that of a chart
  ServerScopes,  \* the kinds that the API server knows, and their scopes
  ClusterKinds,  \* the kinds that are known not to be namespaced
  WithRelease,   \* --dir-includes-release-name
  Overrides      \* --override-namespace

VARIABLES
  files,    \* the files that were there
  unread,   \* those that are not read yet
  override, \* --override-namespace
  scopes,   \* NamespacedKind
  deferred, \* ResourcesToMove
  out,      \* the files that were written
  pending   \* the namespaces that are not ensured yet

(* What is assumed of the constants: files are complete, the definitions   *)
(* of a kind agree on its scope, and charts do not have a Namespace twice. *)
HelmfileMoveAssumption ==
  /\ \A fs \in Inputs :
       /\ \A f \in fs :
            /\ f = [ns |-> f.ns, release |-> f.release, chart |-> f.chart, rel |-> f.rel, kind |-> f.kind, name |-> f.name,
                    own |-> f.own, defines |-> f.defines, namespaced |-> f.namespaced]
            /\ f.ns # Nil /\ f.namespaced \in BOOLEAN
            /\ f.defines # Nil => f.kind = "CustomResourceDefinition"
            /\ f.defines \notin {"CustomResourceDefinition", "Namespace"}
       /\ \A f, g \in {f \in fs : Selected(f)} :
            /\ f.defines = g.defines /\ f.defines # Nil => f.namespaced = g.namespaced
            /\ f.kind = "Namespace" /\ g.kind = "Namespace" /\ f.name = g.name => f = g
  /\ \A s \in ServerScopes : s = [k \in DOMAIN s |-> s[k]] /\ ("Namespace" \in DOMAIN s => s["Namespace"] = FALSE)
  /\ "Namespace" \in ClusterKinds

vars == <<files, unread, override, scopes, deferred, out, pending>>

-----------------------------------------------------------------------------
(* The directory is prefixed with the name of the chart, but once only.    *)
pathName(chart, release) ==
  IF chart = release THEN chart ELSE IF Begins(release, chart) THEN release ELSE Combined(chart, release)

PathOf(f) == pathName(f.chart, IF WithRelease THEN f.release ELSE f.chart)

At(dir, ns, path, rel) == [dir |-> dir, ns |-> ns, path |-> path, rel |-> rel]

(* A file is written over one that is there.                               *)
writeNodeToDir(place, f, ns) ==
  out' = {o \in out : o.place # place} \cup {[place |-> place, source |-> f, ns |-> ns]}

IsNamespaced(kind) == IF kind \in DOMAIN scopes THEN scopes[kind] ELSE kind \notin ClusterKinds

Known(kind, scope) == [k \in DOMAIN scopes \cup {kind} |-> IF k = kind THEN scope ELSE scopes[k]]

-----------------------------------------------------------------------------
Init ==
  /\ files \in Inputs /\ unread = files
  /\ override \in Overrides
  /\ scopes \in ServerScopes
  /\ deferred = {} /\ out = {}
  /\ pending = {f.ns : f \in files}

(* moveFilesToClusterOrNamespacesFolder, for one file.  The names in the   *)
(* model stand for any, so the files are read in any order.                *)
ReadFile(f) ==
  /\ f \in unread
  /\ unread' = unread \ {f}
  /\ \/ /\ ~ Selected(f)
        /\ UNCHANGED <<scopes, deferred, out>>
     \/ /\ Selected(f) /\ f.defines # Nil
        /\ scopes' = Known(f.defines, f.namespaced)
        /\ writeNodeToDir(At("customresourcedefinitions", f.ns, PathOf(f), f.rel), f, f.own)
        /\ UNCHANGED deferred
     \/ /\ Selected(f) /\ f.defines = Nil
        /\ deferred' = deferred \cup {f}
        /\ UNCHANGED <<scopes, out>>
  /\ UNCHANGED <<files, override, pending>>

NamespaceOf(f) == IF override \/ f.own = Nil THEN f.ns ELSE f.own

Place(f) ==
  IF IsNamespaced(f.kind) THEN At("namespaces", NamespaceOf(f), PathOf(f), f.rel)
  ELSE At("cluster", f.ns, PathOf(f), f.rel)

(* Mutant of MayMove: a resource is moved as soon as it is read.           *)
MayMoveAtOnce(f) == f \in deferred

MayMove(f) == unread = {} /\ f \in deferred

(* The second loop of Run.                                                 *)
MoveResource(f) ==
  /\ MayMove(f)
  /\ deferred' = deferred \ {f}
  /\ scopes' = Known(f.kind, IsNamespaced(f.kind))
  /\ writeNodeToDir(Place(f), f, IF IsNamespaced(f.kind) THEN NamespaceOf(f) ELSE Nil)
  /\ UNCHANGED <<files, unread, override, pending>>

IsNamespace(o, ns) == o.place.dir = "cluster" /\ o.source.kind = "Namespace" /\ o.source.name = ns

Generated(ns) == [kind |-> "Namespace", name |-> ns]

MayEnsure(ns) == unread = {} /\ deferred = {} /\ ns \in pending

lazyCreateNamespaceResource(ns) ==
  /\ MayEnsure(ns)
  /\ pending' = pending \ {ns}
  /\ IF \E o \in out : IsNamespace(o, ns) THEN UNCHANGED out
     ELSE writeNodeToDir(At("cluster", Nil, "namespaces", ns), Generated(ns), Nil)
  /\ UNCHANGED <<files, unread, override, scopes, deferred>>

Next ==
  \/ \E f \in files : ReadFile(f) \/ MoveResource(f)
  \/ \E ns \in pending : lazyCreateNamespaceResource(ns)

Spec == Init /\ [][Next]_vars

-----------------------------------------------------------------------------
Done == unread = {} /\ deferred = {} /\ pending = {}

(* Two files that may end in the same place: in the same namespace, that   *)
(* of the release or the one that the file names for itself.               *)
Confusable(f, g) ==
  f.rel = g.rel /\ PathOf(f) = PathOf(g) /\ ({f.ns, f.own} \cap {g.ns, g.own}) \ {Nil} # {}

(* The directory that a resource belongs in: that of its namespace (or, in *)
(* the cluster, of the namespace of its release) and of its chart.  What   *)
(* is in the directory of a namespace is in the namespace.                 *)
InOwnDirectory(o) ==
  /\ o.place.path = PathOf(o.source) /\ o.place.rel = o.source.rel
  /\ IF o.place.dir = "namespaces" THEN o.place.ns = NamespaceOf(o.source) /\ o.ns = o.place.ns
     ELSE o.place.ns = o.source.ns

(* Whatever the order of the charts: each resource is in its directory;    *)
(* that of a custom resource is in cluster, and the resource is without a  *)
(* namespace, exactly when a definition that was rendered says so, whatever*)
(* the server says; and each file that cannot be taken for another one is  *)
(* there.                                                                  *)
EachInItsPlace ==
  Done =>
    /\ \A o \in out : o.source \in files => Selected(o.source) /\ InOwnDirectory(o)
    /\ \A o \in out : \A d \in {d \in files : Selected(d)} :
         (d.defines # Nil /\ o.source.kind = d.defines)
           => (o.place.dir = "namespaces") = d.namespaced /\ (o.ns # Nil) = d.namespaced
    /\ \A f \in {f \in files : Selected(f)} :
         (\E o \in out : o.source = f) \/ (\E g \in files \ {f} : Confusable(f, g))

(* Each namespace with a release has one Namespace, that of a chart if any *)
(* chart has it.                                                           *)
OneNamespaceEach ==
  Done => \A ns \in {f.ns : f \in files} : \E o \in out : {p \in out : IsNamespace(p, ns)} = {o}
=============================================================================
