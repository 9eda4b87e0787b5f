------------------------------- MODULE Helmfiles -------------------------------
(***************************************************************************)
(* The helmfiles of a cluster and what changes them: jx gitops helmfile    *)
(* add, delete, structure and resolve (pkg/helmfiles, pkg/cmd/helmfile).   *)
(*                                                                         *)
(* The root helmfile has releases of any namespace; structure moves them   *)
(* to one helmfile per namespace, which the root then includes.  Resolve   *)
(* fills in what a release leaves out from the version stream and, with    *)
(* --update, replaces what the version stream has changed.                 *)
(*                                                                         *)
(* A chart is a pair of a prefix and a local name.  A helmfile is one      *)
(* document, or two of which the first has the environments only (split).  *)
(* The prefix of an OCI URL is left out.                                   *)
(***************************************************************************)
EXTENDS Naturals, FiniteSets, Sequences, SequencesExt

CONSTANTS
  Nil,
  Namespaces,
  ChartPrefixes, \* the prefixes of charts, "." and "git::" among them
  Locals,        \* the local names of charts
  Roots,         \* the root helmfiles to begin with
  Streams,       \* the states of the version stream
  LocalValues,   \* the names that have a file in the directory values
  ClusterUrls,   \* repositories that only the cluster can reach
  MovedUrl,      \* the URLs that resolve --update replaces
  LocalSecrets,  \* whether the secrets are stored in the cluster
  Additions,     \* the charts that are added, as ChartDetails
  Deletions,     \* and removed, as <<chart, namespace>>
  MaxSteps       \* bound on the number of commands

Root == "helmfile.yaml"
Charts == ChartPrefixes \X Locals
Opt(S) == S \cup {Nil}
OrElse(x, default) == IF x = Nil THEN default ELSE x

(* What is assumed of the constants.                                       *)
HelmfilesAssumption ==
  /\ {Nil, Root} \cap Namespaces = {} /\ "jx" \in Namespaces
  /\ {".", "git::"} \subseteq ChartPrefixes
  /\ \A s \in Streams : DOMAIN s.charts \subseteq Charts /\ DOMAIN s.prefixes = ChartPrefixes

(* The helmfile of a namespace has the namespace for its path; structure   *)
(* puts releases without a namespace in a directory above those.           *)
Above == "helmfiles"
Paths == {Root, Above} \cup Namespaces
PathFrom(ns) == IF ns = Nil THEN Above ELSE ns

(* How far a helmfile is below the root.                                   *)
Depth(p) == IF p = Root THEN 0 ELSE IF p = Above THEN 1 ELSE 2

VARIABLES
  files,    \* the helmfiles by path
  stream,   \* the version stream: the properties of charts, those that have
            \* values, the URLs of prefixes and the ref of the catalog
  disk,     \* the jx-values.yaml in the root and in namespaces; the catalog
  todo,     \* what the running command still processes
  mode,     \* whether it updates
  settled,  \* the helmfiles that the last resolve --update left, if nothing
            \* has changed since
  op,       \* the last command, for the properties
  steps

vars == <<files, stream, disk, todo, mode, settled, op, steps>>

-----------------------------------------------------------------------------
(* pkg/helmfiles                                                           *)

NoRepositories == [q \in ChartPrefixes |-> Nil]

(* A helmfile without anything.  Unnamed is whether there is an entry      *)
(* without name and URL among its repositories.                            *)
Blank == [ns |-> Nil, split |-> FALSE, env |-> {}, releases |-> <<>>,
          repos |-> NoRepositories, unnamed |-> FALSE, nested |-> {}]

Replaced(seq, k, element) == SubSeq(seq, 1, k - 1) \o <<element>> \o SubSeq(seq, k + 1, Len(seq))

(* The paths that GatherHelmfiles finds.                                   *)
Gathered(fs) == {Root} \cup fs[Root].nested

(* A values file: how many .. its path starts with, and what it is.        *)
File(p, kind, key) == [up |-> Depth(p), kind |-> kind, of |-> key]
JxValues == [up |-> 0, kind |-> "jx-values", of |-> <<>>]

(* AddRepository: the URL that is given, that of the helmfile or the first *)
(* one of the prefix.  Nil is the error.                                   *)
AddRepository(file, prefix, url) ==
  LET found == OrElse(url, OrElse(file.repos[prefix], stream.prefixes[prefix]))
  IN IF found = Nil \/ file.repos[prefix] \notin {Nil, found} THEN Nil
     ELSE [file EXCEPT !.repos[prefix] = found]

MatchesChartName(chart, name) == name[1] \in {Nil, chart[1]} /\ name[2] = chart[2]

NewRelease(chart) ==
  [name |-> Nil, chart |-> chart, version |-> Nil, ns |-> Nil, lock |-> FALSE, label |-> Nil, values |-> <<>>]

(* ChartDetails.Add, to a helmfile of the namespace                        *)
AddRelease(file, details) ==
  LET added == AddRepository(file, details.chart[1], details.url)
      name  == OrElse(details.name, details.chart[2])
      k     == SelectInSeq(file.releases, LAMBDA r : r.chart = details.chart /\ r.name = name)
      Extended(r) == [r EXCEPT !.ns = Nil, !.version = OrElse(details.version, @),
                               !.values = @ \o SelectSeq(details.values, LAMBDA v : v \notin ToSet(r.values))]
      new   == [NewRelease(details.chart) EXCEPT !.name = name, !.version = details.version, !.values = details.values]
  IN IF added = Nil THEN Nil
     ELSE IF k = 0 THEN [added EXCEPT !.releases = Append(@, new)]
     ELSE [added EXCEPT !.releases = Replaced(@, k, Extended(@[k]))]

DeleteReleases(file, name) ==
  [file EXCEPT !.releases = SelectSeq(@, LAMBDA r : ~ MatchesChartName(r.chart, name))]

(* The editor finds the helmfile of a namespace by the namespace in it.    *)
PathFor(fs, ns) ==
  IF \E p \in Gathered(fs) : fs[p].ns = ns THEN CHOOSE p \in Gathered(fs) : fs[p].ns = ns ELSE ns

-----------------------------------------------------------------------------
(* resolve                                                                 *)

NoProperties == [version |-> Nil, prefix |-> Nil, chart |-> Nil, ns |-> Nil, lock |-> FALSE, label |-> Nil]

StableVersion(chart) == IF chart \in DOMAIN stream.charts THEN stream.charts[chart] ELSE NoProperties

(* The version stream may know the chart by the name of the release.       *)
PropertiesOf(r) ==
  LET alias == <<r.chart[1], r.name>>
  IN IF alias \in DOMAIN stream.charts THEN stream.charts[alias] ELSE StableVersion(r.chart)

(* One call of updateRelease.  A replacement is followed by another call;  *)
(* one that is in the helmfile already ends them, and one without a prefix *)
(* replaces nothing.                                                       *)
UpdateOnce(s, update) ==
  LET props       == PropertiesOf(s.release)
      replacement == <<props.prefix, OrElse(props.chart, s.release.chart[2])>>
      url         == OrElse(s.file.repos[props.prefix], stream.prefixes[props.prefix])
  IN IF (props.prefix # Nil \/ props.chart # Nil) /\ (s.release.version = Nil \/ update)
     THEN IF props.prefix = Nil THEN s
          ELSE IF \E k \in DOMAIN s.file.releases : s.file.releases[k].chart = replacement
          THEN [s EXCEPT !.state = "done"]
          ELSE IF url = Nil THEN [s EXCEPT !.state = "failed"]
          ELSE [s EXCEPT !.file.repos[props.prefix] = url, !.release.chart = replacement]
     ELSE [s EXCEPT !.state = "done",
                    !.release = [@ EXCEPT
                      !.lock    = @ \/ props.lock,
                      !.label   = OrElse(props.label, @),
                      !.version = IF @ = Nil \/ update THEN OrElse(props.version, @) ELSE @,
                      !.ns      = IF s.file.ns = Nil THEN OrElse(@, props.ns) ELSE @]]

(* Replacements that lead back to where they began never end: that is a    *)
(* failure, too.                                                           *)
UpdateRelease(file, release, update) ==
  FoldLeft(LAMBDA s, n : IF s.state = "replaced" THEN UpdateOnce(s, update) ELSE s,
           [state |-> "replaced", file |-> file, release |-> release],
           [n \in 1 .. Cardinality(DOMAIN stream.charts) + 1 |-> n])

(* updateValues: files that are no longer in the version stream go.        *)
Prune(values, p) ==
  SelectSeq(values, LAMBDA v : v.kind = "stream" /\ v.up = Depth(p) => v.of \in stream.values)

(* Mutant of With: adds the file again.                                    *)
WithAgain(values, present, v) == IF present THEN Append(values, v) ELSE values

With(values, present, v) == IF present /\ v \notin ToSet(values) THEN Append(values, v) ELSE values

UpdateValues(r, p) ==
  LET alias  == <<r.chart[1], r.name>>
      key    == IF alias \in stream.values THEN alias ELSE r.chart
      local  == IF r.name \in LocalValues THEN r.name ELSE r.chart[2]
      values == With(With(Prune(r.values, p), key \in stream.values, File(p, "stream", key)),
                     local \in LocalValues, File(p, "values", <<local>>))
  IN IF r.label = "lock" THEN r
     ELSE [r EXCEPT !.values =
             IF p # Root /\ r.label = "no-jx-values" THEN SelectSeq(values, LAMBDA v : v # JxValues)
             ELSE With(values, p # Root, JxValues)]

(* One release of the loop of resolveHelmfile.                             *)
ResolveRelease(file, k, p, update, ignored) ==
  LET r       == [file.releases[k] EXCEPT !.name = OrElse(@, file.releases[k].chart[2])]
      added   == IF r.chart[1] = "." THEN file ELSE AddRepository(file, r.chart[1], Nil)
      keep    == r.chart[1] = "." \/ r.lock \/ added.repos[r.chart[1]] \in ignored
      updated == IF keep THEN [state |-> "done", file |-> added, release |-> r]
                 ELSE UpdateRelease(added, r, update)
      placed  == [updated.release EXCEPT !.ns = IF file.ns = Nil THEN OrElse(@, "jx") ELSE @]
  IN IF r.chart[1] = "git::" THEN file
     ELSE IF added = Nil THEN Nil
     ELSE IF updated.state # "done" THEN Nil
     ELSE [updated.file EXCEPT !.releases = Replaced(@, k, UpdateValues(placed, p))]

ResolveHelmfile(file, p, update) ==
  LET ignored == {file.repos[q] : q \in ChartPrefixes} \cap ClusterUrls
  IN FoldLeft(LAMBDA f, k : IF f = Nil THEN Nil ELSE ResolveRelease(f, k, p, update, ignored),
              file, [k \in DOMAIN file.releases |-> k])

-----------------------------------------------------------------------------
(* The upgrades that resolve --update knows by itself.                     *)

Rename(from, to) == [from |-> from, to |-> to, ns |-> Nil, first |-> FALSE, refresh |-> FALSE, values |-> "move"]

Renames ==
  << [Rename({<<"jenkins-x", "tekton">>}, <<"cdf", "tekton-pipeline">>)
        EXCEPT !.ns = "tekton-pipelines", !.first = TRUE, !.values = "keep"],
     Rename({"jx3"} \X Locals, <<"jxgh", Nil>>),
     Rename({"jenkins-x"} \X {"jxboot-helmfile-resources", "bucketrepo", "nexus", "lighthouse"}, <<"jxgh", Nil>>),
     [Rename({<<"jenkins-x", "chartmuseum">>}, <<"stable", Nil>>)
        EXCEPT !.first = TRUE, !.refresh = TRUE, !.values = "reset"],
     [Rename({<<"stable", "nginx-ingress">>}, <<"ingress-nginx", "ingress-nginx">>)
        EXCEPT !.refresh = TRUE, !.values = "reset"],
     [Rename({<<"jx-labs", "jenkins-x-crds">>}, <<"jxgh", Nil>>)
        EXCEPT !.first = TRUE, !.refresh = TRUE, !.values = "reset"],
     [Rename({<<"jx-labs", "pusher-wave">>}, <<"jxgh", Nil>>) EXCEPT !.first = TRUE, !.refresh = TRUE, !.values = "keep"],
     [Rename({<<"jx-labs", "vault-instance">>}, <<"jxgh", Nil>>) EXCEPT !.first = TRUE, !.refresh = TRUE, !.values = "keep"] >>

(* The URL that is written for a prefix is named by the prefix.            *)
WithRepository(file, prefix) == [file EXCEPT !.repos[prefix] = OrElse(@, prefix)]

ApplyRename(file, u) ==
  LET at == IF file.ns = Nil THEN Root ELSE file.ns
      To(chart) == <<u.to[1], OrElse(u.to[2], chart[2])>>
      MovedFile(r, v) ==
        IF v = File(at, "stream", r.chart) \/ (r.chart[1] = "jx3" /\ v = File(at, "stream", <<"jx3", r.name>>))
        THEN [v EXCEPT !.of[1] = u.to[1]] ELSE v
      Renamed(r) ==
        [r EXCEPT !.chart   = To(@),
                  !.ns      = OrElse(u.ns, @),
                  !.version = IF u.refresh THEN StableVersion(To(r.chart)).version ELSE @,
                  !.values  = CASE u.values = "move"  -> [j \in DOMAIN @ |-> MovedFile(r, @[j])]
                                [] u.values = "reset" -> <<File(at, "stream", To(r.chart))>>
                                [] OTHER -> @]
      Hit(k) == /\ file.releases[k].chart \in u.from
                /\ u.first => \A j \in 1 .. k - 1 : file.releases[j].chart \notin u.from
      renamed == [file EXCEPT !.releases = [k \in DOMAIN @ |-> IF Hit(k) THEN Renamed(@[k]) ELSE @[k]]]
  IN IF \E k \in DOMAIN file.releases : Hit(k) THEN WithRepository(renamed, u.to[1]) ELSE file

(* The first path that leaves out the repository, in each release.         *)
CorrectPath(file) ==
  LET at == IF file.ns = Nil THEN Root ELSE file.ns
      chart == <<"ingress-nginx", "ingress-nginx">>
      Corrected(values) ==
        LET j == SelectInSeq(values, LAMBDA v : v = File(at, "stream", <<"ingress-nginx">>))
        IN IF j = 0 THEN values ELSE Replaced(values, j, File(at, "stream", chart))
  IN [file EXCEPT !.releases = [k \in DOMAIN @ |->
        IF @[k].chart = chart THEN [@[k] EXCEPT !.values = Corrected(@)] ELSE @[k]]]

(* Charts that every cluster of their kind has.                            *)
Ensure(file, needed, chart, version) ==
  IF needed /\ \A k \in DOMAIN file.releases : file.releases[k].chart # chart
  THEN WithRepository([file EXCEPT !.releases = Append(@, [NewRelease(chart) EXCEPT !.version = version])], "jxgh")
  ELSE file

isDevCluster(file) ==
  \E k \in DOMAIN file.releases : file.releases[k].chart[2] \in {"jxboot-helmfile-resources", "lighthouse"}

CustomUpgrades(file) ==
  LET moved   == [file EXCEPT !.repos = [q \in ChartPrefixes |-> IF @[q] \in DOMAIN MovedUrl THEN MovedUrl[@[q]] ELSE @[q]]]
      renamed == CorrectPath(FoldLeft(ApplyRename, moved, Renames))
      secrets == <<"jxgh", "local-external-secrets">>
      stored  == Ensure(renamed, LocalSecrets /\ file.ns = "jx", secrets, StableVersion(secrets).version)
  IN IF file.releases = <<>> THEN file
     ELSE Ensure(stored, file.ns = "jx" /\ isDevCluster(stored), <<"jxgh", "jx-build-controller">>, Nil)

removeRedundantRepositories(file) ==
  [file EXCEPT !.unnamed = FALSE, !.repos = [q \in ChartPrefixes |->
     IF \E k \in DOMAIN file.releases : file.releases[k].chart[1] = q THEN @[q] ELSE Nil]]

(* The document with the environments, which have jx-values.yaml.          *)
ensureEnvironment(file) == [file EXCEPT !.split = TRUE, !.env = @ \cup {JxValues}]

-----------------------------------------------------------------------------
(* structure                                                               *)

(* Mutant of Raise: the files of the version stream only.                  *)
RaiseStream(v) == IF v.kind = "stream" THEN [v EXCEPT !.up = @ + 2] ELSE v

(* ../.. is put before every path.                                         *)
Raise(v) == [v EXCEPT !.up = @ + 2]

(* The last document of the root says what the environments are: none, if  *)
(* the first has them.  A prefix without a repository gives an empty entry.*)
NamespaceHelmfile(root, ns) ==
  LET own == SelectSeq(root.releases, LAMBDA r : r.ns = ns)
      prefixes == {own[k].chart[1] : k \in DOMAIN own} \ {"."}
      Placed(r) == [r EXCEPT !.ns = Nil, !.values = [j \in DOMAIN @ |-> Raise(@[j])]]
  IN [Blank EXCEPT !.ns = ns,
                   !.env = IF root.split THEN {} ELSE {Raise(v) : v \in root.env},
                   !.releases = [k \in DOMAIN own |-> Placed(own[k])],
                   !.repos = [q \in ChartPrefixes |-> IF q \in prefixes THEN root.repos[q] ELSE Nil],
                   !.unnamed = \E q \in prefixes : root.repos[q] = Nil]

NamespacesOf(root) == {root.releases[k].ns : k \in DOMAIN root.releases}

(* One document is left, the last one; helmfile add writes what the root   *)
(* includes to the first.                                                  *)
ConfiguredRoot(root) ==
  [Blank EXCEPT !.ns = root.ns,
                !.nested = (IF root.split THEN {} ELSE root.nested) \cup {PathFrom(ns) : ns \in NamespacesOf(root)}]

(* The helmfiles with those of some namespaces made from the root.         *)
Saved(fs, S) ==
  [p \in Paths |-> IF \E ns \in S : PathFrom(ns) = p
                   THEN NamespaceHelmfile(fs[Root], CHOOSE ns \in S : PathFrom(ns) = p) ELSE fs[p]]

(* Mutant of Structured: a helmfile that is there is written over.         *)
StructuredOver(fs) ==
  {[ok |-> TRUE, files |-> [Saved(fs, NamespacesOf(fs[Root])) EXCEPT ![Root] = ConfiguredRoot(fs[Root])]]}

(* The helmfiles after structure, or those that are left behind when a     *)
(* helmfile of a namespace is there already.                               *)
Structured(fs) ==
  LET free == {ns \in NamespacesOf(fs[Root]) : fs[PathFrom(ns)] = Nil}
  IN IF free = NamespacesOf(fs[Root])
     THEN {[ok |-> TRUE, files |-> [Saved(fs, free) EXCEPT ![Root] = ConfiguredRoot(fs[Root])]]}
     ELSE {[ok |-> FALSE, files |-> Saved(fs, S)] : S \in SUBSET free}

-----------------------------------------------------------------------------
Init ==
  /\ files \in {[p \in Paths |-> IF p = Root THEN root ELSE Nil] : root \in Roots}
  /\ stream \in Streams
  /\ disk = [jx |-> {Root}, catalog |-> Nil]
  /\ todo = <<>> /\ mode = FALSE /\ settled = Nil
  /\ op = [kind |-> "none"] /\ steps = 0

Command(o) == todo = <<>> /\ op' = o /\ steps < MaxSteps /\ steps' = steps + 1

(* jx gitops helmfile add: nothing is saved after an error.                *)
AddChart(details) ==
  LET p      == PathFor(files, details.ns)
      before == [(IF p \in Gathered(files) THEN files[p] ELSE Blank) EXCEPT !.ns = details.ns]
      after  == AddRelease(before, details)
  IN /\ Command([kind |-> "add"])
     /\ files' = IF after = Nil THEN files
                 ELSE [files EXCEPT ![p] = IF after.releases = before.releases THEN @ ELSE after,
                                    ![Root].nested = @ \cup {details.ns}]
     /\ settled' = Nil
     /\ UNCHANGED <<stream, disk, todo, mode>>

(* jx gitops helmfile delete, from one namespace or from all               *)
DeleteChart(name, ns) ==
  /\ Command([kind |-> "delete", chart |-> name])
  /\ files' = [p \in Paths |->
                 IF p \in Gathered(files) /\ files[p].ns # Nil /\ ns \in {Nil, files[p].ns}
                 THEN DeleteReleases(files[p], name) ELSE files[p]]
  /\ settled' = Nil
  /\ UNCHANGED <<stream, disk, todo, mode>>

(* jx gitops helmfile structure                                            *)
Structure ==
  /\ Command([kind |-> "structure"])
  /\ \E result \in Structured(files) : files' = result.files
  /\ settled' = Nil
  /\ UNCHANGED <<stream, disk, todo, mode>>

(* The version stream of the cluster is upgraded.                          *)
UpgradeStream ==
  /\ Command([kind |-> "upgrade"])
  /\ stream' \in Streams \ {stream}
  /\ settled' = Nil
  /\ UNCHANGED <<files, disk, todo, mode>>

InOrder(fs) == <<Root>> \o SetToSeq(fs[Root].nested)

(* jx gitops helmfile resolve, with or without --update                    *)
Resolve(update) ==
  /\ Command([kind |-> "resolve"])
  /\ mode' = update
  /\ todo' = IF update THEN <<Root, "structure">> ELSE InOrder(files)
  /\ UNCHANGED <<files, stream, disk, settled>>

(* processHelmfile, for the first helmfile that is left.                   *)
ProcessHelmfile ==
  LET p        == Head(todo)
      upgraded == IF mode THEN CustomUpgrades(files[p]) ELSE files[p]
      resolved == ResolveHelmfile(upgraded, p, mode)
      cleaned  == IF mode THEN removeRedundantRepositories(resolved) ELSE resolved
      ready    == IF p = Root THEN cleaned ELSE ensureEnvironment(cleaned)
      removed  == IF mode /\ files[p].ns # Nil /\ files[p].releases # <<>> THEN {Root} ELSE {}
      failed   == resolved = Nil
      left     == IF failed THEN <<>> ELSE Tail(todo)
      after    == IF failed THEN files ELSE [files EXCEPT ![p] = ready]
  IN /\ todo # <<>> /\ p \in Paths
     /\ files' = after
     /\ disk' = [disk EXCEPT !.jx = (@ \ removed) \cup (IF failed THEN {} ELSE {p} \ {Root})]
     /\ todo' = left
     /\ op' = [kind |-> IF failed THEN "failed" ELSE IF left = <<>> THEN "resolved" ELSE "resolve"]
     /\ settled' = IF left # <<>> THEN settled ELSE IF failed \/ ~ mode THEN Nil ELSE after
     /\ UNCHANGED <<stream, mode, steps>>

(* upgradeHelmfileStructure and upgradePipelineCatalog                     *)
UpgradeStructure ==
  LET done == \E p \in Paths \ {Root} : files[p] # Nil
  IN /\ todo # <<>> /\ Head(todo) = "structure"
     /\ \E result \in (IF done THEN {[ok |-> TRUE, files |-> files]} ELSE Structured(files)) :
          /\ files' = result.files
          /\ todo' = InOrder(result.files)
     /\ disk' = [disk EXCEPT !.catalog = OrElse(stream.catalog, @)]
     /\ UNCHANGED <<stream, mode, settled, op, steps>>

Next ==
  \/ \E details \in Additions : AddChart(details)
  \/ \E d \in Deletions : DeleteChart(d[1], d[2])
  \/ Structure
  \/ UpgradeStream
  \/ \E update \in BOOLEAN : Resolve(update)
  \/ ProcessHelmfile
  \/ UpgradeStructure

Spec == Init /\ [][Next]_vars

-----------------------------------------------------------------------------
Releases(fs, p) == ToSet(fs[p].releases)

(* The releases that are named and whose namespace is known; the old       *)
(* tekton chart gets another one.                                          *)
Deployed(fs) ==
  UNION {{[ns |-> OrElse(fs[p].ns, r.ns), name |-> r.name] :
            r \in {r \in Releases(fs, p) : r.name # Nil /\ OrElse(fs[p].ns, r.ns) # Nil
                                             /\ r.chart # <<"jenkins-x", "tekton">>}}
         : p \in Gathered(fs)}

(* No release is lost and none changes its namespace when charts are added,*)
(* the helmfile is split by namespace and charts are replaced; only delete *)
(* removes one.  The exception is structure on a root of two documents,    *)
(* which drops what add has made it include.                               *)
KeepsReleases ==
  (op'.kind # "delete" /\ ~ (op'.kind = "structure" /\ files[Root].split /\ files[Root].nested # {}))
    => Deployed(files) \subseteq Deployed(files')

ReleasesKept == [][KeepsReleases]_vars

(* Every helmfile that the root includes exists.  Once all are resolved,   *)
(* each release with a remote chart has its repository in the same file,   *)
(* and the paths of the files from the version stream and from values      *)
(* start where the helmfile is; only when structure moves releases without *)
(* a namespace do they not.  Once all are resolved with --update, there is *)
(* no empty entry of a repository.                                         *)
Renderable ==
  /\ \A p \in Gathered(files) : files[p] # Nil
  /\ \A p \in Gathered(files) \ {Above} : \A r \in Releases(files, p) : \A j \in DOMAIN r.values :
       r.values[j].kind \in {"stream", "values"} => r.values[j].up = Depth(p)
  /\ op.kind = "resolved" =>
       \A p \in Gathered(files) : \A r \in Releases(files, p) :
         /\ r.chart[1] \notin {".", "git::"} => files[p].repos[r.chart[1]] # Nil
         /\ r.chart[1] # "git::" => r.name # Nil
  /\ op.kind = "resolved" /\ mode => \A p \in Gathered(files) : ~ files[p].unnamed

(* No two releases of a helmfile have the same chart and the same name.    *)
NoTwins ==
  \A p \in Gathered(files) : \A j, k \in DOMAIN files[p].releases :
    LET a == files[p].releases[j]  b == files[p].releases[k]
    IN (a.chart = b.chart /\ a.name = b.name) => j = k

(* resolve --update after resolve --update changes nothing, although it    *)
(* processes the root twice and follows the replacements again.            *)
Stable == (settled # Nil /\ op'.kind = "resolved" /\ mode) => files' = settled

ResolvedTwice == [][Stable]_vars

(* All values files that the releases and the environments name exist.     *)
ValuesExist ==
  op.kind = "resolved" =>
    \A p \in Gathered(files) :
      \A v \in files[p].env \cup UNION {ToSet(r.values) : r \in Releases(files, p)} :
        v.kind = "jx-values" => v.up \in {0, Depth(p)} /\ (IF v.up = 0 THEN p ELSE Root) \in disk.jx
=============================================================================
