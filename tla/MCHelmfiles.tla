----------------------------- MODULE MCHelmfiles -----------------------------
(***************************************************************************)
(* The commands on helmfiles: add, delete, structure and resolve change    *)
(* the files of a cluster, and move works on what is rendered from them.   *)
(* The constants of move get their values in the .cfg.                     *)
(***************************************************************************)
EXTENDS SequencesExt, Naturals, FiniteSets, TLC

CONSTANTS
  Nil,
  Inputs, Selected(_), Combined(_, _), Begins(_, _), ServerScopes, ClusterKinds, WithRelease, Overrides \* of HelmfileMove

VARIABLES part, files, stream, disk, todo, mode, settled, op, steps,
  inputs, unread, override, scopes, deferred, out, pending

Prefixed == {".", "git::", "jx3", "jxgh", "old", "new", "stable", "ingress-nginx"}
Props(version) == [version |-> version, prefix |-> Nil, chart |-> Nil, ns |-> Nil, lock |-> FALSE, label |-> Nil]
Repos(known) == [q \in Prefixed |-> IF q \in known THEN q ELSE Nil]

First ==
  [charts   |-> (<<"jxgh", "app">> :> Props("1")) @@ (<<"old", "db">> :> Props("1"))
                @@ (<<"stable", "cache">> :> [Props("1") EXCEPT !.ns = "jx"]),
   values   |-> {<<"jxgh", "app">>, <<"jx3", "app">>},
   prefixes |-> Repos({"jxgh", "old", "stable"}), catalog |-> Nil]
Second ==
  [charts   |-> (<<"jxgh", "app">> :> [Props("2") EXCEPT !.label = "no-jx-values"])
                @@ (<<"old", "db">> :> [Props("1") EXCEPT !.prefix = "new", !.chart = "store"])
                @@ (<<"new", "store">> :> Props("2"))
                @@ (<<"ingress-nginx", "ingress-nginx">> :> Props("2"))
                @@ (<<"stable", "cache">> :> [Props("2") EXCEPT !.lock = TRUE]),
   values   |-> {<<"jxgh", "app">>, <<"new", "store">>, <<"new", "keep">>},
   prefixes |-> Repos({"jxgh", "old", "new", "stable"}), catalog |-> "2"]
Third == [Second EXCEPT !.charts[<<"new", "store">>] = [Props("2") EXCEPT !.chart = "db"]]

Plain(chart, name, version, ns, values) ==
  [name |-> name, chart |-> chart, version |-> version, ns |-> ns, lock |-> FALSE, label |-> Nil, values |-> values]
Stored(key) == [up |-> 0, kind |-> "stream", of |-> key]
Jx == [up |-> 0, kind |-> "jx-values", of |-> <<>>]
RootOf(releases, known, env) ==
  [ns |-> Nil, split |-> FALSE, env |-> env, releases |-> releases, repos |-> Repos(known), unnamed |-> FALSE, nested |-> {}]

Cluster ==
  RootOf(<<Plain(<<"jx3", "app">>, "app", "1", "jx", <<Stored(<<"jx3", "app">>)>>),
           Plain(<<"old", "db">>, Nil, Nil, Nil, <<>>),
           [Plain(<<"old", "db">>, "keep", "1", "infra", <<>>) EXCEPT !.lock = TRUE],
           Plain(<<".", "own">>, Nil, Nil, "infra", <<>>)>>, {"jx3", "old"}, {})
Old ==
  RootOf(<<Plain(<<"stable", "nginx-ingress">>, "nginx", "1", "infra", <<Jx>>),
           [Plain(<<"git::", "app">>, "remote", Nil, "jx", <<>>) EXCEPT !.label = "lock"],
           Plain(<<"ingress-nginx", "ingress-nginx">>, "ingress", "1", "jx", <<Stored(<<"ingress-nginx">>)>>),
           Plain(<<"stable", "cache">>, Nil, Nil, Nil, <<Stored(<<"stable", "cache">>)>>)>>, {"stable"}, {Jx})
Split ==
  [RootOf(<<Plain(<<"jx3", "app">>, "app", Nil, "jx", <<Jx>>), Plain(<<"old", "db">>, "db", Nil, "jx", <<>>)>>, {"jx3"}, {Jx})
     EXCEPT !.split = TRUE]

H == INSTANCE Helmfiles WITH
  Namespaces <- {"jx", "infra"}, ChartPrefixes <- Prefixed,
  Locals <- {"app", "db", "store", "cache", "own", "nginx-ingress", "ingress-nginx"},
  Roots <- {Cluster, Old, Split}, Streams <- {First, Second, Third}, LocalValues <- {"db", "cache"},
  ClusterUrls <- {"old-url"}, MovedUrl <- [u \in {"jx3"} |-> "jxgh"], LocalSecrets <- TRUE,
  Additions <- {[ns |-> "jx", chart |-> <<"old", "db">>, name |-> Nil, version |-> Nil, url |-> Nil, values |-> <<>>],
                [ns |-> "infra", chart |-> <<"jxgh", "app">>, name |-> "app", version |-> "1", url |-> "jxgh", values |-> <<Jx>>]},
  Deletions <- {<<<<Nil, "app">>, Nil>>, <<<<"old", "db">>, "infra">>}, MaxSteps <- 5

FileIn(ns, release, chart, rel, kind) ==
  [ns |-> ns, release |-> release, chart |-> chart, rel |-> rel, kind |-> kind, name |-> rel,
   own |-> Nil, defines |-> Nil, namespaced |-> FALSE]
Definition(ns, chart, kind, scope) ==
  [FileIn(ns, chart, chart, "crd", "CustomResourceDefinition") EXCEPT !.defines = kind, !.namespaced = scope]

MCRendered ==
  {{[Definition("jx", "certs", "Issuer", TRUE) EXCEPT !.rel = "issuer"], Definition("jx", "certs", "ClusterIssuer", FALSE),
    FileIn("infra", "app", "app", "issuer", "Issuer"), FileIn("infra", "other", "app", "issuer", "Issuer"),
    [FileIn("infra", "app", "app", "cluster", "ClusterIssuer") EXCEPT !.own = "infra"],
    FileIn("jx", "app-2", "app", "role", "ClusterRole")},
   {FileIn("infra", "app", "app", "deploy", "Deployment"), FileIn("jx", "app", "app", "infra", "Namespace"),
    [FileIn("jx", "app", "app", "deploy", "Deployment") EXCEPT !.own = "infra"],
    FileIn("jx", "other", "app", "deploy", "Deployment"), FileIn("jx", "other", "app", "skipped", "Secret")}}

MCSelected(f) == f.kind # "Secret"
MCCombined(chart, release) == chart \o "-" \o release
MCBegins(release, chart) == <<release, chart>> = <<"app-2", "app">>
MCServerScopes == {[k \in {} |-> TRUE], [k \in {"Issuer", "Deployment"} |-> k = "Deployment"]}

M == INSTANCE HelmfileMove WITH files <- inputs

changing == <<files, stream, disk, todo, mode, settled, op, steps>>
moving == <<inputs, unread, override, scopes, deferred, out, pending>>
vars == <<part, files, stream, disk, todo, mode, settled, op, steps, inputs, unread, override, scopes, deferred, out, pending>>

ASSUME MCAssumption == H!HelmfilesAssumption /\ M!HelmfileMoveAssumption

Init ==
  \/ /\ part = "change" /\ H!Init
     /\ inputs = Nil /\ unread = Nil /\ override = Nil /\ scopes = Nil /\ deferred = Nil /\ out = Nil /\ pending = Nil
  \/ /\ part = "move" /\ M!Init
     /\ files = Nil /\ stream = Nil /\ disk = Nil /\ todo = Nil /\ mode = Nil /\ settled = Nil /\ op = Nil /\ steps = Nil

Next ==
  /\ UNCHANGED part
  /\ \/ part = "change" /\ H!Next /\ UNCHANGED moving
     \/ part = "move" /\ M!Next /\ UNCHANGED changing

Spec == Init /\ [][Next]_vars

(* Whatever the commands add, resolve and delete: helmfile can render the  *)
(* files, and no document has a release twice (pkg/cmd/helmfile).          *)
Renderable == part = "change" => H!Renderable /\ H!NoTwins

(* Every values file a release refers to exists                            *)
(* (pkg/cmd/helmfile/resolve).                                             *)
ValuesExist == part = "change" => H!ValuesExist

(* No command but helmfile delete loses a release of the user              *)
(* (pkg/helmfiles, pkg/cmd/helmfile).                                      *)
ReleasesKept == [][part = "change" => H!KeepsReleases]_vars

(* Resolving what has just been resolved changes nothing                   *)
(* (pkg/cmd/helmfile/resolve).                                             *)
ResolvedTwice == [][part = "change" => H!Stable]_vars

(* After helmfile move every resource is in the directory of its namespace *)
(* and chart, and each namespace has one Namespace resource                *)
(* (pkg/cmd/helmfile/move).                                                *)
EachInItsPlace == part = "move" => M!EachInItsPlace /\ M!OneNamespaceEach
=============================================================================
