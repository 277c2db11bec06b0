----------------------------- MODULE MCOverrides -----------------------------
(* Overrides on three services: one orobox always generates, one it         *)
(* generates for the test commands only, and one it does not know. The      *)
(* files come in families, one per group of keys that act on each other;    *)
(* within a family every combination of entries is considered.              *)
EXTENDS Overrides

MCNames == {"web", "dbtest", "minio"}
MCUrls == {"u1", "u2"}
MCGenerated == [base |-> {"web"}, test |-> {"web", "dbtest"}]

Build(is) == [is |-> is, context |-> None]
Tweak == [image |-> "unset", extends |-> FALSE, build |-> Build(None), mount |-> NoMount, file |-> None,
          profiles |-> "unset", url |-> None]
With(build) == [Tweak EXCEPT !.build = build]
Text(path) == [is |-> "text", context |-> path]
Bind(form, path, p) == [is |-> form, source |-> path, plain |-> p]
Ref(is) == [NoMount EXCEPT !.is = is]
Volume(v) == [Tweak EXCEPT !.mount = v]

BuildEntries ==
  {With(Build(is)) : is \in {None, "alias", "anchor", "reset"}} \cup {With(b) : b \in {Text("relative"), Text("fixed"), Mapping(None)}}
    \cup {[With(b) EXCEPT !.extends = TRUE] : b \in {Build(None), Mapping(None)}}
UpEntries ==
  {Tweak} \cup {[Tweak EXCEPT !.image = i] : i \in {"set", "reset"}}
          \cup {[Tweak EXCEPT !.profiles = p] : p \in {"named", "reset"}}
          \cup {[Tweak EXCEPT !.url = u] : u \in MCUrls}
MountEntries ==
  {Volume(v) : v \in {NoMount, Ref("alias"), Ref("anchor"), Bind("short", "fixed", TRUE), Bind("long", "relative", TRUE)}
                       \cup {Bind("short", "relative", k) : k \in BOOLEAN}}
    \cup {[Tweak EXCEPT !.file = path] : path \in {"relative", "fixed"}}
    \cup {[Volume(Ref("alias")) EXCEPT !.image = "set"]}

(* Documents that speak of A, with the entries E. One anchor of a kind; an  *)
(* anchored mapping has a context or none.                                  *)
Plain(A, E) ==
  {[own |-> o, merged |-> <<>>, context |-> c, volume |-> v] :
     o \in [A -> E], c \in {None, "relative"}, v \in {NoMount, Bind("short", "relative", TRUE)}}
Refers(d, x) == \E s \in DOMAIN d.own : Shared(d.own[s][x])
Valid(d) ==
  /\ \A x \in {"build", "mount"} : Cardinality({s \in DOMAIN d.own : d.own[s][x].is = "anchor"}) <= 1
  /\ d.context # None => Refers(d, "build")
  /\ Refers(d, "mount") <=> d.volume # NoMount
Documented(A, E) == {d \in Plain(A, E) : Valid(d)}

(* An entry may come in through a merge key of the services mapping.        *)
MergedIn(A, E) == {[d EXCEPT !.own = <<>>, !.merged = d.own] : d \in Documented(A, E)}

One(D) == {<<d>> : d \in D}
Two(D, F) == {<<d, e>> : d \in D, e \in F}

Both == {"web", "minio"}
Families(team, local, dirs) == [team: team, local: local, dir: dirs]

BuildFiles == {Absent} \cup One(Documented(Both, BuildEntries))
BuildSteps == Two(Documented({"minio"}, BuildEntries), Documented({"minio"}, BuildEntries))
UpFiles == One(Documented({"minio", "dbtest"}, UpEntries))
UpSteps == Two(Documented({"minio"}, UpEntries), Documented({"minio"}, UpEntries))
MountFiles == {Absent} \cup One(Documented({"minio", "dbtest"}, MountEntries))

MCProjects ==
  Families(BuildFiles, BuildFiles, {"plain"})
    \cup Families(BuildSteps, {Absent} \cup One(Documented({"minio"}, BuildEntries)), {"dollar"})
    \cup Families(UpFiles \cup UpSteps \cup One(MergedIn({"minio"}, UpEntries)) \cup {Absent, Broken},
                  UpFiles \cup UpSteps, {"plain"})
    \cup Families(MountFiles, MountFiles, {"plain", "dollar", "colon"})
=============================================================================
