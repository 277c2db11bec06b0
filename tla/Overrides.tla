------------------------------ MODULE Overrides ------------------------------
(* The user's compose override files and the copies of them that compose    *)
(* reads: .orobox.compose.yaml of the team, .orobox.compose.local.yaml of   *)
(* one developer. Every command rewrites both files for the internal        *)
(* directory (Resolve), takes out the services this stack does not define   *)
(* (Prune), once for the plain stack and once for the one with the test     *)
(* services, and reads from the copies what `up` advertises (Analyze).      *)
(* A file is a sequence of YAML documents, which compose merges in order as *)
(* it merges files. A path is "relative" as the user writes it, absolute    *)
(* below the project, escaped or not, or "fixed", which nobody rewrites.    *)
EXTENDS Naturals, Sequences, FiniteSets, SequencesExt

CONSTANTS
  Names,      \* service names
  Urls,       \* values of the label dev.orobox.url
  Generated,  \* per mode, the services of the files orobox generates
  Projects,   \* the projects considered: contents of the two files, where the project lies
  MaxEdits    \* bound: changes of the files between two commands

Modes == {"base", "test"}
OverrideFiles == <<"team", "local">>
None == "none"
Absent == <<>>
NoMount == [is |-> None, source |-> None, plain |-> TRUE]
Broken == <<[own |-> <<>>, merged |-> <<>>, context |-> "broken", volume |-> NoMount]>>   \* not a mapping

Paths == {"relative", "project", "escaped", "fixed"}

(* What an override says of one service. A document may have one anchored   *)
(* build mapping and one anchored volume: "anchor" is either where it is    *)
(* written, "alias" refers to it. `file` stands for every other host path,  *)
(* from env_file to the watched directories.                                *)
Builds == [is: {None, "reset", "alias", "anchor", "text", "mapping"}, context: {None} \cup Paths]
Mounts == [is: {None, "alias", "anchor", "short", "long", "creating"}, source: {None} \cup Paths, plain: BOOLEAN]
Entries ==
  [image: {"unset", "set", "reset"}, extends: BOOLEAN, build: Builds, mount: Mounts, file: {None} \cup Paths,
   profiles: {"unset", "named", "reset"}, url: {None} \cup Urls]

(* The services written under `services:` and those a merge key brings in;  *)
(* what is anchored.                                                        *)
IsDocument(d) ==
  /\ d = [own |-> d.own, merged |-> d.merged, context |-> d.context, volume |-> d.volume]
  /\ \A section \in {d.own, d.merged} : DOMAIN section \subseteq Names /\ section \in [DOMAIN section -> Entries]
  /\ d.context \in {None} \cup Paths /\ d.volume \in Mounts

services(d) == DOMAIN d.own \cup DOMAIN d.merged
entry(d, s) == IF s \in DOMAIN d.own THEN d.own[s] ELSE d.merged[s]   \* its own wins

Shared(x) == x.is \in {"alias", "anchor"}

(* One build mapping and one volume are anchored at most, and what an alias *)
(* of the volume refers to is there and no alias itself.                    *)
WellFormed(d) ==
  /\ \A s, t \in services(d) : entry(d, s).build.is = "anchor" /\ entry(d, t).build.is = "anchor" => s = t
  /\ \A s, t \in services(d) : entry(d, s).mount.is = "anchor" /\ entry(d, t).mount.is = "anchor" => s = t
  /\ ~Shared(d.volume)
  /\ \A s \in services(d) : Shared(entry(d, s).mount) => d.volume.is # None

IsOverride(file) ==
  file = Broken \/ (/\ file \in Seq({file[i] : i \in DOMAIN file})
                    /\ \A i \in DOMAIN file : IsDocument(file[i]) /\ WellFormed(file[i]))

ASSUME OverridesAssumption ==
  /\ Generated \in [Modes -> SUBSET Names] /\ Generated["base"] \subseteq Generated["test"]
  /\ \A p \in Projects : p.dir \in {"plain", "dollar", "colon"} /\ IsOverride(p.team) /\ IsOverride(p.local)
  /\ MaxEdits \in Nat
  /\ None \notin Urls

VARIABLES
  source,   \* the two files: documents, Absent, Broken
  dir,      \* the project directory: a plain path, one with a "$", one with a ":"
  copies,   \* per file and mode the resolved copy on disk
  todo,     \* the files the running command has still to process
  known,    \* per mode the services a file may tweak
  built,    \* builtBefore: the services an earlier file gives a build
  errors,   \* overrideErr: the files that cannot be used
  analyses, \* overrideAnalyses: one per file that could be used
  at, edits

overridesVars == <<source, dir, copies, todo, known, built, errors, analyses, at, edits>>

NoCopies == [f \in {"team", "local"} |-> [m \in Modes |-> Absent]]

OverridesInit ==
  /\ \E p \in Projects : source = [team |-> p.team, local |-> p.local] /\ dir = p.dir
  /\ copies = NoCopies /\ todo = OverrideFiles
  /\ known = Generated /\ built = {} /\ errors = {} /\ analyses = <<>>
  /\ at = "idle" /\ edits = 0

-----------------------------------------------------------------------------
(* Reading a document.                                                      *)

HasBuild(e) == e.build.is \notin {None, "reset"}       \* isSet
Mapping(context) == [is |-> "mapping", context |-> context]
Context(d, b) == IF Shared(b) THEN d.context ELSE b.context
Mount(d, v) == IF Shared(v) THEN d.volume ELSE v

-----------------------------------------------------------------------------
(* Resolve.                                                                 *)

escapeDollar(path) == IF dir = "dollar" THEN "escaped" ELSE path
rewrite(path) == IF path = "relative" THEN escapeDollar("project") ELSE path

(* A short volume cannot carry a ":" in its source: it becomes a long one   *)
(* that creates the path as the short one did, if its mode can be told.     *)
NeedsLong(v) == dir = "colon" /\ v.is = "short" /\ v.source = "relative"
longVolumeFails(v) == NeedsLong(v) /\ ~v.plain
volume(v) == [is |-> IF NeedsLong(v) THEN "creating" ELSE v.is, source |-> rewrite(v.source), plain |-> v.plain]

(* The default context goes into the service's own mapping: an alias is     *)
(* replaced by a copy first. A mapping written where its anchor is is the   *)
(* service's own already.                                                   *)
defaultContext(d, s, before) ==
  LET e == entry(d, s)
  IN HasBuild(e) /\ s \notin before /\ ~e.extends /\ Context(d, e.build) = None

buildMapping(d, s, e, before) ==
  LET default == defaultContext(d, s, before)
  IN IF ~HasBuild(e) THEN e.build
     ELSE IF ~Shared(e.build)
       THEN [e.build EXCEPT !.context = IF default THEN escapeDollar("project") ELSE rewrite(@)]
     ELSE IF e.build.is = "alias" /\ default THEN Mapping(escapeDollar("project"))
     ELSE e.build

ResolvedAnchor(d, before) ==
  IF \E s \in services(d) : entry(d, s).build.is = "anchor" /\ defaultContext(d, s, before)
  THEN escapeDollar("project") ELSE rewrite(d.context)

serviceEntry(d, s, e, before) ==
  [image |-> e.image, extends |-> e.extends, build |-> buildMapping(d, s, e, before),
   mount |-> volume(e.mount), file |-> rewrite(e.file), profiles |-> e.profiles, url |-> e.url]

document(d, before) ==
  [own |-> [s \in DOMAIN d.own |-> serviceEntry(d, s, d.own[s], before)],
   merged |-> [s \in DOMAIN d.merged |-> serviceEntry(d, s, d.merged[s], before)],
   context |-> ResolvedAnchor(d, before), volume |-> volume(d.volume)]

BuildServices(docs) ==
  UNION {{s \in services(docs[i]) : HasBuild(entry(docs[i], s)) \/ entry(docs[i], s).extends} : i \in DOMAIN docs}

ResolveAfterM(docs, before) == [i \in DOMAIN docs |-> document(docs[i], {})]   \* mutant: earlier builds are forgotten
ResolveAfter(docs, before) ==
  [i \in DOMAIN docs |-> document(docs[i], before \cup BuildServices(SubSeq(docs, 1, i - 1)))]

ResolveFails(docs) ==
  \/ docs = Broken
  \/ \E i \in DOMAIN docs : \E s \in services(docs[i]) : longVolumeFails(Mount(docs[i], entry(docs[i], s).mount))

-----------------------------------------------------------------------------
(* Prune.                                                                   *)

ServiceNames(docs) == UNION {services(docs[i]) : i \in DOMAIN docs}

Standalone(docs) ==
  BuildServices(docs) \cup UNION {{s \in services(docs[i]) : entry(docs[i], s).image = "set"} : i \in DOMAIN docs}

Dropped(docs, names) == {s \in ServiceNames(docs) : s \notin names \cup Standalone(docs)}

PruneFails(docs, names) ==
  \E i \in DOMAIN docs : DOMAIN docs[i].merged \cap Dropped(docs, names) # {}

(* The anchor leaves with the entry it is written in: its aliases become    *)
(* copies of it. (An entry with a build is never dropped.)                  *)
expanded(d, e) == IF e.mount.is = "alias" THEN [e EXCEPT !.mount = d.volume] ELSE e
expandAliasesInto(d) ==
  [own |-> [s \in DOMAIN d.own |-> expanded(d, d.own[s])],
   merged |-> [s \in DOMAIN d.merged |-> expanded(d, d.merged[s])],
   context |-> d.context, volume |-> d.volume]

Without(d, drop) == [d EXCEPT !.own = [s \in DOMAIN d.own \ drop |-> d.own[s]]]

dropServices(d, drop) ==
  IF \E s \in drop \cap DOMAIN d.own : d.own[s].mount.is = "anchor"
  THEN [Without(expandAliasesInto(d), drop) EXCEPT !.volume = NoMount]
  ELSE Without(d, drop)

Pruned(docs, names) == [i \in DOMAIN docs |-> dropServices(docs[i], Dropped(docs, names))]

-----------------------------------------------------------------------------
(* Analyze: the last document that mentions the profiles or the label of a  *)
(* service decides.                                                         *)

Where(docs, s) == {i \in DOMAIN docs : s \in services(docs[i])}
Latest(which) == IF which = {} THEN 0 ELSE CHOOSE i \in which : \A j \in which : j <= i

Profiles(docs, s) == Latest({i \in Where(docs, s) : entry(docs[i], s).profiles # "unset"})
Label(docs, s) == Latest({i \in Where(docs, s) : entry(docs[i], s).url # None})
LabelOf(docs, s) == <<s, entry(docs[Label(docs, s)], s).url>>

Analyze(docs) ==
  LET says(s, what) == Profiles(docs, s) # 0 /\ entry(docs[Profiles(docs, s)], s).profiles = what
  IN [urls |-> {LabelOf(docs, s) : s \in {t \in ServiceNames(docs) : Label(docs, t) # 0}},
      profiled |-> {s \in ServiceNames(docs) : says(s, "named")},
      unprofiled |-> {s \in ServiceNames(docs) : says(s, "reset")}]

(* OverrideAnalysis: over the files that could be used, the later one wins. *)
ProfiledAfterM(profiled, a) == profiled \cup a.profiled   \* mutant: nothing is cleared
ProfiledAfter(profiled, a) == (profiled \cup a.profiled) \ a.unprofiled

Over(u, v) == {x \in u : \A y \in v : y[1] # x[1]} \cup v

OverrideAnalysis ==
  LET merged[i \in 0..Len(analyses)] ==
        IF i = 0 THEN [urls |-> {}, profiled |-> {}]
        ELSE [urls |-> Over(merged[i - 1].urls, analyses[i].urls),
              profiled |-> ProfiledAfter(merged[i - 1].profiled, analyses[i])]
      all == merged[Len(analyses)]
  IN {x \in all.urls : x[1] \notin all.profiled}

-----------------------------------------------------------------------------
(* writeComposeOverrides, file by file. The services of a copy and the      *)
(* builds of a file become known to the files after it.                     *)

Rewrite ==
  /\ at = "idle" /\ at' = "write"
  /\ todo' = OverrideFiles /\ known' = Generated /\ built' = {} /\ errors' = {} /\ analyses' = <<>>
  /\ UNCHANGED <<source, dir, copies, edits>>

Resolved == ResolveAfter(source[Head(todo)], built)
Unusable == ResolveFails(source[Head(todo)]) \/ \E m \in Modes : PruneFails(Resolved, known[m])

(* A file that cannot be used leaves no copy, and the next one is           *)
(* processed all the same.                                                  *)
drop ==
  /\ at = "write" /\ todo # <<>> /\ Unusable
  /\ copies' = [copies EXCEPT ![Head(todo)] = NoCopies[Head(todo)]]
  /\ errors' = errors \cup {Head(todo)}
  /\ todo' = Tail(todo)
  /\ UNCHANGED <<source, dir, known, built, analyses, at, edits>>

KnownAfterM(kept) == [m \in Modes |-> known[m] \cup ServiceNames(Resolved)]   \* mutant: before pruning
KnownAfter(kept) == [m \in Modes |-> known[m] \cup ServiceNames(kept[m])]

writeOrRemove ==
  /\ at = "write" /\ todo # <<>> /\ ~Unusable
  /\ LET kept == [m \in Modes |-> Pruned(Resolved, known[m])]
     IN /\ copies' = [copies EXCEPT ![Head(todo)] = kept]
        /\ analyses' = Append(analyses, Analyze(kept["base"]))
        /\ known' = KnownAfter(kept)
  /\ built' = built \cup BuildServices(Resolved)
  /\ todo' = Tail(todo)
  /\ UNCHANGED <<source, dir, errors, at, edits>>

(* Every runner of compose asks OverrideError first.                        *)
Ready == at = "write" /\ todo = <<>>
Ends == Ready /\ at' = "idle"
        /\ UNCHANGED <<source, dir, copies, todo, known, built, errors, analyses, edits>>

(* Between commands the user takes a file away, breaks it, or edits it.     *)
Edit ==
  /\ at = "idle" /\ edits < MaxEdits /\ edits' = edits + 1
  /\ \E f \in {"team", "local"} : \E new \in {Absent, Broken} :
       source[f] # new /\ source' = [source EXCEPT ![f] = new]
  /\ UNCHANGED <<dir, copies, todo, known, built, errors, analyses, at>>

OverridesNext == Rewrite \/ drop \/ writeOrRemove \/ Ends \/ Edit

OverridesSpec == OverridesInit /\ [][OverridesNext]_overridesVars

-----------------------------------------------------------------------------
(* What compose makes of a sequence of documents it runs in directory cwd:  *)
(* build mappings are merged key by key, a reset takes away what came       *)
(* before, a relative path and a missing context are those of cwd, and a    *)
(* "$" in a path is interpolated.                                           *)

Means(path, cwd) ==
  CASE path = "relative" -> cwd
    [] path = "project" /\ dir = "dollar" -> "interpolated"
    [] path = "escaped" -> "project"
    [] OTHER -> path

MountMeans(v, cwd) ==
  [at |-> IF v.is = "short" /\ v.source = "project" /\ dir = "colon" THEN "split" ELSE Means(v.source, cwd),
   creates |-> v.is # "long"]

Extends(docs, s) == \E i \in Where(docs, s) : entry(docs[i], s).extends

Living(said, reset) == {i \in said : i > Latest(reset)}

BuildContext(docs, s, cwd) ==
  LET builds == Living({i \in Where(docs, s) : HasBuild(entry(docs[i], s))},
                       {i \in Where(docs, s) : entry(docs[i], s).build.is = "reset"})
      says(i) == Context(docs[i], entry(docs[i], s).build)
      spoken == {i \in builds : says(i) # None}
  IN IF builds = {} THEN None
     ELSE IF spoken # {} THEN Means(says(Latest(spoken)), cwd)
     ELSE IF Extends(docs, s) THEN "inherited" ELSE cwd

HasImage(docs, s) ==
  Living({i \in Where(docs, s) : entry(docs[i], s).image = "set"},
         {i \in Where(docs, s) : entry(docs[i], s).image = "reset"}) # {}
HasProfiles(docs, s) ==
  Living({i \in Where(docs, s) : entry(docs[i], s).profiles = "named"},
         {i \in Where(docs, s) : entry(docs[i], s).profiles = "reset"}) # {}

Service(docs, s, cwd) ==
  [context |-> BuildContext(docs, s, cwd), image |-> HasImage(docs, s), profiles |-> HasProfiles(docs, s),
   files |-> {Means(entry(docs[i], s).file, cwd) : i \in Where(docs, s)},
   mounts |-> {MountMeans(Mount(docs[i], entry(docs[i], s).mount), cwd) :
                 i \in {j \in Where(docs, s) : entry(docs[j], s).mount.is # None}}]

Copy(m) == copies["team"][m] \o copies["local"][m]

(* The user's files without the entries the documentation leaves out: those *)
(* that only tweak a service neither the stack of the mode nor a file       *)
(* before has.                                                              *)
Has(f, m, s) ==
  \/ s \in Generated[m] \cup Standalone(source[f])
  \/ f = "local" /\ s \in ServiceNames(source["team"])
     /\ s \in Generated[m] \cup Standalone(source["team"])

Only(f, m) ==
  [i \in DOMAIN source[f] |->
     Without(source[f][i], {s \in services(source[f][i]) : ~Has(f, m, s)})]

Meant(m) == Only("team", m) \o Only("local", m)

Settled == Ready /\ errors = {}

(* What the properties leave aside: a service whose image or build a later  *)
(* document resets, or extends after another gave it a build, and a default *)
(* context that goes into a mapping written at its anchor, from where it    *)
(* reaches the aliases.                                                     *)
Resets(docs, s) ==
  \E i \in Where(docs, s) : entry(docs[i], s).image = "reset" \/ entry(docs[i], s).build.is = "reset"
ExtendsLate(docs, s) ==
  \E j \in DOMAIN docs : Extends(<<docs[j]>>, s) /\ s \in BuildServices(SubSeq(docs, 1, j - 1))
AliasOfAnEntry(docs, s) ==
  \E i \in DOMAIN docs : \E t \in services(docs[i]) :
    /\ docs[i].context = None /\ entry(docs[i], t).build.is = "anchor"
    /\ s \in services(docs[i]) /\ entry(docs[i], s).build.is = "alias"
LeftAside(docs, s) == Resets(docs, s) \/ ExtendsLate(docs, s) \/ AliasOfAnEntry(docs, s)

(* Compose, run over the copies in the internal directory, makes of every   *)
(* service what it would make of the user's files in the project directory. *)
MeansWhatTheFilesSay ==
  Settled => \A m \in Modes :
    /\ ServiceNames(Copy(m)) = ServiceNames(Meant(m))
    /\ \A s \in ServiceNames(Copy(m)) : LeftAside(Meant(m), s) \/ Service(Copy(m), s, "internal") = Service(Meant(m), s, "project")

(* No copy holds a service with neither an image nor a build: compose would *)
(* reject the whole project.                                                *)
ComposeAccepts ==
  Settled => \A m \in Modes : \A s \in ServiceNames(Copy(m)) \ Generated[m] :
    \/ Resets(Meant(m), s)
    \/ HasImage(Copy(m), s)
    \/ BuildContext(Copy(m), s, "internal") # None
    \/ Extends(Copy(m), s)

(* The URLs `up` lists are those of the services it starts.                 *)
UrlsAreServed ==
  Settled => OverrideAnalysis =
    LET docs == Copy("base")
    IN {LabelOf(docs, s) : s \in {t \in ServiceNames(docs) : Label(docs, t) # 0 /\ ~HasProfiles(docs, t)}}

=============================================================================
