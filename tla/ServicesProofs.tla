--------------------------- MODULE ServicesProofs ---------------------------
(***************************************************************************)
(* Proofs about LocalImages and Overrides.                                 *)
(*                                                                         *)
(* LocalImages: type correctness, the binary that self-update replaces,    *)
(* and the layer the containers run on, for any finite number of terminals *)
(* and of releases.                                                        *)
(*                                                                         *)
(* Overrides: the resolved copies mean what the files say, compose accepts *)
(* them, and the URLs listed are served, for any names, urls and files.    *)
(***************************************************************************)
EXTENDS LocalImages, Overrides, TLAPS, FiniteSetTheorems, WellFoundedInduction

Numbers == 0..MaxVersions
Hashes == [base : Numbers, context : Numbers]
Files == Inodes \cup {NoFile}

UpdatePoints == {"check", "create", "head", "rest", "rename", "cleanup", "images", "project images"}
BasePoints == {"layer", "pull first", "inspect", "pull missing", "inspect again"}
Points == {"idle", "done", "hash", "build", "up"} \cup UpdatePoints \cup BasePoints

Processes == [at : Points, force : BOOLEAN, own : Numbers, id : Numbers, hash : Hashes,
              file : Files, ok : BOOLEAN, alone : BOOLEAN]

TypeOK ==
  /\ world \in [release : Versions, image : Versions, context : Versions]
  /\ bin \in Inodes /\ tmp \in Files
  /\ inode \in [Inodes -> Numbers \X Numbers]
  /\ base \in Numbers
  /\ layer \in [label : Hashes, of : Hashes] /\ stack \in Hashes
  /\ proc \in [Terminals -> Processes]
  /\ started \in 0..MaxCommands /\ overlap \in BOOLEAN

-----------------------------------------------------------------------------
(* What a step does to the commands.                                        *)

\* t goes on as p; the others keep everything, except that after Touches they
\* are no longer alone.
LEMMA GoesFacts ==
  ASSUME proc \in [Terminals -> Processes], NEW t \in Terminals, NEW p \in Processes,
         Goes(t, p) \/ Touches(t, p)
  PROVE  /\ proc' \in [Terminals -> Processes]
         /\ proc'[t] = p
         /\ \A u \in Terminals \ {t} :
              /\ proc'[u].at = proc[u].at /\ proc'[u].ok = proc[u].ok /\ proc'[u].id = proc[u].id
              /\ proc'[u].hash = proc[u].hash /\ proc'[u].file = proc[u].file
              /\ proc'[u].alone => proc[u].alone /\ Goes(t, p)
<1>1. CASE Goes(t, p)
  BY <1>1 DEF Goes, Processes
<1>2. CASE Touches(t, p)
  <2>1. \A u \in Terminals \ {t} : proc'[u] = [proc[u] EXCEPT !.alone = FALSE] /\ proc[u] \in Processes
    BY <1>2 DEF Touches
  <2>2. proc'[t] = p
    BY <1>2 DEF Touches
  <2>3. \A u \in Terminals \ {t} : proc'[u] \in Processes
    BY <2>1 DEF Processes
  <2>4. proc' \in [Terminals -> Processes]
    BY <1>2, <2>2, <2>3 DEF Touches
  <2>5. QED
    BY <2>1, <2>2, <2>4 DEF Processes
<1>3. QED
  BY <1>1, <1>2

\* Everybody learns that somebody else changed something.
LEMMA NobodyAlone ==
  ASSUME proc \in [Terminals -> Processes],
         proc' = [t \in Terminals |-> [proc[t] EXCEPT !.alone = FALSE]]
  PROVE  /\ proc' \in [Terminals -> Processes]
         /\ \A u \in Terminals :
              /\ proc'[u].at = proc[u].at /\ proc'[u].ok = proc[u].ok /\ proc'[u].id = proc[u].id
              /\ proc'[u].hash = proc[u].hash /\ proc'[u].file = proc[u].file
              /\ ~proc'[u].alone
BY DEF Processes

\* A command that goes on to another point, or fails there.
LEMMA ToFacts ==
  ASSUME proc \in [Terminals -> Processes], NEW t \in Terminals, NEW point \in Points
  PROVE  /\ To(t, point) \in Processes /\ Fails(t) \in Processes
         /\ To(t, point).at = point /\ Fails(t).at = "done"
         /\ To(t, point).ok = proc[t].ok /\ Fails(t).ok = FALSE
         /\ To(t, point).id = proc[t].id /\ To(t, point).hash = proc[t].hash
         /\ To(t, point).file = proc[t].file /\ To(t, point).alone = proc[t].alone
         /\ To(t, point).force = proc[t].force
         /\ Fails(t).id = proc[t].id /\ Fails(t).hash = proc[t].hash /\ Fails(t).file = proc[t].file
         /\ Fails(t).alone = proc[t].alone
<1>1. proc[t] \in Processes /\ "done" \in Points
  BY DEF Points
<1>2. QED
  BY <1>1 DEF To, Fails, Processes

-----------------------------------------------------------------------------
(* Types.                                                                   *)

\* A file of which one half is written.
LEMMA HalfWritten ==
  ASSUME NEW c \in Numbers \X Numbers, NEW v \in Numbers
  PROVE  /\ [c EXCEPT ![1] = v] \in Numbers \X Numbers /\ [c EXCEPT ![2] = v] \in Numbers \X Numbers
         /\ [c EXCEPT ![1] = v][1] = v /\ [c EXCEPT ![1] = v][2] = c[2]
         /\ [c EXCEPT ![2] = v][2] = v /\ [c EXCEPT ![2] = v][1] = c[1]
BY DEF Numbers

\* There is always an inode that nobody writes: one more than the writers and
\* the binary, and the temporary name has none.
LEMMA UnusedExists ==
  ASSUME TypeOK, tmp = NoFile
  PROVE  Unused \in Inodes /\ Unused # bin /\ (\A t \in Terminals : Unused # proc[t].file)
<1> DEFINE Used == {proc[t].file : t \in Terminals}
           Taken == Used \cup {bin}
           n == Cardinality(Terminals)
<1>1. IsFiniteSet(Terminals) /\ n \in Nat
  BY ConstantsAssumption, FS_CardinalityType
<1>2. IsFiniteSet(Used) /\ Cardinality(Used) <= n
  <2>1. DEFINE f == [t \in Terminals |-> proc[t].file]
  <2>2. f \in Surjection(Terminals, Used)
    BY DEF Surjection
  <2>3. QED
    BY <1>1, <2>2, FS_Surjection
<1>3. IsFiniteSet(Taken) /\ Cardinality(Taken) <= n + 1
  <2>1. Cardinality(Used) \in Nat
    BY <1>2, FS_CardinalityType
  <2>2. /\ IsFiniteSet(Taken)
        /\ Cardinality(Taken) = IF bin \in Used THEN Cardinality(Used) ELSE Cardinality(Used) + 1
    BY <1>2, FS_AddElement
  <2>3. QED
    BY <1>1, <1>2, <2>1, <2>2
<1>4. IsFiniteSet(Inodes) /\ Cardinality(Inodes) = n + 2
  BY <1>1, FS_Interval DEF Inodes
<1>5. PICK i \in Inodes : i \notin Taken
  <2>1. SUFFICES ASSUME Inodes \subseteq Taken PROVE FALSE
    OBVIOUS
  <2>2. Cardinality(Inodes) <= Cardinality(Taken)
    BY <1>3, <2>1, FS_Subset
  <2>3. Cardinality(Taken) \in Nat
    BY <1>3, FS_CardinalityType
  <2>4. QED
    BY <1>1, <1>3, <1>4, <2>2, <2>3
<1>6. i \notin {bin, tmp} \cup Used
  <2>1. NoFile \notin Inodes
    BY <1>1 DEF NoFile, Inodes
  <2>2. QED
    BY <1>5, <2>1
<1>7. Unused \in Inodes /\ Unused \notin {bin, tmp} \cup Used
  BY <1>5, <1>6 DEF Unused
<1>8. QED
  BY <1>7

\* A command's own step stays in the types when its new state is a command's.
LEMMA GoesTyped ==
  ASSUME TypeOK, NEW t \in Terminals, NEW p \in Processes, Goes(t, p) \/ Touches(t, p)
  PROVE  proc' \in [Terminals -> Processes]
BY GoesFacts DEF TypeOK

LEMMA SmallValues == 0 \in Numbers /\ 1 \in Versions /\ Versions \subseteq Numbers /\ NoHash \in Hashes
BY ConstantsAssumption DEF Numbers, Versions, NoHash, Hashes

LEMMA InitTyped == Init => TypeOK
<1> SUFFICES ASSUME Init PROVE TypeOK
  OBVIOUS
<1> USE SmallValues, ConstantsAssumption
<1>1. Cardinality(Terminals) \in Nat
  BY FS_CardinalityType
<1>2. bin \in Inodes /\ tmp \in Files
  BY <1>1 DEF Init, Inodes, Files
<1>3. inode \in [Inodes -> Numbers \X Numbers]
  BY DEF Init
<1>4. proc \in [Terminals -> Processes]
  <2>1. Idle \in Processes
    BY DEF Idle, Processes, Points, Files
  <2>2. QED
    BY <2>1 DEF Init
<1>5. world \in [release : Versions, image : Versions, context : Versions] /\ base \in Numbers
  BY DEF Init, Versions, Numbers
<1>6. layer \in [label : Hashes, of : Hashes] /\ stack \in Hashes
  BY DEF Init
<1>7. started \in 0..MaxCommands
  BY DEF Init
<1>8. QED
  BY <1>2, <1>3, <1>4, <1>5, <1>6, <1>7 DEF Init, TypeOK

\* The steps that only move their own command along, and those on the images,
\* the layer and the containers.
Looks(t) == getLatestRelease(t) \/ ensureCustomImage(t) \/ InspectBase(t) \/ HashInputs(t) \/ Kill(t)
Moves(t) == PullImages(t) \/ PullProjectImages(t) \/ pullImage(t) \/ buildCustomImage(t) \/ Up(t)
Updating == {"head", "rest", "rename", "cleanup"}

\* None of them brings its command to a point at which an update writes.
LEMMA StartsAs ==
  ASSUME TypeOK, NEW t \in Terminals, Start(t)
  PROVE  \E p \in Processes : Goes(t, p) /\ p.at \notin Updating
<1>1. PICK point \in {"check", "layer"}, force \in BOOLEAN :
        Goes(t, [Idle EXCEPT !.at = point, !.force = force, !.own = inode[bin][1]])
  BY DEF Start
<1> DEFINE p == [Idle EXCEPT !.at = point, !.force = force, !.own = inode[bin][1]]
<1>2. inode[bin][1] \in Numbers
  BY DEF TypeOK
<1>3. p \in Processes /\ p.at = point
  BY <1>2, SmallValues DEF Idle, Processes, Points, UpdatePoints, BasePoints, Files
<1>4. QED
  BY <1>1, <1>3 DEF Updating

LEMMA LooksAs ==
  ASSUME TypeOK, NEW t \in Terminals, Looks(t)
  PROVE  \E p \in Processes : Goes(t, p) /\ p.at \notin Updating
<1>1. proc[t] \in Processes /\ proc \in [Terminals -> Processes]
  BY DEF TypeOK
<1>2. \A point \in Points \ Updating :
        To(t, point) \in Processes /\ To(t, point).at \notin Updating /\ Fails(t) \in Processes /\ Fails(t).at \notin Updating
  BY <1>1, ToFacts DEF Updating
<1>3. {"create", "done", "pull first", "inspect", "hash", "pull missing", "up", "build"} \subseteq Points \ Updating
  BY DEF Points, UpdatePoints, BasePoints, Updating
<1>4. CASE getLatestRelease(t)
  BY <1>2, <1>3, <1>4 DEF getLatestRelease
<1>5. CASE ensureCustomImage(t)
  BY <1>2, <1>3, <1>5 DEF ensureCustomImage
<1>6. CASE InspectBase(t)
  <2>1. To(t, "hash") \in Processes /\ To(t, "hash").at \notin Updating /\ base \in Numbers
    BY <1>2, <1>3 DEF TypeOK
  <2>2. [To(t, "hash") EXCEPT !.id = base] \in Processes /\ [To(t, "hash") EXCEPT !.id = base].at \notin Updating
    BY <2>1 DEF Processes
  <2>3. QED
    BY <1>2, <1>3, <1>6, <2>2 DEF InspectBase
<1>7. CASE HashInputs(t)
  <2>1. customLayerHash(proc[t].id) \in Hashes
    BY <1>1, SmallValues DEF customLayerHash, TypeOK, Processes, Hashes
  <2>2. /\ To(t, "up") \in Processes /\ To(t, "up").at \notin Updating
        /\ To(t, "build") \in Processes /\ To(t, "build").at \notin Updating
    BY <1>2, <1>3
  <2>3. \A q \in Processes : /\ [q EXCEPT !.hash = customLayerHash(proc[t].id)] \in Processes
                              /\ [q EXCEPT !.hash = customLayerHash(proc[t].id)].at = q.at
    BY <2>1 DEF Processes
  <2>4. QED
    BY <1>7, <2>2, <2>3 DEF HashInputs
<1>8. CASE Kill(t)
  <2>1. Idle \in Processes /\ Idle.at \notin Updating
    BY SmallValues DEF Idle, Processes, Points, Files, Updating
  <2>2. QED
    BY <1>8, <2>1 DEF Kill
<1>9. QED
  BY <1>4, <1>5, <1>6, <1>7, <1>8 DEF Looks

LEMMA MovesAs ==
  ASSUME TypeOK, NEW t \in Terminals, Moves(t)
  PROVE  \E p \in Processes : (Goes(t, p) \/ Touches(t, p)) /\ p.at \notin Updating
<1>1. \A point \in Points \ Updating :
        To(t, point) \in Processes /\ To(t, point).at \notin Updating /\ Fails(t) \in Processes /\ Fails(t).at \notin Updating
  BY ToFacts DEF TypeOK, Updating
<1>2. {"project images", "done", "inspect", "inspect again", "up"} \subseteq Points \ Updating
  BY DEF Points, UpdatePoints, BasePoints, Updating
<1>3. QED
  BY <1>1, <1>2 DEF Moves, PullImages, PullProjectImages, pullImage, buildCustomImage, Up

LEMMA StartTyped ==
  ASSUME TypeOK, NEW t \in Terminals, Start(t)
  PROVE  TypeOK'
<1>1. proc' \in [Terminals -> Processes]
  BY StartsAs, GoesTyped
<1>2. QED
  BY <1>1, ConstantsAssumption DEF TypeOK, Start

LEMMA LooksTyped ==
  ASSUME TypeOK, NEW t \in Terminals, Looks(t)
  PROVE  TypeOK'
<1>1. proc' \in [Terminals -> Processes]
  BY LooksAs, GoesTyped
<1>2. UNCHANGED <<world, bin, tmp, inode, base, layer, stack, started, overlap>>
  BY DEF Looks, getLatestRelease, ensureCustomImage, InspectBase, HashInputs, Kill
<1>3. QED
  BY <1>1, <1>2 DEF TypeOK

\* The steps that write the new binary and put it in place.
LEMMA OpenTyped ==
  ASSUME TypeOK, NEW t \in Terminals, OpenTemporary(t)
  PROVE  TypeOK'
<1> DEFINE i == IF tmp = NoFile THEN Unused ELSE tmp
           p == [To(t, "head") EXCEPT !.file = i]
<1>1. i \in Inodes
  BY UnusedExists DEF TypeOK, Files
<1>2. p \in Processes
  <2>1. To(t, "head") \in Processes
    BY ToFacts DEF TypeOK, Points, UpdatePoints
  <2>2. QED
    BY <1>1, <2>1 DEF Processes, Files
<1>3. tmp' = i /\ inode' = [inode EXCEPT ![i] = <<0, 0>>] /\ Goes(t, p)
  BY DEF OpenTemporary
<1>4. proc' \in [Terminals -> Processes]
  BY <1>2, <1>3, GoesTyped
<1>5. tmp' \in Files /\ inode' \in [Inodes -> Numbers \X Numbers]
  BY <1>1, <1>3, SmallValues DEF TypeOK, Files
<1>6. UNCHANGED <<world, bin, base, layer, stack, started>> /\ overlap' \in BOOLEAN
  BY DEF OpenTemporary
<1>7. QED
  BY <1>4, <1>5, <1>6 DEF TypeOK

LEMMA WriteTyped ==
  ASSUME TypeOK, NEW t \in Terminals, WriteHead(t) \/ WriteRest(t)
  PROVE  TypeOK'
<1> DEFINE f == proc[t].file
<1>1. proc \in [Terminals -> Processes] /\ inode \in [Inodes -> Numbers \X Numbers]
  BY DEF TypeOK
<1>2. /\ To(t, "rest") \in Processes /\ To(t, "rename") \in Processes
      /\ [To(t, "cleanup") EXCEPT !.ok = FALSE] \in Processes
  <2>1. To(t, "rest") \in Processes /\ To(t, "rename") \in Processes /\ To(t, "cleanup") \in Processes
    BY <1>1, ToFacts DEF Points, UpdatePoints
  <2>2. QED
    BY <2>1 DEF Processes
<1>3. proc' \in [Terminals -> Processes]
  BY <1>2, GoesTyped DEF WriteHead, WriteRest, AfterLoss
<1>4. inode' \in [Inodes -> Numbers \X Numbers]
  <2>1. CASE f \notin Inodes
    BY <1>1, <2>1 DEF WriteHead, WriteRest
  <2>2. CASE f \in Inodes
    <3>1. inode[f] \in Numbers \X Numbers /\ inode[f][1] \in Numbers /\ world.release \in Numbers
      BY <1>1, <2>2, SmallValues DEF TypeOK
    <3>2. /\ [inode[f] EXCEPT ![1] = world.release] \in Numbers \X Numbers
          /\ [inode[f] EXCEPT ![2] = inode[f][1]] \in Numbers \X Numbers
      BY <3>1, HalfWritten
    <3>3. \/ inode' = [inode EXCEPT ![f] = [inode[f] EXCEPT ![1] = world.release]]
          \/ inode' = [inode EXCEPT ![f] = [inode[f] EXCEPT ![2] = inode[f][1]]]
          \/ inode' = inode
      BY DEF WriteHead, WriteRest
    <3>4. QED
      BY <1>1, <2>2, <3>2, <3>3
  <2>3. QED
    BY <2>1, <2>2
<1>5. UNCHANGED <<world, bin, tmp, base, layer, stack, started, overlap>>
  BY DEF WriteHead, WriteRest
<1>6. QED
  BY <1>3, <1>4, <1>5 DEF TypeOK

LEMMA RenameTyped ==
  ASSUME TypeOK, NEW t \in Terminals, Rename(t) \/ RemoveTemporary(t)
  PROVE  TypeOK'
<1>1. PICK p \in Processes : Goes(t, p)
  <2>1. To(t, "images") \in Processes /\ To(t, "done") \in Processes /\ To(t, "cleanup") \in Processes
    BY ToFacts DEF TypeOK, Points, UpdatePoints
  <2>2. [To(t, "cleanup") EXCEPT !.ok = FALSE] \in Processes
    BY <2>1 DEF Processes
  <2>3. /\ [To(t, "images") EXCEPT !.file = NoFile] \in Processes
        /\ [To(t, "done") EXCEPT !.file = NoFile] \in Processes
    BY <2>1 DEF Processes, Files
  <2>4. CASE Rename(t)
    BY <2>1, <2>2, <2>4 DEF Rename
  <2>5. CASE RemoveTemporary(t)
    BY <2>3, <2>5 DEF RemoveTemporary
  <2>6. QED
    BY <2>4, <2>5
<1>2. proc' \in [Terminals -> Processes]
  BY <1>1, GoesTyped
<1>3. bin' \in Inodes /\ tmp' \in Files
  BY DEF Rename, RemoveTemporary, TypeOK, Files
<1>4. UNCHANGED <<world, inode, base, layer, stack, started, overlap>>
  BY DEF Rename, RemoveTemporary
<1>5. QED
  BY <1>2, <1>3, <1>4 DEF TypeOK

LEMMA MovesTyped ==
  ASSUME TypeOK, NEW t \in Terminals, Moves(t)
  PROVE  TypeOK'
<1>2. proc' \in [Terminals -> Processes]
  BY MovesAs, GoesTyped
<1>3. base' \in Numbers
  BY SmallValues DEF Moves, PullImages, PullProjectImages, pullImage, buildCustomImage, Up, TypeOK
<1>4. layer' \in [label : Hashes, of : Hashes]
  <2>1. CASE buildCustomImage(t)
    <3>1. [base |-> BuildBase, context |-> world.context] \in Hashes
      BY SmallValues DEF BuildBase, TypeOK, Hashes
    <3>2. proc[t].hash \in Hashes
      BY DEF TypeOK, Processes
    <3>3. QED
      BY <2>1, <3>1, <3>2 DEF buildCustomImage, TypeOK
  <2>2. CASE ~buildCustomImage(t)
    BY <2>2 DEF Moves, PullImages, PullProjectImages, pullImage, Up, TypeOK
  <2>3. QED
    BY <2>1, <2>2
<1>5. stack' \in Hashes
  BY DEF Moves, PullImages, PullProjectImages, pullImage, buildCustomImage, Up, TypeOK
<1>6. UNCHANGED <<world, bin, tmp, inode, started, overlap>>
  BY DEF Moves, PullImages, PullProjectImages, pullImage, buildCustomImage, Up
<1>7. QED
  BY <1>2, <1>3, <1>4, <1>5, <1>6 DEF TypeOK

\* What happens to a machine without a command of orobox.
Elsewhere == Publish \/ EditContext \/ Prune

LEMMA ElsewhereTyped ==
  ASSUME TypeOK, Elsewhere
  PROVE  TypeOK'
<1>1. proc' \in [Terminals -> Processes]
  BY NobodyAlone DEF Elsewhere, Publish, EditContext, Prune, TypeOK
<1>2. world' \in [release : Versions, image : Versions, context : Versions]
  <2>1. world.release \in Versions /\ world.image \in Versions /\ world.context \in Versions
    BY DEF TypeOK
  <2>2. CASE Publish
    <3>1. PICK w \in {"release", "image"} : world[w] < MaxVersions /\ world' = [world EXCEPT ![w] = @ + 1]
      BY <2>2 DEF Publish
    <3>2. CASE w = "release"
      BY <2>1, <3>1, <3>2, ConstantsAssumption DEF TypeOK, Versions
    <3>3. CASE w = "image"
      BY <2>1, <3>1, <3>3, ConstantsAssumption DEF TypeOK, Versions
    <3>4. QED
      BY <3>2, <3>3
  <2>3. CASE EditContext
    BY <2>1, <2>3, ConstantsAssumption DEF EditContext, TypeOK, Versions
  <2>4. CASE Prune
    BY <2>4 DEF Prune, TypeOK
  <2>5. QED
    BY <2>2, <2>3, <2>4 DEF Elsewhere
<1>3. base' \in Numbers /\ layer' \in [label : Hashes, of : Hashes]
  BY SmallValues DEF Elsewhere, Publish, EditContext, Prune, TypeOK
<1>4. UNCHANGED <<bin, tmp, inode, stack, started, overlap>>
  BY DEF Elsewhere, Publish, EditContext, Prune
<1>5. QED
  BY <1>1, <1>2, <1>3, <1>4 DEF TypeOK

\* One step of anybody.
LEMMA NextCases ==
  ASSUME Next
  PROVE  \/ Elsewhere
         \/ \E t \in Terminals :
              \/ Start(t) \/ Looks(t) \/ Moves(t) \/ OpenTemporary(t) \/ WriteHead(t)
              \/ WriteRest(t) \/ Rename(t) \/ RemoveTemporary(t)
BY DEF Next, Elsewhere, Looks, Moves

\* The command's record, the files and the images stay of their types through
\* updates, builds and kills in any order.
THEOREM TypeCorrect == Spec => []TypeOK
<1>1. Init => TypeOK
  BY InitTyped
<1>2. TypeOK /\ [Next]_vars => TypeOK'
  <2>1. CASE UNCHANGED vars
    BY <2>1 DEF vars, TypeOK
  <2>2. ASSUME TypeOK, Next PROVE TypeOK'
    BY <2>2, NextCases, StartTyped, LooksTyped, MovesTyped, OpenTyped, WriteTyped, RenameTyped, ElsewhereTyped
  <2>3. QED
    BY <2>1, <2>2
<1>3. QED
  BY <1>1, <1>2, PTL DEF Spec

-----------------------------------------------------------------------------
(* The binary: as long as no two updates met, the one that is under way     *)
(* holds the temporary name, apart from the installed binary.               *)

Engaged(t) == Writing(t) \/ At(t, {"cleanup"})

OneUpdate == \A t, u \in Terminals : Engaged(t) /\ Engaged(u) => t = u
Apart == tmp # bin
Written == \A t \in Terminals :
  /\ Writing(t) => proc[t].file = tmp /\ tmp # NoFile
  /\ At(t, {"rest"}) => inode[proc[t].file][1] # 0
  /\ At(t, {"rename"}) => Whole(proc[t].file)

BinaryInv == ~overlap => OneUpdate /\ Apart /\ Written /\ Whole(bin)

LEMMA NoFileApart == NoFile \notin Inodes
BY ConstantsAssumption, FS_CardinalityType DEF NoFile, Inodes

LEMMA InitBinary == Init => BinaryInv
<1> SUFFICES ASSUME Init PROVE BinaryInv
  OBVIOUS
<1>1. \A t \in Terminals : proc[t].at = "idle"
  BY DEF Init, Idle
<1>2. bin \in Inodes /\ bin # tmp
  BY NoFileApart, InitTyped DEF TypeOK, Init
<1>3. Whole(bin)
  BY <1>2 DEF Init, Whole
<1>4. QED
  BY <1>1, <1>2, <1>3 DEF BinaryInv, OneUpdate, Engaged, Writing, At, Apart, Written

\* Two updates that have met have met for good.
LEMMA OverlapStays ==
  ASSUME Next, ~overlap'
  PROVE  ~overlap
BY DEF Next, Start, getLatestRelease, OpenTemporary, WriteHead, WriteRest, Rename, RemoveTemporary, PullImages,
       PullProjectImages, ensureCustomImage, pullImage, InspectBase, HashInputs, buildCustomImage, Up, Kill,
       Publish, EditContext, Prune

\* A step that leaves the files alone, and after which its command is not
\* engaged in an update.
LEMMA BinaryFrame ==
  ASSUME TypeOK, BinaryInv, NEW t \in Terminals, NEW p \in Processes, Goes(t, p) \/ Touches(t, p),
         UNCHANGED <<bin, tmp, inode, overlap>>, p.at \notin Updating
  PROVE  BinaryInv'
<1> SUFFICES ASSUME ~overlap PROVE (OneUpdate /\ Apart /\ Written /\ Whole(bin))'
  BY DEF BinaryInv
<1>1. /\ proc'[t].at = p.at
      /\ \A u \in Terminals \ {t} : proc'[u].at = proc[u].at /\ proc'[u].file = proc[u].file
  BY GoesFacts DEF TypeOK
<1>2. OneUpdate /\ Apart /\ Written /\ Whole(bin)
  BY DEF BinaryInv
<1>3. OneUpdate'
  BY <1>1, <1>2 DEF OneUpdate, Engaged, Writing, At, Updating
<1>4. Written'
  BY <1>1, <1>2 DEF Written, Writing, At, Whole, Updating
<1>5. QED
  BY <1>2, <1>3, <1>4 DEF Apart, Whole

LEMMA OpenBinary ==
  ASSUME TypeOK, BinaryInv, NEW t \in Terminals, OpenTemporary(t)
  PROVE  BinaryInv'
<1> SUFFICES ASSUME ~overlap' PROVE (OneUpdate /\ Apart /\ Written /\ Whole(bin))'
  BY DEF BinaryInv
<1>1. ~overlap /\ \A u \in Terminals \ {t} : ~Engaged(u)
  BY DEF OpenTemporary, Engaged
<1>2. Apart /\ Whole(bin)
  BY <1>1 DEF BinaryInv
<1> DEFINE i == IF tmp = NoFile THEN Unused ELSE tmp
           p == [To(t, "head") EXCEPT !.file = i]
<1>3. i \in Inodes /\ i # bin
  BY <1>2, UnusedExists DEF TypeOK, Files, Apart
<1>4. p \in Processes /\ p.at = "head" /\ p.file = i
  <2>1. "head" \in Points /\ proc \in [Terminals -> Processes]
    BY DEF TypeOK, Points, UpdatePoints
  <2>2. To(t, "head") \in Processes /\ To(t, "head").at = "head"
    BY <2>1, ToFacts
  <2>3. QED
    BY <1>3, <2>2 DEF Processes, Files
<1>5. tmp' = i /\ inode' = [inode EXCEPT ![i] = <<0, 0>>] /\ Goes(t, p) /\ bin' = bin
  BY DEF OpenTemporary
<1> HIDE DEF i, p
<1>6. /\ proc'[t].at = "head" /\ proc'[t].file = i
      /\ \A u \in Terminals \ {t} : proc'[u].at = proc[u].at
  BY <1>4, <1>5, GoesFacts DEF TypeOK
<1>7. OneUpdate'
  BY <1>1, <1>6 DEF OneUpdate, Engaged, Writing, At
<1>8. Written'
  BY <1>1, <1>3, <1>5, <1>6, NoFileApart DEF Written, Engaged, Writing, At
<1>9. inode'[bin] = inode[bin]
  BY <1>3, <1>5 DEF TypeOK
<1>10. QED
  BY <1>2, <1>3, <1>5, <1>7, <1>8, <1>9 DEF Apart, Whole

LEMMA WriteBinary ==
  ASSUME TypeOK, BinaryInv, NEW t \in Terminals, WriteHead(t) \/ WriteRest(t)
  PROVE  BinaryInv'
<1> SUFFICES ASSUME ~overlap' PROVE (OneUpdate /\ Apart /\ Written /\ Whole(bin))'
  BY DEF BinaryInv
<1>1. UNCHANGED <<bin, tmp, overlap>>
  BY DEF WriteHead, WriteRest
<1>2. OneUpdate /\ Apart /\ Written /\ Whole(bin)
  BY <1>1 DEF BinaryInv
<1>3. \A u \in Terminals \ {t} : ~Engaged(u)
  BY <1>2 DEF OneUpdate, Engaged, Writing, At, WriteHead, WriteRest
<1>4. proc[t].file = tmp /\ tmp # NoFile /\ tmp \in Inodes /\ tmp # bin
  BY <1>2 DEF Written, Writing, At, WriteHead, WriteRest, TypeOK, Files, Apart
<1> DEFINE cleanup == [To(t, "cleanup") EXCEPT !.ok = FALSE]
<1>5. /\ To(t, "rest") \in Processes /\ To(t, "rename") \in Processes /\ cleanup \in Processes
      /\ To(t, "rest").at = "rest" /\ To(t, "rename").at = "rename" /\ cleanup.at = "cleanup"
      /\ To(t, "rest").file = tmp /\ To(t, "rename").file = tmp
  <2>1. proc \in [Terminals -> Processes] /\ "rest" \in Points /\ "rename" \in Points /\ "cleanup" \in Points
    BY DEF TypeOK, Points, UpdatePoints
  <2>2. To(t, "cleanup") \in Processes /\ To(t, "cleanup").at = "cleanup"
    BY <2>1, ToFacts
  <2>3. cleanup \in Processes /\ cleanup.at = "cleanup"
    BY <2>2 DEF Processes
  <2>4. QED
    BY <1>4, <2>1, <2>3, ToFacts
<1>6. inode[tmp] \in Numbers \X Numbers /\ world.release \in Numbers /\ world.release # 0
  BY <1>4, SmallValues DEF TypeOK, Versions
<1>7. \/ /\ At(t, {"head"}) /\ Goes(t, To(t, "rest"))
         /\ inode' = [inode EXCEPT ![tmp] = [inode[tmp] EXCEPT ![1] = world.release]]
      \/ /\ At(t, {"rest"}) /\ Goes(t, To(t, "rename"))
         /\ inode' = [inode EXCEPT ![tmp] = [inode[tmp] EXCEPT ![2] = inode[tmp][1]]]
      \/ UNCHANGED inode /\ Goes(t, cleanup)
  BY <1>4 DEF WriteHead, WriteRest, AfterLoss
<1> HIDE DEF cleanup
<1>8. inode'[bin] = inode[bin] /\ \A u \in Terminals \ {t} : proc'[u].at = proc[u].at
  BY <1>4, <1>5, <1>7, GoesFacts DEF TypeOK
<1>9. OneUpdate'
  BY <1>3, <1>8 DEF OneUpdate, Engaged, Writing, At
<1>10. Written'
  <2>1. \A u \in Terminals \ {t} : ~Writing(u)'
    BY <1>3, <1>8 DEF Engaged, Writing, At
  <2>2. CASE At(t, {"head"}) /\ Goes(t, To(t, "rest")) /\ inode' = [inode EXCEPT ![tmp] = [inode[tmp] EXCEPT ![1] = world.release]]
    <3>1. proc'[t].at = "rest" /\ proc'[t].file = tmp
      BY <1>5, <2>2, GoesFacts DEF TypeOK
    <3>2. inode'[tmp][1] # 0
      BY <1>4, <1>6, <2>2, HalfWritten DEF TypeOK
    <3>3. QED
      BY <1>1, <1>4, <2>1, <3>1, <3>2 DEF Written, Writing, At
  <2>3. CASE At(t, {"rest"}) /\ Goes(t, To(t, "rename")) /\ inode' = [inode EXCEPT ![tmp] = [inode[tmp] EXCEPT ![2] = inode[tmp][1]]]
    <3>1. proc'[t].at = "rename" /\ proc'[t].file = tmp
      BY <1>5, <2>3, GoesFacts DEF TypeOK
    <3>2. inode[tmp][1] # 0 /\ inode[tmp][1] \in Numbers
      BY <1>2, <1>4, <1>6, <2>3 DEF Written
    <3>3. inode'[tmp] = [inode[tmp] EXCEPT ![2] = inode[tmp][1]]
      BY <1>4, <2>3 DEF TypeOK
    <3>4. inode'[tmp][1] = inode[tmp][1] /\ inode'[tmp][2] = inode[tmp][1]
      BY <1>6, <3>2, <3>3, HalfWritten
    <3>5. QED
      BY <1>1, <1>4, <2>1, <3>1, <3>2, <3>4 DEF Written, Writing, At, Whole
  <2>4. CASE UNCHANGED inode /\ Goes(t, cleanup)
    <3>1. proc'[t].at = "cleanup"
      BY <1>5, <2>4, GoesFacts DEF TypeOK
    <3>2. QED
      BY <2>1, <3>1 DEF Written, Writing, At
  <2>5. QED
    BY <1>7, <2>2, <2>3, <2>4
<1>11. QED
  BY <1>1, <1>2, <1>8, <1>9, <1>10 DEF Apart, Whole

\* The rename puts a whole file behind the binary's name, and whichever way the
\* update ends nobody writes after it.
LEMMA RenameBinary ==
  ASSUME TypeOK, BinaryInv, NEW t \in Terminals, Rename(t) \/ RemoveTemporary(t)
  PROVE  BinaryInv'
<1> SUFFICES ASSUME ~overlap' PROVE (OneUpdate /\ Apart /\ Written /\ Whole(bin))'
  BY DEF BinaryInv
<1>1. UNCHANGED <<inode, overlap>>
  BY DEF Rename, RemoveTemporary
<1>2. OneUpdate /\ Apart /\ Written /\ Whole(bin)
  BY <1>1 DEF BinaryInv
<1>3. \A u \in Terminals \ {t} : ~Engaged(u)
  BY <1>2 DEF OneUpdate, Engaged, Writing, At, Rename, RemoveTemporary
<1>4. PICK p \in Processes : Goes(t, p) /\ p.at \in {"cleanup", "images", "done"}
  <2>1. proc \in [Terminals -> Processes] /\ "images" \in Points /\ "done" \in Points /\ "cleanup" \in Points
    BY DEF TypeOK, Points, UpdatePoints
  <2>2. /\ To(t, "images") \in Processes /\ To(t, "done") \in Processes /\ To(t, "cleanup") \in Processes
        /\ To(t, "images").at = "images" /\ To(t, "done").at = "done" /\ To(t, "cleanup").at = "cleanup"
    BY <2>1, ToFacts
  <2>3. [To(t, "cleanup") EXCEPT !.ok = FALSE] \in Processes /\ [To(t, "cleanup") EXCEPT !.ok = FALSE].at = "cleanup"
    BY <2>2 DEF Processes
  <2>4. /\ [To(t, "images") EXCEPT !.file = NoFile] \in Processes
        /\ [To(t, "done") EXCEPT !.file = NoFile] \in Processes
        /\ [To(t, "images") EXCEPT !.file = NoFile].at = "images"
        /\ [To(t, "done") EXCEPT !.file = NoFile].at = "done"
    BY <2>2 DEF Processes, Files
  <2>5. CASE Rename(t)
    BY <2>2, <2>3, <2>5 DEF Rename
  <2>6. CASE RemoveTemporary(t)
    BY <2>4, <2>6 DEF RemoveTemporary
  <2>7. QED
    BY <2>5, <2>6
<1>5. proc'[t].at = p.at /\ \A u \in Terminals \ {t} : proc'[u].at = proc[u].at
  BY <1>4, GoesFacts DEF TypeOK
<1>6. OneUpdate'
  BY <1>3, <1>5 DEF OneUpdate, Engaged, Writing, At
<1>7. Written'
  BY <1>3, <1>4, <1>5 DEF Written, Engaged, Writing, At
<1>8. Apart' /\ Whole(bin)'
  <2>1. CASE UNCHANGED <<bin, tmp>>
    BY <1>1, <1>2, <2>1 DEF Apart, Whole
  <2>2. CASE tmp' = NoFile /\ bin' = bin
    BY <1>1, <1>2, <2>2, NoFileApart DEF Apart, Whole, TypeOK
  <2>3. CASE Rename(t) /\ tmp # NoFile /\ bin' = tmp /\ tmp' = NoFile
    <3>1. proc[t].file = tmp /\ Whole(proc[t].file)
      BY <1>2, <2>3 DEF Rename, Written, Writing, At
    <3>2. QED
      BY <1>1, <2>3, <3>1 DEF Apart, Whole
  <2>4. QED
    BY <2>1, <2>2, <2>3 DEF Rename, RemoveTemporary
<1>9. QED
  BY <1>6, <1>7, <1>8

LEMMA BinaryStep ==
  ASSUME TypeOK, BinaryInv, Next
  PROVE  BinaryInv'
<1>1. CASE Elsewhere
  <2>1. \A u \in Terminals : proc'[u].at = proc[u].at /\ proc'[u].file = proc[u].file
    BY <1>1, NobodyAlone DEF Elsewhere, Publish, EditContext, Prune, TypeOK
  <2>2. UNCHANGED <<bin, tmp, inode, overlap>>
    BY <1>1 DEF Elsewhere, Publish, EditContext, Prune
  <2>3. QED
    BY <2>1, <2>2 DEF BinaryInv, OneUpdate, Apart, Written, Engaged, Writing, At, Whole
<1>2. ASSUME NEW t \in Terminals, Start(t) \/ Looks(t) \/ Moves(t) PROVE BinaryInv'
  <2>1. proc[t] \in Processes /\ UNCHANGED <<bin, tmp, inode, overlap>>
    BY <1>2 DEF TypeOK, Start, Looks, Moves, getLatestRelease, ensureCustomImage, InspectBase, HashInputs, Kill,
                PullImages, PullProjectImages, pullImage, buildCustomImage, Up
  <2>2. PICK p \in Processes : (Goes(t, p) \/ Touches(t, p)) /\ p.at \notin Updating
    BY <1>2, StartsAs, LooksAs, MovesAs
  <2>3. QED
    BY <2>1, <2>2, BinaryFrame
<1>3. QED
  BY <1>1, <1>2, NextCases, OpenBinary, WriteBinary, RenameBinary

\* The installed binary is a whole executable of one release at every moment,
\* whatever fails or is killed, as long as no two updates ran at once: the
\* download goes to a temporary name beside it and is renamed when complete.
THEOREM BinaryStaysWhole == Spec => []BinaryIsWhole
<1>1. Init => BinaryInv
  BY InitBinary
<1>2. TypeOK /\ BinaryInv /\ [Next]_vars => BinaryInv'
  <2>1. CASE UNCHANGED vars
    BY <2>1 DEF vars, BinaryInv, OneUpdate, Apart, Written, Engaged, Writing, At, Whole
  <2>2. QED
    BY <2>1, BinaryStep
<1>3. BinaryInv => BinaryIsWhole
  BY DEF BinaryInv, BinaryIsWhole
<1>4. QED
  BY <1>1, <1>2, <1>3, TypeCorrect, PTL DEF Spec

-----------------------------------------------------------------------------
(* The layer. Versions only grow, so a label that was overtaken while its   *)
(* layer was built is behind the inputs for good.                           *)

\* h was computed from a base that is not newer than the one there is.
NotAhead(h) ==
  h.context <= world.context /\ h.base <= world.image /\ (base # 0 => h.base <= base)

\* The hash and the base's ID a command holds are not ahead either.
Holds(p) == NotAhead(p.hash) /\ NotAhead([base |-> p.id, context |-> 0])

LayerOvertaken ==
  /\ base <= world.image /\ (base = 0 => layer.of = NoHash)
  /\ NotAhead(layer.of)
  /\ layer.label.base <= layer.of.base /\ layer.label.context <= layer.of.context

Overtaken == LayerOvertaken /\ \A t \in Terminals : Holds(proc[t])

\* What an undisturbed command that starts containers knows, and what it says
\* when it is done.
Says(p) == p.at = "done" /\ p.ok /\ p.id # 0
Knows(p) ==
  /\ p.at \in {"hash", "build", "up"} => base # 0 /\ p.id = base
  /\ p.at = "build" => p.hash = Inputs
  /\ p.at = "up" \/ Says(p) => layer = [label |-> Inputs, of |-> Inputs]
  /\ Says(p) => stack = Inputs
  /\ p.at \in UpdatePoints \cup BasePoints => p.id = 0

LayerInv == Overtaken /\ \A t \in Terminals : proc[t].alone => Knows(proc[t])

LEMMA InitLayer == Init => LayerInv
<1> SUFFICES ASSUME Init PROVE LayerInv
  OBVIOUS
<1>1. \A t \in Terminals : proc[t].at = "idle" /\ proc[t].hash = NoHash /\ proc[t].id = 0
  BY DEF Init, Idle
<1>2. /\ world.image = 1 /\ world.context = 1 /\ base \in {0, 1}
      /\ layer.of = NoHash /\ layer.label = NoHash /\ NoHash.base = 0 /\ NoHash.context = 0
  BY DEF Init, NoHash
<1>3. Overtaken
  BY <1>1, <1>2 DEF Overtaken, LayerOvertaken, Holds, NotAhead
<1>4. QED
  BY <1>1, <1>3 DEF LayerInv, Knows, Says, UpdatePoints, BasePoints

\* What is not ahead stays so: releases only come, and a base that is pulled is
\* the newest.
LEMMA NotAheadStays ==
  ASSUME TypeOK, TypeOK', base <= world.image,
         world'.image >= world.image, world'.context >= world.context, base' \in {base, world.image, 0},
         NEW h \in Hashes, NotAhead(h)
  PROVE  /\ h.context <= world'.context /\ h.base <= world'.image
         /\ base' # 0 => h.base <= base'
<1>1. h.base \in Nat /\ h.context \in Nat
  BY ConstantsAssumption DEF Hashes, Numbers
<1>2. /\ world.image \in Nat /\ world.context \in Nat /\ world'.image \in Nat /\ world'.context \in Nat
      /\ base \in Nat
  BY ConstantsAssumption DEF TypeOK, Versions, Numbers
<1>3. QED
  BY <1>1, <1>2 DEF NotAhead

LEMMA HoldsStays ==
  ASSUME TypeOK, TypeOK', base <= world.image,
         world'.image >= world.image, world'.context >= world.context, base' \in {base, world.image, 0},
         NEW p \in Processes, Holds(p)
  PROVE  Holds(p)'
<1>1. p.hash \in Hashes /\ [base |-> p.id, context |-> 0] \in Hashes
  BY SmallValues DEF Processes, Hashes
<1>2. QED
  BY <1>1, NotAheadStays DEF Holds, NotAhead

\* A step of one command that leaves images, layer and containers alone.
LEMMA LayerGoes ==
  ASSUME TypeOK, LayerInv, NEW t \in Terminals, NEW p \in Processes, Goes(t, p),
         UNCHANGED <<world, base, layer, stack>>, Holds(p), p.alone => Knows(p)
  PROVE  LayerInv'
<1>1. proc'[t] = p /\ \A u \in Terminals \ {t} : proc'[u] = proc[u]
  BY DEF Goes, TypeOK
<1>2. \A u \in Terminals : Holds(proc'[u]) /\ (proc'[u].alone => Knows(proc'[u]))
  BY <1>1 DEF LayerInv, Overtaken
<1>3. LayerOvertaken'
  BY DEF LayerInv, Overtaken, LayerOvertaken, NotAhead
<1>4. \A u \in Terminals : Holds(proc[u])'
  BY <1>2 DEF Holds, NotAhead
<1>5. \A u \in Terminals : proc'[u].alone => Knows(proc[u])'
  BY <1>2 DEF Knows, Says, Inputs
<1>6. QED
  BY <1>3, <1>4, <1>5 DEF LayerInv, Overtaken

\* A step of one command that touches them: the others are no longer alone.
LEMMA LayerTouches ==
  ASSUME TypeOK, TypeOK', LayerInv, NEW t \in Terminals, NEW p \in Processes, Touches(t, p),
         UNCHANGED world, base' \in {base, world.image}, LayerOvertaken', Holds(p), p.alone => Knows(p)'
  PROVE  LayerInv'
<1>1. /\ proc'[t] = p
      /\ \A u \in Terminals \ {t} : /\ proc'[u].hash = proc[u].hash /\ proc'[u].id = proc[u].id
                                    /\ ~proc'[u].alone /\ proc'[u] \in Processes
  BY DEF Touches, TypeOK, Processes
<1>2. \A u \in Terminals : Holds(proc'[u]) /\ proc'[u] \in Processes
  BY <1>1 DEF LayerInv, Overtaken, Holds
<1>3. base <= world.image /\ world'.image >= world.image /\ world'.context >= world.context
  BY ConstantsAssumption DEF LayerInv, Overtaken, LayerOvertaken, TypeOK, Versions
<1>4. ASSUME NEW u \in Terminals
      PROVE  Holds(proc[u])'
  <2>1. PICK q \in Processes : q = proc'[u]
    BY <1>2
  <2>2. Holds(q)'
    BY <1>2, <1>3, <2>1, HoldsStays
  <2>3. QED
    BY <2>1, <2>2 DEF Holds, NotAhead
<1>5. (proc[t].alone => Knows(proc[t]))'
  BY <1>1 DEF Knows, Says, Inputs
<1>6. QED
  BY <1>1, <1>4, <1>5 DEF LayerInv, Overtaken

\* Away from the layer a command knows nothing, nor does one that failed.
LEMMA ApartKnows ==
  ASSUME NEW p \in Processes,
         \/ p.at \in {"idle", "done"} \cup UpdatePoints \cup BasePoints /\ p.id = 0
         \/ p.at = "done" /\ ~p.ok
  PROVE  Knows(p) /\ Knows(p)'
BY DEF Knows, Says, UpdatePoints, BasePoints

\* What a command holds while it does not look anything up.
LEMMA SameHolds ==
  ASSUME LayerInv, TypeOK, NEW t \in Terminals, NEW p \in Processes,
         p.hash \in {NoHash, proc[t].hash}, p.id \in {0, proc[t].id}
  PROVE  Holds(p)
<1>1. Holds(proc[t])
  BY DEF LayerInv, Overtaken
<1>2. NotAhead(NoHash) /\ NotAhead([base |-> 0, context |-> 0])
  BY ConstantsAssumption DEF NotAhead, NoHash, TypeOK, Versions, Numbers
<1>3. QED
  BY <1>1, <1>2 DEF Holds

\* The steps of an update, of a start, of a kill and before the base is looked at.
Away(t) ==
  \/ Start(t) \/ getLatestRelease(t) \/ OpenTemporary(t) \/ WriteHead(t) \/ WriteRest(t) \/ Rename(t)
  \/ RemoveTemporary(t) \/ ensureCustomImage(t) \/ Kill(t)

LEMMA AwayAs ==
  ASSUME TypeOK, NEW t \in Terminals, Away(t)
  PROVE  \E p \in Processes :
           /\ Goes(t, p) /\ p.at \in {"idle", "done"} \cup UpdatePoints \cup BasePoints
           /\ p.hash \in {NoHash, proc[t].hash}
           /\ p.id = 0 \/ (proc[t].at \in UpdatePoints \cup BasePoints /\ p.id = proc[t].id /\ p.alone = proc[t].alone)
<1> DEFINE Off == {"idle", "done"} \cup UpdatePoints \cup BasePoints
           Good(p) == /\ p \in Processes /\ p.at \in Off /\ p.hash \in {NoHash, proc[t].hash}
                      /\ p.id = 0 \/ (p.id = proc[t].id /\ p.alone = proc[t].alone)
           Here == proc[t].at \in UpdatePoints \cup BasePoints
<1>1. proc \in [Terminals -> Processes] /\ Off \subseteq Points
  BY DEF TypeOK, Points
<1>2. \A point \in Off : Good(To(t, point)) /\ Good(Fails(t))
  BY <1>1, ToFacts
<1>3. /\ {"done", "create", "head", "rest", "rename", "cleanup", "images", "pull first", "inspect"} \subseteq Off
      /\ {"check", "create", "head", "rest", "rename", "cleanup", "layer"} \subseteq UpdatePoints \cup BasePoints
  BY DEF UpdatePoints, BasePoints
<1>4. \A p \in Processes, f \in Files : Good(p) => Good([p EXCEPT !.file = f]) /\ Good([p EXCEPT !.ok = FALSE])
  BY DEF Processes
<1> HIDE DEF Good, Off
<1>5. CASE Start(t)
  <2>1. PICK point \in {"check", "layer"}, force \in BOOLEAN :
          Goes(t, [Idle EXCEPT !.at = point, !.force = force, !.own = inode[bin][1]])
    BY <1>5 DEF Start
  <2> DEFINE p == [Idle EXCEPT !.at = point, !.force = force, !.own = inode[bin][1]]
  <2>2. inode[bin][1] \in Numbers
    BY DEF TypeOK
  <2>3. p \in Processes /\ p.at = point /\ p.id = 0 /\ p.hash = NoHash
    BY <2>2, SmallValues DEF Idle, Processes, Points, UpdatePoints, BasePoints, Files
  <2>4. QED
    BY <2>1, <2>3 DEF UpdatePoints, BasePoints
<1>6. CASE Kill(t)
  <2>1. Idle \in Processes /\ Idle.at = "idle" /\ Idle.id = 0 /\ Idle.hash = NoHash
    BY SmallValues DEF Idle, Processes, Points, Files
  <2>2. QED
    BY <1>6, <2>1 DEF Kill
<1>7. Here \/ Start(t) \/ Kill(t)
  BY <1>3 DEF Away, At, getLatestRelease, OpenTemporary, WriteHead, WriteRest, Rename, RemoveTemporary, ensureCustomImage
<1>8. ASSUME ~Start(t), ~Kill(t) PROVE \E p \in Processes : Goes(t, p) /\ Good(p)
  <2>1. CASE getLatestRelease(t) \/ ensureCustomImage(t)
    BY <1>2, <1>3, <2>1 DEF getLatestRelease, ensureCustomImage, Good
  <2>2. CASE OpenTemporary(t)
    <3>1. PICK i \in Files : Goes(t, [To(t, "head") EXCEPT !.file = i])
      BY <2>2, UnusedExists DEF OpenTemporary, Files, TypeOK
    <3>2. Good(To(t, "head")) /\ To(t, "head") \in Processes
      BY <1>2, <1>3 DEF Good
    <3>3. Good([To(t, "head") EXCEPT !.file = i])
      BY <1>4, <3>2
    <3>4. QED
      BY <3>1, <3>3 DEF Good
  <2>3. CASE WriteHead(t) \/ WriteRest(t) \/ Rename(t)
    <3>1. Good(To(t, "rest")) /\ Good(To(t, "rename")) /\ Good(To(t, "cleanup"))
      BY <1>2, <1>3
    <3>2. Good([To(t, "cleanup") EXCEPT !.ok = FALSE])
      BY <1>4, <3>1 DEF Good, Files
    <3>3. QED
      BY <2>3, <3>1, <3>2 DEF WriteHead, WriteRest, AfterLoss, Rename, Good
  <2>4. CASE RemoveTemporary(t)
    <3>1. Good(To(t, "images")) /\ Good(To(t, "done")) /\ NoFile \in Files
      BY <1>2, <1>3 DEF Files
    <3>2. Good([To(t, "images") EXCEPT !.file = NoFile]) /\ Good([To(t, "done") EXCEPT !.file = NoFile])
      BY <1>4, <3>1 DEF Good
    <3>3. QED
      BY <2>4, <3>2 DEF RemoveTemporary, Good
  <2>5. QED
    BY <1>8, <2>1, <2>2, <2>3, <2>4 DEF Away
<1>9. QED
  BY <1>5, <1>6, <1>7, <1>8 DEF Good, Off

LEMMA AwayLayer ==
  ASSUME TypeOK, LayerInv, NEW t \in Terminals, Away(t)
  PROVE  LayerInv'
<1>1. PICK p \in Processes :
        /\ Goes(t, p) /\ p.at \in {"idle", "done"} \cup UpdatePoints \cup BasePoints
        /\ p.hash \in {NoHash, proc[t].hash}
        /\ p.id = 0 \/ (proc[t].at \in UpdatePoints \cup BasePoints /\ p.id = proc[t].id /\ p.alone = proc[t].alone)
  BY AwayAs
<1>2. Holds(p)
  BY <1>1, SameHolds
<1>3. p.alone => Knows(p)
  <2>1. proc[t].alone => Knows(proc[t])
    BY DEF LayerInv
  <2>2. p.alone => p.id = 0
    BY <1>1, <2>1 DEF Knows
  <2>3. QED
    BY <1>1, <2>2, ApartKnows
<1>4. UNCHANGED <<world, base, layer, stack>>
  BY DEF Away, Start, getLatestRelease, OpenTemporary, WriteHead, WriteRest, Rename, RemoveTemporary, ensureCustomImage, Kill
<1>5. QED
  BY <1>1, <1>2, <1>3, <1>4, LayerGoes

\* A pull brings the newest base: the layer falls behind, the hashes stay where
\* they were.
LEMMA PullLayer ==
  ASSUME TypeOK, TypeOK', LayerInv, NEW t \in Terminals, PullImages(t) \/ PullProjectImages(t) \/ pullImage(t)
  PROVE  LayerInv'
<1>1. UNCHANGED <<world, layer, stack>>
  BY DEF PullImages, PullProjectImages, pullImage
<1>2. proc[t].at \in UpdatePoints \cup BasePoints
  BY DEF PullImages, PullProjectImages, pullImage, At, UpdatePoints, BasePoints
<1>3. PICK p \in Processes :
        /\ \/ Goes(t, p) /\ base' = base
           \/ Touches(t, p) /\ base' = world.image
        /\ p.hash = proc[t].hash /\ p.id = proc[t].id /\ p.alone = proc[t].alone
        /\ p.at \in {"done"} \cup UpdatePoints \cup BasePoints
  <2>1. proc \in [Terminals -> Processes]
    BY DEF TypeOK
  <2>2. {"project images", "done", "inspect", "inspect again"} \subseteq Points
    BY DEF Points, UpdatePoints, BasePoints
  <2>3. \A point \in {"project images", "done", "inspect", "inspect again"} :
          /\ To(t, point) \in Processes /\ Fails(t) \in Processes
          /\ To(t, point).at = point /\ Fails(t).at = "done"
          /\ To(t, point).hash = proc[t].hash /\ To(t, point).id = proc[t].id /\ To(t, point).alone = proc[t].alone
          /\ Fails(t).hash = proc[t].hash /\ Fails(t).id = proc[t].id /\ Fails(t).alone = proc[t].alone
    BY <2>1, <2>2, ToFacts
  <2>4. {"project images", "inspect", "inspect again"} \subseteq UpdatePoints \cup BasePoints
    BY DEF UpdatePoints, BasePoints
  <2>5. CASE PullImages(t) \/ PullProjectImages(t)
    BY <2>3, <2>4, <2>5 DEF PullImages, PullProjectImages
  <2>6. CASE pullImage(t)
    BY <2>3, <2>4, <2>6 DEF pullImage
  <2>7. QED
    BY <2>5, <2>6
<1>4. Holds(p)
  BY <1>3, SameHolds
<1>5. p.alone => p.id = 0
  BY <1>2, <1>3 DEF LayerInv, Knows
<1>6. (p.alone => Knows(p)) /\ (p.alone => Knows(p)')
  BY <1>3, <1>5, ApartKnows
<1>7. CASE Goes(t, p) /\ base' = base
  BY <1>1, <1>4, <1>6, <1>7, LayerGoes
<1>8. CASE Touches(t, p) /\ base' = world.image
  <2>1. LayerOvertaken'
    <3>1. world.image \in Nat \ {0} /\ layer.of \in Hashes /\ NoHash \in Hashes
      BY ConstantsAssumption, SmallValues DEF TypeOK, Versions
    <3>2. LayerOvertaken
      BY DEF LayerInv, Overtaken
    <3>3. QED
      BY <1>1, <1>8, <3>1, <3>2 DEF LayerOvertaken, NotAhead
  <2>2. QED
    BY <1>1, <1>4, <1>6, <1>8, <2>1, LayerTouches
<1>9. QED
  BY <1>3, <1>7, <1>8

LEMMA InspectLayer ==
  ASSUME TypeOK, LayerInv, NEW t \in Terminals, InspectBase(t)
  PROVE  LayerInv'
<1>1. UNCHANGED <<world, base, layer, stack>>
  BY DEF InspectBase
<1>2. proc \in [Terminals -> Processes] /\ base \in Numbers
  BY DEF TypeOK
<1>3. Holds(proc[t]) /\ base <= world.image /\ 0 <= world.context
  BY ConstantsAssumption DEF LayerInv, Overtaken, LayerOvertaken, TypeOK, Versions
<1>4. CASE base # 0 /\ Goes(t, [To(t, "hash") EXCEPT !.id = base])
  <2> DEFINE p == [To(t, "hash") EXCEPT !.id = base]
  <2>1. To(t, "hash") \in Processes /\ To(t, "hash").at = "hash" /\ To(t, "hash").hash = proc[t].hash
    BY <1>2, ToFacts DEF Points
  <2>2. p \in Processes /\ p.at = "hash" /\ p.hash = proc[t].hash /\ p.id = base
    BY <1>2, <2>1 DEF Processes
  <2>3. Holds(p)
    BY <1>2, <1>3, <2>2 DEF Holds, NotAhead, Numbers
  <2>4. Knows(p)
    BY <1>4, <2>2 DEF Knows, Says, UpdatePoints, BasePoints
  <2>5. QED
    BY <1>1, <1>4, <2>2, <2>3, <2>4, LayerGoes
<1>5. CASE \E p \in {To(t, "pull missing"), Fails(t)} : Goes(t, p)
  <2>1. PICK p \in {To(t, "pull missing"), Fails(t)} : Goes(t, p)
    BY <1>5
  <2>2. "pull missing" \in Points
    BY DEF Points, BasePoints
  <2>3. /\ p \in Processes /\ p.hash = proc[t].hash /\ p.id = proc[t].id /\ p.alone = proc[t].alone
        /\ p.at = "pull missing" \/ (p.at = "done" /\ ~p.ok)
    <3>1. CASE p = To(t, "pull missing")
      BY <1>2, <2>2, <3>1, ToFacts
    <3>2. CASE p = Fails(t)
      BY <1>2, <2>2, <3>2, ToFacts
    <3>3. QED
      BY <2>1, <3>1, <3>2
  <2>4. Holds(p)
    BY <2>3, SameHolds
  <2>5. proc[t].alone => proc[t].id = 0
    BY DEF LayerInv, Knows, InspectBase, At, BasePoints
  <2>6. p.alone => Knows(p)
    BY <2>3, <2>5, ApartKnows DEF BasePoints
  <2>7. QED
    BY <1>1, <2>1, <2>3, <2>4, <2>6, LayerGoes
<1>6. QED
  BY <1>4, <1>5 DEF InspectBase

\* A label of the current inputs cannot have been overtaken: the layer under it
\* was built from these inputs.
LEMMA LabelTells ==
  ASSUME TypeOK, LayerOvertaken, base # 0, layer.label = Inputs
  PROVE  layer = [label |-> Inputs, of |-> Inputs]
<1>1. layer.of \in Hashes /\ Inputs \in Hashes /\ layer \in [label : Hashes, of : Hashes]
  BY SmallValues DEF TypeOK, Inputs, Hashes
<1>2. layer.of.base <= base /\ layer.of.context <= world.context
  BY DEF LayerOvertaken, NotAhead
<1>3. base <= layer.of.base /\ world.context <= layer.of.context
  BY DEF LayerOvertaken, Inputs
<1>4. layer.of.base = base /\ layer.of.context = world.context
  BY <1>1, <1>2, <1>3 DEF TypeOK, Hashes, Numbers, Versions
<1>5. layer.of = Inputs
  BY <1>1, <1>4 DEF Inputs, Hashes
<1>6. QED
  BY <1>1, <1>5

LEMMA HashLayer ==
  ASSUME TypeOK, LayerInv, NEW t \in Terminals, HashInputs(t)
  PROVE  LayerInv'
<1> DEFINE want == customLayerHash(proc[t].id)
           point == IF ~proc[t].force /\ layer.label = want THEN "up" ELSE "build"
           p == [To(t, point) EXCEPT !.hash = want]
<1>1. UNCHANGED <<world, base, layer, stack>> /\ Goes(t, p)
  BY DEF HashInputs
<1>2. proc \in [Terminals -> Processes] /\ proc[t] \in Processes
  BY DEF TypeOK
<1>3. want \in Hashes /\ want.base = proc[t].id /\ want.context = world.context
  BY <1>2, SmallValues DEF customLayerHash, TypeOK, Processes, Hashes
<1> HIDE DEF want
<1>4. /\ To(t, point) \in Processes /\ To(t, point).at = point
      /\ To(t, point).id = proc[t].id /\ To(t, point).alone = proc[t].alone
  BY <1>2, ToFacts DEF Points
<1>5. p \in Processes /\ p.at = point /\ p.id = proc[t].id /\ p.alone = proc[t].alone /\ p.hash = want
  BY <1>3, <1>4 DEF Processes
<1>6. Holds(p)
  <2>1. Holds(proc[t])
    BY DEF LayerInv, Overtaken
  <2>2. world.context <= world.context
    BY DEF TypeOK, Versions
  <2>3. QED
    BY <1>3, <1>5, <2>1, <2>2 DEF Holds, NotAhead
<1>7. p.alone => Knows(p)
  <2> SUFFICES ASSUME p.alone PROVE Knows(p)
    OBVIOUS
  <2>1. Knows(proc[t]) /\ LayerOvertaken /\ proc[t].at = "hash"
    BY <1>5 DEF LayerInv, Overtaken, HashInputs, At
  <2>2. base # 0 /\ proc[t].id = base /\ want = Inputs
    BY <2>1 DEF Knows, customLayerHash, Inputs, want
  <2>3. CASE p.at = "build"
    BY <1>5, <2>2, <2>3 DEF Knows, Says, UpdatePoints, BasePoints
  <2>4. CASE p.at = "up"
    <3>1. layer = [label |-> Inputs, of |-> Inputs]
      BY <1>5, <2>1, <2>2, <2>4, LabelTells
    <3>2. QED
      BY <1>5, <2>2, <2>4, <3>1 DEF Knows, Says, UpdatePoints, BasePoints
  <2>5. QED
    BY <1>5, <2>3, <2>4
<1>8. QED
  BY <1>1, <1>5, <1>6, <1>7, LayerGoes

\* The build labels the layer with the hash that was looked up, and builds it
\* from the base and the context there are now, which are not behind.
LEMMA BuildLayer ==
  ASSUME TypeOK, TypeOK', LayerInv, NEW t \in Terminals, buildCustomImage(t)
  PROVE  LayerInv'
<1>1. proc \in [Terminals -> Processes] /\ proc[t] \in Processes /\ world' = world /\ stack' = stack
  BY DEF TypeOK, buildCustomImage
<1>2. /\ To(t, "up") \in Processes /\ To(t, "up").at = "up" /\ To(t, "up").id = proc[t].id
      /\ To(t, "up").hash = proc[t].hash /\ To(t, "up").alone = proc[t].alone
      /\ Fails(t) \in Processes /\ Fails(t).at = "done" /\ ~Fails(t).ok /\ Fails(t).id = proc[t].id
      /\ Fails(t).hash = proc[t].hash
  BY <1>1, ToFacts DEF Points
<1>3. CASE UNCHANGED <<layer, base>> /\ Goes(t, Fails(t))
  BY <1>1, <1>2, <1>3, SameHolds, ApartKnows, LayerGoes
<1>4. CASE /\ layer' = [label |-> proc[t].hash, of |-> [base |-> BuildBase, context |-> world.context]]
           /\ base' = IF base = 0 THEN world.image ELSE base
           /\ Touches(t, To(t, "up"))
  <2>1. PICK p \in Processes : p = To(t, "up")
    BY <1>2
  <2>2. Holds(p) /\ Holds(proc[t])
    BY <1>2, <2>1, SameHolds DEF LayerInv, Overtaken
  <2>3. base' = BuildBase /\ base' # 0 /\ base' \in {base, world.image}
    BY <1>4, ConstantsAssumption DEF BuildBase, TypeOK, Versions
  <2>4. LayerOvertaken'
    <3>1. base <= world.image /\ world.image \in Nat /\ base \in Nat /\ world.context \in Nat
      BY ConstantsAssumption DEF LayerInv, Overtaken, LayerOvertaken, TypeOK, Versions, Numbers
    <3>2. layer'.of.base = base' /\ layer'.of.context = world.context /\ layer'.label = proc[t].hash
      BY <1>4, <2>3
    <3>3. base' <= world'.image
      BY <1>1, <2>3, <3>1
    <3>4. NotAhead(layer.of)'
      BY <1>1, <2>3, <3>1, <3>2, <3>3 DEF NotAhead
    <3>5. proc[t].hash.context <= world.context /\ proc[t].hash.base <= base'
      BY <2>2, <2>3, <3>1 DEF Holds, NotAhead
    <3>6. QED
      BY <2>3, <3>2, <3>3, <3>4, <3>5 DEF LayerOvertaken
  <2>5. p.alone => Knows(p)'
    <3> SUFFICES ASSUME p.alone PROVE Knows(p)'
      OBVIOUS
    <3>1. Knows(proc[t]) /\ proc[t].at = "build"
      BY <1>2, <2>1 DEF LayerInv, buildCustomImage, At
    <3>2. base # 0 /\ proc[t].id = base /\ proc[t].hash = Inputs
      BY <3>1 DEF Knows
    <3>3. base' = base /\ Inputs' = Inputs /\ layer' = [label |-> Inputs, of |-> Inputs]
      BY <1>1, <1>4, <3>2 DEF Inputs, BuildBase
    <3>4. QED
      BY <1>2, <2>1, <3>2, <3>3 DEF Knows, Says, UpdatePoints, BasePoints
  <2>6. QED
    BY <1>1, <1>4, <2>1, <2>2, <2>3, <2>4, <2>5, LayerTouches
<1>5. QED
  BY <1>3, <1>4 DEF buildCustomImage

LEMMA UpLayer ==
  ASSUME TypeOK, TypeOK', LayerInv, NEW t \in Terminals, Up(t)
  PROVE  LayerInv'
<1>1. proc \in [Terminals -> Processes] /\ UNCHANGED <<world, base, layer>>
  BY DEF TypeOK, Up
<1>2. /\ To(t, "done") \in Processes /\ To(t, "done").at = "done" /\ To(t, "done").id = proc[t].id
      /\ To(t, "done").hash = proc[t].hash /\ To(t, "done").alone = proc[t].alone
      /\ Fails(t) \in Processes /\ Fails(t).at = "done" /\ ~Fails(t).ok /\ Fails(t).id = proc[t].id
      /\ Fails(t).hash = proc[t].hash
  BY <1>1, ToFacts DEF Points
<1>3. CASE UNCHANGED stack /\ Goes(t, Fails(t))
  BY <1>1, <1>2, <1>3, SameHolds, ApartKnows, LayerGoes
<1>4. CASE stack' = layer.of /\ Touches(t, To(t, "done"))
  <2>1. PICK p \in Processes : p = To(t, "done")
    BY <1>2
  <2>2. Holds(p)
    BY <1>2, <2>1, SameHolds
  <2>3. LayerOvertaken'
    BY <1>1 DEF LayerInv, Overtaken, LayerOvertaken, NotAhead
  <2>4. p.alone => Knows(p)'
    <3> SUFFICES ASSUME p.alone PROVE Knows(p)'
      OBVIOUS
    <3>1. Knows(proc[t]) /\ proc[t].at = "up"
      BY <1>2, <2>1 DEF LayerInv, Up, At
    <3>2. layer = [label |-> Inputs, of |-> Inputs]
      BY <3>1 DEF Knows
    <3>3. Inputs' = Inputs /\ stack' = Inputs
      BY <1>1, <1>4, <3>2 DEF Inputs
    <3>4. QED
      BY <1>1, <1>2, <2>1, <3>2, <3>3 DEF Knows, Says, UpdatePoints, BasePoints
  <2>5. QED
    BY <1>1, <1>4, <2>1, <2>2, <2>3, <2>4, LayerTouches
<1>5. QED
  BY <1>3, <1>4 DEF Up

LEMMA ElsewhereLayer ==
  ASSUME TypeOK, TypeOK', LayerInv, Elsewhere
  PROVE  LayerInv'
<1>1. \A u \in Terminals : /\ proc'[u].hash = proc[u].hash /\ proc'[u].id = proc[u].id
                           /\ ~proc'[u].alone /\ proc'[u] \in Processes
  BY NobodyAlone DEF Elsewhere, Publish, EditContext, Prune, TypeOK
<1>2. \A u \in Terminals : Holds(proc'[u]) /\ proc'[u] \in Processes
  BY <1>1 DEF LayerInv, Overtaken, Holds
<1>3. /\ world.image \in Nat /\ world.context \in Nat /\ world.release \in Nat
      /\ world \in [release : Versions, image : Versions, context : Versions]
  BY DEF TypeOK, Versions
<1>4. world'.image >= world.image /\ world'.context >= world.context
  <2>1. CASE Publish
    <3>1. PICK w \in {"release", "image"} : world' = [world EXCEPT ![w] = @ + 1]
      BY <2>1 DEF Publish
    <3>2. CASE w = "release"
      BY <1>3, <3>1, <3>2
    <3>3. CASE w = "image"
      BY <1>3, <3>1, <3>3
    <3>4. QED
      BY <3>2, <3>3
  <2>2. CASE EditContext \/ Prune
    BY <1>3, <2>2 DEF EditContext, Prune
  <2>3. QED
    BY <2>1, <2>2 DEF Elsewhere
<1>5. \/ UNCHANGED <<base, layer>>
      \/ base' = 0 /\ layer' = [label |-> NoHash, of |-> NoHash]
  BY DEF Elsewhere, Publish, EditContext, Prune
<1>6. LayerOvertaken
  BY DEF LayerInv, Overtaken
<1>7. LayerOvertaken'
  <2>1. world'.image \in Nat /\ world'.context \in Nat /\ base \in Nat
    BY DEF TypeOK, Versions, Numbers
  <2>2. CASE UNCHANGED <<base, layer>>
    <3>1. layer.of \in Hashes /\ base <= world.image /\ NotAhead(layer.of)
      BY <1>6 DEF LayerOvertaken, TypeOK
    <3>2. layer.of.context <= world'.context /\ layer.of.base <= world'.image /\ (base' # 0 => layer.of.base <= base')
      BY <1>4, <2>2, <3>1, NotAheadStays
    <3>3. base' <= world'.image
      BY <1>3, <1>4, <2>1, <2>2, <3>1
    <3>4. QED
      BY <1>6, <2>2, <3>2, <3>3 DEF LayerOvertaken, NotAhead
  <2>3. CASE base' = 0 /\ layer' = [label |-> NoHash, of |-> NoHash]
    BY <2>1, <2>3 DEF LayerOvertaken, NotAhead, NoHash
  <2>4. QED
    BY <1>5, <2>2, <2>3
<1>8. ASSUME NEW u \in Terminals
      PROVE  Holds(proc[u])'
  <2>1. PICK q \in Processes : q = proc'[u]
    BY <1>2
  <2>2. base <= world.image /\ base' \in {base, world.image, 0}
    BY <1>5, <1>6 DEF LayerOvertaken
  <2>3. Holds(q)'
    BY <1>2, <1>4, <2>1, <2>2, HoldsStays
  <2>4. QED
    BY <2>1, <2>3 DEF Holds, NotAhead
<1>9. QED
  BY <1>1, <1>7, <1>8 DEF LayerInv, Overtaken

LEMMA LayerStep ==
  ASSUME TypeOK, TypeOK', LayerInv, Next
  PROVE  LayerInv'
<1>1. \/ Elsewhere
      \/ \E t \in Terminals :
           \/ Away(t) \/ PullImages(t) \/ PullProjectImages(t) \/ pullImage(t)
           \/ InspectBase(t) \/ HashInputs(t) \/ buildCustomImage(t) \/ Up(t)
  BY DEF Next, Elsewhere, Away
<1>2. QED
  BY <1>1, ElsewhereLayer, AwayLayer, PullLayer, InspectLayer, HashLayer, BuildLayer, UpLayer

\* An undisturbed command that starts containers runs them on the layer of the
\* current inputs and leaves a label with which the next one does not build
\* again, for any number of terminals, versions and commands: a label is the
\* hash of what ensureCustomImage looked up, and what docker builds under it is
\* never older.
THEOREM UpRunsTheLayerHolds == Spec => []UpRunsTheLayer
<1>1. Init => LayerInv
  BY InitLayer
<1>2. TypeOK /\ TypeOK' /\ LayerInv /\ [Next]_vars => LayerInv'
  <2>1. CASE UNCHANGED vars
    BY <2>1 DEF vars, LayerInv, Overtaken, LayerOvertaken, Holds, NotAhead, Knows, Says, Inputs
  <2>2. QED
    BY <2>1, LayerStep
<1>3. LayerInv => UpRunsTheLayer
  BY DEF LayerInv, UpRunsTheLayer, Knows, Says, At
<1>4. QED
  BY <1>1, <1>2, <1>3, TypeCorrect, PTL DEF Spec

-----------------------------------------------------------------------------
(* Overrides: the documents.                                                *)

Sections == UNION {[A -> Entries] : A \in SUBSET Names}
Documents == [own : Sections, merged : Sections, context : {None} \cup Paths, volume : Mounts]
Dirs == {"plain", "dollar", "colon"}

LEMMA DocumentTyped == ASSUME NEW d PROVE IsDocument(d) <=> d \in Documents
<1>1. ASSUME NEW f PROVE f \in Sections <=> (DOMAIN f \subseteq Names /\ f \in [DOMAIN f -> Entries])
  BY DEF Sections
<1>2. IsDocument(d) => d \in Documents
  BY <1>1 DEF IsDocument, Documents
<1>3. d \in Documents => IsDocument(d)
  BY <1>1 DEF IsDocument, Documents
<1>4. QED BY <1>2, <1>3

\* What is known of every entry of a document.
LEMMA EntryTyped ==
  ASSUME NEW d \in Documents, NEW s \in services(d)
  PROVE  entry(d, s) \in Entries
<1>1. d.own \in [DOMAIN d.own -> Entries] /\ d.merged \in [DOMAIN d.merged -> Entries]
  BY DocumentTyped DEF IsDocument
<1>2. QED BY <1>1 DEF entry, services

LEMMA PathResolved ==
  ASSUME NEW p \in {None} \cup Paths
  PROVE  /\ rewrite(p) \in {None} \cup Paths
         /\ rewrite(p) = None <=> p = None
         /\ escapeDollar("project") \in Paths /\ escapeDollar("project") # None
BY DEF rewrite, escapeDollar, Paths, None

LEMMA VolumeResolved ==
  ASSUME NEW v \in Mounts
  PROVE  /\ volume(v) \in Mounts
         /\ volume(v).is = None <=> v.is = None
         /\ Shared(volume(v)) <=> Shared(v)
         /\ volume(v).is = "alias" <=> v.is = "alias"
         /\ volume(v).is = "anchor" <=> v.is = "anchor"
<1>1. volume(v) = [is |-> IF NeedsLong(v) THEN "creating" ELSE v.is, source |-> rewrite(v.source), plain |-> v.plain]
  BY DEF volume
<1>2. rewrite(v.source) \in {None} \cup Paths
  BY PathResolved DEF Mounts
<1>3. QED BY <1>1, <1>2 DEF Mounts, NeedsLong, Shared, None

LEMMA EntryResolved ==
  ASSUME NEW d \in Documents, NEW s, NEW e \in Entries, NEW before
  PROVE  /\ serviceEntry(d, s, e, before) \in Entries
         /\ serviceEntry(d, s, e, before) =
              [image |-> e.image, extends |-> e.extends, build |-> buildMapping(d, s, e, before),
               mount |-> volume(e.mount), file |-> rewrite(e.file), profiles |-> e.profiles, url |-> e.url]
         /\ HasBuild(serviceEntry(d, s, e, before)) <=> HasBuild(e)
         /\ serviceEntry(d, s, e, before).build.is = "reset" <=> e.build.is = "reset"
         /\ serviceEntry(d, s, e, before).build.is = "anchor" <=> e.build.is = "anchor"
<1> DEFINE r == serviceEntry(d, s, e, before)
           b == buildMapping(d, s, e, before)
<1>1. e.build \in Builds /\ e.mount \in Mounts /\ e.file \in {None} \cup Paths
  BY DEF Entries
<1>2. r = [image |-> e.image, extends |-> e.extends, build |-> b,
           mount |-> volume(e.mount), file |-> rewrite(e.file), profiles |-> e.profiles, url |-> e.url]
  BY DEF serviceEntry
<1>3. /\ b \in Builds
      /\ (b.is \in {None, "reset"}) <=> (e.build.is \in {None, "reset"})
      /\ b.is = "reset" <=> e.build.is = "reset"
      /\ b.is = "anchor" <=> e.build.is = "anchor"
  <2>1. rewrite(e.build.context) \in {None} \cup Paths /\ escapeDollar("project") \in {None} \cup Paths
    BY <1>1, PathResolved DEF Builds
  <2>2. CASE ~HasBuild(e)
    <3>1. b = e.build BY <2>2 DEF buildMapping, HasBuild, Shared
    <3>2. QED BY <3>1, <1>1
  <2>3. CASE HasBuild(e) /\ Shared(e.build)
    <3>1. b = IF e.build.is = "alias" /\ defaultContext(d, s, before)
              THEN Mapping(escapeDollar("project")) ELSE e.build
      BY <2>3 DEF buildMapping
    <3>2. QED BY <3>1, <2>1, <2>3, <1>1 DEF Mapping, Builds, Shared, None, HasBuild
  <2>4. CASE HasBuild(e) /\ ~Shared(e.build)
    <3>1. b = [e.build EXCEPT !.context = IF defaultContext(d, s, before) THEN escapeDollar("project") ELSE rewrite(@)]
      BY <2>4 DEF buildMapping
    <3>2. b = [is |-> e.build.is, context |-> IF defaultContext(d, s, before) THEN escapeDollar("project") ELSE rewrite(e.build.context)]
      BY <3>1, <1>1 DEF Builds
    <3>3. QED BY <3>2, <2>1, <1>1 DEF Builds
  <2>5. QED BY <2>2, <2>3, <2>4
<1>4. volume(e.mount) \in Mounts /\ rewrite(e.file) \in {None} \cup Paths
  BY <1>1, VolumeResolved, PathResolved
<1>5. r \in Entries
  BY <1>2, <1>3, <1>4 DEF Entries
<1>6. r.build = b BY <1>2
<1>7. QED BY <1>2, <1>3, <1>5, <1>6 DEF HasBuild

\* What Resolve leaves of a document.
LEMMA DocumentResolved ==
  ASSUME NEW d \in Documents, NEW before
  PROVE  LET R == document(d, before) IN
         /\ R \in Documents
         /\ DOMAIN R.own = DOMAIN d.own /\ DOMAIN R.merged = DOMAIN d.merged
         /\ services(R) = services(d)
         /\ \A s \in services(d) : entry(R, s) = serviceEntry(d, s, entry(d, s), before)
         /\ R.context = ResolvedAnchor(d, before) /\ R.volume = volume(d.volume)
<1> DEFINE R == document(d, before)
<1>1. /\ d.own \in [DOMAIN d.own -> Entries] /\ d.merged \in [DOMAIN d.merged -> Entries]
      /\ DOMAIN d.own \subseteq Names /\ DOMAIN d.merged \subseteq Names
      /\ d.context \in {None} \cup Paths /\ d.volume \in Mounts
  BY DocumentTyped DEF IsDocument
<1>2. /\ R = [own |-> R.own, merged |-> R.merged, context |-> R.context, volume |-> R.volume]
      /\ R.own = [s \in DOMAIN d.own |-> serviceEntry(d, s, d.own[s], before)]
      /\ R.merged = [s \in DOMAIN d.merged |-> serviceEntry(d, s, d.merged[s], before)]
      /\ R.context = ResolvedAnchor(d, before) /\ R.volume = volume(d.volume)
  BY DEF document
<1>3. /\ R.own \in [DOMAIN d.own -> Entries] /\ R.merged \in [DOMAIN d.merged -> Entries]
      /\ DOMAIN R.own = DOMAIN d.own /\ DOMAIN R.merged = DOMAIN d.merged
  BY <1>1, <1>2, EntryResolved
<1>4. R.context \in {None} \cup Paths /\ R.volume \in Mounts
  BY <1>1, <1>2, PathResolved, VolumeResolved DEF ResolvedAnchor
<1>5. IsDocument(R)
  BY <1>1, <1>2, <1>3, <1>4 DEF IsDocument
<1>6. services(R) = services(d)
  BY <1>3 DEF services
<1>7. \A s \in services(d) : entry(R, s) = serviceEntry(d, s, entry(d, s), before)
  BY <1>2, <1>3 DEF services, entry
<1> HIDE DEF R
<1>8. QED BY <1>2, <1>3, <1>5, <1>6, <1>7, DocumentTyped DEF R

LEMMA WellFormedResolved ==
  ASSUME NEW d \in Documents, NEW before, WellFormed(d)
  PROVE  WellFormed(document(d, before))
<1> DEFINE R == document(d, before)
<1>1. /\ services(R) = services(d) /\ R.volume = volume(d.volume)
      /\ \A s \in services(d) : entry(R, s) = serviceEntry(d, s, entry(d, s), before)
  BY DocumentResolved
<1>2. \A s \in services(d) :
        /\ entry(R, s).build.is = "anchor" <=> entry(d, s).build.is = "anchor"
        /\ entry(R, s).mount = volume(entry(d, s).mount) /\ entry(d, s).mount \in Mounts
  <2> SUFFICES ASSUME NEW s \in services(d)
               PROVE  /\ entry(R, s).build.is = "anchor" <=> entry(d, s).build.is = "anchor"
                      /\ entry(R, s).mount = volume(entry(d, s).mount) /\ entry(d, s).mount \in Mounts
    OBVIOUS
  <2>1. entry(d, s) \in Entries BY EntryTyped
  <2>2. entry(R, s) = serviceEntry(d, s, entry(d, s), before) BY <1>1
  <2>3. entry(R, s).build.is = "anchor" <=> entry(d, s).build.is = "anchor"
    BY <2>1, <2>2, EntryResolved
  <2>4. entry(R, s).mount = volume(entry(d, s).mount)
    BY <2>1, <2>2, EntryResolved
  <2>5. entry(d, s).mount \in Mounts BY <2>1 DEF Entries
  <2>6. QED BY <2>3, <2>4, <2>5
<1>3. d.volume \in Mounts
  BY DocumentTyped DEF IsDocument
<1>4. \A s \in services(d) :
        /\ entry(R, s).mount.is = "anchor" <=> entry(d, s).mount.is = "anchor"
        /\ Shared(entry(R, s).mount) <=> Shared(entry(d, s).mount)
  BY <1>2, VolumeResolved
<1>5. Shared(R.volume) <=> Shared(d.volume) BY <1>1, <1>3, VolumeResolved
<1>6. R.volume.is = None <=> d.volume.is = None BY <1>1, <1>3, VolumeResolved
<1> HIDE DEF R
<1>7. WellFormed(R)
  BY <1>1, <1>2, <1>4, <1>5, <1>6 DEF WellFormed
<1>8. QED BY <1>7 DEF R

Kept(e, f) ==
  /\ e.image = f.image /\ e.extends = f.extends /\ e.build = f.build /\ e.file = f.file
  /\ e.profiles = f.profiles /\ e.url = f.url

\* What Prune leaves of a document.
LEMMA DocumentDropped ==
  ASSUME NEW d \in Documents, NEW gone, DOMAIN d.merged \cap gone = {}, WellFormed(d)
  PROVE  LET P == dropServices(d, gone) IN
         /\ P \in Documents /\ P.context = d.context
         /\ services(P) = services(d) \ gone
         /\ \A s \in services(P) :
              /\ Kept(entry(P, s), entry(d, s))
              /\ Mount(P, entry(P, s).mount) = Mount(d, entry(d, s).mount)
              /\ entry(P, s).mount.is = None <=> entry(d, s).mount.is = None
<1> DEFINE P == dropServices(d, gone)
           X == expandAliasesInto(d)
<1>1. /\ d.own \in [DOMAIN d.own -> Entries] /\ d.merged \in [DOMAIN d.merged -> Entries]
      /\ DOMAIN d.own \subseteq Names /\ DOMAIN d.merged \subseteq Names
      /\ d.context \in {None} \cup Paths /\ d.volume \in Mounts
      /\ d = [own |-> d.own, merged |-> d.merged, context |-> d.context, volume |-> d.volume]
  BY DocumentTyped DEF IsDocument
<1>2. CASE ~\E s \in gone \cap DOMAIN d.own : d.own[s].mount.is = "anchor"
  <2>1. P = [d EXCEPT !.own = [s \in DOMAIN d.own \ gone |-> d.own[s]]]
    BY <1>2 DEF dropServices, Without
  <2>2. P = [own |-> [s \in DOMAIN d.own \ gone |-> d.own[s]], merged |-> d.merged,
             context |-> d.context, volume |-> d.volume]
    BY <2>1, <1>1
  <2>3. IsDocument(P)
    BY <2>2, <1>1 DEF IsDocument
  <2>4. services(P) = services(d) \ gone
    BY <2>2 DEF services
  <2>5. \A s \in services(P) : entry(P, s) = entry(d, s)
    BY <2>2 DEF services, entry
  <2>6. P.context = d.context /\ P.volume = d.volume BY <2>2
  <2> HIDE DEF P
  <2>7. QED BY <2>3, <2>4, <2>5, <2>6, DocumentTyped DEF P, Kept, Mount
<1>3. CASE \E s \in gone \cap DOMAIN d.own : d.own[s].mount.is = "anchor"
  <2>1. PICK t \in gone \cap DOMAIN d.own : d.own[t].mount.is = "anchor" BY <1>3
  <2>2. P = [[X EXCEPT !.own = [s \in DOMAIN X.own \ gone |-> X.own[s]]] EXCEPT !.volume = NoMount]
    BY <1>3 DEF dropServices, Without
  <2> DEFINE Y == [X EXCEPT !.own = [s \in DOMAIN X.own \ gone |-> X.own[s]]]
  <2>3. X = [own |-> [s \in DOMAIN d.own |-> expanded(d, d.own[s])],
             merged |-> [s \in DOMAIN d.merged |-> expanded(d, d.merged[s])],
             context |-> d.context, volume |-> d.volume]
    BY DEF expandAliasesInto
  <2>4. /\ X.own = [s \in DOMAIN d.own |-> expanded(d, d.own[s])] /\ DOMAIN X.own = DOMAIN d.own
        /\ X.merged = [s \in DOMAIN d.merged |-> expanded(d, d.merged[s])]
    BY <2>3
  <2>5. Y = [own |-> [s \in DOMAIN X.own \ gone |-> X.own[s]], merged |-> X.merged,
             context |-> d.context, volume |-> d.volume]
    BY <2>3
  <2>6. P = [Y EXCEPT !.volume = NoMount] BY <2>2
  <2> HIDE DEF Y
  <2>7. P = [own |-> [s \in DOMAIN X.own \ gone |-> X.own[s]], merged |-> X.merged,
             context |-> d.context, volume |-> NoMount]
    BY <2>5, <2>6
  <2> HIDE DEF X
  <2>8. /\ P.own = [s \in DOMAIN d.own \ gone |-> expanded(d, d.own[s])]
        /\ P.merged = [s \in DOMAIN d.merged |-> expanded(d, d.merged[s])]
        /\ P.context = d.context /\ P.volume = NoMount
        /\ P = [own |-> P.own, merged |-> P.merged, context |-> P.context, volume |-> P.volume]
    BY <2>4, <2>7
  <2> HIDE DEF P
  <2>9. ASSUME NEW e \in Entries
        PROVE  expanded(d, e) \in Entries /\ Kept(expanded(d, e), e)
               /\ expanded(d, e).mount = IF e.mount.is = "alias" THEN d.volume ELSE e.mount
    BY <1>1 DEF expanded, Kept, Entries
  <2>10. NoMount \in Mounts BY DEF NoMount, Mounts, None
  <2>11. /\ P.own \in [DOMAIN P.own -> Entries] /\ P.merged \in [DOMAIN P.merged -> Entries]
         /\ DOMAIN P.own = DOMAIN d.own \ gone /\ DOMAIN P.merged = DOMAIN d.merged
    BY <2>8, <2>9, <1>1
  <2>12. IsDocument(P)
    BY <2>8, <2>10, <2>11, <1>1 DEF IsDocument
  <2>13. services(P) = services(d) \ gone
    BY <2>11 DEF services
  <2>14. \A s \in services(P) : entry(P, s) = expanded(d, entry(d, s))
    BY <2>8, <2>11 DEF services, entry
  <2>15. ASSUME NEW s \in services(P)
         PROVE  /\ Kept(entry(P, s), entry(d, s))
                /\ Mount(P, entry(P, s).mount) = Mount(d, entry(d, s).mount)
                /\ entry(P, s).mount.is = None <=> entry(d, s).mount.is = None
    <3>1. entry(d, s) \in Entries BY <2>13, EntryTyped
    <3>2. /\ Kept(entry(P, s), entry(d, s))
          /\ entry(P, s).mount = IF entry(d, s).mount.is = "alias" THEN d.volume ELSE entry(d, s).mount
      BY <3>1, <2>9, <2>14
    <3>3. t \in services(d) /\ s \in services(d) /\ s # t /\ entry(d, t).mount.is = "anchor"
      BY <2>1, <2>13 DEF services, entry
    <3>4. entry(d, s).mount.is # "anchor"
      BY <3>3 DEF WellFormed
    <3>5. Shared(entry(d, s).mount) => d.volume.is # None /\ ~Shared(d.volume)
      BY <3>3 DEF WellFormed
    <3>6. CASE entry(d, s).mount.is = "alias"
      BY <3>2, <3>5, <3>6 DEF Mount, Shared, None
    <3>7. CASE entry(d, s).mount.is # "alias"
      BY <3>2, <3>4, <3>7 DEF Mount, Shared
    <3>8. QED BY <3>2, <3>6, <3>7
  <2>16. QED BY <2>8, <2>12, <2>13, <2>15, DocumentTyped DEF P
<1>4. QED BY <1>2, <1>3

\* The context of a build, as Resolve leaves it.
AliasIn(d, s) ==
  \E t \in services(d) : /\ d.context = None /\ entry(d, t).build.is = "anchor"
                         /\ s \in services(d) /\ entry(d, s).build.is = "alias"

LEMMA ContextResolved ==
  ASSUME NEW d \in Documents, NEW before, WellFormed(d), NEW s \in services(d),
         HasBuild(entry(d, s)), ~AliasIn(d, s)
  PROVE  LET R == document(d, before) IN
         Context(R, entry(R, s).build) =
           IF defaultContext(d, s, before) THEN escapeDollar("project")
           ELSE rewrite(Context(d, entry(d, s).build))
<1> DEFINE R == document(d, before)
           e == entry(d, s)
           b == buildMapping(d, s, e, before)
<1>1. e \in Entries /\ e.build \in Builds
  BY EntryTyped DEF Entries
<1>2. entry(R, s) = serviceEntry(d, s, e, before) /\ R.context = ResolvedAnchor(d, before)
  BY DocumentResolved
<1>3. entry(R, s).build = b
  BY <1>1, <1>2, EntryResolved
<1>4. defaultContext(d, s, before) => Context(d, e.build) = None
  BY DEF defaultContext
<1>5. rewrite(None) = None BY DEF rewrite, None
<1> HIDE DEF R
<1>6. CASE ~Shared(e.build)
  <2>1. b = [e.build EXCEPT !.context = IF defaultContext(d, s, before) THEN escapeDollar("project") ELSE rewrite(@)]
    BY <1>6 DEF buildMapping
  <2>2. b.is = e.build.is
        /\ b.context = IF defaultContext(d, s, before) THEN escapeDollar("project") ELSE rewrite(e.build.context)
    BY <2>1, <1>1 DEF Builds
  <2>3. QED BY <2>2, <1>3, <1>6 DEF Context, Shared, R
<1>7. CASE e.build.is = "alias"
  <2>1. b = IF defaultContext(d, s, before) THEN Mapping(escapeDollar("project")) ELSE e.build
    BY <1>7 DEF buildMapping, Shared
  <2>2. CASE defaultContext(d, s, before)
    BY <2>1, <2>2, <1>3 DEF Context, Mapping, Shared, R
  <2>3. CASE ~defaultContext(d, s, before)
    <3>1. Context(R, entry(R, s).build) = R.context /\ Context(d, e.build) = d.context
      BY <2>1, <2>3, <1>3, <1>7 DEF Context, Shared
    <3>2. ASSUME NEW t \in services(d), entry(d, t).build.is = "anchor", defaultContext(d, t, before)
          PROVE  FALSE
      <4>1. d.context = None BY <3>2 DEF defaultContext, Context, Shared
      <4>2. QED BY <3>2, <4>1, <1>7 DEF AliasIn
    <3>3. R.context = rewrite(d.context) BY <3>2, <1>2 DEF ResolvedAnchor
    <3>4. QED BY <2>3, <3>1, <3>3 DEF R
  <2>4. QED BY <2>2, <2>3
<1>8. CASE e.build.is = "anchor"
  <2>1. b = e.build
    BY <1>8 DEF buildMapping, Shared
  <2>2. Context(R, entry(R, s).build) = R.context /\ Context(d, e.build) = d.context
    BY <2>1, <1>3, <1>8 DEF Context, Shared
  <2>3. (\E t \in services(d) : entry(d, t).build.is = "anchor" /\ defaultContext(d, t, before))
          <=> defaultContext(d, s, before)
    BY <1>8 DEF WellFormed
  <2>4. QED BY <2>2, <2>3, <1>2 DEF ResolvedAnchor, R
<1>9. QED BY <1>6, <1>7, <1>8 DEF Shared

-----------------------------------------------------------------------------
(* Files.                                                                   *)

\* The i-th document gives s a build.
Gives(docs, i, s) ==
  s \in services(docs[i]) /\ (HasBuild(entry(docs[i], s)) \/ entry(docs[i], s).extends)

LEMMA BuildServicesOf ==
  ASSUME NEW docs, NEW s
  PROVE  s \in BuildServices(docs) <=> \E j \in DOMAIN docs : Gives(docs, j, s)
BY DEF BuildServices, Gives

LEMMA BuildServicesBefore ==
  ASSUME NEW docs \in Seq(Documents), NEW i \in 1..Len(docs), NEW s
  PROVE  s \in BuildServices(SubSeq(docs, 1, i - 1)) <=> \E j \in 1..(i - 1) : Gives(docs, j, s)
<1>1. DOMAIN SubSeq(docs, 1, i - 1) = 1..(i - 1)
      /\ \A j \in 1..(i - 1) : SubSeq(docs, 1, i - 1)[j] = docs[j]
  OBVIOUS
<1>2. QED BY <1>1, BuildServicesOf DEF Gives

LEMMA FileResolved ==
  ASSUME NEW docs \in Seq(Documents), NEW before
  PROVE  LET R == ResolveAfter(docs, before) IN
         /\ R \in Seq(Documents) /\ Len(R) = Len(docs) /\ DOMAIN R = 1..Len(docs)
         /\ \A i \in 1..Len(docs) :
              R[i] = document(docs[i], before \cup BuildServices(SubSeq(docs, 1, i - 1)))
         /\ BuildServices(R) = BuildServices(docs)
         /\ Standalone(R) = Standalone(docs)
         /\ ServiceNames(R) = ServiceNames(docs)
<1> DEFINE R == ResolveAfter(docs, before)
           B(i) == before \cup BuildServices(SubSeq(docs, 1, i - 1))
<1>1. R = [i \in 1..Len(docs) |-> document(docs[i], B(i))]
  BY DEF ResolveAfter
<1> HIDE DEF R, B
<1>2. \A i \in 1..Len(docs) : docs[i] \in Documents OBVIOUS
<1>3. \A i \in 1..Len(docs) : R[i] = document(docs[i], B(i)) /\ R[i] \in Documents
  BY <1>1, <1>2, DocumentResolved
<1>4. R \in Seq(Documents) /\ Len(R) = Len(docs) /\ DOMAIN R = 1..Len(docs)
  BY <1>1, <1>3
<1>5. ASSUME NEW i \in 1..Len(docs)
      PROVE  /\ services(R[i]) = services(docs[i])
             /\ \A s \in services(docs[i]) :
                  /\ HasBuild(entry(R[i], s)) <=> HasBuild(entry(docs[i], s))
                  /\ entry(R[i], s).extends = entry(docs[i], s).extends
                  /\ entry(R[i], s).image = entry(docs[i], s).image
  <2>1. services(R[i]) = services(docs[i])
        /\ \A s \in services(docs[i]) : entry(R[i], s) = serviceEntry(docs[i], s, entry(docs[i], s), B(i))
    BY <1>2, <1>3, DocumentResolved
  <2>2. \A s \in services(docs[i]) : entry(docs[i], s) \in Entries
    BY <1>2, EntryTyped
  <2>3. \A s \in services(docs[i]) :
          /\ HasBuild(entry(R[i], s)) <=> HasBuild(entry(docs[i], s))
          /\ entry(R[i], s).extends = entry(docs[i], s).extends
          /\ entry(R[i], s).image = entry(docs[i], s).image
    BY <1>2, <2>1, <2>2, EntryResolved
  <2>4. QED BY <2>1, <2>3
<1>6. BuildServices(R) = BuildServices(docs)
  BY <1>4, <1>5 DEF BuildServices
<1>7. Standalone(R) = Standalone(docs)
  <2>1. \A i \in 1..Len(docs) : {s \in services(R[i]) : entry(R[i], s).image = "set"} = {s \in services(docs[i]) : entry(docs[i], s).image = "set"}
    BY <1>5
  <2>2. QED BY <1>4, <1>6, <2>1 DEF Standalone
<1>8. ServiceNames(R) = ServiceNames(docs)
  BY <1>4, <1>5 DEF ServiceNames
<1>9. QED BY <1>3, <1>4, <1>6, <1>7, <1>8 DEF R, B

\* The file without the entries that only tweak what is not among the names.
Told(docs, names) ==
  [i \in DOMAIN docs |->
     Without(docs[i], {s \in services(docs[i]) : s \notin names \cup Standalone(docs)})]

\* What a copy x of the entry e says, apart from the context of its build.
SameEntry(x, e) ==
  /\ x.image = e.image /\ x.extends = e.extends /\ x.profiles = e.profiles /\ x.url = e.url
  /\ x.file = rewrite(e.file)
  /\ HasBuild(x) <=> HasBuild(e)
  /\ x.build.is = "reset" <=> e.build.is = "reset"
  /\ x.mount.is = None <=> e.mount.is = None

SameMount(p, w, s) == Mount(p, entry(p, s).mount) = volume(Mount(w, entry(w, s).mount))

\* first: nothing before this document gives s a build.
Defaults(w, s, first) ==
  HasBuild(entry(w, s)) /\ ~entry(w, s).extends /\ Context(w, entry(w, s).build) = None /\ first

SameContext(p, w, s, first) ==
  HasBuild(entry(w, s)) /\ ~AliasIn(w, s) =>
    Context(p, entry(p, s).build) =
      IF Defaults(w, s, first) THEN escapeDollar("project") ELSE rewrite(Context(w, entry(w, s).build))

SameDocument(p, w, s, first) ==
  SameEntry(entry(p, s), entry(w, s)) /\ SameMount(p, w, s) /\ SameContext(p, w, s, first)

Fresh(W, i, s, before) == s \notin before /\ \A j \in 1..(i - 1) : ~Gives(W, j, s)

\* Document by document, P is the copy of W, given the services that have a build before.
Corresponds(P, W, before) ==
  /\ P \in Seq(Documents) /\ W \in Seq(Documents) /\ Len(P) = Len(W)
  /\ \A i \in 1..Len(W) :
       /\ services(P[i]) = services(W[i])
       /\ \A s \in services(W[i]) : SameDocument(P[i], W[i], s, Fresh(W, i, s, before))

LEMMA TakenOut ==
  ASSUME NEW d \in Documents, NEW gone, DOMAIN d.merged \cap gone = {}
  PROVE  LET w == Without(d, gone) IN
         /\ w \in Documents /\ w.context = d.context /\ w.volume = d.volume
         /\ services(w) = services(d) \ gone
         /\ \A s \in services(w) : entry(w, s) = entry(d, s)
<1> DEFINE w == Without(d, gone)
<1>1. /\ d.own \in [DOMAIN d.own -> Entries] /\ d.merged \in [DOMAIN d.merged -> Entries]
      /\ DOMAIN d.own \subseteq Names /\ DOMAIN d.merged \subseteq Names
      /\ d.context \in {None} \cup Paths /\ d.volume \in Mounts
      /\ d = [own |-> d.own, merged |-> d.merged, context |-> d.context, volume |-> d.volume]
  BY DocumentTyped DEF IsDocument
<1>2. w = [own |-> [s \in DOMAIN d.own \ gone |-> d.own[s]], merged |-> d.merged,
           context |-> d.context, volume |-> d.volume]
  <2>1. w = [d EXCEPT !.own = [s \in DOMAIN d.own \ gone |-> d.own[s]]]
    BY DEF Without
  <2>2. QED BY <2>1, <1>1
<1> HIDE DEF w
<1>3. IsDocument(w) BY <1>1, <1>2 DEF IsDocument
<1>4. services(w) = services(d) \ gone BY <1>2 DEF services
<1>5. \A s \in services(w) : entry(w, s) = entry(d, s) BY <1>2 DEF services, entry
<1>6. QED BY <1>2, <1>3, <1>4, <1>5, DocumentTyped DEF w

LEMMA FileCorresponds ==
  ASSUME NEW docs \in Seq(Documents), \A i \in 1..Len(docs) : WellFormed(docs[i]), NEW before, NEW names,
         ~PruneFails(ResolveAfter(docs, before), names)
  PROVE  LET P == Pruned(ResolveAfter(docs, before), names)
             W == Told(docs, names)
         IN /\ Corresponds(P, W, before)
            /\ Len(W) = Len(docs)
            /\ \A i \in 1..Len(docs) :
                 /\ services(W[i]) = services(docs[i]) \cap (names \cup Standalone(docs))
                 /\ \A s \in services(W[i]) : entry(W[i], s) = entry(docs[i], s)
            /\ BuildServices(W) = BuildServices(docs)
<1> DEFINE R == ResolveAfter(docs, before)
           P == Pruned(R, names)
           W == Told(docs, names)
           B(i) == before \cup BuildServices(SubSeq(docs, 1, i - 1))
           keep == names \cup Standalone(docs)
           lost == Dropped(R, names)
<1>1. /\ R \in Seq(Documents) /\ Len(R) = Len(docs) /\ DOMAIN R = 1..Len(docs)
      /\ \A i \in 1..Len(docs) : R[i] = document(docs[i], B(i))
      /\ BuildServices(R) = BuildServices(docs) /\ Standalone(R) = Standalone(docs)
      /\ ServiceNames(R) = ServiceNames(docs)
  BY FileResolved
<1> HIDE DEF R, B
<1>2. lost = {s \in ServiceNames(docs) : s \notin keep}
  BY <1>1 DEF Dropped
<1>3. \A i \in 1..Len(docs) : DOMAIN R[i].merged \cap lost = {}
  BY <1>1 DEF PruneFails, R
<1>4. P = [i \in 1..Len(docs) |-> dropServices(R[i], lost)]
  BY <1>1 DEF Pruned
<1> DEFINE gone(i) == {s \in services(docs[i]) : s \notin keep}
<1>5. W = [i \in 1..Len(docs) |-> Without(docs[i], gone(i))]
  BY DEF Told
<1>6. \A i \in 1..Len(docs) : docs[i] \in Documents /\ R[i] \in Documents
  BY <1>1
<1>7. \A i \in 1..Len(docs) : services(docs[i]) \subseteq ServiceNames(docs)
  BY DEF ServiceNames
<1> HIDE DEF P, W, lost
<1>8. ASSUME NEW i \in 1..Len(docs)
      PROVE  /\ DOMAIN R[i].merged = DOMAIN docs[i].merged /\ services(R[i]) = services(docs[i])
             /\ \A s \in services(docs[i]) : entry(R[i], s) = serviceEntry(docs[i], s, entry(docs[i], s), B(i))
             /\ R[i].context = ResolvedAnchor(docs[i], B(i)) /\ R[i].volume = volume(docs[i].volume)
             /\ WellFormed(R[i])
  BY <1>1, <1>6, DocumentResolved, WellFormedResolved
<1>9. ASSUME NEW i \in 1..Len(docs)
      PROVE  /\ W[i] \in Documents /\ W[i].context = docs[i].context /\ W[i].volume = docs[i].volume
             /\ services(W[i]) = services(docs[i]) \cap keep
             /\ \A s \in services(W[i]) : entry(W[i], s) = entry(docs[i], s)
  <2>1. DOMAIN docs[i].merged \cap gone(i) = {}
    BY <1>2, <1>3, <1>7, <1>8
  <2>2. services(docs[i]) \ gone(i) = services(docs[i]) \cap keep OBVIOUS
  <2> HIDE DEF gone, keep
  <2>3. QED BY <2>1, <2>2, <1>5, <1>6, TakenOut
<1>10. ASSUME NEW i \in 1..Len(docs)
       PROVE  /\ P[i] \in Documents /\ P[i].context = R[i].context
              /\ services(P[i]) = services(docs[i]) \cap keep
              /\ \A s \in services(P[i]) :
                   /\ Kept(entry(P[i], s), entry(R[i], s))
                   /\ Mount(P[i], entry(P[i], s).mount) = Mount(R[i], entry(R[i], s).mount)
                   /\ entry(P[i], s).mount.is = None <=> entry(R[i], s).mount.is = None
  <2>1. P[i] = dropServices(R[i], lost) BY <1>4
  <2>2. services(R[i]) \ lost = services(docs[i]) \cap keep
    BY <1>2, <1>7, <1>8
  <2> HIDE DEF keep
  <2>3. QED BY <2>1, <2>2, <1>3, <1>6, <1>8, DocumentDropped
<1>11. P \in Seq(Documents) /\ Len(P) = Len(docs) /\ W \in Seq(Documents) /\ Len(W) = Len(docs)
  <2>1. \A i \in 1..Len(docs) : P[i] \in Documents /\ W[i] \in Documents BY <1>9, <1>10
  <2>2. P = [i \in 1..Len(docs) |-> P[i]] BY <1>4
  <2>3. W = [i \in 1..Len(docs) |-> W[i]] BY <1>5
  <2>4. QED BY <2>1, <2>2, <2>3
<1>12. \A j \in 1..Len(docs) : \A s : Gives(W, j, s) <=> Gives(docs, j, s)
  <2> SUFFICES ASSUME NEW j \in 1..Len(docs), NEW s PROVE Gives(W, j, s) <=> Gives(docs, j, s)
    OBVIOUS
  <2>1. Gives(docs, j, s) => s \in keep
    BY BuildServicesOf DEF Standalone
  <2> HIDE DEF keep
  <2>2. QED BY <2>1, <1>9 DEF Gives
<1>13. BuildServices(W) = BuildServices(docs)
  <2>1. DOMAIN W = 1..Len(docs) /\ DOMAIN docs = 1..Len(docs) BY <1>11
  <2>2. \A s : s \in BuildServices(W) <=> s \in BuildServices(docs)
    BY <2>1, <1>12, BuildServicesOf
  <2>3. QED BY <2>2 DEF BuildServices
<1>14. ASSUME NEW i \in 1..Len(docs), NEW s \in services(W[i])
       PROVE  SameDocument(P[i], W[i], s, Fresh(W, i, s, before))
  <2> DEFINE d == docs[i]
             e == entry(docs[i], s)
             first == Fresh(W, i, s, before)
  <2>1. /\ s \in services(d) /\ s \in services(P[i]) /\ entry(W[i], s) = e /\ d \in Documents
        /\ entry(R[i], s) = serviceEntry(d, s, e, B(i)) /\ Kept(entry(P[i], s), entry(R[i], s))
    BY <1>6, <1>8, <1>9, <1>10
  <2>2. e \in Entries BY <2>1, EntryTyped
  <2>3. /\ entry(R[i], s).image = e.image /\ entry(R[i], s).extends = e.extends
        /\ entry(R[i], s).profiles = e.profiles /\ entry(R[i], s).url = e.url
        /\ entry(R[i], s).file = rewrite(e.file) /\ entry(R[i], s).mount = volume(e.mount)
        /\ HasBuild(entry(R[i], s)) <=> HasBuild(e)
        /\ entry(R[i], s).build.is = "reset" <=> e.build.is = "reset"
    BY <2>1, <2>2, EntryResolved
  <2>4. e.mount \in Mounts /\ d.volume \in Mounts
    BY <2>1, <2>2, DocumentTyped DEF Entries, IsDocument
  <2>5. SameEntry(entry(P[i], s), e)
    <3>1. entry(P[i], s).mount.is = None <=> e.mount.is = None
      <4>1. entry(P[i], s).mount.is = None <=> entry(R[i], s).mount.is = None BY <2>1, <1>10
      <4>2. volume(e.mount).is = None <=> e.mount.is = None BY <2>4, VolumeResolved
      <4>3. QED BY <4>1, <4>2, <2>3
    <3>2. QED BY <3>1, <2>1, <2>3 DEF Kept, SameEntry, HasBuild
  <2>6. SameMount(P[i], W[i], s)
    <3>1. Mount(P[i], entry(P[i], s).mount) = Mount(R[i], volume(e.mount))
      BY <1>10, <2>1, <2>3
    <3>2. Mount(R[i], volume(e.mount)) = volume(Mount(d, e.mount))
      BY <2>4, <1>8, VolumeResolved DEF Mount
    <3>3. Mount(W[i], entry(W[i], s).mount) = Mount(d, e.mount)
      BY <2>1, <1>9 DEF Mount
    <3>4. QED BY <3>1, <3>2, <3>3 DEF SameMount
  <2>7. SameContext(P[i], W[i], s, first)
    <3> SUFFICES ASSUME HasBuild(e), ~AliasIn(W[i], s)
                 PROVE  Context(P[i], entry(P[i], s).build) =
                          IF Defaults(W[i], s, first) THEN escapeDollar("project") ELSE rewrite(Context(d, e.build))
      <4>1. Context(W[i], entry(W[i], s).build) = Context(d, e.build)
        BY <2>1, <1>9 DEF Context
      <4>2. QED BY <4>1, <2>1 DEF SameContext
    <3>1. ~AliasIn(d, s)
      <4> SUFFICES ASSUME AliasIn(d, s) PROVE FALSE OBVIOUS
      <4>1. PICK t \in services(d) : /\ d.context = None /\ entry(d, t).build.is = "anchor"
                                      /\ entry(d, s).build.is = "alias"
        BY DEF AliasIn
      <4>2. Gives(docs, i, t) BY <4>1 DEF Gives, HasBuild, None
      <4>3. t \in services(W[i]) BY <4>2, <1>12 DEF Gives
      <4>4. QED BY <4>1, <4>3, <2>1, <1>9 DEF AliasIn
    <3>2. Context(P[i], entry(P[i], s).build) = Context(R[i], entry(R[i], s).build)
      BY <2>1, <1>10 DEF Kept, Context
    <3>3. Context(R[i], entry(R[i], s).build) =
            IF defaultContext(d, s, B(i)) THEN escapeDollar("project") ELSE rewrite(Context(d, e.build))
      BY <3>1, <2>1, <1>1, ContextResolved
    <3>4. s \notin B(i) <=> first
      BY <1>12, BuildServicesBefore DEF B, Fresh
    <3>5. Context(W[i], entry(W[i], s).build) = Context(d, e.build)
      BY <2>1, <1>9 DEF Context
    <3>6. defaultContext(d, s, B(i)) <=> Defaults(W[i], s, first)
      BY <3>4, <3>5, <2>1 DEF defaultContext, Defaults
    <3>7. QED BY <3>2, <3>3, <3>6
  <2>8. QED BY <2>1, <2>5, <2>6, <2>7 DEF SameDocument
<1>15. \A i \in 1..Len(docs) : services(P[i]) = services(W[i]) /\ services(W[i]) = services(docs[i]) \cap keep
  BY <1>9, <1>10
<1>16. \A i \in 1..Len(docs) : \A s \in services(W[i]) : entry(W[i], s) = entry(docs[i], s)
  BY <1>9
<1>17. Corresponds(P, W, before)
  BY <1>11, <1>14, <1>15 DEF Corresponds
<1>18. QED BY <1>11, <1>13, <1>15, <1>16, <1>17 DEF P, W, R

-----------------------------------------------------------------------------
(* Both files.                                                              *)

LEMMA Joined ==
  ASSUME NEW S, NEW f \in Seq(S), NEW g \in Seq(S)
  PROVE  /\ f \o g \in Seq(S) /\ Len(f \o g) = Len(f) + Len(g) /\ DOMAIN (f \o g) = 1..(Len(f) + Len(g))
         /\ \A i \in 1..Len(f) : (f \o g)[i] = f[i]
         /\ \A i \in 1..Len(g) : (f \o g)[Len(f) + i] = g[i]
OBVIOUS

LEMMA JoinedCorresponds ==
  ASSUME NEW P1, NEW W1, NEW P2, NEW W2, NEW before,
         Corresponds(P1, W1, before), Corresponds(P2, W2, before \cup BuildServices(W1))
  PROVE  Corresponds(P1 \o P2, W1 \o W2, before)
<1> DEFINE D == P1 \o P2
           E == W1 \o W2
           m == Len(W1)
           n == Len(W2)
           later == before \cup BuildServices(W1)
<1>2. /\ P1 \in Seq(Documents) /\ W1 \in Seq(Documents) /\ Len(P1) = m
      /\ \A i \in 1..m :
           /\ services(P1[i]) = services(W1[i])
           /\ \A s \in services(W1[i]) : SameDocument(P1[i], W1[i], s, Fresh(W1, i, s, before))
  BY DEF Corresponds
<1>3. /\ P2 \in Seq(Documents) /\ W2 \in Seq(Documents) /\ Len(P2) = n
      /\ \A i \in 1..n :
           /\ services(P2[i]) = services(W2[i])
           /\ \A s \in services(W2[i]) : SameDocument(P2[i], W2[i], s, Fresh(W2, i, s, later))
  BY DEF Corresponds
<1>5. m \in Nat /\ n \in Nat /\ DOMAIN W1 = 1..m BY <1>2, <1>3
<1>4. \A s : s \in later <=> s \in before \/ \E j \in 1..m : Gives(W1, j, s)
  BY <1>5, BuildServicesOf
<1> HIDE DEF m, n, later
<1>6. /\ D \in Seq(Documents) /\ E \in Seq(Documents) /\ Len(D) = m + n /\ Len(E) = m + n
      /\ \A i \in 1..m : D[i] = P1[i] /\ E[i] = W1[i]
      /\ \A i \in 1..n : D[m + i] = P2[i] /\ E[m + i] = W2[i]
  <2>1. P1 \in Seq(Documents) /\ P2 \in Seq(Documents) /\ Len(P1) = m /\ Len(P2) = n BY <1>2, <1>3
  <2>2. /\ D \in Seq(Documents) /\ Len(D) = m + n
        /\ \A i \in 1..m : D[i] = P1[i]
        /\ \A i \in 1..n : D[m + i] = P2[i]
    BY <2>1
  <2>3. W1 \in Seq(Documents) /\ W2 \in Seq(Documents) /\ Len(W1) = m /\ Len(W2) = n BY <1>2, <1>3 DEF m, n
  <2>4. /\ E \in Seq(Documents) /\ Len(E) = m + n
        /\ \A i \in 1..m : E[i] = W1[i]
        /\ \A i \in 1..n : E[m + i] = W2[i]
    BY <2>3
  <2>5. QED BY <2>2, <2>4
<1> HIDE DEF D, E
<1>7. \A i \in 1..m : \A s : Gives(E, i, s) <=> Gives(W1, i, s)
  BY <1>6 DEF Gives
<1>8. \A i \in 1..n : \A s : Gives(E, m + i, s) <=> Gives(W2, i, s)
  BY <1>6 DEF Gives
<1>9. ASSUME NEW i \in 1..m, NEW s
      PROVE  Fresh(W1, i, s, before) <=> Fresh(E, i, s, before)
  <2>1. \A j \in 1..(i - 1) : j \in 1..m BY <1>5
  <2>2. QED BY <2>1, <1>7 DEF Fresh
<1>10. ASSUME NEW k \in 1..n, NEW s
       PROVE  Fresh(W2, k, s, later) <=> Fresh(E, m + k, s, before)
  <2>1. ASSUME Fresh(W2, k, s, later), NEW j \in 1..((m + k) - 1) PROVE ~Gives(E, j, s)
    <3>1. CASE j \in 1..m BY <3>1, <2>1, <1>4, <1>7 DEF Fresh
    <3>2. CASE j \notin 1..m
      <4>1. j - m \in 1..(k - 1) /\ j = m + (j - m) /\ j - m \in 1..n BY <3>2, <1>5
      <4>2. QED BY <4>1, <2>1, <1>8 DEF Fresh
    <3>3. QED BY <3>1, <3>2
  <2>2. ASSUME Fresh(E, m + k, s, before) PROVE Fresh(W2, k, s, later)
    <3>1. \A j \in 1..((m + k) - 1) : ~Gives(E, j, s) BY <2>2 DEF Fresh
    <3>2. \A j \in 1..m : ~Gives(W1, j, s)
      <4> SUFFICES ASSUME NEW j \in 1..m PROVE ~Gives(W1, j, s) OBVIOUS
      <4>1. j \in 1..((m + k) - 1) BY <1>5
      <4>2. QED BY <4>1, <3>1, <1>7
    <3>3. s \notin later BY <3>2, <2>2, <1>4 DEF Fresh
    <3>4. \A j \in 1..(k - 1) : ~Gives(W2, j, s)
      <4> SUFFICES ASSUME NEW j \in 1..(k - 1) PROVE ~Gives(W2, j, s) OBVIOUS
      <4>1. m + j \in 1..((m + k) - 1) /\ j \in 1..n BY <1>5
      <4>2. QED BY <4>1, <3>1, <1>8
    <3>5. QED BY <3>3, <3>4 DEF Fresh
  <2>3. Fresh(W2, k, s, later) => s \notin before BY <1>4 DEF Fresh
  <2>4. Fresh(W2, k, s, later) => \A j \in 1..((m + k) - 1) : ~Gives(E, j, s) BY <2>1
  <2>5. QED BY <2>2, <2>3, <2>4 DEF Fresh
<1>11. ASSUME NEW i \in 1..(m + n)
       PROVE  /\ services(D[i]) = services(E[i])
              /\ \A s \in services(E[i]) : SameDocument(D[i], E[i], s, Fresh(E, i, s, before))
  <2>1. CASE i \in 1..m
    <3>1. D[i] = P1[i] /\ E[i] = W1[i] BY <2>1, <1>6
    <3>2. ASSUME NEW s \in services(E[i])
          PROVE  SameDocument(D[i], E[i], s, Fresh(E, i, s, before))
      <4>1. SameDocument(P1[i], W1[i], s, Fresh(W1, i, s, before))
        BY <1>2, <2>1, <3>1, <3>2
      <4>2. QED BY <4>1, <1>9, <2>1, <3>1 DEF SameDocument, SameContext, Defaults
    <3>3. services(D[i]) = services(E[i]) BY <1>2, <2>1, <3>1
    <3>4. QED BY <3>2, <3>3
  <2>2. CASE i \notin 1..m
    <3>1. PICK k \in 1..n : i = m + k
      <4>1. i - m \in 1..n /\ i = m + (i - m) BY <2>2, <1>5
      <4>2. QED BY <4>1
    <3>2. D[i] = P2[k] /\ E[i] = W2[k] BY <3>1, <1>6
    <3>3. ASSUME NEW s \in services(E[i])
          PROVE  SameDocument(D[i], E[i], s, Fresh(E, i, s, before))
      <4>1. SameDocument(P2[k], W2[k], s, Fresh(W2, k, s, later))
        BY <1>3, <3>2, <3>3
      <4>2. QED BY <4>1, <1>10, <3>1, <3>2 DEF SameDocument, SameContext, Defaults
    <3>4. services(D[i]) = services(E[i]) BY <1>3, <3>2
    <3>5. QED BY <3>3, <3>4
  <2>3. QED BY <2>1, <2>2
<1>12. Corresponds(D, E, before)
  BY <1>6, <1>11 DEF Corresponds
<1>13. QED BY <1>12 DEF D, E


-----------------------------------------------------------------------------
(* What compose makes of the copies.                                        *)

LEMMA MeansKept ==
  ASSUME dir \in Dirs, NEW p
  PROVE  Means(rewrite(p), "internal") = Means(p, "project")
<1>1. CASE p = "relative"
  BY <1>1 DEF Means, rewrite, escapeDollar, Dirs
<1>2. CASE p # "relative"
  BY <1>2 DEF Means, rewrite
<1>3. QED BY <1>1, <1>2

LEMMA MountKept ==
  ASSUME dir \in Dirs, NEW v
  PROVE  MountMeans(volume(v), "internal") = MountMeans(v, "project")
<1>1. /\ volume(v).is = IF NeedsLong(v) THEN "creating" ELSE v.is
      /\ volume(v).source = rewrite(v.source)
  BY DEF volume
<1>2. Means(volume(v).source, "internal") = Means(v.source, "project")
  BY <1>1, MeansKept
<1>3. volume(v).is # "long" <=> v.is # "long"
  BY <1>1 DEF NeedsLong
<1>4. (volume(v).is = "short" /\ volume(v).source = "project" /\ dir = "colon")
        <=> (v.is = "short" /\ v.source = "project" /\ dir = "colon")
  BY <1>1 DEF NeedsLong, rewrite, escapeDollar
<1>5. QED BY <1>2, <1>3, <1>4 DEF MountMeans

LEMMA LeastElement ==
  ASSUME NEW S \in SUBSET Nat, S # {}
  PROVE  \E m \in S : \A k \in S : m <= k
<1>1. PICK x \in S : \A y \in S : ~(<<y, x>> \in OpToRel(<, Nat))
  <2>1. IsWellFoundedOn(OpToRel(<, Nat), Nat)
    BY NatLessThanWellFounded
  <2>2. QED
    BY <2>1, WFMin
<1>2. \A y \in S : ~(y < x)
  <2>1. \A y \in S : y < x => <<y, x>> \in OpToRel(<, Nat)
    BY DEF OpToRel
  <2>2. QED
    BY <1>1, <2>1, Zenon
<1>3. x \in S /\ x \in Nat
  OBVIOUS
<1> HIDE <1>1
<1>4. QED
  BY <1>2, <1>3

LEMMA LatestIs ==
  ASSUME NEW n \in Nat, NEW S \in SUBSET (1..n), S # {}
  PROVE  Latest(S) \in S /\ \A j \in S : j <= Latest(S)
<1> DEFINE back == {k \in Nat : k <= n /\ n - k \in S}
<1>1. \A i \in S : i \in Nat /\ i <= n /\ n - i \in Nat /\ n - (n - i) = i /\ n - i <= n OBVIOUS
<1>2. \A i \in S : n - i \in back BY <1>1
<1>3. back \in SUBSET Nat /\ back # {} BY <1>2
<1>4. PICK m \in back : \A k \in back : m <= k BY <1>3, LeastElement
<1>5. \E y \in S : \A j \in S : j <= y
  <2>1. n - m \in S /\ m \in Nat BY <1>4
  <2> SUFFICES ASSUME NEW j \in S PROVE j <= n - m BY <2>1
  <2>2. m <= n - j BY <1>2, <1>4
  <2>3. QED BY <2>1, <2>2, <1>1
<1>6. QED BY <1>5 DEF Latest

\* A set and one with some smaller numbers besides have the same latest.
LEMMA SameLatest ==
  ASSUME NEW n \in Nat, NEW S \in SUBSET (1..n), NEW U \in SUBSET (1..n), S # {}, S \subseteq U,
         \A u \in U \ S : \A x \in S : u <= x
  PROVE  Latest(U) = Latest(S)
<1>1. Latest(S) \in S /\ \A j \in S : j <= Latest(S) BY LatestIs
<1>2. Latest(U) \in U /\ \A j \in U : j <= Latest(U) BY LatestIs
<1>3. \A x \in 1..n : x \in Nat OBVIOUS
<1>4. Latest(S) <= Latest(U) /\ Latest(U) <= Latest(S)
  <2>1. Latest(S) <= Latest(U) BY <1>1, <1>2
  <2>2. CASE Latest(U) \in S BY <1>1, <2>1, <2>2
  <2>3. CASE Latest(U) \notin S BY <1>1, <1>2, <2>1, <2>3
  <2>4. QED BY <2>2, <2>3
<1>5. Latest(S) \in Nat /\ Latest(U) \in Nat BY <1>1, <1>2, <1>3
<1>6. QED BY <1>4, <1>5

LEMMA AliveUnlessReset ==
  ASSUME NEW n \in Nat, NEW S \in SUBSET (1..n)
  PROVE  Living(S, {}) = S
<1>1. Latest({}) = 0 BY DEF Latest
<1>2. \A i \in S : i > 0 OBVIOUS
<1>3. QED BY <1>1, <1>2 DEF Living

\* What the correspondence says of one service.
LEMMA SameService ==
  ASSUME NEW D, NEW E, Corresponds(D, E, {}), NEW s
  PROVE  /\ DOMAIN D = 1..Len(E) /\ DOMAIN E = 1..Len(E) /\ Len(E) \in Nat
         /\ Where(D, s) = Where(E, s) /\ Where(E, s) \in SUBSET (1..Len(E))
         /\ \A i \in Where(E, s) :
              SameDocument(D[i], E[i], s, Fresh(E, i, s, {}))
<1>1. /\ DOMAIN D = 1..Len(E) /\ DOMAIN E = 1..Len(E) /\ Len(E) \in Nat
  BY DEF Corresponds
<1>2. QED BY <1>1 DEF Corresponds, Where

LEMMA ContextKept ==
  ASSUME dir \in Dirs, NEW D, NEW E, Corresponds(D, E, {}), NEW s, ~LeftAside(E, s)
  PROVE  BuildContext(D, s, "internal") = BuildContext(E, s, "project")
<1> DEFINE n == Len(E)
           B == {i \in Where(E, s) : HasBuild(entry(E[i], s))}
           sayD(i) == Context(D[i], entry(D[i], s).build)
           sayE(i) == Context(E[i], entry(E[i], s).build)
           SD == {i \in B : sayD(i) # None}
           SE == {i \in B : sayE(i) # None}
           Def(i) == Defaults(E[i], s, Fresh(E, i, s, {}))
<1>1. /\ DOMAIN D = 1..n /\ DOMAIN E = 1..n /\ n \in Nat /\ E \in Seq(Documents)
      /\ Where(D, s) = Where(E, s) /\ Where(E, s) \in SUBSET (1..n)
      /\ \A i \in Where(E, s) : SameDocument(D[i], E[i], s, Fresh(E, i, s, {}))
  BY SameService DEF Corresponds
<1>2. \A i \in Where(E, s) : SameEntry(entry(D[i], s), entry(E[i], s)) /\ SameContext(D[i], E[i], s, Fresh(E, i, s, {}))
  BY <1>1 DEF SameDocument
<1>3. {i \in Where(D, s) : HasBuild(entry(D[i], s))} = B
  BY <1>1, <1>2 DEF SameEntry
<1>4. \A i \in Where(E, s) : entry(E[i], s).build.is # "reset" /\ entry(D[i], s).build.is # "reset"
  BY <1>2 DEF LeftAside, Resets, SameEntry
<1>5. {i \in Where(D, s) : entry(D[i], s).build.is = "reset"} = {}
      /\ {i \in Where(E, s) : entry(E[i], s).build.is = "reset"} = {}
  BY <1>1, <1>4
<1>6. B \in SUBSET (1..n) BY <1>1
<1>7. Living(B, {}) = B BY <1>1, <1>6, AliveUnlessReset
<1>8. BuildContext(D, s, "internal") =
        IF B = {} THEN None
        ELSE IF SD # {} THEN Means(sayD(Latest(SD)), "internal")
        ELSE IF Extends(D, s) THEN "inherited" ELSE "internal"
  BY <1>3, <1>5, <1>7 DEF BuildContext
<1>9. BuildContext(E, s, "project") =
        IF B = {} THEN None
        ELSE IF SE # {} THEN Means(sayE(Latest(SE)), "project")
        ELSE IF Extends(E, s) THEN "inherited" ELSE "project"
  BY <1>5, <1>7 DEF BuildContext
<1>10. ASSUME NEW i \in B
       PROVE  sayD(i) = IF Def(i) THEN escapeDollar("project") ELSE rewrite(sayE(i))
  <2>1. ~AliasIn(E[i], s) /\ i \in Where(E, s)
    BY <1>1 DEF LeftAside, AliasOfAnEntry, AliasIn
  <2>2. QED BY <2>1, <1>2 DEF SameContext
<1>11. ASSUME NEW i \in B, Def(i)
       PROVE  sayE(i) = None /\ ~entry(E[i], s).extends /\ \A j \in 1..(i - 1) : ~Gives(E, j, s)
  BY <1>11 DEF Defaults, Fresh
<1>12. \A i \in Where(E, s) : Gives(E, i, s) <=> HasBuild(entry(E[i], s)) \/ entry(E[i], s).extends
  BY DEF Gives, Where
<1>13. \A i \in 1..n : Gives(E, i, s) => i \in Where(E, s)
  BY <1>1 DEF Gives, Where
<1>14. ASSUME NEW i \in B, Def(i), NEW j \in Where(E, s), Gives(E, j, s) PROVE i <= j
  BY <1>11, <1>14, <1>1, <1>6
<1>15. Extends(D, s) <=> Extends(E, s)
  BY <1>1, <1>2 DEF Extends, SameEntry
<1>16. \A p : rewrite(p) = None <=> p = None
  BY DEF rewrite, escapeDollar, None
<1>17. escapeDollar("project") # None /\ Means(escapeDollar("project"), "internal") = "project"
  BY DEF escapeDollar, None, Means, Dirs
<1>18. SD = SE \cup {i \in B : Def(i)}
  BY <1>10, <1>16, <1>17
<1> HIDE DEF B, SD, SE, Def, sayD, sayE, n
<1>19. /\ SE \subseteq B /\ SD \subseteq B /\ SD \in SUBSET (1..n) /\ SE \in SUBSET (1..n)
       /\ \A i \in SE : sayE(i) # None
       /\ \A i \in B : i \in Where(E, s) /\ Gives(E, i, s)
  BY <1>6, <1>12 DEF SE, SD, B
<1>20. CASE B = {}
  BY <1>20, <1>8, <1>9
<1>21. CASE B # {} /\ SE # {}
  <2>1. SD # {} /\ SE \subseteq SD BY <1>18, <1>21
  <2>2. \A u \in SD \ SE : \A x \in SE : u <= x
    BY <1>14, <1>18, <1>19
  <2>3. Latest(SD) = Latest(SE)
    BY <2>1, <2>2, <1>1, <1>19, <1>21, SameLatest
  <2>4. Latest(SE) \in SE
    BY <1>1, <1>19, <1>21, LatestIs
  <2>5. ~Def(Latest(SE)) /\ Latest(SE) \in B
    BY <2>4, <1>11, <1>19
  <2>6. sayD(Latest(SE)) = rewrite(sayE(Latest(SE))) BY <2>5, <1>10
  <2>7. QED BY <2>1, <2>3, <2>6, <1>8, <1>9, <1>21, MeansKept
<1>22. CASE B # {} /\ SE = {} /\ SD # {}
  <2> DEFINE l == Latest(SD)
  <2>1. l \in SD BY <1>1, <1>19, <1>22, LatestIs
  <2>2. Def(l) /\ l \in B BY <2>1, <1>18, <1>22
  <2>3. sayD(l) = escapeDollar("project") BY <2>2, <1>10
  <2>4. ~Extends(E, s)
    <3> SUFFICES ASSUME NEW j \in Where(E, s), entry(E[j], s).extends PROVE FALSE
      BY DEF Extends
    <3>1. Gives(E, j, s) BY <1>12
    <3>2. l <= j BY <3>1, <2>2, <1>14
    <3>3. l # j BY <2>2, <1>11
    <3>4. l \in 1..(j - 1) /\ j \in 1..n
      <4>1. l \in 1..n /\ j \in 1..n BY <2>2, <1>1, <1>19
      <4>2. QED BY <4>1, <3>2, <3>3, <1>1
    <3>5. s \in BuildServices(SubSeq(E, 1, j - 1))
      BY <3>4, <1>1, <1>19, <2>2, BuildServicesBefore DEF n
    <3>6. Extends(<<E[j]>>, s)
      <4>1. s \in services(E[j]) BY DEF Where
      <4>2. DOMAIN <<E[j]>> = {1} /\ <<E[j]>>[1] = E[j] OBVIOUS
      <4>3. QED BY <4>1, <4>2 DEF Extends, Where
    <3>7. ExtendsLate(E, s) BY <3>4, <3>5, <3>6, <1>1 DEF ExtendsLate
    <3>8. QED BY <3>7 DEF LeftAside
  <2>5. QED BY <2>3, <2>4, <1>8, <1>9, <1>17, <1>22
<1>23. CASE B # {} /\ SE = {} /\ SD = {}
  <2> DEFINE G == {i \in 1..n : Gives(E, i, s)}
  <2>1. G \in SUBSET Nat /\ G # {}
    <3>1. PICK b \in B : TRUE BY <1>23
    <3>2. b \in G BY <1>1, <1>19
    <3>3. QED BY <3>2
  <2>2. PICK g \in G : \A k \in G : g <= k BY <2>1, LeastElement
  <2>3. g \in Where(E, s) /\ g \in 1..n /\ Gives(E, g, s) BY <1>13, <2>2
  <2>4. entry(E[g], s).extends
    <3> SUFFICES ASSUME ~entry(E[g], s).extends PROVE FALSE OBVIOUS
    <3>1. HasBuild(entry(E[g], s)) /\ g \in B BY <2>3, <1>12 DEF B
    <3>2. sayE(g) = None BY <3>1, <1>23 DEF SE
    <3>3. \A j \in 1..(g - 1) : ~Gives(E, j, s)
      <4> SUFFICES ASSUME NEW j \in 1..(g - 1), Gives(E, j, s) PROVE FALSE OBVIOUS
      <4>1. j \in 1..n /\ j < g BY <2>3, <1>1
      <4>2. QED BY <4>1, <2>2, <2>3
    <3>4. Def(g) BY <3>1, <3>2, <3>3 DEF Def, Defaults, Fresh, sayE
    <3>5. QED BY <3>1, <3>4, <1>18, <1>23
  <2>5. Extends(E, s) BY <2>3, <2>4 DEF Extends
  <2>6. QED BY <2>5, <1>8, <1>9, <1>15, <1>23
<1>24. QED BY <1>20, <1>21, <1>22, <1>23

LEMMA ServiceKept ==
  ASSUME dir \in Dirs, NEW D, NEW E, Corresponds(D, E, {}), NEW s, ~LeftAside(E, s)
  PROVE  Service(D, s, "internal") = Service(E, s, "project")
<1> DEFINE W == Where(E, s)
<1>1. Where(D, s) = W /\ \A i \in W : SameEntry(entry(D[i], s), entry(E[i], s)) /\ SameMount(D[i], E[i], s)
  BY SameService DEF SameDocument
<1> HIDE DEF W
<1>2. BuildContext(D, s, "internal") = BuildContext(E, s, "project")
  BY ContextKept
<1>3. HasImage(D, s) = HasImage(E, s)
  <2>1. {i \in W : entry(D[i], s).image = "set"} = {i \in W : entry(E[i], s).image = "set"}
        /\ {i \in W : entry(D[i], s).image = "reset"} = {i \in W : entry(E[i], s).image = "reset"}
    BY <1>1 DEF SameEntry
  <2>2. QED BY <2>1, <1>1 DEF HasImage, W
<1>4. HasProfiles(D, s) = HasProfiles(E, s)
  <2>1. {i \in W : entry(D[i], s).profiles = "named"} = {i \in W : entry(E[i], s).profiles = "named"}
        /\ {i \in W : entry(D[i], s).profiles = "reset"} = {i \in W : entry(E[i], s).profiles = "reset"}
    BY <1>1 DEF SameEntry
  <2>2. QED BY <2>1, <1>1 DEF HasProfiles, W
<1>5. {Means(entry(D[i], s).file, "internal") : i \in W} = {Means(entry(E[i], s).file, "project") : i \in W}
  <2>1. \A i \in W : Means(entry(D[i], s).file, "internal") = Means(entry(E[i], s).file, "project")
    BY <1>1, MeansKept DEF SameEntry
  <2>2. QED BY <2>1
<1>6. {MountMeans(Mount(D[i], entry(D[i], s).mount), "internal") : i \in {j \in W : entry(D[j], s).mount.is # None}}
        = {MountMeans(Mount(E[i], entry(E[i], s).mount), "project") : i \in {j \in W : entry(E[j], s).mount.is # None}}
  <2>1. \A i \in W : MountMeans(Mount(D[i], entry(D[i], s).mount), "internal") = MountMeans(Mount(E[i], entry(E[i], s).mount), "project")
    BY <1>1, MountKept DEF SameMount
  <2>2. \A i \in W : entry(D[i], s).mount.is # None <=> entry(E[i], s).mount.is # None
    BY <1>1 DEF SameEntry
  <2>3. QED BY <2>1, <2>2
<1>7. QED BY <1>1, <1>2, <1>3, <1>4, <1>5, <1>6 DEF Service, W

LEMMA NamesKept ==
  ASSUME NEW D, NEW E, NEW before, Corresponds(D, E, before)
  PROVE  ServiceNames(D) = ServiceNames(E)
<1>1. DOMAIN D = 1..Len(E) /\ DOMAIN E = 1..Len(E) BY DEF Corresponds
<1>2. \A i \in 1..Len(E) : services(D[i]) = services(E[i]) BY DEF Corresponds
<1>3. QED BY <1>1, <1>2 DEF ServiceNames

\* The i-th document gives s a build or an image.
Serves(docs, i, s) == Gives(docs, i, s) \/ (s \in services(docs[i]) /\ entry(docs[i], s).image = "set")

\* A service that is told of although it is not among the names stands on its own.
LEMMA StandsAlone ==
  ASSUME NEW docs \in Seq(Documents), NEW names, NEW W \in Seq(Documents), Len(W) = Len(docs),
         \A i \in 1..Len(docs) :
           /\ services(W[i]) = services(docs[i]) \cap (names \cup Standalone(docs))
           /\ \A s \in services(W[i]) : entry(W[i], s) = entry(docs[i], s),
         NEW s \in ServiceNames(W), s \notin names
  PROVE  \E i \in 1..Len(W) : Serves(W, i, s)
<1>1. DOMAIN W = 1..Len(docs) /\ DOMAIN docs = 1..Len(docs) OBVIOUS
<1>2. PICK k \in 1..Len(docs) : s \in services(W[k]) BY <1>1 DEF ServiceNames
<1>3. s \in Standalone(docs) BY <1>2
<1>4. \E i \in 1..Len(docs) : Serves(docs, i, s)
  BY <1>1, <1>3, BuildServicesOf DEF Standalone, Serves
<1>5. PICK i \in 1..Len(docs) : Serves(docs, i, s) BY <1>4
<1>6. s \in services(docs[i]) BY <1>5 DEF Serves, Gives
<1>7. s \in services(W[i]) /\ entry(W[i], s) = entry(docs[i], s) BY <1>3, <1>6
<1>8. Serves(W, i, s) BY <1>5, <1>7 DEF Serves, Gives
<1>9. QED BY <1>8

\* What is served in the files is served in the copies, unless it is reset.
LEMMA Accepted ==
  ASSUME dir \in Dirs, NEW D, NEW E, Corresponds(D, E, {}), NEW s, ~Resets(E, s),
         NEW k \in 1..Len(E), Serves(E, k, s)
  PROVE  HasImage(D, s) \/ BuildContext(D, s, "internal") # None \/ Extends(D, s)
<1> DEFINE n == Len(E)
           W == Where(E, s)
<1>1. /\ DOMAIN D = 1..n /\ DOMAIN E = 1..n /\ n \in Nat
      /\ Where(D, s) = W /\ W \in SUBSET (1..n)
      /\ \A i \in W : SameEntry(entry(D[i], s), entry(E[i], s))
  BY SameService DEF SameDocument
<1>2. k \in W BY <1>1 DEF Serves, Gives, Where
<1> HIDE DEF W, n
<1>3. \A i \in W : entry(D[i], s).image # "reset" /\ entry(D[i], s).build.is # "reset"
  BY <1>1 DEF Resets, W, SameEntry
<1>4. CASE entry(E[k], s).image = "set"
  <2> DEFINE S == {i \in W : entry(D[i], s).image = "set"}
  <2>1. k \in S BY <1>1, <1>2, <1>4 DEF SameEntry
  <2>2. {i \in W : entry(D[i], s).image = "reset"} = {} BY <1>3
  <2>3. S \in SUBSET (1..n) BY <1>1
  <2>4. Living(S, {}) = S BY <1>1, <2>3, AliveUnlessReset
  <2>5. HasImage(D, s) BY <2>1, <2>2, <2>4, <1>1 DEF HasImage
  <2>6. QED BY <2>5
<1>5. CASE entry(E[k], s).extends
  BY <1>1, <1>2, <1>5 DEF Extends, SameEntry
<1>6. CASE HasBuild(entry(E[k], s))
  <2> DEFINE B == {i \in W : HasBuild(entry(D[i], s))}
             says(i) == Context(D[i], entry(D[i], s).build)
             spoken == {i \in B : says(i) # None}
  <2>1. k \in B BY <1>1, <1>2, <1>6 DEF SameEntry
  <2>2. {i \in W : entry(D[i], s).build.is = "reset"} = {} BY <1>3
  <2>3. B \in SUBSET (1..n) BY <1>1
  <2>4. Living(B, {}) = B BY <1>1, <2>3, AliveUnlessReset
  <2>5. BuildContext(D, s, "internal") =
          IF B = {} THEN None
          ELSE IF spoken # {} THEN Means(says(Latest(spoken)), "internal")
          ELSE IF Extends(D, s) THEN "inherited" ELSE "internal"
    BY <2>2, <2>4, <1>1 DEF BuildContext
  <2>6. spoken # {} => says(Latest(spoken)) # None
    <3> SUFFICES ASSUME spoken # {} PROVE says(Latest(spoken)) # None OBVIOUS
    <3>1. spoken \in SUBSET (1..n) BY <2>3
    <3> HIDE DEF says, B
    <3>2. Latest(spoken) \in spoken BY <3>1, <1>1, LatestIs
    <3>3. QED BY <3>2
  <2>7. \A p : p # None => Means(p, "internal") # None
    BY DEF Means, None
  <2> HIDE DEF B, spoken, says
  <2>8. QED BY <2>1, <2>5, <2>6, <2>7 DEF None
<1>7. QED BY <1>4, <1>5, <1>6 DEF Serves, Gives

-----------------------------------------------------------------------------
(* The urls.                                                                *)

LEMMA NothingLatest == Latest({}) = 0
BY DEF Latest

Shifted(m, S) == {m + i : i \in S}
UpTo(S, n) == n \in Nat /\ S \subseteq 1..n

LEMMA LatestJoined ==
  ASSUME NEW m, NEW n, NEW S1, NEW S2, UpTo(S1, m), UpTo(S2, n)
  PROVE  /\ Latest(S2) # 0 => Latest(S1 \cup Shifted(m, S2)) = m + Latest(S2)
         /\ Latest(S2) = 0 => Latest(S1 \cup Shifted(m, S2)) = Latest(S1)
<1> DEFINE U == Shifted(m, S2)
<1>0. U = {m + i : i \in S2} /\ m \in Nat /\ n \in Nat /\ S1 \in SUBSET (1..m) /\ S2 \in SUBSET (1..n)
  BY DEF Shifted, UpTo
<1>1. CASE S2 = {}
  <2>1. U = {} /\ S1 \cup U = S1 BY <1>0, <1>1
  <2>2. Latest(S2) = 0 BY <1>1, NothingLatest
  <2>3. QED BY <1>0, <2>1, <2>2
<1>2. CASE S2 # {}
  <2>1. Latest(S2) \in S2 /\ \A j \in S2 : j <= Latest(S2) BY <1>0, <1>2, LatestIs
  <2>2. Latest(S2) # 0 /\ Latest(S2) \in 1..n
    <3>1. Latest(S2) \in 1..n BY <1>0, <2>1
    <3>2. QED BY <3>1
  <2>3. U \in SUBSET (1..(m + n)) /\ S1 \cup U \in SUBSET (1..(m + n)) /\ U # {} /\ m + n \in Nat
    <3>1. \A i \in 1..n : m + i \in 1..(m + n) BY <1>0
    <3>2. \A i \in 1..m : i \in 1..(m + n) BY <1>0
    <3>3. U \subseteq 1..(m + n) BY <1>0, <3>1
    <3>4. S1 \subseteq 1..(m + n) BY <1>0, <3>2
    <3>5. U # {} BY <1>0, <1>2
    <3> HIDE DEF U
    <3>6. m + n \in Nat BY <1>0
    <3>7. QED BY <3>3, <3>4, <3>5, <3>6
  <2>4. \A u \in (S1 \cup U) \ U : \A x \in U : u <= x BY <1>0
  <2>5. Latest(S1 \cup U) = Latest(U)
    <3>1. U \subseteq S1 \cup U OBVIOUS
    <3> HIDE DEF U
    <3>2. QED BY <2>3, <2>4, <3>1, SameLatest
  <2>6. Latest(U) \in U /\ \A j \in U : j <= Latest(U)
    <3> HIDE DEF U
    <3>1. QED BY <2>3, LatestIs
  <2>7. PICK i \in S2 : Latest(U) = m + i BY <1>0, <2>6
  <2>8. m + Latest(S2) \in U BY <1>0, <2>1
  <2>9. m + Latest(S2) <= m + i /\ i <= Latest(S2) BY <2>1, <2>6, <2>7, <2>8
  <2>10. i \in Nat /\ Latest(S2) \in Nat BY <1>0, <2>2
  <2>11. Latest(U) = m + Latest(S2) BY <1>0, <2>7, <2>9, <2>10
  <2>12. QED BY <2>2, <2>5, <2>11
<1>3. QED BY <1>1, <1>2

Labelled(docs, s) == {i \in Where(docs, s) : entry(docs[i], s).url # None}
Profiled(docs, s) == {i \in Where(docs, s) : entry(docs[i], s).profiles # "unset"}

\* What a document says of the profiles, the last of them for the sequence.
Verdict(docs, s) == IF Profiles(docs, s) = 0 THEN "unset" ELSE entry(docs[Profiles(docs, s)], s).profiles

LEMMA SaidIn ==
  ASSUME NEW docs \in Seq(Documents), NEW s
  PROVE  /\ Labelled(docs, s) \in SUBSET (1..Len(docs)) /\ Profiled(docs, s) \in SUBSET (1..Len(docs))
         /\ Label(docs, s) = Latest(Labelled(docs, s)) /\ Profiles(docs, s) = Latest(Profiled(docs, s))
         /\ Label(docs, s) # 0 => Label(docs, s) \in Labelled(docs, s)
         /\ Profiles(docs, s) # 0 => Profiles(docs, s) \in Profiled(docs, s)
         /\ Label(docs, s) # 0 => s \in ServiceNames(docs)
         /\ Profiles(docs, s) # 0 => s \in ServiceNames(docs)
         /\ Profiles(docs, s) \in Nat
<1>1. DOMAIN docs = 1..Len(docs) /\ Len(docs) \in Nat OBVIOUS
<1>2. Labelled(docs, s) \in SUBSET (1..Len(docs)) /\ Profiled(docs, s) \in SUBSET (1..Len(docs))
  BY <1>1 DEF Labelled, Profiled, Where
<1>3. Label(docs, s) = Latest(Labelled(docs, s)) /\ Profiles(docs, s) = Latest(Profiled(docs, s))
  BY DEF Label, Profiles, Labelled, Profiled
<1>4. ASSUME Label(docs, s) # 0 PROVE Label(docs, s) \in Labelled(docs, s)
  <2>1. Labelled(docs, s) # {} BY <1>3, <1>4, NothingLatest
  <2>2. QED BY <2>1, <1>1, <1>2, <1>3, LatestIs
<1>5. ASSUME Profiles(docs, s) # 0 PROVE Profiles(docs, s) \in Profiled(docs, s)
  <2>1. Profiled(docs, s) # {} BY <1>3, <1>5, NothingLatest
  <2>2. QED BY <2>1, <1>1, <1>2, <1>3, LatestIs
<1>6. ASSUME NEW i \in Where(docs, s) PROVE s \in ServiceNames(docs)
  BY DEF Where, ServiceNames
<1>7. Labelled(docs, s) \subseteq Where(docs, s) /\ Profiled(docs, s) \subseteq Where(docs, s)
  BY DEF Labelled, Profiled
<1>8. Profiles(docs, s) \in Nat
  <2>1. \A x \in 1..Len(docs) : x \in Nat OBVIOUS
  <2>2. QED BY <2>1, <1>2, <1>5
<1>9. QED BY <1>2, <1>3, <1>4, <1>5, <1>6, <1>7, <1>8

LEMMA SaidTogether ==
  ASSUME NEW P1 \in Seq(Documents), NEW P2 \in Seq(Documents), NEW s
  PROVE  LET D == P1 \o P2 IN
         /\ D \in Seq(Documents)
         /\ Label(D, s) # 0 <=> Label(P1, s) # 0 \/ Label(P2, s) # 0
         /\ Label(P2, s) # 0 => LabelOf(D, s) = LabelOf(P2, s)
         /\ Label(P1, s) # 0 /\ Label(P2, s) = 0 => LabelOf(D, s) = LabelOf(P1, s)
         /\ Verdict(D, s) = IF Verdict(P2, s) # "unset" THEN Verdict(P2, s) ELSE Verdict(P1, s)
<1> DEFINE D == P1 \o P2
           m == Len(P1)
           n == Len(P2)
<1>1. /\ D \in Seq(Documents) /\ DOMAIN D = 1..(m + n) /\ m \in Nat /\ n \in Nat
      /\ \A i \in 1..m : D[i] = P1[i]
      /\ \A i \in 1..n : D[m + i] = P2[i]
      /\ DOMAIN P1 = 1..m /\ DOMAIN P2 = 1..n
  OBVIOUS
<1> HIDE DEF D, m, n
<1>2. ASSUME NEW X1, NEW X2, NEW X, X1 \in SUBSET (1..m), X2 \in SUBSET (1..n), X \in SUBSET (1..(m + n)),
             \A i \in 1..m : i \in X <=> i \in X1, \A i \in 1..n : m + i \in X <=> i \in X2
      PROVE  X = X1 \cup {m + i : i \in X2}
  <2>1. \A x \in 1..(m + n) : x \in 1..m \/ (x - m \in 1..n /\ x = m + (x - m)) BY <1>1
  <2>2. \A i \in 1..n : m + i \in 1..(m + n) /\ m + i \notin 1..m BY <1>1
  <2>3. X \subseteq X1 \cup {m + i : i \in X2}
    <3> SUFFICES ASSUME NEW x \in X PROVE x \in X1 \cup {m + i : i \in X2} OBVIOUS
    <3>1. x \in 1..(m + n) BY <1>2
    <3>2. CASE x \in 1..m BY <3>2, <1>2
    <3>3. CASE x \notin 1..m
      <4>1. x - m \in 1..n /\ x = m + (x - m) BY <2>1, <3>1, <3>3
      <4>2. x - m \in X2 BY <4>1, <1>2
      <4>3. QED BY <4>1, <4>2
    <3>4. QED BY <3>2, <3>3
  <2>4. X1 \cup {m + i : i \in X2} \subseteq X BY <1>2
  <2>5. QED BY <2>3, <2>4
<1>3. /\ \A i \in 1..m : i \in Where(D, s) <=> i \in Where(P1, s)
      /\ \A i \in 1..n : m + i \in Where(D, s) <=> i \in Where(P2, s)
  <2>1. \A i \in 1..m : i \in 1..(m + n) BY <1>1
  <2>2. \A i \in 1..n : m + i \in 1..(m + n) BY <1>1
  <2>3. QED BY <2>1, <2>2, <1>1 DEF Where
<1>4. Labelled(D, s) = Labelled(P1, s) \cup {m + i : i \in Labelled(P2, s)}
  <2>1. Labelled(P1, s) \in SUBSET (1..m) /\ Labelled(P2, s) \in SUBSET (1..n) /\ Labelled(D, s) \in SUBSET (1..(m + n))
    BY <1>1 DEF Labelled, Where
  <2>2. \A i \in 1..m : i \in Labelled(D, s) <=> i \in Labelled(P1, s) BY <1>1, <1>3 DEF Labelled
  <2>3. \A i \in 1..n : m + i \in Labelled(D, s) <=> i \in Labelled(P2, s) BY <1>1, <1>3 DEF Labelled
  <2>4. QED BY <2>1, <2>2, <2>3, <1>2
<1>5. Profiled(D, s) = Profiled(P1, s) \cup {m + i : i \in Profiled(P2, s)}
  <2>1. Profiled(P1, s) \in SUBSET (1..m) /\ Profiled(P2, s) \in SUBSET (1..n) /\ Profiled(D, s) \in SUBSET (1..(m + n))
    BY <1>1 DEF Profiled, Where
  <2>2. \A i \in 1..m : i \in Profiled(D, s) <=> i \in Profiled(P1, s) BY <1>1, <1>3 DEF Profiled
  <2>3. \A i \in 1..n : m + i \in Profiled(D, s) <=> i \in Profiled(P2, s) BY <1>1, <1>3 DEF Profiled
  <2>4. QED BY <2>1, <2>2, <2>3, <1>2
<1>6. /\ Labelled(P1, s) \in SUBSET (1..m) /\ Profiled(P1, s) \in SUBSET (1..m)
      /\ Label(P1, s) = Latest(Labelled(P1, s)) /\ Profiles(P1, s) = Latest(Profiled(P1, s))
      /\ Label(P1, s) # 0 => Label(P1, s) \in Labelled(P1, s)
      /\ Profiles(P1, s) # 0 => Profiles(P1, s) \in Profiled(P1, s)
  BY SaidIn DEF m
<1>7. /\ Labelled(P2, s) \in SUBSET (1..n) /\ Profiled(P2, s) \in SUBSET (1..n)
      /\ Label(P2, s) = Latest(Labelled(P2, s)) /\ Profiles(P2, s) = Latest(Profiled(P2, s))
      /\ Label(P2, s) # 0 => Label(P2, s) \in Labelled(P2, s)
      /\ Profiles(P2, s) # 0 => Profiles(P2, s) \in Profiled(P2, s)
  BY SaidIn DEF n
<1>8. Label(D, s) = Latest(Labelled(D, s)) /\ Profiles(D, s) = Latest(Profiled(D, s))
  BY <1>1, SaidIn
<1>9. Label(D, s) = IF Label(P2, s) # 0 THEN m + Label(P2, s) ELSE Label(P1, s)
  <2> DEFINE S1 == Labelled(P1, s)
             S2 == Labelled(P2, s)
  <2> HIDE DEF S1, S2
  <2>1. UpTo(S1, m) /\ UpTo(S2, n) BY <1>1, <1>6, <1>7 DEF S1, S2, UpTo
  <2>2. /\ Latest(S2) # 0 => Latest(S1 \cup Shifted(m, S2)) = m + Latest(S2)
        /\ Latest(S2) = 0 => Latest(S1 \cup Shifted(m, S2)) = Latest(S1)
    BY <2>1, LatestJoined
  <2>3. QED BY <2>2, <1>4, <1>6, <1>7, <1>8 DEF S1, S2, Shifted
<1>10. Profiles(D, s) = IF Profiles(P2, s) # 0 THEN m + Profiles(P2, s) ELSE Profiles(P1, s)
  <2> DEFINE S1 == Profiled(P1, s)
             S2 == Profiled(P2, s)
  <2> HIDE DEF S1, S2
  <2>1. UpTo(S1, m) /\ UpTo(S2, n) BY <1>1, <1>6, <1>7 DEF S1, S2, UpTo
  <2>2. /\ Latest(S2) # 0 => Latest(S1 \cup Shifted(m, S2)) = m + Latest(S2)
        /\ Latest(S2) = 0 => Latest(S1 \cup Shifted(m, S2)) = Latest(S1)
    BY <2>1, LatestJoined
  <2>3. QED BY <2>2, <1>5, <1>6, <1>7, <1>8 DEF S1, S2, Shifted
<1>11. \A i \in 1..n : m + i # 0 BY <1>1
<1>12. /\ Label(P2, s) # 0 => LabelOf(D, s) = LabelOf(P2, s) /\ Label(D, s) # 0
       /\ Label(P1, s) # 0 /\ Label(P2, s) = 0 => LabelOf(D, s) = LabelOf(P1, s) /\ Label(D, s) # 0
       /\ Label(P1, s) = 0 /\ Label(P2, s) = 0 => Label(D, s) = 0
  BY <1>1, <1>6, <1>7, <1>9, <1>11 DEF LabelOf
<1>13. Verdict(D, s) = IF Verdict(P2, s) # "unset" THEN Verdict(P2, s) ELSE Verdict(P1, s)
  <2>1. CASE Profiles(P2, s) # 0
    <3>1. Verdict(P2, s) = entry(P2[Profiles(P2, s)], s).profiles /\ Verdict(P2, s) # "unset"
      BY <2>1, <1>7 DEF Verdict, Profiled
    <3>2. Verdict(D, s) = Verdict(P2, s)
      BY <2>1, <3>1, <1>1, <1>7, <1>10, <1>11 DEF Verdict
    <3>3. QED BY <3>1, <3>2
  <2>2. CASE Profiles(P2, s) = 0
    <3>1. Verdict(P2, s) = "unset" BY <2>2 DEF Verdict
    <3>2. Profiles(D, s) = Profiles(P1, s) BY <2>2, <1>10
    <3>3. Verdict(D, s) = Verdict(P1, s) BY <3>2, <1>1, <1>6 DEF Verdict
    <3>4. QED BY <3>1, <3>3
  <2>3. QED BY <2>1, <2>2
<1>14. QED BY <1>1, <1>12, <1>13 DEF D

LEMMA VerdictDecides ==
  ASSUME NEW docs \in Seq(Documents), NEW s
  PROVE  /\ Verdict(docs, s) \in {"unset", "named", "reset"}
         /\ HasProfiles(docs, s) <=> Verdict(docs, s) = "named"
         /\ s \in Analyze(docs).profiled <=> Verdict(docs, s) = "named"
         /\ s \in Analyze(docs).unprofiled <=> Verdict(docs, s) = "reset"
<1> DEFINE n == Len(docs)
           W == Where(docs, s)
           p(i) == entry(docs[i], s).profiles
           N == {i \in W : p(i) = "named"}
           R == {i \in W : p(i) = "reset"}
           S == Profiled(docs, s)
           l == Profiles(docs, s)
<1>1. /\ n \in Nat /\ S \in SUBSET (1..n) /\ l = Latest(S) /\ (l # 0 => l \in S /\ s \in ServiceNames(docs))
  BY SaidIn
<1>2. \A i \in W : p(i) \in {"unset", "named", "reset"}
  <2> SUFFICES ASSUME NEW i \in W PROVE p(i) \in {"unset", "named", "reset"} OBVIOUS
  <2>1. docs[i] \in Documents /\ s \in services(docs[i]) BY DEF Where
  <2>2. entry(docs[i], s) \in Entries BY <2>1, EntryTyped
  <2>3. QED BY <2>2 DEF Entries
<1>3. S = {i \in W : p(i) # "unset"} BY DEF Profiled
<1>4. HasProfiles(docs, s) <=> \E i \in N : i > Latest(R)
  BY DEF HasProfiles, Living
<1> HIDE DEF p, W, n
<1>5. S = N \cup R /\ N \cap R = {} BY <1>2, <1>3
<1>6. Verdict(docs, s) = IF l = 0 THEN "unset" ELSE p(l) BY DEF Verdict, p
<1>7. l # 0 => (p(l) = "named" <=> l \in N) /\ (p(l) = "reset" <=> l \in R) BY <1>1, <1>2, <1>3
<1> HIDE DEF N, R, S
<1>8. N \in SUBSET (1..n) /\ R \in SUBSET (1..n) BY <1>1, <1>5
<1>9. ASSUME l # 0, l \in N PROVE \E i \in N : i > Latest(R)
  <2>1. S # {} BY <1>9, <1>1, NothingLatest
  <2>2. \A j \in S : j <= l BY <2>1, <1>1, LatestIs
  <2>3. CASE R = {}
    <3>0. l \in 1..n BY <1>8, <1>9
    <3>1. l > 0 BY <3>0
    <3>2. QED BY <2>3, <3>1, <1>9, NothingLatest
  <2>4. CASE R # {}
    <3>1. Latest(R) \in R BY <2>4, <1>1, <1>8, LatestIs
    <3>2. Latest(R) <= l /\ Latest(R) # l BY <3>1, <2>2, <1>5, <1>9
    <3>3. Latest(R) \in 1..n /\ l \in 1..n BY <3>1, <1>8, <1>9
    <3>4. l > Latest(R) BY <3>2, <3>3
    <3>5. QED BY <3>4, <1>9
  <2>5. QED BY <2>3, <2>4
<1>10. ASSUME NEW i \in N, i > Latest(R) PROVE l # 0 /\ l \in N
  <2>1. S # {} /\ i \in S BY <1>5
  <2>2. l \in S /\ \A j \in S : j <= l BY <2>1, <1>1, LatestIs
  <2>3. l # 0 BY <2>2, <1>1
  <2>4. ASSUME l \in R PROVE FALSE
    <3>1. Latest(R) \in R /\ \A j \in R : j <= Latest(R) BY <2>4, <1>1, <1>8, LatestIs
    <3>2. l <= Latest(R) /\ i <= l BY <3>1, <2>1, <2>2, <2>4
    <3>3. i \in 1..n /\ l \in 1..n /\ Latest(R) \in 1..n BY <3>1, <2>4, <1>8
    <3>4. QED BY <3>2, <3>3, <1>10
  <2>5. QED BY <2>2, <2>3, <2>4, <1>5
<1>11. HasProfiles(docs, s) <=> Verdict(docs, s) = "named"
  BY <1>4, <1>6, <1>7, <1>9, <1>10
<1>12. s \in Analyze(docs).profiled <=> Verdict(docs, s) = "named"
  BY <1>1 DEF Analyze, Verdict
<1>13. s \in Analyze(docs).unprofiled <=> Verdict(docs, s) = "reset"
  BY <1>1 DEF Analyze, Verdict
<1>14. Verdict(docs, s) \in {"unset", "named", "reset"}
  BY <1>1, <1>2, <1>3, <1>6
<1>15. QED BY <1>11, <1>12, <1>13, <1>14

Merging(F) ==
  F = [i \in 0..Len(analyses) |->
        IF i = 0 THEN [urls |-> {}, profiled |-> {}]
        ELSE [urls |-> Over(F[i - 1].urls, analyses[i].urls),
              profiled |-> ProfiledAfter(F[i - 1].profiled, analyses[i])]]

LEMMA TwoAnalyses ==
  ASSUME NEW a, NEW b, analyses = <<a, b>>
  PROVE  OverrideAnalysis =
           {x \in Over(Over({}, a.urls), b.urls) : x[1] \notin ProfiledAfter(ProfiledAfter({}, a), b)}
<1> DEFINE none == [urls |-> {}, profiled |-> {}]
           first == [urls |-> Over({}, a.urls), profiled |-> ProfiledAfter({}, a)]
           both == [urls |-> Over(first.urls, b.urls), profiled |-> ProfiledAfter(first.profiled, b)]
           next(r, x) == [urls |-> Over(r.urls, x.urls), profiled |-> ProfiledAfter(r.profiled, x)]
<1>1. Len(analyses) = 2 /\ analyses[1] = a /\ analyses[2] = b OBVIOUS
<1>2. first = next(none, a) /\ both = next(first, b) OBVIOUS
<1>3. both.urls = Over(Over({}, a.urls), b.urls) /\ both.profiled = ProfiledAfter(ProfiledAfter({}, a), b)
  OBVIOUS
<1>4. ASSUME NEW F PROVE Merging(F) <=> F = [i \in 0..2 |-> IF i = 0 THEN none ELSE next(F[i - 1], analyses[i])]
  BY <1>1 DEF Merging
<1> HIDE DEF none, first, both, next
<1>5. \E F : Merging(F)
  <2> DEFINE G == [i \in 0..2 |-> IF i = 0 THEN none ELSE IF i = 1 THEN first ELSE both]
  <2>1. G[0] = none /\ G[1] = first /\ G[2] = both OBVIOUS
  <2>2. G = [i \in 0..2 |-> G[i]] OBVIOUS
  <2> HIDE DEF G
  <2>3. \A i \in 0..2 : G[i] = IF i = 0 THEN none ELSE next(G[i - 1], analyses[i])
    <3> TAKE i \in 0..2
    <3>1. i = 0 \/ (i = 1 /\ i - 1 = 0) \/ (i = 2 /\ i - 1 = 1) OBVIOUS
    <3>2. QED BY <3>1, <2>1, <1>1, <1>2
  <2>4. G = [i \in 0..2 |-> IF i = 0 THEN none ELSE next(G[i - 1], analyses[i])] BY <2>2, <2>3
  <2>5. QED BY <2>4, <1>4
<1> DEFINE H == CHOOSE F : Merging(F)
<1>6. Merging(H) BY <1>5
<1>7. OverrideAnalysis = {x \in H[2].urls : x[1] \notin H[2].profiled}
  BY <1>1 DEF OverrideAnalysis, Merging
<1> HIDE DEF H
<1>8. H = [i \in 0..2 |-> IF i = 0 THEN none ELSE next(H[i - 1], analyses[i])] BY <1>4, <1>6
<1>9. H[0] = none BY <1>8
<1>10. H[1] = first
  <2>1. H[1] = next(H[1 - 1], analyses[1]) BY <1>8
  <2>2. QED BY <2>1, <1>1, <1>2, <1>9
<1>11. H[2] = both
  <2>1. H[2] = next(H[2 - 1], analyses[2]) BY <1>8
  <2>2. QED BY <2>1, <1>1, <1>2, <1>10
<1>12. QED BY <1>3, <1>7, <1>11

\* The labels of what is started.
Served(docs) == {LabelOf(docs, s) : s \in {t \in ServiceNames(docs) : Label(docs, t) # 0 /\ ~HasProfiles(docs, t)}}

\* The analyses of two files, the later one over the earlier, list what is served of both together.
LEMMA UrlsTogether ==
  ASSUME NEW P1 \in Seq(Documents), NEW P2 \in Seq(Documents), analyses = <<Analyze(P1), Analyze(P2)>>
  PROVE  OverrideAnalysis = Served(P1 \o P2)
<1> DEFINE D == P1 \o P2
           a == Analyze(P1)
           b == Analyze(P2)
           urls == Over(Over({}, a.urls), b.urls)
           profiled == ProfiledAfter(ProfiledAfter({}, a), b)
           served == Served(D)
<1>0. served = {LabelOf(D, s) : s \in {t \in ServiceNames(D) : Label(D, t) # 0 /\ ~HasProfiles(D, t)}}
  BY DEF Served
<1>1. OverrideAnalysis = {x \in urls : x[1] \notin profiled}
  BY TwoAnalyses
<1>2. a.urls = {LabelOf(P1, s) : s \in {t \in ServiceNames(P1) : Label(P1, t) # 0}}
      /\ b.urls = {LabelOf(P2, s) : s \in {t \in ServiceNames(P2) : Label(P2, t) # 0}}
  BY DEF Analyze
<1>3. \A docs, s : LabelOf(docs, s)[1] = s BY DEF LabelOf
<1>4. ASSUME NEW s
      PROVE  /\ Label(D, s) # 0 => s \in ServiceNames(D)
             /\ Label(P1, s) # 0 => s \in ServiceNames(P1)
             /\ Label(P2, s) # 0 => s \in ServiceNames(P2)
             /\ Label(D, s) # 0 <=> Label(P1, s) # 0 \/ Label(P2, s) # 0
             /\ Label(P2, s) # 0 => LabelOf(D, s) = LabelOf(P2, s)
             /\ Label(P1, s) # 0 /\ Label(P2, s) = 0 => LabelOf(D, s) = LabelOf(P1, s)
  <2>1. D \in Seq(Documents) BY SaidTogether
  <2>2. Label(D, s) # 0 => s \in ServiceNames(D) BY <2>1, SaidIn
  <2>3. /\ Label(P1, s) # 0 => s \in ServiceNames(P1)
        /\ Label(P2, s) # 0 => s \in ServiceNames(P2) BY SaidIn
  <2>4. /\ Label(D, s) # 0 <=> Label(P1, s) # 0 \/ Label(P2, s) # 0
        /\ Label(P2, s) # 0 => LabelOf(D, s) = LabelOf(P2, s)
        /\ Label(P1, s) # 0 /\ Label(P2, s) = 0 => LabelOf(D, s) = LabelOf(P1, s)
    BY SaidTogether
  <2>5. QED BY <2>2, <2>3, <2>4
<1>5. ASSUME NEW s PROVE s \in profiled <=> HasProfiles(D, s)
  <2>1. D \in Seq(Documents) BY SaidTogether
  <2>2. HasProfiles(D, s) <=> Verdict(D, s) = "named" BY <2>1, VerdictDecides
  <2>3. Verdict(D, s) = IF Verdict(P2, s) # "unset" THEN Verdict(P2, s) ELSE Verdict(P1, s)
    BY SaidTogether
  <2>4. /\ s \in a.profiled <=> Verdict(P1, s) = "named"
        /\ s \in a.unprofiled <=> Verdict(P1, s) = "reset"
        /\ s \in b.profiled <=> Verdict(P2, s) = "named"
        /\ s \in b.unprofiled <=> Verdict(P2, s) = "reset"
        /\ Verdict(P2, s) \in {"unset", "named", "reset"}
    BY VerdictDecides
  <2> HIDE DEF D, a, b
  <2>5. s \in profiled <=> ((s \in a.profiled /\ s \notin a.unprofiled) \/ s \in b.profiled) /\ s \notin b.unprofiled
    BY DEF ProfiledAfter
  <2>6. QED BY <2>2, <2>3, <2>4, <2>5
<1>6. urls = {x \in a.urls : \A y \in b.urls : y[1] # x[1]} \cup b.urls
  BY DEF Over
<1> HIDE DEF D, a, b, urls, profiled, served
<1>7. ASSUME NEW x \in urls, x[1] \notin profiled PROVE x \in served
  <2>1. CASE x \in b.urls
    <3>1. PICK s \in ServiceNames(P2) : x = LabelOf(P2, s) /\ Label(P2, s) # 0 BY <2>1, <1>2
    <3>2. x = LabelOf(D, s) /\ Label(D, s) # 0 /\ s \in ServiceNames(D) /\ x[1] = s BY <3>1, <1>3, <1>4
    <3>3. QED BY <3>2, <1>0, <1>5, <1>7
  <2>2. CASE x \in a.urls /\ \A y \in b.urls : y[1] # x[1]
    <3>1. PICK s \in ServiceNames(P1) : x = LabelOf(P1, s) /\ Label(P1, s) # 0 BY <2>2, <1>2
    <3>2. ASSUME Label(P2, s) # 0 PROVE FALSE
      <4>1. LabelOf(P2, s) \in b.urls BY <3>2, <1>2, <1>4
      <4>2. QED BY <4>1, <2>2, <3>1, <1>3
    <3>3. x = LabelOf(D, s) /\ Label(D, s) # 0 /\ s \in ServiceNames(D) /\ x[1] = s BY <3>1, <3>2, <1>3, <1>4
    <3>4. QED BY <3>3, <1>0, <1>5, <1>7
  <2>3. QED BY <2>1, <2>2, <1>6
<1>8. ASSUME NEW x \in served PROVE x \in urls /\ x[1] \notin profiled
  <2>1. PICK s \in ServiceNames(D) : x = LabelOf(D, s) /\ Label(D, s) # 0 /\ ~HasProfiles(D, s) BY <1>0
  <2>2. x[1] \notin profiled BY <2>1, <1>3, <1>5
  <2>3. CASE Label(P2, s) # 0
    <3>1. x \in b.urls BY <2>1, <2>3, <1>2, <1>4
    <3>2. QED BY <3>1, <2>2, <1>6
  <2>4. CASE Label(P2, s) = 0
    <3>1. Label(P1, s) # 0 /\ x = LabelOf(P1, s) BY <2>1, <2>4, <1>4
    <3>2. x \in a.urls BY <3>1, <1>2, <1>4
    <3>3. ASSUME NEW y \in b.urls, y[1] = x[1] PROVE FALSE
      <4>1. PICK t \in ServiceNames(P2) : y = LabelOf(P2, t) /\ Label(P2, t) # 0 BY <1>2
      <4>2. t = s BY <4>1, <3>1, <3>3, <1>3
      <4>3. QED BY <4>1, <4>2, <2>4
    <3>4. QED BY <3>2, <3>3, <2>2, <1>6
  <2>5. QED BY <2>3, <2>4
<1>9. QED BY <1>1, <1>7, <1>8 DEF D, served

-----------------------------------------------------------------------------
(* The state: what a command has made of the files it has processed.        *)

teamResolved == ResolveAfter(source["team"], {})
teamBuilds == BuildServices(teamResolved)
localResolved == ResolveAfter(source["local"], teamBuilds)

Fits(docs, names) == \A m \in Modes : ~PruneFails(docs, names[m])
KeptOf(docs, names) == [m \in Modes |-> Pruned(docs, names[m])]
Reached == [m \in Modes |-> Generated[m] \cup ServiceNames(copies["team"][m])]

TeamDone ==
  /\ ~ResolveFails(source["team"]) /\ Fits(teamResolved, Generated)
  /\ copies["team"] = KeptOf(teamResolved, Generated)

LocalDone ==
  /\ ~ResolveFails(source["local"]) /\ Fits(localResolved, Reached)
  /\ copies["local"] = KeptOf(localResolved, Reached)

Sources == dir \in Dirs /\ DOMAIN source = {"team", "local"} /\ \A f \in {"team", "local"} : IsOverride(source[f])

TeamNext == known = Generated /\ built = {} /\ errors = {} /\ analyses = <<>>

LocalNext ==
  errors = {} => /\ TeamDone /\ known = Reached /\ built = teamBuilds
                 /\ analyses = <<Analyze(copies["team"]["base"])>>

BothDone ==
  errors = {} => /\ TeamDone /\ LocalDone
                 /\ analyses = <<Analyze(copies["team"]["base"]), Analyze(copies["local"]["base"])>>

CopiesInv ==
  /\ Sources /\ DOMAIN copies = {"team", "local"}
  /\ at = "write" => /\ todo \in {OverrideFiles, <<"local">>, <<>>}
                     /\ todo = OverrideFiles => TeamNext
                     /\ todo = <<"local">> => LocalNext
                     /\ todo = <<>> => BothDone

LEMMA TodoFacts ==
  /\ OverrideFiles # <<"local">> /\ OverrideFiles # <<>> /\ <<"local">> # <<>>
  /\ Head(OverrideFiles) = "team" /\ Tail(OverrideFiles) = <<"local">>
  /\ Head(<<"local">>) = "local" /\ Tail(<<"local">>) = <<>>
BY DEF OverrideFiles

LEMMA NothingWritten == IsOverride(Absent) /\ IsOverride(Broken)
BY DEF IsOverride, Absent

\* Files that stay are resolved as before.
LEMMA ResolvedStays ==
  ASSUME UNCHANGED <<source, dir>>
  PROVE  /\ teamResolved' = teamResolved /\ teamBuilds' = teamBuilds /\ localResolved' = localResolved
         /\ \A f \in {"team", "local"} : ResolveFails(source[f])' <=> ResolveFails(source[f])
<1>1. ASSUME NEW d, NEW before PROVE document(d, before)' = document(d, before)
  BY DEF document, serviceEntry, buildMapping, ResolvedAnchor, volume, NeedsLong, rewrite, escapeDollar, defaultContext
<1>2. teamResolved' = teamResolved
  BY <1>1 DEF teamResolved, ResolveAfter
<1>3. teamBuilds' = teamBuilds
  BY <1>2 DEF teamBuilds
<1>4. localResolved' = localResolved
  BY <1>1, <1>3 DEF localResolved, ResolveAfter
<1>5. \A f \in {"team", "local"} : ResolveFails(source[f])' <=> ResolveFails(source[f])
  BY DEF ResolveFails, longVolumeFails, NeedsLong
<1>6. QED BY <1>2, <1>3, <1>4, <1>5

LEMMA CopiesInit == ASSUME OverridesInit PROVE CopiesInv
<1>1. PICK p \in Projects : source = [team |-> p.team, local |-> p.local] /\ dir = p.dir
  BY DEF OverridesInit
<1>2. Sources
  BY <1>1, OverridesAssumption DEF Sources, Dirs
<1>3. DOMAIN copies = {"team", "local"} /\ at # "write"
  BY DEF OverridesInit, NoCopies
<1>4. QED BY <1>2, <1>3 DEF CopiesInv

LEMMA RewriteKeeps == ASSUME CopiesInv, Rewrite PROVE CopiesInv'
<1>1. Sources' /\ (DOMAIN copies = {"team", "local"})'
  BY DEF CopiesInv, Rewrite, Sources
<1>2. todo' = OverrideFiles /\ TeamNext'
  BY DEF Rewrite, TeamNext
<1>3. QED BY <1>1, <1>2, TodoFacts DEF CopiesInv

LEMMA DropKeeps == ASSUME CopiesInv, drop PROVE CopiesInv'
<1>1. Sources' /\ (DOMAIN copies = {"team", "local"})'
  BY DEF CopiesInv, drop, Sources
<1>2. errors' # {}
  BY DEF drop
<1>3. todo' \in {<<"local">>, <<>>}
  BY TodoFacts DEF CopiesInv, drop
<1>4. LocalNext' /\ BothDone'
  BY <1>2 DEF LocalNext, BothDone
<1>5. QED BY <1>1, <1>3, <1>4, TodoFacts DEF CopiesInv

LEMMA AppendedOne ==
  ASSUME NEW S, NEW t \in Seq(S), NEW e \in S, Len(t) = 1
  PROVE  Append(t, e) \in Seq(S) /\ Len(Append(t, e)) = 2 /\ Append(t, e)[1] = t[1] /\ Append(t, e)[2] = e
<1>1. /\ Append(t, e) \in Seq(S) /\ Len(Append(t, e)) = Len(t) + 1
      /\ Append(t, e)[Len(t) + 1] = e /\ \A i \in 1..Len(t) : Append(t, e)[i] = t[i]
  OBVIOUS
<1>2. Len(t) + 1 = 2 /\ 1 \in 1..Len(t) OBVIOUS
<1>3. QED BY <1>1, <1>2

LEMMA Appended ==
  ASSUME NEW a, NEW b
  PROVE  Append(<<>>, a) = <<a>> /\ Append(<<a>>, b) = <<a, b>>
<1>1. Append(<<>>, a) = <<a>> OBVIOUS
<1> DEFINE S == {a, b}
           one == <<a>>
           two == Append(one, b)
<1>2. one \in Seq(S) /\ Len(one) = 1 /\ one[1] = a /\ b \in S OBVIOUS
<1> HIDE DEF one, S
<1>3. two \in Seq(S) /\ Len(two) = 2 /\ two[1] = a /\ two[2] = b BY <1>2, AppendedOne
<1> HIDE DEF two
<1>4. two = [i \in 1..2 |-> two[i]] BY <1>3
<1>5. two = <<a, b>> BY <1>3, <1>4
<1>6. QED BY <1>1, <1>5, Zenon DEF two, one

LEMMA WriteKeeps == ASSUME CopiesInv, writeOrRemove PROVE CopiesInv'
<1> DEFINE kept == KeptOf(Resolved, known)
<1>1. Sources' /\ (DOMAIN copies = {"team", "local"})'
  BY DEF CopiesInv, writeOrRemove, Sources
<1>2. UNCHANGED <<source, dir, errors>> /\ at = "write" /\ todo' = Tail(todo) /\ todo # <<>>
  BY DEF writeOrRemove
<1>3. /\ ~ResolveFails(source[Head(todo)]) /\ Fits(Resolved, known)
      /\ copies' = [copies EXCEPT ![Head(todo)] = kept]
      /\ analyses' = Append(analyses, Analyze(kept["base"]))
      /\ known' = [m \in Modes |-> known[m] \cup ServiceNames(kept[m])]
      /\ built' = built \cup BuildServices(Resolved)
  BY DEF writeOrRemove, Unusable, Fits, KeptOf, KnownAfter
<1>4. /\ teamResolved' = teamResolved /\ teamBuilds' = teamBuilds /\ localResolved' = localResolved
      /\ \A f \in {"team", "local"} : ResolveFails(source[f])' <=> ResolveFails(source[f])
  BY <1>2, ResolvedStays
<1> HIDE DEF kept
<1>5. CASE todo = OverrideFiles
  <2>1. Head(todo) = "team" /\ todo' = <<"local">> /\ TeamNext
    BY <1>2, <1>5, TodoFacts DEF CopiesInv
  <2>2. Resolved = teamResolved /\ kept = KeptOf(teamResolved, Generated)
    BY <2>1 DEF Resolved, teamResolved, TeamNext, kept
  <2>3. copies'["team"] = kept
    BY <2>1, <1>3 DEF CopiesInv
  <2>4. TeamDone'
    <3>1. Fits(teamResolved, Generated)' BY <2>1, <2>2, <1>3, <1>4 DEF Fits, TeamNext
    <3>2. KeptOf(teamResolved, Generated)' = KeptOf(teamResolved, Generated) BY <1>4 DEF KeptOf
    <3>3. ~ResolveFails(source["team"])' BY <2>1, <1>3, <1>4
    <3>4. QED BY <3>1, <3>2, <3>3, <2>2, <2>3 DEF TeamDone
  <2>5. known' = Reached'
    BY <2>1, <2>3, <1>3 DEF TeamNext, Reached
  <2>6. built' = teamBuilds'
    BY <2>1, <2>2, <1>3, <1>4 DEF TeamNext, teamBuilds
  <2>7. analyses' = <<Analyze(copies'["team"]["base"])>>
    <3>2. analyses' = Append(<<>>, Analyze(kept["base"])) BY <2>1, <1>3 DEF TeamNext
    <3>3. QED BY <3>2, <2>3, Appended, Zenon
  <2>8. LocalNext' BY <2>4, <2>5, <2>6, <2>7 DEF LocalNext
  <2>9. QED BY <1>1, <2>1, <2>8, TodoFacts DEF CopiesInv
<1>6. CASE todo = <<"local">>
  <2>1. Head(todo) = "local" /\ todo' = <<>> /\ LocalNext
    BY <1>2, <1>6, TodoFacts DEF CopiesInv
  <2>2. SUFFICES ASSUME errors = {} PROVE BothDone'
    BY <1>1, <1>2, <2>1, TodoFacts DEF CopiesInv, BothDone
  <2>3. TeamDone /\ known = Reached /\ built = teamBuilds /\ analyses = <<Analyze(copies["team"]["base"])>>
    BY <2>1, <2>2 DEF LocalNext
  <2>4. Resolved = localResolved /\ kept = KeptOf(localResolved, Reached)
    BY <2>1, <2>3 DEF Resolved, localResolved, kept
  <2>5. copies'["team"] = copies["team"] /\ copies'["local"] = kept
    BY <2>1, <1>3 DEF CopiesInv
  <2>6. Reached' = Reached BY <2>5 DEF Reached
  <2>7. TeamDone'
    <3>1. Fits(teamResolved, Generated)' BY <2>3, <1>4 DEF Fits, TeamDone
    <3>2. KeptOf(teamResolved, Generated)' = KeptOf(teamResolved, Generated) BY <1>4 DEF KeptOf
    <3>3. QED BY <3>1, <3>2, <2>3, <2>5, <1>4 DEF TeamDone
  <2>8. LocalDone'
    <3>1. Fits(localResolved, Reached)' BY <2>3, <2>4, <2>6, <1>3, <1>4 DEF Fits
    <3>2. KeptOf(localResolved, Reached)' = KeptOf(localResolved, Reached) BY <2>6, <1>4 DEF KeptOf
    <3>3. ~ResolveFails(source["local"])' BY <2>1, <1>3, <1>4
    <3>4. QED BY <3>1, <3>2, <3>3, <2>4, <2>5 DEF LocalDone
  <2>9. analyses' = <<Analyze(copies'["team"]["base"]), Analyze(copies'["local"]["base"])>>
    <3>2. analyses' = Append(<<Analyze(copies["team"]["base"])>>, Analyze(kept["base"])) BY <2>3, <1>3
    <3>3. QED BY <3>2, <2>5, Appended, Zenon
  <2>10. QED BY <2>7, <2>8, <2>9 DEF BothDone
<1>7. QED BY <1>2, <1>5, <1>6 DEF CopiesInv

LEMMA CopiesStep == ASSUME CopiesInv, [OverridesNext]_overridesVars PROVE CopiesInv'
<1>1. CASE Rewrite BY <1>1, RewriteKeeps
<1>2. CASE drop BY <1>2, DropKeeps
<1>3. CASE writeOrRemove BY <1>3, WriteKeeps
<1>4. CASE Ends
  <2>1. Sources' /\ (DOMAIN copies = {"team", "local"})' /\ at' # "write"
    BY <1>4 DEF CopiesInv, Ends, Sources
  <2>2. QED BY <2>1 DEF CopiesInv
<1>5. CASE Edit
  <2>1. PICK f \in {"team", "local"} : \E new \in {Absent, Broken} : source' = [source EXCEPT ![f] = new]
    BY <1>5 DEF Edit
  <2>2. Sources'
    <3>1. dir' \in Dirs /\ DOMAIN source' = {"team", "local"} BY <1>5, <2>1 DEF CopiesInv, Edit, Sources
    <3>2. \A g \in {"team", "local"} : source'[g] = source[g] \/ source'[g] \in {Absent, Broken}
      BY <2>1 DEF CopiesInv, Sources
    <3>3. \A g \in {"team", "local"} : IsOverride(source'[g]) BY <3>2, NothingWritten DEF CopiesInv, Sources
    <3>4. QED BY <3>1, <3>3 DEF Sources
  <2>3. (DOMAIN copies = {"team", "local"})' /\ at' # "write"
    BY <1>5 DEF CopiesInv, Edit
  <2>4. QED BY <2>2, <2>3 DEF CopiesInv
<1>6. CASE UNCHANGED overridesVars
  <2>1. UNCHANGED <<source, dir, copies, todo, known, built, errors, analyses, at>>
    BY <1>6 DEF overridesVars
  <2>2. /\ teamResolved' = teamResolved /\ teamBuilds' = teamBuilds /\ localResolved' = localResolved
        /\ \A f \in {"team", "local"} : ResolveFails(source[f])' <=> ResolveFails(source[f])
    BY <2>1, ResolvedStays
  <2>3. Reached' = Reached BY <2>1 DEF Reached
  <2>4. TeamDone' <=> TeamDone BY <2>1, <2>2 DEF TeamDone, Fits, KeptOf
  <2>5. LocalDone' <=> LocalDone BY <2>1, <2>2, <2>3 DEF LocalDone, Fits, KeptOf
  <2>6. TeamNext' <=> TeamNext BY <2>1 DEF TeamNext
  <2>7. LocalNext' <=> LocalNext BY <2>1, <2>2, <2>3, <2>4 DEF LocalNext
  <2>8. BothDone' <=> BothDone BY <2>1, <2>4, <2>5 DEF BothDone
  <2>9. Sources' <=> Sources BY <2>1 DEF Sources
  <2>10. QED BY <2>1, <2>6, <2>7, <2>8, <2>9 DEF CopiesInv
<1>7. QED BY <1>1, <1>2, <1>3, <1>4, <1>5, <1>6 DEF OverridesNext

LEMMA CopiesAlways == OverridesSpec => []CopiesInv
<1>1. OverridesInit => CopiesInv BY CopiesInit
<1>2. CopiesInv /\ [OverridesNext]_overridesVars => CopiesInv' BY CopiesStep
<1>3. QED BY <1>1, <1>2, PTL DEF OverridesSpec

-----------------------------------------------------------------------------
(* What a command that got through has written.                             *)

LEMMA UsableFile ==
  ASSUME NEW docs, IsOverride(docs), ~ResolveFails(docs)
  PROVE  docs \in Seq(Documents) /\ \A i \in 1..Len(docs) : WellFormed(docs[i])
<1>1. docs # Broken BY DEF ResolveFails
<1>2. docs \in Seq({docs[i] : i \in DOMAIN docs}) /\ \A i \in DOMAIN docs : IsDocument(docs[i]) /\ WellFormed(docs[i])
  BY <1>1 DEF IsOverride
<1>3. DOMAIN docs = 1..Len(docs) /\ docs = [i \in 1..Len(docs) |-> docs[i]] /\ Len(docs) \in Nat BY <1>2
<1>4. \A i \in 1..Len(docs) : docs[i] \in Documents BY <1>2, <1>3, DocumentTyped
<1>5. QED BY <1>2, <1>3, <1>4

\* P is the copy of the file of which W is what it tells, given what is known and has a build before.
IsCopy(P, W, docs, before, names) ==
  /\ Corresponds(P, W, before) /\ Len(W) = Len(docs)
  /\ \A i \in 1..Len(docs) :
       /\ services(W[i]) = services(docs[i]) \cap (names \cup Standalone(docs))
       /\ \A s \in services(W[i]) : entry(W[i], s) = entry(docs[i], s)
  /\ BuildServices(W) = BuildServices(docs)

LEMMA FileCopied ==
  ASSUME NEW docs, IsOverride(docs), ~ResolveFails(docs), NEW before, NEW names,
         ~PruneFails(ResolveAfter(docs, before), names)
  PROVE  IsCopy(Pruned(ResolveAfter(docs, before), names), Told(docs, names), docs, before, names)
<1>1. docs \in Seq(Documents) /\ \A i \in 1..Len(docs) : WellFormed(docs[i]) BY UsableFile
<1>2. QED BY <1>1, FileCorresponds DEF IsCopy

\* What the copy m of both files is, against what the files say.
LEMMA Copied ==
  ASSUME CopiesInv, Settled, NEW m \in Modes
  PROVE  /\ Corresponds(Copy(m), Meant(m), {})
         /\ copies["team"][m] \in Seq(Documents) /\ copies["local"][m] \in Seq(Documents)
         /\ \A s \in ServiceNames(Copy(m)) \ Generated[m] : \E k \in 1..Len(Meant(m)) : Serves(Meant(m), k, s)
<1> DEFINE team == source["team"]
           local == source["local"]
           PT == copies["team"][m]
           PL == copies["local"][m]
           WT == Only("team", m)
           WL == Only("local", m)
           names == Reached[m]
<1>1. TeamDone /\ LocalDone
  BY TodoFacts DEF CopiesInv, Settled, Ready, BothDone
<1>2. /\ team \in Seq(Documents) /\ \A i \in 1..Len(team) : WellFormed(team[i])
      /\ local \in Seq(Documents) /\ \A i \in 1..Len(local) : WellFormed(local[i])
  BY <1>1, UsableFile DEF CopiesInv, Sources, TeamDone, LocalDone
<1>3. PT = Pruned(teamResolved, Generated[m]) /\ ~PruneFails(teamResolved, Generated[m])
  BY <1>1 DEF TeamDone, KeptOf, Fits
<1>4. PL = Pruned(localResolved, names) /\ ~PruneFails(localResolved, names)
  BY <1>1 DEF LocalDone, KeptOf, Fits
<1>5. names = Generated[m] \cup ServiceNames(PT) BY DEF Reached
<1>6. WT = Told(team, Generated[m])
  BY DEF Only, Told, Has
<1>7. /\ Corresponds(PT, WT, {}) /\ Len(WT) = Len(team)
      /\ \A i \in 1..Len(team) :
           /\ services(WT[i]) = services(team[i]) \cap (Generated[m] \cup Standalone(team))
           /\ \A s \in services(WT[i]) : entry(WT[i], s) = entry(team[i], s)
      /\ BuildServices(WT) = BuildServices(team)
  <2> HIDE DEF WT, PT, team
  <2>1. ~PruneFails(ResolveAfter(team, {}), Generated[m]) BY <1>3 DEF teamResolved, team
  <2>2. PT = Pruned(ResolveAfter(team, {}), Generated[m]) BY <1>3 DEF teamResolved, team
  <2>3. IsOverride(team) /\ ~ResolveFails(team) BY <1>1 DEF CopiesInv, Sources, TeamDone, team
  <2>4. IsCopy(PT, WT, team, {}, Generated[m]) BY <1>6, <2>1, <2>2, <2>3, FileCopied
  <2>5. QED BY <2>4 DEF IsCopy
<1>8. teamBuilds = BuildServices(WT)
  <2>1. BuildServices(ResolveAfter(team, {})) = BuildServices(team) BY <1>2, FileResolved
  <2>2. QED BY <2>1, <1>7 DEF teamBuilds, teamResolved
<1>9. ServiceNames(PT) = ServiceNames(WT) BY <1>7, NamesKept
<1>10. \A s : s \in ServiceNames(WT) <=> s \in ServiceNames(team) /\ s \in Generated[m] \cup Standalone(team)
  <2>1. DOMAIN WT = 1..Len(team) /\ DOMAIN team = 1..Len(team) BY <1>2, <1>7 DEF Corresponds
  <2> HIDE DEF WT, team
  <2>2. QED BY <2>1, <1>7 DEF ServiceNames
<1>11. WL = Told(local, names)
  <2>1. \A s : Has("local", m, s) <=> s \in names \cup Standalone(local)
    BY <1>5, <1>9, <1>10 DEF Has
  <2>2. QED BY <2>1 DEF Only, Told
<1>12. /\ Corresponds(PL, WL, BuildServices(WT)) /\ Len(WL) = Len(local)
       /\ \A i \in 1..Len(local) :
            /\ services(WL[i]) = services(local[i]) \cap (names \cup Standalone(local))
            /\ \A s \in services(WL[i]) : entry(WL[i], s) = entry(local[i], s)
  <2> HIDE DEF WT, WL, PL, local, names
  <2>1. ~PruneFails(ResolveAfter(local, teamBuilds), names) BY <1>4 DEF localResolved, local
  <2>2. PL = Pruned(ResolveAfter(local, teamBuilds), names) BY <1>4 DEF localResolved, local
  <2>3. IsOverride(local) /\ ~ResolveFails(local) BY <1>1 DEF CopiesInv, Sources, LocalDone, local
  <2>4. IsCopy(PL, WL, local, teamBuilds, names) BY <1>11, <2>1, <2>2, <2>3, FileCopied
  <2>5. QED BY <1>8, <2>4 DEF IsCopy
<1>13. Copy(m) = PT \o PL /\ Meant(m) = WT \o WL BY DEF Copy, Meant
<1> HIDE DEF team, local, PT, PL, WT, WL, names
<1>14. Corresponds(Copy(m), Meant(m), {})
  <2>1. {} \cup BuildServices(WT) = BuildServices(WT) OBVIOUS
  <2>2. QED BY <2>1, <1>7, <1>12, <1>13, JoinedCorresponds
<1>15. PT \in Seq(Documents) /\ PL \in Seq(Documents) /\ WT \in Seq(Documents) /\ WL \in Seq(Documents)
  BY <1>7, <1>12 DEF Corresponds
<1>16. /\ Len(Meant(m)) = Len(WT) + Len(WL) /\ Len(WT) \in Nat /\ Len(WL) \in Nat
       /\ \A i \in 1..Len(WT) : Meant(m)[i] = WT[i]
       /\ \A i \in 1..Len(WL) : Meant(m)[Len(WT) + i] = WL[i]
  BY <1>13, <1>15, Joined
<1>17. ASSUME NEW s \in ServiceNames(WT), s \notin Generated[m]
       PROVE  \E k \in 1..Len(Meant(m)) : Serves(Meant(m), k, s)
  <2>1. PICK i \in 1..Len(WT) : Serves(WT, i, s) BY <1>17, <1>2, <1>7, <1>15, StandsAlone
  <2>2. i \in 1..Len(Meant(m)) BY <1>16
  <2>3. Serves(Meant(m), i, s) BY <2>1, <1>16 DEF Serves, Gives
  <2>4. QED BY <2>2, <2>3
<1>18. ASSUME NEW s \in ServiceNames(WL), s \notin names
       PROVE  \E k \in 1..Len(Meant(m)) : Serves(Meant(m), k, s)
  <2>1. PICK i \in 1..Len(WL) : Serves(WL, i, s) BY <1>18, <1>2, <1>12, <1>15, StandsAlone
  <2>2. Len(WT) + i \in 1..Len(Meant(m)) BY <1>16
  <2>3. Serves(Meant(m), Len(WT) + i, s) BY <2>1, <1>16 DEF Serves, Gives
  <2>4. QED BY <2>2, <2>3
<1>19. ASSUME NEW s \in ServiceNames(Copy(m)), s \notin Generated[m]
       PROVE  \E k \in 1..Len(Meant(m)) : Serves(Meant(m), k, s)
  <2>1. s \in ServiceNames(WT) \/ s \in ServiceNames(WL)
    <3>1. ServiceNames(Copy(m)) = ServiceNames(Meant(m)) BY <1>14, NamesKept
    <3>2. DOMAIN Meant(m) = 1..(Len(WT) + Len(WL)) BY <1>13, <1>15, Joined
    <3>3. PICK k \in 1..(Len(WT) + Len(WL)) : s \in services(Meant(m)[k]) BY <1>19, <3>1, <3>2 DEF ServiceNames
    <3>4. CASE k \in 1..Len(WT)
      <4>1. s \in services(WT[k]) /\ k \in DOMAIN WT BY <3>3, <3>4, <1>15, <1>16
      <4>2. QED BY <4>1 DEF ServiceNames
    <3>5. CASE k \notin 1..Len(WT)
      <4>1. k - Len(WT) \in 1..Len(WL) /\ k = Len(WT) + (k - Len(WT)) BY <3>5, <1>16
      <4>2. s \in services(WL[k - Len(WT)]) /\ k - Len(WT) \in DOMAIN WL BY <4>1, <3>3, <1>15, <1>16
      <4>3. QED BY <4>2 DEF ServiceNames
    <3>6. QED BY <3>4, <3>5
  <2>2. QED BY <2>1, <1>5, <1>9, <1>17, <1>18, <1>19
<1>20. QED BY <1>14, <1>15, <1>19 DEF PT, PL

LEMMA CopiesMean == CopiesInv => MeansWhatTheFilesSay
<1> SUFFICES ASSUME CopiesInv, Settled, NEW m \in Modes
             PROVE  /\ ServiceNames(Copy(m)) = ServiceNames(Meant(m))
                    /\ \A s \in ServiceNames(Copy(m)) :
                         LeftAside(Meant(m), s) \/ Service(Copy(m), s, "internal") = Service(Meant(m), s, "project")
  BY DEF MeansWhatTheFilesSay
<1>1. Corresponds(Copy(m), Meant(m), {}) BY Copied
<1>2. dir \in Dirs BY DEF CopiesInv, Sources
<1>3. ServiceNames(Copy(m)) = ServiceNames(Meant(m)) BY <1>1, NamesKept
<1>4. \A s : LeftAside(Meant(m), s) \/ Service(Copy(m), s, "internal") = Service(Meant(m), s, "project")
  BY <1>1, <1>2, ServiceKept
<1>5. QED BY <1>3, <1>4

LEMMA CopiesAccepted == CopiesInv => ComposeAccepts
<1> SUFFICES ASSUME CopiesInv, Settled, NEW m \in Modes, NEW s \in ServiceNames(Copy(m)) \ Generated[m],
                    ~Resets(Meant(m), s)
             PROVE  HasImage(Copy(m), s) \/ BuildContext(Copy(m), s, "internal") # None \/ Extends(Copy(m), s)
  BY DEF ComposeAccepts
<1>1. Corresponds(Copy(m), Meant(m), {}) BY Copied
<1>2. PICK k \in 1..Len(Meant(m)) : Serves(Meant(m), k, s) BY Copied
<1>3. dir \in Dirs BY DEF CopiesInv, Sources
<1>4. QED BY <1>1, <1>2, <1>3, Accepted

LEMMA CopiesServed == CopiesInv => UrlsAreServed
<1> SUFFICES ASSUME CopiesInv, Settled
             PROVE  OverrideAnalysis = Served(Copy("base"))
  BY DEF UrlsAreServed, Served
<1> DEFINE P1 == copies["team"]["base"]
           P2 == copies["local"]["base"]
<1>1. analyses = <<Analyze(P1), Analyze(P2)>>
  BY TodoFacts DEF CopiesInv, Settled, Ready, BothDone
<1>2. P1 \in Seq(Documents) /\ P2 \in Seq(Documents)
  BY Copied DEF Modes
<1>3. Copy("base") = P1 \o P2 BY DEF Copy
<1> HIDE DEF P1, P2
<1>4. QED BY <1>1, <1>2, <1>3, UrlsTogether

\* Compose makes of the copies what it would make of the user's files.
THEOREM CopiesMeanTheFiles == OverridesSpec => []MeansWhatTheFilesSay
BY CopiesAlways, CopiesMean, PTL

\* No copy of a command that gets through holds a service compose would reject.
THEOREM CopiesAreAccepted == OverridesSpec => []ComposeAccepts
BY CopiesAlways, CopiesAccepted, PTL

\* The URLs listed are those of the services that are started.
THEOREM UrlsServed == OverridesSpec => []UrlsAreServed
BY CopiesAlways, CopiesServed, PTL
=============================================================================
