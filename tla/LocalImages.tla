----------------------------- MODULE LocalImages -----------------------------
(* What orobox keeps up to date on a machine: its own binary, replaced by   *)
(* self-update, the published image it pulls, and the layer a project       *)
(* builds on that image. The layer carries a label with the hash of what it *)
(* was built from; a command that starts containers rebuilds it when the    *)
(* label is not that of the current inputs. Commands of several terminals   *)
(* interleave and may be killed; releases, images and edits keep coming.    *)
EXTENDS Naturals, FiniteSets

CONSTANTS
  Terminals,    \* shells in which orobox commands run
  MaxVersions,  \* bound: releases, published images, edits of the build context
  MaxCommands   \* bound: commands started

ASSUME ConstantsAssumption ==
  IsFiniteSet(Terminals) /\ MaxVersions \in Nat \ {0} /\ MaxCommands \in Nat

Versions == 1..MaxVersions
NoHash == [base |-> 0, context |-> 0]
Inodes == 0..(Cardinality(Terminals) + 1)   \* enough: the binary, the temporary name, one per writer
NoFile == Cardinality(Terminals) + 2

VARIABLES
  world,    \* the newest release, published image and version of the build context
  bin, tmp, \* the inodes behind the binary's name and the temporary name beside it
  inode,    \* per inode the version of its head and of the rest, 0 where nothing is written
  base,     \* the published image as pulled, 0 for none
  layer,    \* the project's image: its label and what it was built from
  stack,    \* what the image of the running containers was built from
  proc,     \* per terminal the command it runs
  started,  \* commands so far
  overlap   \* history: two self-updates were writing at once

vars == <<world, bin, tmp, inode, base, layer, stack, proc, started, overlap>>

Idle == [at |-> "idle", force |-> FALSE, own |-> 0, id |-> 0, hash |-> NoHash, file |-> NoFile,
         ok |-> TRUE, alone |-> TRUE]

Init ==
  /\ world = [release |-> 1, image |-> 1, context |-> 1]
  /\ bin = 0 /\ tmp = NoFile
  /\ inode = [i \in Inodes |-> IF i = 0 THEN <<1, 1>> ELSE <<0, 0>>]
  /\ base \in {0, 1}
  /\ layer = [label |-> NoHash, of |-> NoHash] /\ stack = NoHash
  /\ proc = [t \in Terminals |-> Idle]
  /\ started = 0 /\ overlap = FALSE

At(t, points) == proc[t].at \in points
To(t, point) == [proc[t] EXCEPT !.at = point]
Fails(t) == [proc[t] EXCEPT !.at = "done", !.ok = FALSE]

(* t goes on as p. A step that touches an image or the context is somebody  *)
(* else's doing for the others.                                             *)
Goes(t, p) == proc' = [proc EXCEPT ![t] = p]
Touches(t, p) == proc' = [u \in Terminals |-> IF u = t THEN p ELSE [proc[u] EXCEPT !.alone = FALSE]]

Whole(i) == inode[i][1] = inode[i][2] /\ inode[i][1] # 0

(* A terminal runs the binary there is; a broken one does not start.        *)
Start(t) ==
  /\ At(t, {"idle", "done"}) /\ started < MaxCommands /\ Whole(bin)
  /\ \E point \in {"check", "layer"}, force \in BOOLEAN :
       /\ force => point = "layer"
       /\ Goes(t, [Idle EXCEPT !.at = point, !.force = force, !.own = inode[bin][1]])
  /\ started' = started + 1
  /\ UNCHANGED <<world, bin, tmp, inode, base, layer, stack, overlap>>

-----------------------------------------------------------------------------
(* self-update: the binary.                                                 *)

getLatestRelease(t) ==
  /\ At(t, {"check"})
  /\ \/ world.release # proc[t].own /\ Goes(t, To(t, "create"))
     \/ world.release = proc[t].own /\ Goes(t, To(t, "done"))
     \/ Goes(t, Fails(t))
  /\ UNCHANGED <<world, bin, tmp, inode, base, layer, stack, started, overlap>>

(* The temporary file has one name: a second updater, or a rerun, truncates *)
(* the file that is there.                                                  *)
Writing(t) == At(t, {"head", "rest", "rename"})
Unused == CHOOSE i \in Inodes : i \notin {bin, tmp} \cup {proc[t].file : t \in Terminals}

OpenTemporary(t) ==
  /\ At(t, {"create"})
  /\ LET i == IF tmp = NoFile THEN Unused ELSE tmp
     IN tmp' = i /\ inode' = [inode EXCEPT ![i] = <<0, 0>>] /\ Goes(t, [To(t, "head") EXCEPT !.file = i])
  /\ overlap' = (overlap \/ \E u \in Terminals \ {t} : Writing(u) \/ At(u, {"cleanup"}))
  /\ UNCHANGED <<world, bin, base, layer, stack, started>>

(* The download: the head is checked before it is written, then the rest; a *)
(* lost connection ends in the clean-up.                                    *)
AfterLossM(t) == To(t, "rename")   \* mutant: the error of the copy is ignored
AfterLoss(t) == [To(t, "cleanup") EXCEPT !.ok = FALSE]

WriteHead(t) ==
  /\ At(t, {"head"})
  /\ \/ inode' = [inode EXCEPT ![proc[t].file][1] = world.release] /\ Goes(t, To(t, "rest"))
     \/ UNCHANGED inode /\ Goes(t, [To(t, "cleanup") EXCEPT !.ok = FALSE])
  /\ UNCHANGED <<world, bin, tmp, base, layer, stack, started, overlap>>

WriteRest(t) ==
  /\ At(t, {"rest"})
  /\ \/ /\ inode' = [inode EXCEPT ![proc[t].file][2] = inode[proc[t].file][1]]
        /\ Goes(t, To(t, "rename"))
     \/ UNCHANGED inode /\ Goes(t, AfterLoss(t))
  /\ UNCHANGED <<world, bin, tmp, base, layer, stack, started, overlap>>

Rename(t) ==
  /\ At(t, {"rename"})
  /\ \/ tmp # NoFile /\ bin' = tmp /\ tmp' = NoFile /\ Goes(t, To(t, "cleanup"))
     \/ UNCHANGED <<bin, tmp>> /\ Goes(t, [To(t, "cleanup") EXCEPT !.ok = FALSE])
  /\ UNCHANGED <<world, inode, base, layer, stack, started, overlap>>

(* Deferred in every case: whatever has the temporary name now goes away.   *)
RemoveTemporary(t) ==
  /\ At(t, {"cleanup"}) /\ tmp' = NoFile
  /\ Goes(t, [To(t, IF proc[t].ok THEN "images" ELSE "done") EXCEPT !.file = NoFile])
  /\ UNCHANGED <<world, bin, inode, base, layer, stack, started, overlap>>

-----------------------------------------------------------------------------
(* self-update: the images. The local ones, then those of the project,      *)
(* whose layer is replaced by its base; a digest that cannot be told is     *)
(* pulled, and a pull that fails is not an error.                           *)

NeedsPull == base # world.image

PullImages(t) ==
  /\ At(t, {"images"})
  /\ \/ base # 0 /\ NeedsPull /\ base' = world.image /\ Touches(t, To(t, "project images"))
     \/ UNCHANGED base /\ Goes(t, To(t, "project images"))
  /\ UNCHANGED <<world, bin, tmp, inode, layer, stack, started, overlap>>

PullProjectImages(t) ==
  /\ At(t, {"project images"})
  /\ \/ NeedsPull /\ base' = world.image /\ Touches(t, To(t, "done"))
     \/ UNCHANGED base /\ Goes(t, To(t, "done"))
  /\ UNCHANGED <<world, bin, tmp, inode, layer, stack, started, overlap>>

-----------------------------------------------------------------------------
(* The layer: `up` and every command that creates containers.               *)

(* The Dockerfile is read and the layer rendered before anything else; one  *)
(* that is missing or does not extend the base is refused.                  *)
ensureCustomImage(t) ==
  /\ At(t, {"layer"})
  /\ Goes(t, To(t, IF proc[t].force THEN "pull first" ELSE "inspect")) \/ Goes(t, Fails(t))
  /\ UNCHANGED <<world, bin, tmp, inode, base, layer, stack, started, overlap>>

(* --rebuild refreshes the base before its ID goes into the hash.           *)
pullImage(t) ==
  /\ At(t, {"pull first", "pull missing"})
  /\ \/ base' = world.image /\ Touches(t, To(t, IF At(t, {"pull first"}) THEN "inspect" ELSE "inspect again"))
     \/ UNCHANGED base /\ Goes(t, Fails(t))
  /\ UNCHANGED <<world, bin, tmp, inode, layer, stack, started, overlap>>

InspectBase(t) ==
  /\ At(t, {"inspect", "inspect again"})
  /\ \/ base # 0 /\ Goes(t, [To(t, "hash") EXCEPT !.id = base])
     \/ base = 0 /\ Goes(t, IF At(t, {"inspect"}) THEN To(t, "pull missing") ELSE Fails(t))
  /\ UNCHANGED <<world, bin, tmp, inode, base, layer, stack, started, overlap>>

customLayerHash(id) == [base |-> id, context |-> world.context]

HashInputs(t) ==
  /\ At(t, {"hash"})
  /\ LET want == customLayerHash(proc[t].id)
     IN Goes(t, [To(t, IF ~proc[t].force /\ layer.label = want THEN "up" ELSE "build") EXCEPT !.hash = want])
  /\ UNCHANGED <<world, bin, tmp, inode, base, layer, stack, started, overlap>>

(* docker build resolves the base and reads the context now.                *)
BuildBaseM == world.image   \* mutant: --pull
BuildBase == IF base = 0 THEN world.image ELSE base

buildCustomImage(t) ==
  /\ At(t, {"build"})
  /\ \/ /\ layer' = [label |-> proc[t].hash, of |-> [base |-> BuildBase, context |-> world.context]]
        /\ base' = IF base = 0 THEN world.image ELSE base
        /\ Touches(t, To(t, "up"))
     \/ UNCHANGED <<layer, base>> /\ Goes(t, Fails(t))
  /\ UNCHANGED <<world, bin, tmp, inode, stack, started, overlap>>

Up(t) ==
  /\ At(t, {"up"})
  /\ \/ stack' = layer.of /\ Touches(t, To(t, "done"))
     \/ UNCHANGED stack /\ Goes(t, Fails(t))
  /\ UNCHANGED <<world, bin, tmp, inode, base, layer, started, overlap>>

-----------------------------------------------------------------------------
(* A killed command leaves its files as they are.                           *)
Kill(t) ==
  /\ ~At(t, {"idle", "done"}) /\ Goes(t, Idle)
  /\ UNCHANGED <<world, bin, tmp, inode, base, layer, stack, started, overlap>>

(* A release, an image is published; the context is edited; images pruned.  *)
Publish ==
  /\ \E w \in {"release", "image"} :
       world[w] < MaxVersions /\ world' = [world EXCEPT ![w] = @ + 1]
  /\ proc' = [t \in Terminals |-> [proc[t] EXCEPT !.alone = FALSE]]
  /\ UNCHANGED <<bin, tmp, inode, base, layer, stack, started, overlap>>

EditContext ==
  /\ world.context < MaxVersions /\ world' = [world EXCEPT !.context = @ + 1]
  /\ proc' = [t \in Terminals |-> [proc[t] EXCEPT !.alone = FALSE]]
  /\ UNCHANGED <<bin, tmp, inode, base, layer, stack, started, overlap>>

Prune ==
  /\ base # 0 /\ base' = 0 /\ layer' = [label |-> NoHash, of |-> NoHash]
  /\ proc' = [t \in Terminals |-> [proc[t] EXCEPT !.alone = FALSE]]
  /\ UNCHANGED <<world, bin, tmp, inode, stack, started, overlap>>

Next ==
  \/ \E t \in Terminals :
       \/ Start(t) \/ getLatestRelease(t) \/ OpenTemporary(t) \/ WriteHead(t) \/ WriteRest(t)
       \/ Rename(t) \/ RemoveTemporary(t) \/ PullImages(t) \/ PullProjectImages(t)
       \/ ensureCustomImage(t) \/ pullImage(t) \/ InspectBase(t) \/ HashInputs(t) \/ buildCustomImage(t) \/ Up(t) \/ Kill(t)
  \/ Publish \/ EditContext \/ Prune

Spec == Init /\ [][Next]_vars

-----------------------------------------------------------------------------
(* The installed binary is a whole executable of one release at every       *)
(* moment, whatever fails or is killed and whatever file a killed update    *)
(* left under the temporary name, as long as no two updates ran at once.    *)
BinaryIsWhole == overlap \/ Whole(bin)

Inputs == [base |-> base, context |-> world.context]

(* An undisturbed command that starts containers runs them on the layer of  *)
(* the current inputs and leaves a label with which the next one does not   *)
(* build again, --rebuild included.                                         *)
UpRunsTheLayer == \A t \in Terminals :
  At(t, {"done"}) /\ proc[t].ok /\ proc[t].alone /\ proc[t].id # 0 =>
    stack = Inputs /\ layer = [label |-> Inputs, of |-> Inputs]
=============================================================================
