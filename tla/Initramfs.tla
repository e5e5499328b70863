---------------------------- MODULE Initramfs ----------------------------
(***************************************************************************)
(* The program the boot image runs first (src/initramfs/init.c): it mounts *)
(* the kernel's file systems, waits for the partition that holds the root  *)
(* file system, mounts it, copies the overlay of the boot image over it,   *)
(* and becomes the root file system's init.  Every step may be the last    *)
(* one before the power is lost; the boot image may be replaced while the  *)
(* phone is off.                                                           *)
(*                                                                         *)
(* An entry of the overlay is a regular file or a symbolic link.  What a   *)
(* file holds is abstracted to the image it is a whole copy of; where a    *)
(* link points is left out.  So are the calls whose errors the program     *)
(* passes over in silence: opens, writes, links and directories that fail  *)
(* (a full or read-only file system), after which an entry is missing.     *)
(***************************************************************************)
EXTENDS Integers, FiniteSets

CONSTANTS
  Files,       \* the regular files of the overlay
  Links,       \* its symbolic links
  Tries,       \* how often the partition is looked for (240 in the code)
  MaxImages,   \* how many boot images are ever flashed
  MaxLosses    \* how often the power is lost

ASSUME OverlayAssumption == Files \cap Links = {}
ASSUME TriesAssumption == Tries \in Nat \ {0}
ASSUME ImagesAssumption == MaxImages \in Nat \ {0}
ASSUME LossesAssumption == MaxLosses \in Nat

Entries == Files \cup Links

VARIABLES
  phase,     \* how far the boot is
  image,     \* the boot image that is flashed, as a number
  disk,      \* what the root file system holds of each file
  linked,    \* the links that exist on it
  dirty,     \* the entries written since power on, maybe not yet on the disk
  done,      \* the entries of the overlay this boot has visited
  copying,   \* the file whose copy is open, as a set of at most one
  node,      \* whether the partition's device node exists
  tries,     \* how many more looks for it are allowed
  losses     \* how often the power was lost

store == <<image, disk, linked, dirty>>
deploying == <<done, copying>>
outside == <<node, losses>>
bootVars == <<phase, store, deploying, tries, outside>>

Phases == {"off", "mounts", "search", "mount", "deploy", "move", "init", "dead"}

\* What a file's path holds: from is the image that a whole copy is of, 0 when
\* the file is empty or cut short.
Content == [there : BOOLEAN, from : 0 .. MaxImages]
Nothing == [there |-> FALSE, from |-> 0]
Broken == [there |-> TRUE, from |-> 0]
Copy(i) == [there |-> TRUE, from |-> i]

BootTypeOK ==
  /\ phase \in Phases
  /\ image \in 1 .. MaxImages
  /\ disk \in [Files -> Content]
  /\ linked \subseteq Links
  /\ dirty \subseteq Entries
  /\ done \subseteq Entries
  /\ copying \subseteq Files
  /\ node \in BOOLEAN
  /\ tries \in 0 .. Tries
  /\ losses \in 0 .. MaxLosses

\* A phone that is off, its root file system written with or without the
\* overlay of the first image.
BootInit ==
  /\ phase = "off" /\ image = 1
  /\ disk \in [Files -> {Nothing, Copy(1)}]
  /\ linked \in SUBSET Links
  /\ dirty = {} /\ done = {} /\ copying = {}
  /\ node = FALSE /\ tries = Tries /\ losses = 0

-----------------------------------------------------------------------------
(* Outside the program: the power, the flash tool and the kernel.          *)

PowerOn ==
  /\ phase = "off" /\ phase' = "mounts"
  /\ UNCHANGED <<store, deploying, tries, outside>>

\* Nothing is synced after a copy, so any file written since power on may be
\* found empty and any link made since power on may be missing.
PowerLoss ==
  /\ phase # "off" /\ phase' = "off"
  /\ losses < MaxLosses /\ losses' = losses + 1
  /\ \E lost \in SUBSET dirty :
       /\ disk' = [f \in Files |-> IF f \in lost THEN Broken ELSE disk[f]]
       /\ linked' = linked \ lost
  /\ dirty' = {} /\ done' = {} /\ copying' = {}
  /\ node' = FALSE /\ tries' = Tries
  /\ UNCHANGED image

\* A person flashes another boot image.
NewImage ==
  /\ phase = "off"
  /\ image < MaxImages /\ image' = image + 1
  /\ UNCHANGED <<phase, disk, linked, dirty, deploying, tries, outside>>

NodeAppears ==
  /\ phase \in {"mounts", "search"}
  /\ ~node /\ node' = TRUE
  /\ UNCHANGED <<phase, store, deploying, tries, losses>>

-----------------------------------------------------------------------------
(* The program                                                             *)

\* die() exits the first process, and the kernel stops there.
Die ==
  /\ phase' = "dead"
  /\ UNCHANGED <<store, deploying, tries, outside>>

\* A mount of the program, or its last exec, either works or ends in die().
\* The count of tries is no more needed once a later step is reached.
Reach(next) ==
  /\ phase' = next /\ tries' = Tries
  /\ UNCHANGED <<store, deploying, outside>>

MountKernelFs ==
  /\ phase = "mounts"
  /\ Reach("search") \/ Die

FindUserdata_NoLimit ==
  /\ phase = "search"
  /\ IF node
       THEN Reach("mount")
       ELSE /\ tries' = tries - 1
            /\ UNCHANGED <<phase, store, deploying, outside>>

FindUserdata_Forever ==
  /\ phase = "search"
  /\ IF node
       THEN Reach("mount")
       ELSE UNCHANGED bootVars

\* find_userdata looks again as long as tries are left.
FindUserdata ==
  /\ phase = "search"
  /\ IF node
       THEN Reach("mount")
       ELSE IF tries > 1
              THEN /\ tries' = tries - 1
                   /\ UNCHANGED <<phase, store, deploying, outside>>
              ELSE Die

MountUserdata ==
  /\ phase = "mount"
  /\ Reach("deploy") \/ Die

OpenCopy_IfAbsent(f) ==
  IF disk[f].there
    THEN /\ done' = done \cup {f}
         /\ UNCHANGED <<disk, copying>>
    ELSE /\ disk' = [disk EXCEPT ![f] = Broken]
         /\ copying' = {f}
         /\ UNCHANGED done

\* copy_file opens the destination with O_TRUNC ...  (Its open may fail, which
\* it does not report: left out.)
OpenCopy(f) ==
  /\ disk' = [disk EXCEPT ![f] = Broken]
  /\ copying' = {f}
  /\ UNCHANGED done

DeployFile ==
  /\ phase = "deploy" /\ copying = {}
  /\ \E f \in Files \ done :
       /\ OpenCopy(f)
       /\ dirty' = dirty \cup {f}
  /\ UNCHANGED <<phase, image, linked, tries, outside>>

\* ... and writes until the source ends.
FinishCopy ==
  /\ phase = "deploy"
  /\ \E f \in copying :
       /\ disk' = [disk EXCEPT ![f] = Copy(image)]
       /\ done' = done \cup {f}
  /\ copying' = {}
  /\ UNCHANGED <<phase, image, linked, dirty, tries, outside>>

\* symlink() fails, unnoticed, when the path exists: the link stays what it was.
DeployLink ==
  /\ phase = "deploy" /\ copying = {}
  /\ \E l \in Links \ done :
       /\ done' = done \cup {l}
       /\ linked' = linked \cup {l}
       /\ dirty' = IF l \in linked THEN dirty ELSE dirty \cup {l}
  /\ UNCHANGED <<phase, image, disk, copying, tries, outside>>

DeployEnds ==
  /\ phase = "deploy" /\ done = Entries
  /\ Reach("move")

\* The mounts move below the new root, which becomes the root, and the first
\* process becomes its init.
SwitchRoot ==
  /\ phase = "move"
  /\ Reach("init") \/ Die

Program == MountKernelFs \/ FindUserdata \/ MountUserdata \/ DeployFile
             \/ FinishCopy \/ DeployLink \/ DeployEnds \/ SwitchRoot

BootNext == PowerOn \/ PowerLoss \/ NewImage \/ NodeAppears \/ Program

BootSpec == BootInit /\ [][BootNext]_bootVars

-----------------------------------------------------------------------------
(* Properties                                                              *)

\* Whatever earlier boots were cut short in the middle of a copy, and
\* whichever image they ran, once the root file system's init runs every file
\* of the overlay is a whole copy of the image that is flashed, and every link
\* exists (deploy_overlay copies all of it on every boot; a file is emptied
\* before it is written).
DeployedAtInit ==
  phase = "init" =>
    /\ \A f \in Files : disk[f] = Copy(image)
    /\ linked = Links

\* A boot that is not cut short ends: in the root file system's init, or in
\* die() when a mount fails or the partition does not appear in time
\* (find_userdata counts its tries).
BootSettles == (phase = "mounts") ~> (phase \in {"init", "dead", "off"})
=============================================================================
