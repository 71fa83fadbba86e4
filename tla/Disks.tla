-------------------------------- MODULE Disks --------------------------------
(***************************************************************************)
(* The disk images of the virtual machine (internal/host/disk_darwin.go)   *)
(* over several boots, between which the user edits the configuration:     *)
(* prepareDisks creates, grows or sizes the image files and reads what     *)
(* file system they hold (internal/host/disk); when the guest is up the    *)
(* mount function of each disk formats, checks, resizes and mounts it.     *)
(* The daemon may die at any step, and each command of the guest may fail, *)
(* which ends the boot.                                                    *)
(*                                                                         *)
(* The disks are taken in any order, though the code goes by label and by  *)
(* the length of the mount point: no disk looks at another.  prepareDisks  *)
(* starts the reading of a file system and the mount function awaits it;   *)
(* nothing writes to the image before, so that it is one step here.  Sizes *)
(* count units; the bytes an integer division drops are left out.          *)
(***************************************************************************)
EXTENDS Integers, FiniteSets, FiniteSetsExt

CONSTANTS Images,       \* labels of the disks
          FileSystems,  \* that the configuration may name
          Sizes,        \* that it may set; 0 is no size
          Total, Frees, \* the host's file system, and its free space at a boot
          maxAutoSize,
          MaxBoots,     \* bound: boots
          MaxEdits      \* bound: edits of the configuration

ASSUME SizesAssumption == Sizes \subseteq Nat /\ Frees \subseteq Nat /\ Total \in Nat /\ maxAutoSize \in Nat
ASSUME BoundsAssumption == MaxBoots \in Nat /\ MaxEdits \in Nat /\ IsFiniteSet(Images)

VARIABLES
  config,   \* of each disk: the file system and the size it should have
  file,     \* size of each image file, or Absent
  fs,       \* what each image holds: a file system, its size, the user's data
  pc,       \* "off", "prepare", "machine", "up", or a step of a mount function
  cur,      \* the disk whose mount function runs
  todo,     \* disks the current loop has still to reach
  found,    \* for each disk, what fsIdentify will return
  size,     \* its variable "size"
  stat,     \* its variable "stat"
  empty,    \* emptyDisks
  mounted,  \* disks mounted in the guest
  settled,  \* disks that came up since their configuration was edited
  boots, edits

disk_vars == <<config, file, fs>>
prep_vars == <<found, size, stat, empty>>
vars == <<disk_vars, pc, cur, todo, prep_vars, mounted, settled, boots, edits>>

Absent == -1
None == [type |-> "none", size |-> 0, data |-> FALSE]
Configs == [fs : FileSystems, size : Sizes]

\* maxAutoSize, or 100/25 of the disk, or 100/50 of its free space, shared
\* among the images on it
AutoSize(n, free) == Min({maxAutoSize, 4 * Total, 2 * free}) \div n

\* what an image can be given
FileSizes == {0} \union Sizes \union {AutoSize(n, free) : n \in 1 .. Cardinality(Images), free \in Frees}
Contents == [type : FileSystems \union {"none"}, size : FileSizes, data : BOOLEAN]

\* disk.Identify knows squashfs, ext4, btrfs and xfs
Identified(type) == type \in {"ext4", "btrfs", "xfs"}
Resizable(type) == type \in {"ext4", "btrfs"}

MountSteps == {"format", "attach", "resize", "truncate", "mount"}

TypeOK ==
  /\ config \in [Images -> Configs] /\ fs \in [Images -> Contents]
  /\ file \in [Images -> FileSizes \union {Absent}] /\ stat \in [Images -> FileSizes \union {Absent}]
  /\ found \in [Images -> Contents] /\ size \in [Images -> FileSizes]
  /\ \A d \in Images : found[d].type = "none" \/ Identified(found[d].type)
  /\ pc \in {"off", "prepare", "machine", "up", "next"} \union MountSteps
  /\ todo \subseteq Images /\ empty \subseteq Images /\ cur \in Images
  /\ settled \subseteq Images /\ mounted \subseteq Images /\ (mounted # {} => pc \in {"next", "up"} \union MountSteps)
  /\ pc \in MountSteps => cur \notin todo
  /\ boots \in 0 .. MaxBoots /\ edits \in 0 .. MaxEdits

Init ==
  /\ config \in [Images -> Configs]
  /\ file = [d \in Images |-> Absent] /\ fs = [d \in Images |-> None]
  /\ pc = "off" /\ cur \in Images /\ todo = {}
  /\ found = [d \in Images |-> None] /\ size = [d \in Images |-> 0] /\ stat = [d \in Images |-> Absent]
  /\ empty = {} /\ mounted = {} /\ settled = {}
  /\ boots = 0 /\ edits = 0

(***************************************************************************)
(* The host's file system.                                                 *)
(***************************************************************************)
\* Truncate cuts off or appends; what is left of a larger file system has its
\* superblock still, and not the user's data
CutOff(f) == [type |-> f.type, size |-> f.size, data |-> FALSE]

SetFileSize(D, n) ==
  /\ file' = [d \in Images |-> IF d \in D THEN n ELSE file[d]]
  /\ fs' = [d \in Images |-> IF d \in D /\ fs[d].size > n THEN CutOff(fs[d]) ELSE fs[d]]

(***************************************************************************)
(* prepareDisks.                                                           *)
(***************************************************************************)
Boot ==
  /\ pc = "off" /\ boots < MaxBoots
  /\ pc' = "prepare" /\ todo' = Images /\ boots' = boots + 1
  /\ UNCHANGED <<disk_vars, cur, prep_vars, mounted, settled, edits>>

\* no size, and os.Stat has found the file
Unset(d) == config[d].size = 0 /\ file[d] # Absent
Differs(d) == ~Unset(d) /\ file[d] # config[d].size
Grows(d) == ~Unset(d) /\ file[d] < config[d].size
Creates(d) == file[d] = Absent

\* what identification reads, once the file has its size
Identify(d) == IF Identified(fs[d].type) THEN fs[d] ELSE None

PrepareDisk(d) ==
  /\ pc = "prepare" /\ d \in todo /\ todo' = todo \ {d}
  /\ stat' = [stat EXCEPT ![d] = file[d]]
  /\ IF Unset(d)
     THEN /\ size' = [size EXCEPT ![d] = file[d]]
          /\ found' = [found EXCEPT ![d] = None]
          /\ empty' = empty \union {d}
          /\ UNCHANGED <<file, fs>>
     ELSE /\ size' = [size EXCEPT ![d] = config[d].size]
          /\ found' = [found EXCEPT ![d] = Identify(d)]
          /\ IF Creates(d) \/ Grows(d) THEN SetFileSize({d}, config[d].size) ELSE UNCHANGED <<file, fs>>
          /\ UNCHANGED empty
  /\ UNCHANGED <<config, pc, cur, mounted, settled, boots, edits>>

\* the sizes of emptyDisks, all on one file system of the host
PrepareAutoImages ==
  /\ pc = "prepare" /\ todo = {} /\ pc' = "machine"
  /\ IF empty = {}
     THEN UNCHANGED <<file, fs>>
     ELSE \E free \in Frees : SetFileSize(empty, AutoSize(Cardinality(empty), free))
  /\ UNCHANGED <<config, cur, todo, prep_vars, mounted, settled, boots, edits>>

(***************************************************************************)
(* The machine starts, and mountFilesystems calls the mount functions.     *)
(***************************************************************************)
StartMachine ==
  /\ pc = "machine" /\ pc' = "next" /\ todo' = Images
  /\ UNCHANGED <<disk_vars, cur, prep_vars, mounted, settled, boots, edits>>

Formats(d) == found[d].type # config[d].fs
ResizesImage(d) == size[d] # stat[d] /\ size[d] # 0
Resizes(d) == size[d] # found[d].size /\ size[d] # 0

MountFunc(d) ==
  /\ pc = "next" /\ d \in todo /\ todo' = todo \ {d} /\ cur' = d
  /\ pc' = IF Formats(d) THEN "format"
           ELSE IF Resizes(d) /\ config[d].fs = "ext4" THEN "resize"
           ELSE IF Resizes(d) /\ config[d].fs = "btrfs" THEN "attach" ELSE "mount"
  /\ UNCHANGED <<disk_vars, prep_vars, mounted, settled, boots, edits>>

Image(d, f) == fs' = [fs EXCEPT ![d] = f]

\* mkfs, on a device as large as the file
Mkfs ==
  /\ pc = "format" /\ file[cur] > 0 /\ pc' = "mount"
  /\ Image(cur, [type |-> config[cur].fs, size |-> file[cur], data |-> FALSE])
  /\ UNCHANGED <<config, file, cur, todo, prep_vars, mounted, settled, boots, edits>>

\* e2fsck and resize2fs before the mount, or btrfs resize after it; they refuse
\* a file system larger than its device
Resize ==
  /\ pc = "resize" /\ fs[cur].size <= file[cur] /\ pc' = "truncate"
  /\ fs' = [fs EXCEPT ![cur].size = size[cur]]
  /\ UNCHANGED <<config, file, cur, todo, prep_vars, mounted, settled, boots, edits>>

AfterResize(d) == IF d \in mounted THEN "next" ELSE "mount"

TruncateImage ==
  /\ pc = "truncate" /\ pc' = AfterResize(cur)
  /\ IF stat[cur] > size[cur] THEN SetFileSize({cur}, size[cur]) ELSE UNCHANGED <<file, fs>>
  /\ UNCHANGED <<config, cur, todo, prep_vars, mounted, settled, boots, edits>>

MountThenTruncate ==
  /\ pc \in {"attach", "mount"} /\ pc' = IF pc = "attach" THEN "truncate" ELSE "next"
  /\ fs[cur].type = config[cur].fs /\ fs[cur].size <= file[cur]
  /\ mounted' = mounted \union {cur}
  /\ UNCHANGED <<disk_vars, cur, todo, prep_vars, settled, boots, edits>>

\* the guest's kernel refuses a file system larger than its device
Mount ==
  /\ pc \in {"attach", "mount"} /\ pc' = IF pc = "attach" THEN "resize" ELSE "next"
  /\ fs[cur].type = config[cur].fs /\ fs[cur].size <= file[cur]
  /\ mounted' = mounted \union {cur}
  /\ UNCHANGED <<disk_vars, cur, todo, prep_vars, settled, boots, edits>>

Mounted ==
  /\ pc = "next" /\ todo = {} /\ pc' = "up"
  /\ settled' = Images
  /\ UNCHANGED <<disk_vars, cur, todo, prep_vars, mounted, boots, edits>>

(***************************************************************************)
(* The user, and what goes wrong.                                          *)
(***************************************************************************)
Use(d) ==
  /\ pc = "up" /\ d \in mounted /\ ~fs[d].data
  /\ fs' = [fs EXCEPT ![d].data = TRUE]
  /\ UNCHANGED <<config, file, pc, cur, todo, prep_vars, mounted, settled, boots, edits>>

\* a stop, a crash, or a step of the boot that fails; a broken mkfs may leave
\* nothing that is identified.  The variables of prepareDisks end with the process
BootEnds ==
  /\ pc # "off" /\ pc' = "off" /\ mounted' = {} /\ todo' = {}
  /\ found' = [d \in Images |-> None] /\ size' = [d \in Images |-> 0]
  /\ stat' = [d \in Images |-> Absent] /\ empty' = {}
  /\ UNCHANGED fs \/ (pc = "format" /\ Image(cur, None))
  /\ UNCHANGED <<config, file, cur, settled, boots, edits>>

EditConfig(d) ==
  /\ pc = "off" /\ edits < MaxEdits /\ edits' = edits + 1
  /\ \E c \in Configs \ {config[d]} : config' = [config EXCEPT ![d] = c]
  /\ settled' = settled \ {d}
  /\ UNCHANGED <<file, fs, pc, cur, todo, prep_vars, mounted, boots>>

Next ==
  \/ Boot \/ PrepareAutoImages \/ StartMachine \/ Mkfs \/ Resize \/ TruncateImage
  \/ Mount \/ Mounted \/ BootEnds
  \/ \E d \in Images : PrepareDisk(d) \/ MountFunc(d) \/ Use(d) \/ EditConfig(d)

Spec == Init /\ [][Next]_vars

(***************************************************************************)
(* Properties.                                                             *)
(***************************************************************************)
\* What is in use is within its image: a file system that has the user's data or is
\* mounted is never larger than its file, although the one is resized in the guest
\* and the other on the host, a btrfs while it is mounted, and a boot may break off
\* between the two.
NothingCutOff == \A d \in Images : fs[d].data \/ d \in mounted => fs[d].size <= file[d]

\* a disk is Fresh from when prepareDisks has been at it until its mount function is
Mounting == pc \in {"next"} \union MountSteps

Fresh(d) ==
  \/ pc = "machine" \/ (pc = "prepare" /\ d \notin todo)
  \/ (Mounting /\ d \in todo) \/ (pc = "format" /\ d = cur)

\* What a mount function goes by is so: what was identified, before the machine was
\* started and the other disks were mounted, is still what the image holds, but for a
\* disk without a size, of which nothing is read.
IdentifiedInv ==
  \A d \in Images : Fresh(d) /\ d \notin empty =>
    found[d].type = Identify(d).type /\ found[d].size = Identify(d).size

\* The images, the file systems and the variables of a boot are well typed, with no
\* size but 0, those the configuration may set and those AutoSize may compute; nothing
\* in use is cut off; and each disk is what it was identified as.
DisksInv == TypeOK /\ NothingCutOff /\ IdentifiedInv

Loses(d) == fs[d].data /\ ~fs'[d].data

\* The user's data on a disk survives every boot, resize, failure and crash,
\* unless the configuration names another file system than the one it is on,
\* one that disk.Identify does not know, or no size.
DataKept ==
  [][\A d \in Images : Loses(d) =>
       config[d].fs # fs[d].type \/ ~Identified(fs[d].type) \/ config[d].size = 0]_vars

\* A disk comes up with the size of its configuration the second time it is
\* mounted under it, whatever the boots in between broke off: after the image
\* had grown and its file system had not, or the file system had shrunk and
\* the image had not.
AgainAsConfigured ==
  [][pc = "next" /\ pc' = "up" =>
       \A d \in settled : config[d].size # 0 /\ Resizable(config[d].fs)
         => fs[d].type = config[d].fs /\ fs[d].size = config[d].size]_vars

\* disk_darwin.go:272 computes sizes "for disks with no set size that do not
\* exist": a disk that exists is not formatted because it has none.
ExistingKept ==
  [][\A d \in Images : Loses(d) => config[d].fs # fs[d].type \/ ~Identified(fs[d].type)]_vars
=============================================================================
