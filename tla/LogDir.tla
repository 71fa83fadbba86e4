-------------------------------- MODULE LogDir --------------------------------
(***************************************************************************)
(* The log directory (internal/applog/dir.go): LogDirectory.Open scans it  *)
(* and goes on with the newest file, and fileLog writes each message there,*)
(* opens the next file when one is full and has the oldest removed.        *)
(*                                                                         *)
(* One stream: each has files of its own, and the nexus hands it messages  *)
(* in their order.  A message has length 1, its newline included unless it is  *)
(* Bare; a file is the sequence of its bytes, each known by the number of  *)
(* its message.  A file is named by the second it was opened in, and the   *)
(* wall clock does not go back.  Files last; their list, a util.List, and  *)
(* the removals under way (go os.Remove) do not.                           *)
(***************************************************************************)
EXTENDS Integers, Sequences, FiniteSets, SequencesExt

CONSTANTS Writers,   \* processes that open the directory
          MaxFiles, MaxFileSize,
          Bare,      \* messages without a newline
          MaxLines, MaxTime  \* bounds: messages written, seconds

ASSUME FilesAssumption == MaxFiles \in Nat \ {0} /\ MaxFileSize \in Nat /\ MaxFileSize >= 2
ASSUME LogBoundsAssumption == MaxLines \in Nat /\ MaxTime \in Nat \ {0}

VARIABLES
  now,      \* the second it is
  disk,     \* bytes of each file in the directory, by its name
  line,     \* messages written so far
  isOpen,   \* processes that have the directory open
  files,    \* of each, fileLog.files, the current first
  fileLen,  \* and fileLog.fileLen
  removing, \* removals under way: <<process, name>>
  shared    \* two processes had it open at once

dir_vars == <<now, disk, line, isOpen, files, fileLen, removing, shared>>

Names == DOMAIN disk

DirTypeOK ==
  /\ now \in 1 .. MaxTime /\ Names \subseteq 1 .. now
  /\ line \in 0 .. MaxLines /\ \A n \in Names : disk[n] \in Seq(1 .. line)
  /\ isOpen \subseteq Writers
  /\ files \in [Writers -> Seq(1 .. now)] /\ fileLen \in [Writers -> -1 .. 2 * MaxLines]
  /\ removing \subseteq isOpen \X (1 .. now) /\ shared \in BOOLEAN

DirInit ==
  /\ now = 1 /\ disk = <<>> /\ line = 0 /\ isOpen = {}
  /\ files = [p \in Writers |-> <<>>] /\ fileLen = [p \in Writers |-> -1]
  /\ removing = {} /\ shared = FALSE

Tick ==
  /\ now < MaxTime /\ now' = now + 1
  /\ UNCHANGED <<disk, line, isOpen, files, fileLen, removing, shared>>

\* os.ReadDir sorts by name (there is one way to); each name is pushed to the front
OldestFirst ==
  {s \in [1 .. Cardinality(Names) -> Names] :
     Names = ToSet(s) /\ \A i, j \in DOMAIN s : i < j => s[i] < s[j]}
Scanned == {Reverse(s) : s \in OldestFirst}

Open(p) ==
  /\ p \notin isOpen /\ isOpen' = isOpen \union {p}
  /\ \E s \in Scanned :
       /\ files' = [files EXCEPT ![p] = s]
       /\ fileLen' = [fileLen EXCEPT ![p] = IF s = <<>> THEN -1 ELSE Len(disk[Head(s)])]
  /\ shared' = (shared \/ isOpen # {})
  /\ UNCHANGED <<now, disk, line, removing>>

Full(p) == fileLen[p] < 0 \/ fileLen[p] + 2 > MaxFileSize

(***************************************************************************)
(* rotate, for the next message.                                           *)
(***************************************************************************)
\* PopBack takes the oldest
Forgotten(kept) == SubSeq(kept, MaxFiles + 1, Len(kept))
Kept(kept) == SubSeq(kept, 1, IF Len(kept) < MaxFiles THEN Len(kept) ELSE MaxFiles)

Rotate(p) ==
  /\ p \in isOpen /\ Full(p) /\ line < MaxLines /\ now \notin Names
  /\ disk' = [n \in Names \union {now} |-> IF n = now THEN <<>> ELSE disk[n]]
  /\ LET kept == <<now>> \o files[p] IN
       /\ files' = [files EXCEPT ![p] = Kept(kept)]
       /\ removing' = removing \union ({p} \X ToSet(Forgotten(kept)))
  /\ fileLen' = [fileLen EXCEPT ![p] = 0]
  /\ UNCHANGED <<now, line, isOpen, shared>>

\* a second file in one second: O_EXCL fails, and rotate panics
NameTaken(p) == p \in isOpen /\ Full(p) /\ line < MaxLines /\ now \in Names

\* A bare message is written with its newline, but fileLen counts the last write
\* only. Another process may have removed the file: what is written to it is lost.
Written(l) == IF l \in Bare THEN <<l, l>> ELSE <<l>>

Write(p) ==
  /\ p \in isOpen /\ ~Full(p) /\ line < MaxLines /\ line' = line + 1
  /\ disk' = [n \in Names |-> IF n = Head(files[p]) THEN disk[n] \o Written(line') ELSE disk[n]]
  /\ fileLen' = [fileLen EXCEPT ![p] = @ + 1]
  /\ UNCHANGED <<now, isOpen, files, removing, shared>>

\* in any order
Removal(p, n) ==
  /\ <<p, n>> \in removing /\ removing' = removing \ {<<p, n>>}
  /\ disk' = [m \in Names \ {n} |-> disk[m]]
  /\ UNCHANGED <<now, line, isOpen, files, fileLen, shared>>

\* the process ends, and its removals with it
Leave(p) ==
  /\ isOpen' = isOpen \ {p}
  /\ files' = [files EXCEPT ![p] = <<>>] /\ fileLen' = [fileLen EXCEPT ![p] = -1]
  /\ removing' = {r \in removing : r[1] # p}
  /\ UNCHANGED <<now, disk, line, shared>>

(***************************************************************************)
(* Properties.                                                             *)
(***************************************************************************)
Holds(n, l) == \E i \in DOMAIN disk[n] : disk[n][i] = l

\* Across restarts and crashes, and whichever removals were done, the directory
\* reads in the order of its names as the lines were written, and a line is lost
\* only when MaxFiles files are newer: as long as one process at a time had the
\* directory open.
InOrder ==
  /\ \A n \in Names : \A i, j \in DOMAIN disk[n] : i < j => disk[n][i] <= disk[n][j]
  /\ \A m, n \in Names : m < n =>
       \A i \in DOMAIN disk[m], j \in DOMAIN disk[n] : disk[m][i] < disk[n][j]

Newer(l) == {n \in Names : \A i \in DOMAIN disk[n] : disk[n][i] > l}

NewestKept ==
  \A l \in 1 .. line : (\E n \in Names : Holds(n, l)) \/ Cardinality(Newer(l)) >= MaxFiles

LogKept == DirTypeOK /\ (~shared => InOrder /\ NewestKept)
=============================================================================
