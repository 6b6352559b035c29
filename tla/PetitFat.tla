------------------------------- MODULE PetitFat -------------------------------
(***************************************************************************)
(* utils/petit_fat_fs/pff.c, read-only as it is configured, with pf_lseek: *)
(* mounting, following a path through directories, reading and seeking in  *)
(* the one open file.  The library keeps the current cluster and sector    *)
(* from call to call and moves them as it goes.                            *)
(*                                                                         *)
(* The disk (external) is any file allocation table, also one with broken  *)
(* or circular chains, and any directory entry found in it.  Every read of *)
(* the disk may fail.  One step is one turn of a function's loop.          *)
(***************************************************************************)
EXTENDS Naturals

CONSTANTS
  SectorSize,  \* 512
  DirPerSect,  \* 16 entries of a directory in a sector
  Nibble,      \* 16: an entry of the table has three nibbles, a byte two
  n_fatent,    \* number of clusters + 2
  n_rootdir,   \* entries of the root directory
  Csizes,      \* sectors per cluster
  Links,       \* entries of the table, below Nibble^3
  MaxIndex,    \* 65536: dir_next gives up when the index wraps
  MaxSize,     \* bound on the size of a file and on what is asked of it
  MaxDepth     \* bound on the segments of a path

ASSUME FatAssumption ==
  /\ {SectorSize, DirPerSect, Nibble, MaxIndex} \subseteq Nat \ {0}
  /\ {n_rootdir, MaxSize, MaxDepth} \subseteq Nat /\ n_fatent \in Nat \ {0, 1}
  /\ Csizes \subseteq Nat \ {0} /\ Links \subseteq 0 .. Nibble * Nibble * Nibble - 1

Clusters == 2 .. n_fatent - 1
dirbase == 1
database == dirbase + n_rootdir \div DirPerSect

VARIABLES
  fat, csize,              \* the disk
  FatFs,                   \* is a file system mounted?
  flag,                    \* FA_OPENED
  org_clust, fsize, fptr, curr_clust, dsect,
  dj,                      \* the directory searched
  call,                    \* the call in progress, what it has left to do and, as
                           \* history, where the file pointer should end
  res                      \* what the last call returned, "none" during one

disk == <<fat, csize>>
file == <<org_clust, fsize, fptr, curr_clust, dsect>>
vars == <<disk, FatFs, flag, file, dj, call, res>>

NoCall == [op |-> "none", left |-> 0, goal |-> 0]
NoDir == [sclust |-> 0, clust |-> 0, index |-> 0, sect |-> 0]

Init ==
  /\ fat \in [Clusters -> Links] /\ csize \in Csizes
  /\ FatFs = FALSE /\ flag = FALSE
  /\ org_clust = 0 /\ fsize = 0 /\ fptr = 0 /\ curr_clust = 0 /\ dsect = 0
  /\ dj = NoDir /\ call = NoCall /\ res = "FR_OK"

Finish(r) == call' = NoCall /\ dj' = NoDir /\ res' = r

(***************************************************************************)
(* Without an open file, what pf_open will set is forgotten.               *)
(***************************************************************************)
Close == flag' = FALSE /\ org_clust' = 0 /\ fsize' = 0 /\ fptr' = 0

-----------------------------------------------------------------------------
(***************************************************************************)
(* get_fat for FAT12: the bytes of the table (external), in which two      *)
(* entries share three bytes, and an entry read from them.  The entry may  *)
(* straddle two sectors.  1 stands for an error, of the disk as well.      *)
(***************************************************************************)
FatNibble(i) ==
  LET link == IF i \div 3 \in Clusters THEN fat[i \div 3] ELSE 0
  IN  IF i % 3 = 0 THEN link % Nibble
      ELSE IF i % 3 = 1 THEN (link \div Nibble) % Nibble ELSE link \div (Nibble * Nibble)

FatByte(sect, ofs) ==
  LET i == sect * SectorSize + ofs IN FatNibble(2 * i) + Nibble * FatNibble(2 * i + 1)

LinkOf(clst) ==
  LET bc == clst + clst \div 2
      sect == bc \div SectorSize
      ofs == bc % SectorSize
      high == IF ofs # SectorSize - 1 THEN FatByte(sect, ofs + 1) ELSE FatByte(sect + 1, 0)
      wc == FatByte(sect, ofs) + Nibble * Nibble * high
  IN  IF clst < 2 \/ clst >= n_fatent THEN 1
      ELSE IF clst % 2 = 1 THEN wc \div Nibble ELSE wc % (Nibble * Nibble * Nibble)

get_fat(clst) == {LinkOf(clst), 1}

clust2sect(clst) ==
  IF clst < 2 \/ clst >= n_fatent THEN 0 ELSE (clst - 2) * csize + database

(***************************************************************************)
(* pf_mount: everything it reads may fail or be no file system.            *)
(***************************************************************************)
pf_mount ==
  /\ call = NoCall
  /\ \/ FatFs' = TRUE /\ res' = "FR_OK"
     \/ /\ FatFs' = FALSE
        /\ res' \in {"FR_OK", "FR_NOT_READY", "FR_DISK_ERR", "FR_NO_FILESYSTEM"}
  /\ Close /\ UNCHANGED <<disk, curr_clust, dsect, dj, call>>

(***************************************************************************)
(* pf_open with a path of some segments, and its search: follow_path and   *)
(* dir_find.  An entry is the end of the table, another one or the one     *)
(* looked for, which is a directory or a file with a cluster and a size.   *)
(***************************************************************************)
dir_rewind(clst, segments) ==
  IF clst = 1 \/ clst >= n_fatent THEN Finish("FR_DISK_ERR")
  ELSE /\ dj' = [sclust |-> clst, clust |-> clst, index |-> 0,
                 sect |-> IF clst = 0 THEN dirbase ELSE clust2sect(clst)]
       /\ call' = [NoCall EXCEPT !.op = "find", !.left = segments] /\ res' = "none"

pf_open(segments) ==
  /\ call = NoCall
  /\ IF ~FatFs THEN Finish("FR_NOT_ENABLED")
     ELSE IF segments = 0 THEN Finish("FR_NO_FILE") ELSE dir_rewind(0, segments)
  /\ Close /\ UNCHANGED <<disk, FatFs, curr_clust, dsect>>

NotFound == IF call.left = 1 THEN "FR_NO_FILE" ELSE "FR_NO_PATH"

\* mutant: the next cluster is taken in every sector
NewClusterAlways(i) == i % DirPerSect = 0 /\ dj.clust # 0

NewCluster(i) == i % DirPerSect = 0 /\ dj.clust # 0 /\ (i \div DirPerSect) % csize = 0

EndOfTable(i) ==
  i = 0 \/ dj.sect = 0 \/ (dj.clust = 0 /\ i % DirPerSect = 0 /\ i >= n_rootdir)

dir_next ==
  LET i == (dj.index + 1) % MaxIndex
      sect == IF i % DirPerSect = 0 THEN dj.sect + 1 ELSE dj.sect
  IN  \/ EndOfTable(i) /\ Finish(NotFound)
      \/ /\ ~EndOfTable(i) /\ NewCluster(i)
         /\ \E clst \in get_fat(dj.clust) :
              IF clst <= 1 THEN Finish("FR_DISK_ERR")
              ELSE IF clst >= n_fatent THEN Finish(NotFound)
              ELSE /\ dj' = [dj EXCEPT !.clust = clst, !.sect = clust2sect(clst), !.index = i]
                   /\ UNCHANGED <<call, res>>
      \/ /\ ~EndOfTable(i) /\ ~NewCluster(i)
         /\ dj' = [dj EXCEPT !.sect = sect, !.index = i]
         /\ UNCHANGED <<call, res>>

Opened(clst, size) ==
  /\ org_clust' = clst /\ fsize' = size /\ fptr' = 0 /\ flag' = TRUE
  /\ Finish("FR_OK")
  /\ UNCHANGED <<curr_clust, dsect>>

\* What follow_path and pf_open do with an entry that was found.
follow_path ==
  \/ \E clst \in Links, size \in 0 .. MaxSize : call.left = 1 /\ Opened(clst, size)
  \/ call.left = 1 /\ Finish("FR_NO_FILE") /\ UNCHANGED <<flag, file>>
  \/ call.left > 1 /\ Finish("FR_NO_PATH") /\ UNCHANGED <<flag, file>>
  \/ \E clst \in Links :
       call.left > 1 /\ dir_rewind(clst, call.left - 1) /\ UNCHANGED <<flag, file>>

dir_find ==
  /\ call.op = "find"
  /\ \/ Finish("FR_DISK_ERR") /\ UNCHANGED <<flag, file>>
     \/ Finish(NotFound) /\ UNCHANGED <<flag, file>>
     \/ dir_next /\ UNCHANGED <<flag, file>>
     \/ follow_path
  /\ UNCHANGED <<disk, FatFs>>

-----------------------------------------------------------------------------
(***************************************************************************)
(* pf_read.  Its buffer is left out: a turn of the loop reads from dsect,  *)
(* at fptr's place in it, as much as fits in the sector.                   *)
(***************************************************************************)
Least(a, b) == IF a < b THEN a ELSE b

Abort == Close /\ Finish("FR_DISK_ERR")

Unready(op, r) == call = NoCall /\ op /\ Finish(r) /\ UNCHANGED <<flag, file>>

NotReady ==
  \/ Unready(~FatFs, "FR_NOT_ENABLED")
  \/ Unready(FatFs /\ ~flag, "FR_NOT_OPENED")

\* mutants: not truncated; truncated to a sector
ClippedNot(btr) == btr
ClippedToSector(btr) == Least(Least(btr, SectorSize), fsize - fptr)

Clipped(btr) == Least(btr, fsize - fptr)

pf_read(btr) ==
  /\ call = NoCall /\ FatFs /\ flag
  /\ call' = [op |-> "read", left |-> Clipped(btr), goal |-> Least(fptr + btr, fsize)]
  /\ res' = "none" /\ UNCHANGED <<disk, FatFs, flag, file, dj>>

Transfer ==
  LET rcnt == Least(SectorSize - (fptr % SectorSize), call.left)
  IN  \/ Abort
      \/ /\ fptr' = fptr + rcnt /\ call' = [call EXCEPT !.left = @ - rcnt]
         /\ UNCHANGED <<flag, org_clust, fsize, dj, res>>

NextCluster == IF fptr = 0 THEN {org_clust} ELSE get_fat(curr_clust)

Locate(clst, cs) ==
  /\ curr_clust' = clst
  /\ \/ clust2sect(clst) = 0 /\ Abort /\ UNCHANGED dsect
     \/ clust2sect(clst) # 0 /\ dsect' = clust2sect(clst) + cs /\ Transfer

ReadTurn ==
  /\ call.op = "read"
  /\ LET cs == (fptr \div SectorSize) % csize
     IN  \/ call.left = 0 /\ Finish("FR_OK") /\ UNCHANGED <<flag, file>>
         \/ /\ call.left > 0 /\ fptr % SectorSize = 0 /\ cs = 0
            /\ \E clst \in NextCluster :
                 \/ clst <= 1 /\ Abort /\ UNCHANGED <<curr_clust, dsect>>
                 \/ clst > 1 /\ Locate(clst, cs)
         \/ call.left > 0 /\ fptr % SectorSize = 0 /\ cs # 0 /\ Locate(curr_clust, cs)
         \/ call.left > 0 /\ fptr % SectorSize # 0 /\ Transfer /\ UNCHANGED <<curr_clust, dsect>>
  /\ UNCHANGED <<disk, FatFs>>

(***************************************************************************)
(* pf_lseek: from the current cluster when the place is not before it,     *)
(* otherwise from the first.                                               *)
(***************************************************************************)
bcs == csize * SectorSize

\* mutant: the cluster of the next byte, not of the last one, is the current one
SeeksOnNext(ofs) == fptr > 0 /\ ofs \div bcs >= fptr \div bcs

SeeksOn(ofs) == fptr > 0 /\ (ofs - 1) \div bcs >= (fptr - 1) \div bcs

pf_lseek(to) ==
  LET ofs == Least(to, fsize)
      base == IF SeeksOn(ofs) THEN ((fptr - 1) \div bcs) * bcs ELSE 0
  IN  /\ call = NoCall /\ FatFs /\ flag
      /\ \/ ofs = 0 /\ fptr' = 0 /\ Finish("FR_OK") /\ UNCHANGED curr_clust
         \/ /\ ofs > 0
            /\ fptr' = base
            /\ curr_clust' = IF SeeksOn(ofs) THEN curr_clust ELSE org_clust
            /\ call' = [op |-> "seek", left |-> ofs - base, goal |-> Least(to, fsize)]
            /\ res' = "none" /\ UNCHANGED dj
      /\ UNCHANGED <<disk, FatFs, flag, org_clust, fsize, dsect>>

\* mutant: the counters are not moved with the cluster
FollowUncounted(clst) == curr_clust' = clst /\ UNCHANGED <<flag, org_clust, fsize, fptr, dj, call, res>>

Follow(clst) ==
  /\ curr_clust' = clst /\ fptr' = fptr + bcs
  /\ call' = [call EXCEPT !.left = @ - bcs]
  /\ UNCHANGED <<flag, org_clust, fsize, dj, res>>

SeekTurn ==
  /\ call.op = "seek"
  /\ \/ /\ call.left > bcs
        /\ \E clst \in get_fat(curr_clust) :
             \/ (clst <= 1 \/ clst >= n_fatent) /\ Abort /\ UNCHANGED curr_clust
             \/ 1 < clst /\ clst < n_fatent /\ Follow(clst)
        /\ UNCHANGED dsect
     \/ /\ call.left <= bcs
        /\ LET sect == clust2sect(curr_clust)
           IN  \/ sect = 0 /\ Abort /\ UNCHANGED dsect
               \/ /\ sect # 0 /\ fptr' = fptr + call.left
                  /\ dsect' = sect + ((fptr' \div SectorSize) % csize)
                  /\ Finish("FR_OK") /\ UNCHANGED <<flag, org_clust, fsize>>
        /\ UNCHANGED curr_clust
  /\ UNCHANGED <<disk, FatFs>>

Turn == dir_find \/ ReadTurn \/ SeekTurn

Next ==
  \/ pf_mount
  \/ \E segments \in 0 .. MaxDepth : pf_open(segments)
  \/ NotReady /\ UNCHANGED <<disk, FatFs>>
  \/ \E n \in 0 .. MaxSize : pf_read(n) \/ pf_lseek(n)
  \/ Turn

\* The library is called by one thread and runs on to its return.
Spec == Init /\ [][Next]_vars /\ WF_vars(Turn)

-----------------------------------------------------------------------------
(***************************************************************************)
(* Type correctness: the file pointer never leaves the file and the cached *)
(* sector stays on the disk, whatever the table holds.                     *)
(***************************************************************************)
TypeOK ==
  /\ fat \in [Clusters -> Links] /\ csize \in Csizes
  /\ FatFs \in BOOLEAN /\ flag \in BOOLEAN
  /\ fptr \in 0 .. fsize /\ fsize \in 0 .. MaxSize
  /\ dsect \in 0 .. database + (n_fatent - 2) * csize - 1
  /\ call.op \in {"none", "find", "read", "seek"}
  /\ call.left \in Nat /\ dj.index \in 0 .. MaxIndex - 1

(***************************************************************************)
(* The reference: the first k + 1 clusters of the chain that starts at     *)
(* start, as the table says, and the n-th sector of what is stored in it.  *)
(***************************************************************************)
Chain(start, k) ==
  {p \in [0 .. k -> Clusters] : p[0] = start /\ \A i \in 0 .. k - 1 : p[i + 1] = fat[p[i]]}

IsSectorOf(sect, start, n) ==
  \E p \in Chain(start, n \div csize) : sect = clust2sect(p[n \div csize]) + (n % csize)

(***************************************************************************)
(* pf_read delivers the bytes of the file: every transfer is from the      *)
(* sector that holds the byte at the file pointer, and ends in it, after   *)
(* any reads and seeks, on any table.                                      *)
(***************************************************************************)
ReadsTheFile ==
  [][call.op = "read" /\ fptr' > fptr =>
       /\ IsSectorOf(dsect', org_clust, fptr \div SectorSize)
       /\ (fptr' - 1) \div SectorSize = fptr \div SectorSize]_vars

(***************************************************************************)
(* A search visits the entries of a directory in their order: the one it   *)
(* looks at is in the sector where the table puts the entry of this index, *)
(* in the root directory and in one that is a chain of clusters.           *)
(***************************************************************************)
SearchesInOrder ==
  call.op = "find" =>
    IF dj.sclust = 0 THEN dj.sect = dirbase + dj.index \div DirPerSect
    ELSE IsSectorOf(dj.sect, dj.sclust, dj.index \div DirPerSect)

(***************************************************************************)
(* A call that returns FR_OK has done all of what was asked: pf_read has   *)
(* read as many bytes as wanted or are left in the file, pf_lseek is at    *)
(* the place wanted or at the end.                                         *)
(***************************************************************************)
OkIsExact ==
  [][call.op \in {"read", "seek"} /\ call' = NoCall /\ res' = "FR_OK"
       => fptr' = call.goal]_vars

(***************************************************************************)
(* Every call returns, also on a directory or a file whose chain of        *)
(* clusters is a circle.                                                   *)
(***************************************************************************)
Returns == []<>(call = NoCall)
=============================================================================
