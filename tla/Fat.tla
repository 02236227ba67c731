-------------------------------- MODULE Fat ---------------------------------
(***************************************************************************)
(* The FAT32 driver: init_fat lists the files of the root directory,       *)
(* read_file follows the cluster chain of one of them into memory.  The    *)
(* boot loader has a copy of the code: Loader runs it before this one.     *)
(*                                                                         *)
(* A disk is its root directory, its file allocation table, and what was   *)
(* written to it: chain[f] is the sequence of clusters of file f.  The     *)
(* contents of a sector are named by its place in the data area, counted   *)
(* from 0; read_sector is one step here (Ata models it).                   *)
(***************************************************************************)
EXTENDS Integers, Sequences, SequencesExt

CONSTANTS
  Names,              \* short names
  Disks,              \* the disks: [dir, fat, chain]
  EntriesPerSector,   \* directory entries in one sector: 16
  MaxFiles,           \* length of files: 5
  FatEntries,         \* words in the one sector of the table read_file reads: 128
  ClusterSpan,        \* values of cluster_low_bits: 2^16
  SectorsPerCluster,  \* bpb.sectors_per_cluster
  StackWords,         \* what may lie on the stack behind fat[]
  MaxSectors,         \* bound: sectors of one load the model tells apart
  EndOfChain          \* 0xfffffff

ASSUME FatAssumption ==
  /\ EntriesPerSector \in Nat \ {0} /\ MaxFiles \in Nat \ {0} /\ FatEntries \in Nat \ {0}
  /\ ClusterSpan \in Nat /\ ClusterSpan > FatEntries
  /\ SectorsPerCluster \in Nat \ {0} /\ MaxSectors \in Nat
  /\ StackWords \subseteq Nat /\ EndOfChain \in Nat \ {0}

\* An entry of a directory, as far as process_directory_area tells them apart.
DirEntry == [kind : {"unused", "lfn", "dir"}] \cup [kind : {"file"}, name : Names, cluster : Nat]

ASSUME DisksAssumption == \A d \in Disks :
  d.dir \in Seq(DirEntry) /\ d.fat \in [0 .. FatEntries - 1 -> Nat] /\ d.chain \in [Names -> Seq(Nat)]

VARIABLES
  disk,
  at,                 \* the directory entry process_directory_area is at
  foundfile,
  files,              \* files[]; what lies behind MaxFiles was written past its end
  pc,                 \* "scan", "idle", or "load" in the loop of read_file
  path, answer,       \* of the last call of read_file
  next,
  loaded              \* the sectors written to address, address + 0x200, ...

vars == <<disk, at, foundfile, files, pc, path, answer, next, loaded>>

Entry == disk.dir[at]

\* A zero byte ends the directory; entries behind the first sector are not read.
AtEnd_Unused ==               \* mutant: an unused entry ends the loop
  ~(at <= Len(disk.dir) /\ at <= EntriesPerSector /\ Entry.kind # "unused")
AtEnd_OneLate ==              \* mutant: <= for < at the end of the sector
  at > Len(disk.dir) \/ at > EntriesPerSector + 1
AtEnd == at > Len(disk.dir) \/ at > EntriesPerSector

\* The high bits of the cluster are shifted out of the mask they are taken with.
FirstCluster(e) == e.cluster % ClusterSpan

Init ==
  /\ disk \in Disks
  /\ at = 1 /\ foundfile = FALSE /\ files = <<>>
  /\ pc = "scan"
  /\ path = (CHOOSE p \in Names : TRUE) /\ answer = "none" /\ next = 0 /\ loaded = <<>>

\* One entry: a file is recorded when a long name entry came before it, however
\* long ago; neither unused entries nor directories take that back.
ScanEntry ==
  /\ pc = "scan" /\ ~AtEnd
  /\ foundfile' = (Entry.kind = "lfn" \/ (foundfile /\ Entry.kind # "file"))
  /\ files' = IF foundfile /\ Entry.kind = "file"
                THEN Append(files, [name |-> Entry.name, cluster |-> FirstCluster(Entry)])
                ELSE files
  /\ at' = at + 1
  /\ UNCHANGED <<disk, pc, path, answer, next, loaded>>

EndScan ==
  /\ pc = "scan" /\ AtEnd
  /\ pc' = "idle"
  /\ UNCHANGED <<disk, at, foundfile, files, path, answer, next, loaded>>

\* The last of the files with the name p; 0 when there is none.
ClusterOf(p) ==
  LET hits == {i \in DOMAIN files : i <= MaxFiles /\ files[i].name = p}
  IN  IF hits = {} THEN 0 ELSE files[CHOOSE i \in hits : \A j \in hits : j <= i].cluster

\* The first sector of cluster c.
Sector_FromZero(c) == c * SectorsPerCluster   \* mutant: clusters are numbered from 0
Sector(c) == (c - 2) * SectorsPerCluster

FileNotFound(p) ==
  /\ pc = "idle" /\ ClusterOf(p) = 0
  /\ path' = p /\ answer' = "missing"
  /\ UNCHANGED <<disk, at, foundfile, files, pc, next, loaded>>

StartLoad(p) ==
  /\ pc = "idle" /\ ClusterOf(p) # 0
  /\ path' = p /\ answer' = "none"
  /\ next' = ClusterOf(p)
  /\ loaded' = <<Sector(next')>>
  /\ pc' = "load"
  /\ UNCHANGED <<disk, at, foundfile, files>>

\* fat[cluster], where the table may be too short.
FatWords(cluster) == IF cluster \in 0 .. FatEntries - 1 THEN {disk.fat[cluster]} ELSE StackWords

NextCluster_NoEnd(word) == word   \* mutant: the end of the chain is not recognised
NextCluster(word) == IF word = EndOfChain THEN 0 ELSE word

\* The loop of read_file ends with the cluster 0 read_nextcluster makes of the end.
EndsLoad_Raw(word) == word = 0     \* mutant: it looks at the word of the table
EndsLoad(word) == NextCluster(word) = 0

FollowChain ==
  /\ pc = "load"
  /\ \E word \in FatWords(next) :
       IF EndsLoad(word)
         THEN pc' = "idle" /\ answer' = "loaded" /\ UNCHANGED <<next, loaded>>
         ELSE /\ next' = NextCluster(word)
              /\ loaded' = IF Len(loaded) < MaxSectors THEN Append(loaded, Sector(next'))
                                                       ELSE loaded
              /\ UNCHANGED <<pc, answer>>
  /\ UNCHANGED <<disk, at, foundfile, files, path>>

------------------------------------------------------------------------------
\* Types of the state: the scan does not leave the sector it has read.
TypeOK ==
  /\ path \in Names
  /\ at \in 1 .. EntriesPerSector + 1 /\ foundfile \in BOOLEAN
  /\ files \in Seq([name : Names, cluster : Nat])
  /\ pc \in {"scan", "idle", "load", "lost"} /\ answer \in {"none", "missing", "loaded"}
  /\ next \in Int /\ loaded \in Seq(Int)

\* The files of the directory, by the place of their entry.
FileEntries == {i \in DOMAIN disk.dir : disk.dir[i].kind = "file"}
LongNamed(i) == i > 1 /\ disk.dir[i - 1].kind = "lfn"

\* process_directory_area lists what the directory holds: no file that is not
\* there, with its first cluster if that fits into the low bits, and, unless the
\* list or the sector is too short, every file whose entry has a long name entry
\* before it.
DirectoryListed ==
  /\ \A n \in DOMAIN files : \E i \in FileEntries :
       /\ files[n].name = disk.dir[i].name
       /\ disk.dir[i].cluster < ClusterSpan => files[n].cluster = disk.dir[i].cluster
  /\ pc # "scan" /\ Len(files) <= MaxFiles =>
       \A i \in FileEntries : LongNamed(i) /\ i <= EntriesPerSector =>
         \E n \in DOMAIN files : files[n].name = disk.dir[i].name

\* The file lies where the one table sector read_file reads describes it.
InTable(chain) == chain # <<>> /\ \A n \in DOMAIN chain : chain[n] < FatEntries
InReach(f) == InTable(disk.chain[f])

\* What was written to f: all sectors of its clusters, in the order of its chain.
Contents(f) ==
  FlattenSeq([n \in DOMAIN disk.chain[f] |->
    [k \in 1 .. SectorsPerCluster |-> (disk.chain[f][n] - 2) * SectorsPerCluster + k - 1]])

\* The table and the directory describe the files: the entry of a file has the first
\* cluster of its chain, the word of each cluster, as far as it is in the first sector
\* of the table, the next one.
Describes(d) ==
  /\ \A f \in Names :
       /\ Len(d.chain[f]) <= MaxSectors
       /\ \A n \in DOMAIN d.chain[f] :
            /\ d.chain[f][n] >= 2 /\ d.chain[f][n] # EndOfChain
            /\ d.chain[f][n] < FatEntries =>
                 d.fat[d.chain[f][n]] = IF n = Len(d.chain[f]) THEN EndOfChain ELSE d.chain[f][n + 1]
  /\ \A i \in DOMAIN d.dir :
       d.dir[i].kind = "file" /\ d.chain[d.dir[i].name] # <<>> =>
         d.dir[i].cluster = d.chain[d.dir[i].name][1]

\* What the files are loaded whole from: such a disk, with one sector to a cluster.
DisksInOrder == SectorsPerCluster = 1 /\ EndOfChain >= FatEntries /\ \A d \in Disks : Describes(d)

\* Whoever loads a file that is listed puts the contents of that file at its
\* address, each sector at its place, and is done when it has all of them.
FileLoaded ==
  InReach(path) /\ ClusterOf(path) # 0 =>
    /\ pc = "load" => IsPrefix(loaded, Contents(path))
    /\ answer = "loaded" => loaded = Contents(path)

\* The loop over the chain of such a file ends.
LoadEnds == (pc = "load" /\ InReach(path) /\ ClusterOf(path) # 0) ~> pc # "load"
=============================================================================
