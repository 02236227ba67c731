---------------------------- MODULE LoaderProofs ----------------------------
(***************************************************************************)
(* For directories, tables and chains of every size: what the driver lists *)
(* is what the directory holds, and what it and the loader load from disks *)
(* in order is the whole file, if its chain is in the one sector of the    *)
(* table they read.                                                        *)
(***************************************************************************)
EXTENDS Loader, PagePoolProofs, SequenceTheorems

\* What the constants are, one by one.
LEMMA ConstantsAre ==
  /\ EntriesPerSector \in Nat \ {0} /\ MaxFiles \in Nat \ {0} /\ FatEntries \in Nat \ {0}
  /\ ClusterSpan \in Nat /\ ClusterSpan > FatEntries
  /\ SectorsPerCluster \in Nat \ {0} /\ MaxSectors \in Nat /\ EndOfChain \in Nat \ {0}
  /\ Kernel \in Names /\ ImageLimit \in 1 .. MaxSectors /\ MediaWord \in Nat \ {0, EndOfChain}
BY FatAssumption, LoaderAssumption

\* What a disk is.
LEMMA DiskIs ==
  ASSUME NEW d \in Disks
  PROVE  /\ d.dir \in Seq(DirEntry)
         /\ d.fat \in [0 .. FatEntries - 1 -> Nat] /\ d.fat[0] = MediaWord
         /\ d.chain \in [Names -> Seq(Nat)]
BY DisksAssumption, LoaderAssumption

\* A directory entry that names a file.
LEMMA FileEntryIs ==
  ASSUME NEW e \in DirEntry, e.kind = "file"
  PROVE  e.name \in Names /\ e.cluster \in Nat /\ FirstCluster(e) \in Nat
BY ConstantsAre DEF DirEntry, FirstCluster

\* A set of places of a sequence that is not empty has a last one.
LEMMA LastPlace ==
  ASSUME NEW len \in Nat, NEW S \in SUBSET (1 .. len), S # {}
  PROVE  \E m \in S : \A n \in S : n <= m
<1> DEFINE Back == {len - n : n \in S}
<1>0. \A n \in S : n \in 1 .. len /\ n \in Nat /\ len - n \in Nat
  <2> TAKE n \in S
  <2>1. n \in 1 .. len
    OBVIOUS
  <2> QED
    BY <2>1
<1>1. Back \in SUBSET Nat /\ Back # {}
  BY <1>0
<1>2. PICK b \in Back : \A c \in Back : b <= c
  BY <1>1, LeastNumber
<1>3. PICK m \in S : b = len - m
  BY <1>2
<1>4. \A n \in S : n <= m
  <2> TAKE n \in S
  <2>1. len - n \in Back
    OBVIOUS
  <2>2. len - m <= len - n
    BY <1>2, <1>3, <2>1
  <2>3. n \in Nat /\ m \in Nat
    BY <1>0
  <2> QED
    BY <2>2, <2>3
<1> QED
  BY <1>4

\* The cluster of a name is 0 or that of a file listed under the name.
LEMMA ClusterIs ==
  ASSUME files \in Seq([name : Names, cluster : Nat]), NEW p \in Names
  PROVE  /\ ClusterOf(p) \in Nat
         /\ ClusterOf(p) # 0 => \E i \in DOMAIN files :
                                  files[i].name = p /\ files[i].cluster = ClusterOf(p)
<1> DEFINE hits == {i \in DOMAIN files : i <= MaxFiles /\ files[i].name = p}
<1>1. CASE hits = {}
  BY <1>1 DEF ClusterOf
<1>2. CASE hits # {}
  <2>1. hits \in SUBSET (1 .. Len(files)) /\ Len(files) \in Nat
    OBVIOUS
  <2>2. \E m \in hits : \A n \in hits : n <= m
    BY <1>2, <2>1, LastPlace
  <2> DEFINE m == CHOOSE i \in hits : \A j \in hits : j <= i
  <2>3. m \in hits
    BY <2>2
  <2>4. ClusterOf(p) = files[m].cluster
    BY <1>2 DEF ClusterOf
  <2> HIDE DEF m
  <2>5. m \in DOMAIN files /\ files[m].name = p
    BY <2>3
  <2>6. files[m] \in [name : Names, cluster : Nat]
    BY <2>5, ElementOfSeq, LenProperties
  <2> QED
    BY <2>4, <2>5, <2>6, ConstantsAre
<1> QED
  BY <1>1, <1>2

\* Sequences of one element, put one behind the other.
LEMMA FlattenSingles ==
  ASSUME NEW s \in Seq(Int), s # <<>>
  PROVE  FlattenSeq([n \in DOMAIN s |-> <<s[n]>>]) = s
<1> DEFINE parts == [n \in DOMAIN s |-> <<s[n]>>]
           Value(T, i) == IF i = 1 THEN parts[i] ELSE T[i - 1] \o parts[i]
           First(i) == [n \in 1 .. i |-> s[n]]
           whole == CHOOSE T : T = [i \in 1 .. Len(parts) |-> Value(T, i)]
<1>1. Len(s) \in Nat \ {0} /\ DOMAIN s = 1 .. Len(s) /\ \A n \in 1 .. Len(s) : s[n] \in Int
  OBVIOUS
<1>2. parts \in Seq(Seq(Int)) /\ Len(parts) = Len(s)
  <2>1. parts \in [1 .. Len(s) -> Seq(Int)]
    BY <1>1
  <2> HIDE DEF parts
  <2> QED
    BY <1>1, <2>1, IsASeq, LenProperties
<1>3. FlattenSeq(parts) = whole[Len(parts)]
  BY <1>1, <1>2 DEF FlattenSeq
<1>4. \A i \in 1 .. Len(s) : First(i) \in Seq(Int) /\ Len(First(i)) = i
  <2> TAKE i \in 1 .. Len(s)
  <2>1. First(i) \in [1 .. i -> Int]
    BY <1>1
  <2> HIDE DEF First
  <2> QED
    BY <1>1, <2>1, IsASeq, LenProperties
<1>5. First(1) = parts[1]
  BY <1>1
<1>6. \A i \in 2 .. Len(s) : First(i) = First(i - 1) \o parts[i]
  <2> TAKE i \in 2 .. Len(s)
  <2>1. i \in 1 .. Len(s) /\ i - 1 \in 1 .. Len(s) /\ parts[i] = <<s[i]>> /\ s[i] \in Int
    BY <1>1
  <2>2. First(i) \in Seq(Int) /\ First(i - 1) \in Seq(Int) /\ Len(First(i)) = i /\ Len(First(i - 1)) = i - 1
    BY <1>4, <2>1
  <2>3. First(i - 1) \o <<s[i]>> = Append(First(i - 1), s[i])
    BY <2>1, <2>2, AppendIsConcat
  <2>4. \A k \in 1 .. i : First(i)[k] = IF k = i THEN s[i] ELSE First(i - 1)[k]
    BY <1>1
  <2> HIDE DEF First, parts
  <2>5. Append(First(i - 1), s[i]) \in Seq(Int) /\ Len(Append(First(i - 1), s[i])) = i
    BY <2>1, <2>2, AppendProperties
  <2>6. ASSUME NEW k \in 1 .. i PROVE Append(First(i - 1), s[i])[k] = First(i)[k]
    <3>1. CASE k = i
      <4>1. Len(First(i - 1)) + 1 = i
        BY <2>1, <2>2
      <4>2. Append(First(i - 1), s[i])[Len(First(i - 1)) + 1] = s[i]
        BY <2>1, <2>2, AppendProperties
      <4> QED
        BY ONLY <2>4, <3>1, <4>1, <4>2
    <3>2. CASE k # i
      <4>1. k \in 1 .. Len(First(i - 1))
        BY <2>1, <2>2, <3>2
      <4>2. Append(First(i - 1), s[i])[k] = First(i - 1)[k]
        BY <2>1, <2>2, <4>1, AppendProperties
      <4> QED
        BY <2>4, <3>2, <4>2
    <3> QED
      BY <3>1, <3>2
  <2> QED
    BY <2>1, <2>2, <2>3, <2>5, <2>6, SeqEqual
<1>7. whole = [i \in 1 .. Len(parts) |-> Value(whole, i)]
  <2> DEFINE all == [i \in 1 .. Len(parts) |-> First(i)]
  <2>1. \A i \in 1 .. Len(parts) : First(i) = Value(all, i)
    <3> TAKE i \in 1 .. Len(parts)
    <3>1. CASE i = 1
      BY <1>5, <3>1
    <3>2. CASE i # 1
      <4>1. i \in 2 .. Len(s) /\ i - 1 \in 1 .. Len(parts)
        BY <1>1, <1>2, <3>2
      <4>2. First(i) = First(i - 1) \o parts[i]
        BY <1>6, <4>1
      <4>3. all[i - 1] = First(i - 1)
        BY <4>1
      <4> HIDE DEF all, First, parts
      <4> QED
        BY <3>2, <4>2, <4>3
    <3> QED
      BY <3>1, <3>2
  <2>2. all = [i \in 1 .. Len(parts) |-> Value(all, i)]
    <3> HIDE DEF Value, First, parts
    <3> QED
      BY <2>1
  <2> HIDE DEF all, Value, parts
  <2> QED
    BY <2>2
<1> DEFINE Good == {i \in 1 .. Len(s) : whole[i] = First(i)}
<1>8. \A i \in 1 .. Len(s) : whole[i] = Value(whole, i)
  <2> HIDE DEF whole, Value, parts
  <2> QED
    BY <1>2, <1>7
<1>9. \A i \in 1 .. Len(s) : i \in Good
  <2>1. 1 \in Good
    <3> HIDE DEF whole, First, parts
    <3> QED
      BY <1>1, <1>5, <1>8
  <2>2. \A i \in 1 .. Len(s) - 1 : i \in Good => i + 1 \in Good
    <3> SUFFICES ASSUME NEW i \in 1 .. Len(s) - 1, i \in Good PROVE i + 1 \in Good
      OBVIOUS
    <3> HIDE DEF whole, First, parts
    <3>1. i + 1 \in 2 .. Len(s) /\ i + 1 \in 1 .. Len(s) /\ (i + 1) - 1 = i /\ i + 1 # 1
      BY <1>1
    <3>2. whole[i + 1] = whole[i] \o parts[i + 1]
      BY <1>8, <3>1
    <3> QED
      BY <1>6, <3>1, <3>2
  <2> HIDE DEF Good
  <2> QED
    BY <1>1, <2>1, <2>2, StepByStep
<1>10. First(Len(s)) = s
  BY <1>1
<1> HIDE DEF whole, First, parts
<1> QED
  BY <1>1, <1>2, <1>3, <1>9, <1>10 DEF parts

\* The sectors of a file, when a cluster is one sector: its clusters from 2 on.
LEMMA ContentsAre ==
  ASSUME SectorsPerCluster = 1, disk \in Disks, NEW f \in Names, disk.chain[f] # <<>>
  PROVE  /\ Contents(f) \in Seq(Int) /\ Len(Contents(f)) = Len(disk.chain[f])
         /\ \A n \in DOMAIN disk.chain[f] : Contents(f)[n] = Sector(disk.chain[f][n])
<1> DEFINE chain == disk.chain[f]
           sectors == [n \in DOMAIN chain |-> chain[n] - 2]
<1>1. chain \in Seq(Nat) /\ chain # <<>>
  BY DiskIs
<1> HIDE DEF chain
<1>2. Len(chain) \in Nat \ {0} /\ DOMAIN chain = 1 .. Len(chain) /\ \A n \in 1 .. Len(chain) : chain[n] \in Nat
  BY <1>1
<1>3. sectors \in Seq(Int) /\ Len(sectors) = Len(chain) /\ sectors # <<>>
  <2>1. sectors \in [1 .. Len(chain) -> Int]
    BY <1>2
  <2> HIDE DEF sectors
  <2> QED
    BY <1>2, <2>1, IsASeq, LenProperties
<1>4. \A n \in DOMAIN chain :
        [k \in 1 .. SectorsPerCluster |-> (chain[n] - 2) * SectorsPerCluster + k - 1] = <<sectors[n]>>
  <2> TAKE n \in DOMAIN chain
  <2>1. \A k \in 1 .. 1 : (chain[n] - 2) * 1 + k - 1 = chain[n] - 2
    BY <1>2
  <2>2. sectors[n] = chain[n] - 2
    OBVIOUS
  <2>3. [k \in 1 .. 1 |-> (chain[n] - 2) * 1 + k - 1] = [k \in 1 .. 1 |-> sectors[n]]
    BY <2>1, <2>2
  <2> HIDE DEF sectors
  <2>4. [k \in 1 .. 1 |-> sectors[n]] = <<sectors[n]>>
    OBVIOUS
  <2> QED
    BY <2>3, <2>4
<1>5. Contents(f) = FlattenSeq([n \in DOMAIN chain |-> <<sectors[n]>>])
  <2> HIDE DEF sectors
  <2> QED
    BY <1>4 DEF Contents, chain
<1>6. Contents(f) = sectors
  <2>1. DOMAIN sectors = DOMAIN chain
    OBVIOUS
  <2> HIDE DEF sectors
  <2> QED
    BY <1>3, <1>5, <2>1, FlattenSingles
<1>7. \A n \in DOMAIN chain : sectors[n] = Sector(chain[n])
  BY <1>2 DEF Sector
<1> HIDE DEF sectors
<1> QED
  BY <1>3, <1>6, <1>7 DEF chain

\* A word of the table, or of the stack behind it.
LEMMA WordsAre ==
  ASSUME disk \in Disks, NEW c \in Int, NEW word \in FatWords(c)
  PROVE  /\ word \in Nat /\ NextCluster(word) \in Nat
         /\ c \in 0 .. FatEntries - 1 => word = disk.fat[c]
BY DiskIs, ConstantsAre, FatAssumption DEF FatWords, NextCluster

LEMMA SectorIs == ASSUME NEW c \in Int PROVE Sector(c) \in Int
BY ConstantsAre DEF Sector

\* The word of cluster 0 is the media type, and no end of a chain.
LEMMA MediaIs ==
  ASSUME disk \in Disks, NEW word \in FatWords(0)
  PROVE  word = MediaWord /\ NextCluster(word) # 0
<1>1. 0 \in 0 .. FatEntries - 1
  BY ConstantsAre
<1>2. word = disk.fat[0]
  BY <1>1, WordsAre
<1> QED
  BY <1>2, DiskIs, ConstantsAre DEF NextCluster

\* No step writes to the disk.
LEMMA DiskStays == LoaderNext => disk' = disk
BY DEF LoaderNext, Continue, LoadKernel, NextSector, NoSuchSector, OverwriteStack, Jump, GoAstray,
       EnterKernel, ScanEntry, EndScan, FollowChain, KernelCall, FileNotFound, StartLoad

\* Outside the scan nothing is listed, and the kernel starts a list of its own.
LEMMA ListStays ==
  LoaderNext => \/ ScanEntry
                \/ EnterKernel
                \/ /\ UNCHANGED <<at, foundfile, files>>
                   /\ pc' # "scan" => pc # "scan" \/ AtEnd
                   /\ pc' = "scan" => pc = "scan"
<1> SUFFICES ASSUME LoaderNext, ~ScanEntry, ~EnterKernel
             PROVE  /\ UNCHANGED <<at, foundfile, files>>
                    /\ pc' # "scan" => pc # "scan" \/ AtEnd
                    /\ pc' = "scan" => pc = "scan"
  OBVIOUS
<1>1. CASE LoadKernel \/ EndScan
  BY <1>1 DEF LoadKernel, EndScan
<1>2. CASE NextSector \/ NoSuchSector \/ OverwriteStack \/ Jump
  BY <1>2 DEF NextSector, NoSuchSector, OverwriteStack, Jump, GoAstray, InLoop
<1>3. CASE FollowChain
  BY <1>3 DEF FollowChain
<1>4. CASE \E p \in Names : FileNotFound(p) \/ StartLoad(p)
  BY <1>4 DEF FileNotFound, StartLoad
<1> QED
  BY <1>1, <1>2, <1>3, <1>4 DEF LoaderNext, Continue, KernelCall

\* One entry further: a file is listed when the one in front of it was a long name,
\* and what is listed stays.
LEMMA ScanEntryLists ==
  ASSUME Listing, ScanEntry
  PROVE  Listing'
<1> USE DEF Listing
<1>1. /\ disk' = disk /\ pc' = pc /\ pc = "scan" /\ at' = at + 1
      /\ at <= Len(disk.dir)
      /\ UNCHANGED <<path, answer, next, loaded>>
  BY DEF ScanEntry, AtEnd, TypeOK
<1>2. /\ disk.dir \in Seq(DirEntry) /\ Len(disk.dir) \in Nat /\ DOMAIN disk.dir = 1 .. Len(disk.dir)
      /\ at \in 1 .. Len(disk.dir) /\ Entry \in DirEntry /\ Entry = disk.dir[at]
  BY <1>1, DiskIs DEF ScanSoFar, Entry
<1>at. at' \in 1 .. EntriesPerSector + 1
  BY <1>1, <1>2, ConstantsAre DEF ScanEntry, AtEnd
<1>3. FileEntries' = FileEntries /\ \A i : LongNamed(i)' = LongNamed(i)
  BY <1>1 DEF FileEntries, LongNamed
<1> DEFINE File == [name : Names, cluster : Nat]
           added == [name |-> Entry.name, cluster |-> FirstCluster(Entry)]
<1>4. files \in Seq(File) /\ Len(files) \in Nat /\ DOMAIN files = 1 .. Len(files)
  BY DEF TypeOK
<1>5. CASE foundfile /\ Entry.kind = "file"
  <2>1. files' = Append(files, added) /\ foundfile' = FALSE
    BY <1>5 DEF ScanEntry
  <2>2. added \in File
    BY <1>2, <1>5, FileEntryIs
  <2>3. /\ files' \in Seq(File) /\ Len(files') = Len(files) + 1 /\ DOMAIN files' = 1 .. Len(files) + 1
        /\ \A n \in 1 .. Len(files) : files'[n] = files[n]
        /\ files'[Len(files) + 1] = added
    <3> HIDE DEF File, added
    <3> QED
      BY <1>4, <2>1, <2>2, AppendProperties, LenProperties
  <2>4. at \in FileEntries
    BY <1>2, <1>5 DEF FileEntries
  <2>5. TypeOK'
    <3>1. at' \in 1 .. EntriesPerSector + 1
      BY <1>at
    <3>2. foundfile' \in BOOLEAN
      BY <2>1
    <3> QED
      BY <1>1, <2>3, <3>1, <3>2 DEF TypeOK
  <2>6. \A n \in DOMAIN files' : \E i \in FileEntries :
          files'[n] = [name |-> disk.dir[i].name, cluster |-> FirstCluster(disk.dir[i])]
    <3> TAKE n \in DOMAIN files'
    <3>1. CASE n = Len(files) + 1
      BY <1>2, <2>3, <2>4, <3>1
    <3>2. CASE n # Len(files) + 1
      <4>1. n \in DOMAIN files /\ files'[n] = files[n]
        BY <1>4, <2>3, <3>2
      <4> QED
        BY <4>1 DEF ScanSoFar
    <3> QED
      BY <3>1, <3>2
  <2>7. \A i \in FileEntries : LongNamed(i) /\ i < at + 1 =>
          \E n \in DOMAIN files' : files'[n].name = disk.dir[i].name
    <3> SUFFICES ASSUME NEW i \in FileEntries, LongNamed(i), i < at + 1
                 PROVE  \E n \in DOMAIN files' : files'[n].name = disk.dir[i].name
      OBVIOUS
    <3>1. CASE i = at
      <4>1. Len(files) + 1 \in DOMAIN files' /\ files'[Len(files) + 1].name = disk.dir[at].name
        BY <1>2, <1>4, <2>3
      <4> QED
        BY <3>1, <4>1
    <3>2. CASE i # at
      <4>1. i < at
        BY <1>2, <3>2 DEF FileEntries
      <4>2. PICK n \in DOMAIN files : files[n].name = disk.dir[i].name
        BY <4>1 DEF ScanSoFar
      <4>3. n \in DOMAIN files' /\ files'[n] = files[n]
        BY <1>4, <2>3
      <4> QED
        BY <4>2, <4>3
    <3> QED
      BY <3>1, <3>2
  <2>8. at' > 1 => (disk.dir[at' - 1].kind = "lfn" => foundfile')
    <3>1. at' - 1 = at
      BY <1>1, <1>2
    <3> QED
      BY <1>2, <1>5, <3>1
  <2> QED
    BY <1>1, <1>2, <1>3, <2>5, <2>6, <2>7, <2>8 DEF ScanSoFar
<1>6. CASE ~(foundfile /\ Entry.kind = "file")
  <2>1. files' = files /\ foundfile' = (Entry.kind = "lfn" \/ (foundfile /\ Entry.kind # "file"))
    BY <1>6 DEF ScanEntry
  <2>2. TypeOK'
    BY <1>1, <1>at, <2>1 DEF TypeOK
  <2>3. at' > 1 => (disk.dir[at' - 1].kind = "lfn" => foundfile')
    <3>1. at' - 1 = at
      BY <1>1, <1>2
    <3> QED
      BY <1>2, <2>1, <3>1
  <2>4. \A i \in FileEntries : LongNamed(i) /\ i < at + 1 =>
          \E n \in DOMAIN files : files[n].name = disk.dir[i].name
    <3> SUFFICES ASSUME NEW i \in FileEntries, LongNamed(i), i < at + 1
                 PROVE  \E n \in DOMAIN files : files[n].name = disk.dir[i].name
      OBVIOUS
    <3>1. i # at
      BY <1>2, <1>6 DEF FileEntries, LongNamed, ScanSoFar
    <3>2. i < at
      BY <1>2, <3>1 DEF FileEntries
    <3> QED
      BY <3>2 DEF ScanSoFar
  <2>5. \A n \in DOMAIN files : \E i \in FileEntries :
          files[n] = [name |-> disk.dir[i].name, cluster |-> FirstCluster(disk.dir[i])]
    BY DEF ScanSoFar
  <2> QED
    BY <1>1, <1>2, <1>3, <2>1, <2>2, <2>3, <2>4, <2>5 DEF ScanSoFar
<1> QED
  BY <1>5, <1>6

\* What a step of the two loops may leave in next and loaded.
LEMMA LoopTypes ==
  ASSUME TypeOK, NEW c \in Int
  PROVE  <<Sector(c)>> \in Seq(Int) /\ Append(loaded, Sector(c)) \in Seq(Int)
BY SectorIs, AppendProperties DEF TypeOK

\* Before the first entry nothing is listed.
ScanBegins ==
  (/\ disk \in Disks /\ at = 1 /\ foundfile = FALSE /\ files = <<>> /\ pc = "scan"
   /\ path \in Names /\ answer \in {"none", "missing", "loaded"} /\ next = 0 /\ loaded = <<>>)
    => Listing
LEMMA ListBegins == ScanBegins
<1> SUFFICES ASSUME disk \in Disks, at = 1, foundfile = FALSE, files = <<>>, pc = "scan",
                    path \in Names, answer \in {"none", "missing", "loaded"}, next = 0, loaded = <<>>
             PROVE  Listing
  BY DEF ScanBegins
<1>1. disk.dir \in Seq(DirEntry) /\ Len(disk.dir) \in Nat /\ DOMAIN disk.dir = 1 .. Len(disk.dir)
  BY DiskIs
<1>2. files \in Seq([name : Names, cluster : Nat]) /\ loaded \in Seq(Int)
  BY EmptySeq
<1>3. DOMAIN files = {}
  OBVIOUS
<1>4. TypeOK
  <2>1. at \in 1 .. EntriesPerSector + 1 /\ next \in Int
    BY ConstantsAre
  <2>2. foundfile \in BOOLEAN /\ pc \in {"scan", "idle", "load", "lost"}
    OBVIOUS
  <2> QED
    BY <1>2, <2>1, <2>2, Zenon DEF TypeOK
<1>5. \A i \in FileEntries : ~(LongNamed(i) /\ i < at)
  BY <1>1 DEF FileEntries, LongNamed
<1>6. at \in 1 .. Len(disk.dir) + 1 /\ ~(at > 1)
  BY <1>1
<1> QED
  BY <1>3, <1>4, <1>5, <1>6 DEF Listing, ScanSoFar

LEMMA ListingInit == LoaderInit => Listing
<1> SUFFICES ASSUME LoaderInit PROVE Listing
  OBVIOUS
<1>1. path \in Names
  BY ConstantsAre DEF LoaderInit, Init
<1> QED
  BY <1>1, ListBegins DEF ScanBegins, LoaderInit, Init

\* Every step keeps the list right.
LEMMA ListingStep ==
  Listing /\ [LoaderNext]_<<vars, loaderVars>> => Listing'
<1> SUFFICES ASSUME Listing, [LoaderNext]_<<vars, loaderVars>> PROVE Listing'
  OBVIOUS
<1>1. TypeOK /\ ScanSoFar /\ disk \in Disks
  BY DEF Listing, ScanSoFar
<1>2. CASE UNCHANGED <<vars, loaderVars>>
  BY <1>1, <1>2 DEF Listing, vars, TypeOK, ScanSoFar, AtEnd, Entry, FileEntries, LongNamed
<1>3. CASE LoaderNext
  <2>1. disk' = disk
    BY <1>3, DiskStays
  <2>2. CASE ScanEntry
    BY <2>2, ScanEntryLists
  <2>3. CASE EnterKernel
    <3>1. /\ at' = 1 /\ foundfile' = FALSE /\ files' = <<>> /\ pc' = "scan" /\ next' = 0
          /\ loaded' = <<>> /\ path' = path /\ answer' = answer
      BY <2>3 DEF EnterKernel
    <3>2. ScanBegins'
      BY ListBegins, PTL
    <3> QED
      BY <1>1, <2>1, <3>1, <3>2 DEF ScanBegins, TypeOK
  <2>4. CASE ~ScanEntry /\ ~EnterKernel
    <3>1. /\ UNCHANGED <<at, foundfile, files>>
          /\ pc' # "scan" => pc # "scan" \/ AtEnd
      BY <1>3, <2>4, ListStays
    <3>2. ScanSoFar'
      BY <1>1, <2>1, <3>1 DEF ScanSoFar, AtEnd, Entry, FileEntries, LongNamed
    <3> DEFINE Types == /\ path' \in Names /\ pc' \in {"scan", "idle", "load", "lost"}
                        /\ answer' \in {"none", "missing", "loaded"}
                        /\ next' \in Int /\ loaded' \in Seq(Int)
    <3>3. Types
      <4>1. CASE LoadKernel
        <5>1. next' \in Int /\ loaded' = <<Sector(next')>>
          BY <1>1, <4>1, ConstantsAre, ClusterIs DEF LoadKernel, KernelCluster, TypeOK
        <5>2. loaded' \in Seq(Int)
          BY <1>1, <5>1, LoopTypes
        <5> QED
          BY <1>1, <4>1, <5>1, <5>2, ConstantsAre DEF LoadKernel, TypeOK
      <4>2. CASE NextSector
        <5>1. PICK word \in FatWords(next) :
                next' = NextCluster(word) /\ loaded' = Append(loaded, Sector(next'))
          BY <4>2 DEF NextSector
        <5>2. next' \in Int
          BY <1>1, <5>1, WordsAre DEF TypeOK
        <5>3. loaded' \in Seq(Int)
          BY <1>1, <5>1, <5>2, LoopTypes
        <5> QED
          BY <1>1, <4>2, <5>2, <5>3 DEF NextSector, TypeOK
      <4>3. CASE NoSuchSector \/ OverwriteStack \/ Jump \/ EndScan
        BY <1>1, <2>4, <4>3 DEF NoSuchSector, OverwriteStack, Jump, GoAstray, EndScan, TypeOK
      <4>4. CASE FollowChain
        <5>1. PICK word \in FatWords(next) :
                IF EndsLoad(word)
                  THEN pc' = "idle" /\ answer' = "loaded" /\ UNCHANGED <<next, loaded>>
                  ELSE /\ next' = NextCluster(word)
                       /\ loaded' \in {loaded, Append(loaded, Sector(next'))}
                       /\ UNCHANGED <<pc, answer>>
          BY <4>4 DEF FollowChain
        <5>2. next' \in Int
          <6>1. next \in Int /\ NextCluster(word) \in Nat
            BY <1>1, WordsAre DEF TypeOK
          <6> QED
            BY <5>1, <6>1
        <5>3. loaded' \in Seq(Int)
          BY <1>1, <5>1, <5>2, LoopTypes DEF TypeOK
        <5> QED
          BY <1>1, <4>4, <5>1, <5>2, <5>3 DEF FollowChain, TypeOK
      <4>5. ASSUME NEW p \in Names, FileNotFound(p) PROVE Types
        BY <1>1, <4>5 DEF FileNotFound, TypeOK
      <4>6. ASSUME NEW p \in Names, StartLoad(p) PROVE Types
        <5>1. next' \in Int /\ loaded' = <<Sector(next')>>
          BY <1>1, <4>6, ClusterIs DEF StartLoad, TypeOK
        <5>2. loaded' \in Seq(Int)
          BY <1>1, <5>1, LoopTypes
        <5> QED
          BY <1>1, <4>6, <5>1, <5>2 DEF StartLoad, TypeOK
      <4> QED
        BY <1>3, <2>4, <4>1, <4>2, <4>3, <4>4, <4>5, <4>6 DEF LoaderNext, Continue, KernelCall
    <3> QED
      BY <1>1, <3>1, <3>2, <3>3 DEF Listing, TypeOK
  <2> QED
    BY <2>2, <2>3, <2>4
<1> QED
  BY <1>2, <1>3

\* For disks of every shape: the variables of the driver and of the loader hold what
\* their types say, and the scan reads no entry behind the sector it has in memory
\* (process_directory_area).
THEOREM LoaderTypes == LoaderSpec => []TypeOK
<1>1. Listing => TypeOK
  BY DEF Listing
<1> QED
  BY <1>1, ListingInit, ListingStep, PTL DEF LoaderSpec

\* For disks of every shape: process_directory_area lists no file that is not in the
\* directory, and every file of the sector that has a long name in front of it.
THEOREM DirectoryListedHolds == LoaderSpec => []DirectoryListed
<1>1. Listing => DirectoryListed
  <2> SUFFICES ASSUME Listing PROVE DirectoryListed
    OBVIOUS
  <2>1. TypeOK /\ ScanSoFar
    BY DEF Listing
  <2>2. ASSUME pc # "scan", NEW i \in FileEntries, LongNamed(i), i <= EntriesPerSector
        PROVE  \E n \in DOMAIN files : files[n].name = disk.dir[i].name
    <3>1. disk.dir \in Seq(DirEntry)
      BY <2>1, DiskIs DEF ScanSoFar
    <3>2. i \in 1 .. Len(disk.dir) /\ Len(disk.dir) \in Nat
      BY <3>1 DEF FileEntries
    <3>3. i < at
      BY <2>1, <2>2, <3>2, ConstantsAre DEF ScanSoFar, AtEnd
    <3> QED
      BY <2>1, <2>2, <3>3 DEF ScanSoFar
  <2>3. \A n \in DOMAIN files : \E i \in FileEntries :
          /\ files[n].name = disk.dir[i].name
          /\ disk.dir[i].cluster < ClusterSpan => files[n].cluster = disk.dir[i].cluster
    <3> TAKE n \in DOMAIN files
    <3>1. PICK i \in FileEntries :
            files[n] = [name |-> disk.dir[i].name, cluster |-> FirstCluster(disk.dir[i])]
      BY <2>1 DEF ScanSoFar
    <3>2. disk.dir \in Seq(DirEntry)
      BY <2>1, DiskIs DEF ScanSoFar
    <3>3. disk.dir[i] \in DirEntry /\ disk.dir[i].kind = "file"
      BY <3>2 DEF FileEntries
    <3>4. disk.dir[i].cluster \in Nat
      BY <3>3, FileEntryIs
    <3>5. disk.dir[i].cluster < ClusterSpan => FirstCluster(disk.dir[i]) = disk.dir[i].cluster
      BY <3>4, ConstantsAre DEF FirstCluster
    <3>6. files[n].name = disk.dir[i].name /\ files[n].cluster = FirstCluster(disk.dir[i])
      BY <3>1
    <3> QED
      BY <3>5, <3>6
  <2> QED
    BY <2>2, <2>3 DEF DirectoryListed
<1> QED
  BY <1>1, ListingInit, ListingStep, PTL DEF LoaderSpec

------------------------------------------------------------------------------
\* The chain of a file in reach, on a disk in order.
LEMMA ChainIs ==
  ASSUME DisksInOrder, disk \in Disks, NEW f \in Names, InReach(f)
  PROVE  /\ disk.chain[f] \in Seq(Nat) /\ disk.chain[f] # <<>>
         /\ Len(disk.chain[f]) \in 1 .. MaxSectors
         /\ DOMAIN disk.chain[f] = 1 .. Len(disk.chain[f])
         /\ \A n \in DOMAIN disk.chain[f] :
              /\ disk.chain[f][n] \in 2 .. FatEntries - 1
              /\ disk.fat[disk.chain[f][n]] =
                   IF n = Len(disk.chain[f]) THEN EndOfChain ELSE disk.chain[f][n + 1]
<1> DEFINE chain == disk.chain[f]
<1>1. chain \in Seq(Nat) /\ chain # <<>> /\ \A n \in DOMAIN chain : chain[n] < FatEntries
  BY DiskIs DEF InReach, InTable
<1>2. /\ Len(chain) <= MaxSectors
      /\ \A n \in DOMAIN chain :
           /\ chain[n] >= 2
           /\ disk.fat[chain[n]] = IF n = Len(chain) THEN EndOfChain ELSE chain[n + 1]
  BY <1>1 DEF DisksInOrder, Describes
<1> HIDE DEF chain
<1>3. Len(chain) \in Nat \ {0} /\ DOMAIN chain = 1 .. Len(chain) /\ \A n \in DOMAIN chain : chain[n] \in Nat
  BY <1>1
<1>4. \A n \in DOMAIN chain : chain[n] \in 2 .. FatEntries - 1
  BY <1>1, <1>2, <1>3, ConstantsAre
<1>5. Len(chain) \in 1 .. MaxSectors
  BY <1>2, <1>3, ConstantsAre
<1> QED
  BY <1>1, <1>2, <1>3, <1>4, <1>5 DEF chain

\* The cluster a listed file is found at is the first one of its chain, if the low bits
\* hold it.
LEMMA FirstIs ==
  ASSUME DisksInOrder, Listing, NEW f \in Names, disk.chain[f] # <<>>,
         disk.chain[f][1] < ClusterSpan, ClusterOf(f) # 0
  PROVE  ClusterOf(f) = disk.chain[f][1]
<1>1. TypeOK /\ ScanSoFar /\ disk \in Disks
  BY DEF Listing, ScanSoFar
<1>2. PICK n \in DOMAIN files : files[n].name = f /\ files[n].cluster = ClusterOf(f)
  BY <1>1, ClusterIs DEF TypeOK
<1>3. PICK i \in FileEntries :
        files[n] = [name |-> disk.dir[i].name, cluster |-> FirstCluster(disk.dir[i])]
  BY <1>1 DEF ScanSoFar
<1>4. f = disk.dir[i].name /\ ClusterOf(f) = FirstCluster(disk.dir[i])
  BY <1>2, <1>3
<1>5. disk.dir[i].cluster = disk.chain[f][1]
  BY <1>1, <1>4 DEF DisksInOrder, Describes, FileEntries
<1>6. disk.chain[f][1] \in 0 .. ClusterSpan - 1
  <2>1. disk.chain[f] \in Seq(Nat)
    BY <1>1, DiskIs
  <2>2. 1 \in DOMAIN disk.chain[f] /\ disk.chain[f][1] \in Nat
    BY <2>1
  <2> QED
    BY <2>2, ConstantsAre
<1>7. disk.chain[f][1] % ClusterSpan = disk.chain[f][1]
  BY <1>6, ConstantsAre
<1> QED
  BY <1>4, <1>5, <1>7 DEF FirstCluster

\* A chain in the first sector of the table begins in the low bits.
LEMMA ReachIs ==
  ASSUME DisksInOrder, disk \in Disks, NEW f \in Names, InReach(f)
  PROVE  disk.chain[f] # <<>> /\ disk.chain[f][1] < ClusterSpan
<1>1. 1 \in DOMAIN disk.chain[f] /\ disk.chain[f][1] \in 2 .. FatEntries - 1
  BY ChainIs
<1> QED
  BY <1>1, ChainIs, ConstantsAre

\* What the chain of the kernel is, wherever it lies.
LEMMA KernelChainIs ==
  ASSUME DisksInOrder, disk \in Disks
  PROVE  /\ disk.chain[Kernel] \in Seq(Nat) /\ Len(disk.chain[Kernel]) \in Nat
         /\ DOMAIN disk.chain[Kernel] = 1 .. Len(disk.chain[Kernel])
         /\ \A n \in DOMAIN disk.chain[Kernel] : disk.chain[Kernel][n] \in Nat
BY DiskIs, ConstantsAre

\* The word of a cluster the sector of the table describes leads to the next cluster of
\* the kernel.
LEMMA LinkIs ==
  ASSUME DisksInOrder, disk \in Disks, NEW n \in DOMAIN disk.chain[Kernel],
         n # Len(disk.chain[Kernel]), disk.chain[Kernel][n] < FatEntries,
         NEW word \in FatWords(disk.chain[Kernel][n])
  PROVE  NextCluster(word) = disk.chain[Kernel][n + 1] /\ NextCluster(word) # 0
<1> DEFINE chain == disk.chain[Kernel]
<1>1. /\ chain[n] \in Nat /\ chain[n] < FatEntries /\ n + 1 \in DOMAIN chain
      /\ chain[n + 1] \in Nat
  BY KernelChainIs
<1>2. /\ chain[n + 1] >= 2 /\ chain[n + 1] # EndOfChain
      /\ disk.fat[chain[n]] = chain[n + 1]
  BY <1>1, ConstantsAre DEF DisksInOrder, Describes
<1>3. word = disk.fat[chain[n]]
  BY <1>1, WordsAre, ConstantsAre
<1> HIDE DEF chain
<1> QED
  BY <1>1, <1>2, <1>3 DEF NextCluster, chain

\* The word of a cluster in the chain leads to the next one, that of the last to none.
LEMMA NextIs ==
  ASSUME DisksInOrder, disk \in Disks, NEW f \in Names, InReach(f),
         NEW n \in DOMAIN disk.chain[f], NEW word \in FatWords(disk.chain[f][n])
  PROVE  /\ n = Len(disk.chain[f]) => NextCluster(word) = 0
         /\ n # Len(disk.chain[f]) => /\ n + 1 \in DOMAIN disk.chain[f]
                                      /\ NextCluster(word) = disk.chain[f][n + 1]
                                      /\ NextCluster(word) # 0
<1> DEFINE chain == disk.chain[f]
<1>1. /\ Len(chain) \in 1 .. MaxSectors /\ DOMAIN chain = 1 .. Len(chain)
      /\ \A k \in DOMAIN chain :
           /\ chain[k] \in 2 .. FatEntries - 1
           /\ disk.fat[chain[k]] = IF k = Len(chain) THEN EndOfChain ELSE chain[k + 1]
  BY ChainIs
<1>2. word = disk.fat[chain[n]]
  BY <1>1, WordsAre, ConstantsAre
<1> HIDE DEF chain
<1>3. CASE n = Len(chain)
  BY <1>1, <1>2, <1>3 DEF NextCluster, chain
<1>4. CASE n # Len(chain)
  <2>1. n + 1 \in DOMAIN chain /\ word = chain[n + 1]
    BY <1>1, <1>2, <1>4, ConstantsAre DEF chain
  <2>2. word \in 2 .. FatEntries - 1
    BY <1>1, <2>1
  <2>3. word # EndOfChain /\ word # 0
    BY <2>2, ConstantsAre DEF DisksInOrder
  <2> QED
    BY <1>4, <2>1, <2>3 DEF NextCluster, chain
<1> QED
  BY <1>3, <1>4 DEF chain

\* At the last cluster everything is loaded.
LEMMA WholeIs ==
  ASSUME DisksInOrder, Listing, InReach(path), LoadSoFar, Len(loaded) = Len(disk.chain[path])
  PROVE  loaded = Contents(path)
<1>1. path \in Names /\ loaded \in Seq(Int) /\ disk \in Disks
  BY DEF Listing, TypeOK, ScanSoFar
<1>2. disk.chain[path] # <<>> /\ DOMAIN disk.chain[path] = 1 .. Len(disk.chain[path])
  BY <1>1, ChainIs
<1>3. /\ Contents(path) \in Seq(Int) /\ Len(Contents(path)) = Len(disk.chain[path])
      /\ \A n \in DOMAIN disk.chain[path] : Contents(path)[n] = Sector(disk.chain[path][n])
  BY <1>1, <1>2, ContentsAre DEF DisksInOrder
<1>4. \A n \in 1 .. Len(loaded) : loaded[n] = Sector(disk.chain[path][n])
  BY <1>1 DEF LoadSoFar
<1> QED
  BY <1>1, <1>2, <1>3, <1>4, SeqEqual

\* One cluster further along the chain.
LEMMA OneFurther ==
  ASSUME DisksInOrder, Listing, InReach(path), LoadSoFar, disk' = disk, path' = path,
         NEW word \in FatWords(next), NextCluster(word) # 0,
         next' = NextCluster(word), loaded' = Append(loaded, Sector(next'))
  PROVE  LoadSoFar'
<1>1. path \in Names /\ loaded \in Seq(Int) /\ Len(loaded) \in Nat /\ disk \in Disks
  BY DEF Listing, TypeOK, ScanSoFar
<1> DEFINE n == Len(loaded)
<1>2. n \in DOMAIN disk.chain[path] /\ next = disk.chain[path][n]
  BY DEF LoadSoFar
<1>3. n + 1 \in DOMAIN disk.chain[path] /\ next' = disk.chain[path][n + 1]
  BY <1>1, <1>2, NextIs
<1>4. next' \in Int
  BY <1>1, <1>3, ChainIs
<1>5. Sector(next') \in Int
  BY <1>4, SectorIs
<1>6. /\ Len(loaded') = n + 1 /\ DOMAIN loaded' = 1 .. n + 1
      /\ loaded'[n + 1] = Sector(next') /\ \A k \in 1 .. n : loaded'[k] = loaded[k]
  BY <1>1, <1>5, AppendProperties, LenProperties
<1>7. \A k \in DOMAIN loaded' : loaded'[k] = Sector(disk.chain[path][k])
  BY <1>1, <1>3, <1>6 DEF LoadSoFar
<1> QED
  BY <1>3, <1>6, <1>7 DEF LoadSoFar

\* In front of a cluster the sector of the table leads to there are only such.
LEMMA LinkedBefore ==
  ASSUME NEW chain \in Seq(Nat), NEW n \in DOMAIN chain, Linked(chain, n), NEW k \in Nat \ {0}, k < n
  PROVE  k \in DOMAIN chain /\ k # Len(chain) /\ Linked(chain, k) /\ chain[k] < FatEntries
<1>1. n \in 1 .. Len(chain) /\ Len(chain) \in Nat
  OBVIOUS
<1>2. k \in 1 .. n - 1
  BY <1>1
<1>3. chain[k] < FatEntries
  BY <1>2 DEF Linked
<1>4. \A m \in 1 .. k - 1 : m \in 1 .. n - 1
  BY <1>1
<1>5. Linked(chain, k)
  BY <1>4 DEF Linked
<1>6. k \in 1 .. Len(chain) /\ k # Len(chain)
  BY <1>1
<1> QED
  BY <1>3, <1>5, <1>6

\* What the loop of the loader has loaded is not nothing.
LEMMA SomeLoaded ==
  ASSUME Listing, LinkedSoFar
  PROVE  Len(loaded) \in Nat \ {0} /\ loaded \in Seq(Int) /\ disk \in Disks /\ next \in Int
<1>1. loaded \in Seq(Int) /\ loaded # <<>> /\ disk \in Disks /\ next \in Int
  BY DEF Listing, TypeOK, ScanSoFar, LinkedSoFar
<1> QED
  BY <1>1

\* The same along the part of the kernel the sector of the table leads to.
LEMMA OneLinkFurther ==
  ASSUME DisksInOrder, Listing, LinkedSoFar, disk' = disk,
         NEW word \in FatWords(next),
         next' = NextCluster(word), loaded' = Append(loaded, Sector(next'))
  PROVE  LinkedSoFar'
<1> DEFINE chain == disk.chain[Kernel]
           k == Len(loaded)
<1>1. loaded \in Seq(Int) /\ loaded # <<>> /\ k \in Nat \ {0} /\ disk \in Disks /\ next \in Int
  BY SomeLoaded DEF LinkedSoFar
<1>2. next' \in Int /\ Sector(next') \in Int
  BY <1>1, WordsAre, SectorIs
<1>3. /\ Len(loaded') = k + 1 /\ loaded' # <<>>
      /\ loaded'[k + 1] = Sector(next') /\ \A n \in 1 .. k : loaded'[n] = loaded[n]
  BY <1>1, <1>2, AppendProperties, LenProperties
<1>4. ASSUME NEW n \in DOMAIN chain, Linked(chain, n)
      PROVE  /\ n <= k + 1 => loaded'[n] = Sector(chain[n])
             /\ n = k + 1 => next' = chain[n]
  <2>1. n \in 1 .. Len(chain) /\ Len(chain) \in Nat
    BY <1>1, KernelChainIs
  <2>2. CASE n <= k
    BY <1>1, <1>3, <1>4, <2>1, <2>2 DEF LinkedSoFar
  <2>3. CASE n = k + 1
    <3>0. chain \in Seq(Nat) /\ k < n
      BY <1>1, <2>3, KernelChainIs
    <3>1. k \in DOMAIN chain /\ k # Len(chain) /\ Linked(chain, k) /\ chain[k] < FatEntries
      BY <1>1, <1>4, <3>0, LinkedBefore
    <3>2. next = chain[k]
      BY <3>1 DEF LinkedSoFar
    <3>3. next' = chain[n]
      BY <1>1, <2>3, <3>1, <3>2, LinkIs
    <3> QED
      BY <1>3, <2>3, <3>3
  <2> QED
    BY <1>1, <2>1, <2>2, <2>3
<1> QED
  BY <1>3, <1>4 DEF LinkedSoFar

\* The word behind the last cluster passed ends the loop only where the sector of the
\* table leads no further.
LEMMA NoneLeft ==
  ASSUME DisksInOrder, Listing, LinkedSoFar, NEW word \in FatWords(next), NextCluster(word) = 0,
         NEW n \in DOMAIN disk.chain[Kernel], Linked(disk.chain[Kernel], n)
  PROVE  n <= Len(loaded)
<1> DEFINE chain == disk.chain[Kernel]
           k == Len(loaded)
<1>1. k \in Nat \ {0} /\ disk \in Disks /\ next \in Int
  BY SomeLoaded
<1>n. chain \in Seq(Nat) /\ n \in Nat
  BY <1>1, KernelChainIs
<1> SUFFICES ASSUME k < n PROVE FALSE
  BY <1>1, <1>n
<1>2. k \in DOMAIN chain /\ k # Len(chain) /\ Linked(chain, k) /\ chain[k] < FatEntries
  BY <1>1, <1>n, LinkedBefore
<1>3. next = chain[k]
  BY <1>2 DEF LinkedSoFar
<1> QED
  BY <1>1, <1>2, <1>3, LinkIs

\* What is loaded of that part is what the kernel holds there.
LEMMA LinkedIs ==
  ASSUME DisksInOrder, Listing, LinkedSoFar,
         NEW n \in DOMAIN disk.chain[Kernel], Linked(disk.chain[Kernel], n), n <= Len(loaded)
  PROVE  loaded[n] = Contents(Kernel)[n]
<1>1. disk \in Disks /\ disk.chain[Kernel] # <<>>
  BY KernelChainIs DEF Listing, ScanSoFar
<1>2. Contents(Kernel)[n] = Sector(disk.chain[Kernel][n])
  BY <1>1, ContentsAre, ConstantsAre DEF DisksInOrder
<1> QED
  BY <1>2 DEF LinkedSoFar

\* What depends on the disk and the list alone.
LEMMA SameList ==
  ASSUME disk' = disk, files' = files
  PROVE  /\ \A p : InReach(p)' = InReach(p) /\ ClusterOf(p)' = ClusterOf(p)
         /\ \A p : Contents(p)' = Contents(p)
         /\ path' = path => Found' = Found
<1>1. \A p : InReach(p)' = InReach(p)
  BY DEF InReach
<1>2. \A p : ClusterOf(p)' = ClusterOf(p)
  BY DEF ClusterOf
<1>3. \A p : Contents(p)' = Contents(p)
  BY DEF Contents
<1>4. path' = path => Found' = Found
  BY DEF Found, InReach, ClusterOf
<1> QED
  BY <1>1, <1>2, <1>3, <1>4

\* The image stays what it is.
LEMMA ImageStays ==
  ASSUME KernelWhole, disk' = disk, stage' = stage, image' = image
  PROVE  KernelWhole'
BY DEF KernelWhole, EndsBeforeStack, InReach, Contents

LEMMA LoaderInvInit == LoaderInit => LoaderInv
BY ListingInit DEF LoaderInit, Init, LoaderInv, KernelWhole

\* Each step of the loader keeps its place in the chain of the kernel; it jumps at
\* its end.
LEMMA LoaderSteps ==
  ASSUME DisksInOrder, LoaderInv, Listing',
         LoadKernel \/ NextSector \/ NoSuchSector \/ OverwriteStack \/ Jump
  PROVE  LoaderInv'
<1>1. /\ Listing /\ KernelWhole /\ disk \in Disks /\ path \in Names /\ next \in Int
      /\ files \in Seq([name : Names, cluster : Nat])
      /\ Kernel \in Names /\ stage = "loader" /\ disk' = disk
      /\ answer = "none" /\ answer' = "none"
  BY ConstantsAre DEF LoaderInv, Listing, TypeOK, ScanSoFar, LoadKernel, NextSector, NoSuchSector,
     OverwriteStack, Jump, GoAstray, EnterKernel, InLoop, loaderVars
<1>2. CASE LoadKernel
  <2>1. /\ files' = files /\ path' = Kernel /\ pc' = "load" /\ stage' = stage /\ image' = image
        /\ next' = ClusterOf(Kernel) /\ loaded' = <<Sector(next')>>
    BY <1>2 DEF LoadKernel, KernelCluster, loaderVars
  <2>2. KernelWhole'
    BY <1>1, <2>1, ImageStays
  <2>3. Found' => InReach(Kernel) /\ ClusterOf(Kernel) # 0
    BY <1>1, <2>1 DEF Found, InReach, ClusterOf
  <2>4. Found' => LoadSoFar'
    <3> SUFFICES ASSUME InReach(Kernel), ClusterOf(Kernel) # 0 PROVE LoadSoFar'
      BY <2>3
    <3>1. next' = disk.chain[Kernel][1]
      BY <1>1, <2>1, ReachIs, FirstIs
    <3>2. 1 \in DOMAIN disk.chain[Kernel]
      BY <1>1, ChainIs
    <3>3. Len(loaded') = 1 /\ DOMAIN loaded' = {1} /\ loaded'[1] = Sector(next')
      BY <2>1
    <3> QED
      BY <1>1, <2>1, <3>1, <3>2, <3>3 DEF LoadSoFar
  <2>5. ClusterOf(path)' = 0 => next' = 0
    BY <1>1, <2>1 DEF ClusterOf
  <2>6. ClusterOf(Kernel)' # 0 => LinkedSoFar'
    <3> SUFFICES ASSUME ClusterOf(Kernel) # 0 PROVE LinkedSoFar'
      BY <2>1 DEF ClusterOf
    <3>1. Len(loaded') = 1 /\ loaded' # <<>> /\ loaded'[1] = Sector(next')
      BY <2>1
    <3>2. ASSUME NEW n \in DOMAIN disk.chain[Kernel], Linked(disk.chain[Kernel], n), n <= 1
          PROVE  n = 1 /\ next' = disk.chain[Kernel][1]
      <4>1. n = 1 /\ disk.chain[Kernel] # <<>>
        BY <1>1, <3>2, KernelChainIs
      <4> QED
        BY <1>1, <2>1, <3>2, <4>1, FirstIs DEF Linked
    <3>3. ASSUME NEW n \in DOMAIN disk.chain[Kernel], Linked(disk.chain[Kernel], n)
          PROVE  /\ n <= 1 => loaded'[n] = Sector(disk.chain[Kernel][n])
                 /\ n = 1 => next' = disk.chain[Kernel][n]
      BY <3>1, <3>2, <3>3
    <3> QED
      BY <1>1, <3>1, <3>3 DEF LinkedSoFar
  <2> QED
    BY <1>1, <2>1, <2>2, <2>4, <2>5, <2>6 DEF LoaderInv
<1>3. CASE NextSector
  <2>1. /\ pc = "load" /\ pc' = pc /\ path' = path /\ files' = files /\ stage' = stage
        /\ image' = image
    BY <1>3 DEF NextSector, InLoop, loaderVars
  <2>2. PICK word \in FatWords(next) :
          /\ NextCluster(word) \notin {0, MediaWord}
          /\ next' = NextCluster(word) /\ loaded' = Append(loaded, Sector(next'))
    BY <1>3 DEF NextSector
  <2>3. Found' = Found /\ ClusterOf(path)' = ClusterOf(path)
    BY <1>1, <2>1, SameList DEF ClusterOf
  <2>4. Found => LoadSoFar'
    <3> SUFFICES ASSUME Found PROVE LoadSoFar'
      OBVIOUS
    <3>1. InReach(path) /\ LoadSoFar
      BY <2>1 DEF LoaderInv, Found
    <3> QED
      BY <1>1, <2>1, <2>2, <3>1, OneFurther
  <2>5. ClusterOf(path) # 0
    <3> SUFFICES ASSUME ClusterOf(path) = 0 PROVE FALSE
      OBVIOUS
    <3>1. next = 0
      BY <2>1 DEF LoaderInv
    <3>2. word = MediaWord /\ NextCluster(word) = MediaWord
      BY <1>1, <2>2, <3>1, MediaIs, ConstantsAre DEF NextCluster
    <3> QED
      BY <2>2, <3>2
  <2>6. KernelWhole'
    BY <1>1, <2>1, ImageStays
  <2>7. ClusterOf(Kernel)' # 0 => LinkedSoFar'
    <3>1. ClusterOf(Kernel)' # 0 => LinkedSoFar
      BY <1>1, <2>1, SameList DEF LoaderInv
    <3> QED
      BY <1>1, <2>2, <3>1, OneLinkFurther
  <2> QED
    BY <1>1, <2>1, <2>3, <2>4, <2>5, <2>6, <2>7 DEF LoaderInv
<1>4. ASSUME InLoop, NEW word \in FatWords(next),
             NextCluster(word) = 0 \/ (OnStack /\ NextCluster(word) \notin {0, MediaWord}), EnterKernel
      PROVE  LoaderInv'
  <2>1. /\ pc = "load" /\ path = Kernel /\ pc' = "scan" /\ stage' = "kernel" /\ image' = loaded
    BY <1>1, <1>4 DEF InLoop, EnterKernel, LoaderInv
  <2>0. ClusterOf(path) # 0
    <3> SUFFICES ASSUME ClusterOf(path) = 0 PROVE FALSE
      OBVIOUS
    <3>1. next = 0
      BY <2>1 DEF LoaderInv
    <3>2. word = MediaWord /\ NextCluster(word) # 0
      BY <1>1, <1>4, <3>1, MediaIs
    <3> QED
      BY <1>4, <3>2, ConstantsAre DEF NextCluster
  <2>2. ASSUME EndsBeforeStack, InReach(Kernel) PROVE loaded = Contents(Kernel)
    <3>2. InReach(path) /\ LoadSoFar
      BY <2>0, <2>1, <2>2 DEF LoaderInv, Found
    <3>3. CASE NextCluster(word) = 0
      <4>1. Len(loaded) = Len(disk.chain[path])
        BY <1>1, <1>4, <3>2, <3>3, NextIs DEF LoadSoFar
      <4> QED
        BY <1>1, <2>1, <3>2, <4>1, WholeIs
    <3>4. CASE OnStack /\ NextCluster(word) # 0
      <4>0. DOMAIN disk.chain[path] = 1 .. Len(disk.chain[path]) /\ Len(disk.chain[path]) \in 1 .. MaxSectors
        BY <1>1, <3>2, ChainIs
      <4>1. /\ Len(loaded) \in DOMAIN disk.chain[path] /\ next = disk.chain[path][Len(loaded)]
            /\ DOMAIN disk.chain[path] = 1 .. Len(disk.chain[path])
            /\ Len(disk.chain[path]) \in Nat /\ Len(loaded) \in Nat
        BY <3>2, <4>0, ConstantsAre DEF LoadSoFar
      <4>2. Len(loaded) # Len(disk.chain[path])
        BY <1>1, <1>4, <3>2, <3>4, <4>1, NextIs
      <4>3. Len(disk.chain[path]) <= ImageLimit /\ ImageLimit <= Len(loaded)
        BY <2>1, <2>2, <3>4, <4>1, ConstantsAre DEF EndsBeforeStack, OnStack
      <4> QED
        BY <4>1, <4>2, <4>3, ConstantsAre
    <3> QED
      BY <1>4, <3>3, <3>4
  <2>4. ASSUME EndsBeforeStack, NEW n \in DOMAIN disk.chain[Kernel], Linked(disk.chain[Kernel], n)
        PROVE  n <= Len(loaded) /\ loaded[n] = Contents(Kernel)[n]
    <3>1. LinkedSoFar
      BY <1>1, <2>0, <2>1 DEF LoaderInv
    <3>2. n <= Len(loaded)
      <4>1. CASE NextCluster(word) = 0
        BY <1>1, <1>4, <2>4, <3>1, <4>1, NoneLeft
      <4>2. CASE OnStack
        <5>1. Len(disk.chain[Kernel]) <= ImageLimit /\ ImageLimit <= Len(loaded) /\ Len(loaded) \in Nat
          BY <1>1, <2>4, <4>2 DEF EndsBeforeStack, OnStack, Listing, TypeOK
        <5>2. n \in 1 .. Len(disk.chain[Kernel]) /\ Len(disk.chain[Kernel]) \in Nat
          BY <1>1, <2>4, KernelChainIs
        <5> QED
          BY <5>1, <5>2, ConstantsAre
      <4> QED
        BY <1>4, <4>1, <4>2
    <3> QED
      BY <1>1, <2>4, <3>1, <3>2, LinkedIs
  <2>3. KernelWhole'
    BY <1>1, <2>1, <2>2, <2>4 DEF KernelWhole, EndsBeforeStack, InReach, Contents
  <2> QED
    BY <1>1, <2>1, <2>3 DEF LoaderInv
<1>5. CASE GoAstray
  <2>1. /\ pc' = "lost" /\ stage' = stage /\ image' = image /\ UNCHANGED <<path, files, loaded>>
    BY <1>5 DEF GoAstray, loaderVars
  <2>2. KernelWhole'
    BY <1>1, <2>1, ImageStays
  <2> QED
    BY <1>1, <2>1, <2>2 DEF LoaderInv
<1> QED
  BY <1>2, <1>3, <1>4, <1>5 DEF NoSuchSector, OverwriteStack, Jump

\* Each step of read_file does, too.
LEMMA KernelSteps ==
  ASSUME DisksInOrder, LoaderInv, Listing', stage = "kernel", UNCHANGED loaderVars,
         EndScan \/ FollowChain \/ \E p \in Names : FileNotFound(p) \/ StartLoad(p)
  PROVE  LoaderInv'
<1>1. /\ Listing /\ disk \in Disks /\ path \in Names /\ next \in Int
      /\ disk' = disk /\ files' = files /\ stage' = "kernel" /\ image' = image
  BY DEF LoaderInv, Listing, TypeOK, ScanSoFar, loaderVars, EndScan, FollowChain, FileNotFound, StartLoad
<1>2. KernelWhole'
  BY <1>1, ImageStays DEF LoaderInv
<1>3. CASE EndScan
  BY <1>1, <1>2, <1>3 DEF EndScan, LoaderInv
<1>4. CASE FollowChain
  <2>1. pc = "load" /\ answer = "none" /\ path' = path
    BY <1>4 DEF FollowChain, LoaderInv
  <2>2. Found' = Found /\ ClusterOf(path)' = ClusterOf(path) /\ Contents(path)' = Contents(path)
    BY <1>1, <2>1, SameList DEF ClusterOf, Contents
  <2>3. ClusterOf(path) # 0 /\ (Found => InReach(path) /\ LoadSoFar)
    BY <2>1 DEF LoaderInv, Found
  <2>4. PICK word \in FatWords(next) :
          IF EndsLoad(word)
            THEN pc' = "idle" /\ answer' = "loaded" /\ UNCHANGED <<next, loaded>>
            ELSE /\ next' = NextCluster(word)
                 /\ loaded' = IF Len(loaded) < MaxSectors THEN Append(loaded, Sector(next'))
                                                          ELSE loaded
                 /\ UNCHANGED <<pc, answer>>
    BY <1>4 DEF FollowChain
  <2>5. CASE EndsLoad(word)
    <3>1. Found => loaded = Contents(path)
      <4> SUFFICES ASSUME Found PROVE loaded = Contents(path)
        OBVIOUS
      <4>1. Len(loaded) = Len(disk.chain[path])
        BY <1>1, <2>3, <2>4, <2>5, NextIs DEF LoadSoFar, EndsLoad
      <4> QED
        BY <1>1, <2>3, <4>1, WholeIs
    <3>2. pc' = "idle" /\ answer' = "loaded" /\ loaded' = loaded
      BY <2>4, <2>5
    <3> QED
      BY <1>1, <1>2, <2>1, <2>2, <3>1, <3>2 DEF LoaderInv
  <2>6. CASE ~EndsLoad(word)
    <3>1. pc' = "load" /\ answer' = "none" /\ next' = NextCluster(word) /\ NextCluster(word) # 0
      BY <2>1, <2>4, <2>6 DEF EndsLoad
    <3>2. Found => LoadSoFar'
      <4> SUFFICES ASSUME Found PROVE LoadSoFar'
        OBVIOUS
      <4>1. Len(loaded) \in DOMAIN disk.chain[path] /\ next = disk.chain[path][Len(loaded)]
        BY <2>3 DEF LoadSoFar
      <4>2. Len(loaded) # Len(disk.chain[path])
        BY <1>1, <2>3, <3>1, <4>1, NextIs
      <4>3. Len(loaded) < MaxSectors
        BY <1>1, <2>3, <4>1, <4>2, ChainIs, ConstantsAre
      <4>4. loaded' = Append(loaded, Sector(next'))
        BY <2>4, <2>6, <4>3
      <4> QED
        BY <1>1, <2>1, <2>3, <3>1, <4>4, OneFurther
    <3> QED
      BY <1>1, <1>2, <2>1, <2>2, <2>3, <3>1, <3>2 DEF LoaderInv
  <2> QED
    BY <2>5, <2>6
<1>5. ASSUME NEW p \in Names, FileNotFound(p) PROVE LoaderInv'
  BY <1>1, <1>2, <1>5 DEF FileNotFound, LoaderInv
<1>6. ASSUME NEW p \in Names, StartLoad(p) PROVE LoaderInv'
  <2>1. /\ path' = p /\ pc' = "load" /\ answer' = "none" /\ ClusterOf(p) # 0
        /\ next' = ClusterOf(p) /\ loaded' = <<Sector(next')>>
    BY <1>6 DEF StartLoad
  <2>2. (Found' => InReach(p)) /\ ClusterOf(path)' = ClusterOf(p)
    BY <1>1, <2>1 DEF Found, InReach, ClusterOf
  <2>3. Found' => LoadSoFar'
    <3> SUFFICES ASSUME InReach(p) PROVE LoadSoFar'
      BY <2>2
    <3>1. next' = disk.chain[p][1]
      BY <1>1, <2>1, ReachIs, FirstIs
    <3>2. 1 \in DOMAIN disk.chain[p]
      BY <1>1, ChainIs
    <3>3. Len(loaded') = 1 /\ DOMAIN loaded' = {1} /\ loaded'[1] = Sector(next')
      BY <2>1
    <3> QED
      BY <1>1, <2>1, <3>1, <3>2, <3>3 DEF LoadSoFar
  <2> QED
    BY <1>1, <1>2, <2>1, <2>2, <2>3 DEF LoaderInv
<1> QED
  BY <1>3, <1>4, <1>5, <1>6

\* LoaderInv is inductive on disks in order.
LEMMA LoaderInvStep ==
  DisksInOrder /\ LoaderInv /\ [LoaderNext]_<<vars, loaderVars>> => LoaderInv'
<1> SUFFICES ASSUME DisksInOrder, LoaderInv, [LoaderNext]_<<vars, loaderVars>> PROVE LoaderInv'
  OBVIOUS
<1>1. Listing'
  BY ListingStep DEF LoaderInv
<1>2. CASE UNCHANGED <<vars, loaderVars>>
  <2>1. disk' = disk /\ files' = files /\ path' = path
    BY <1>2 DEF vars
  <2>2. Found' = Found /\ ClusterOf(path)' = ClusterOf(path) /\ Contents(path)' = Contents(path)
    BY <2>1, SameList DEF ClusterOf, Contents
  <2>3. LoadSoFar' = LoadSoFar
    BY <1>2 DEF vars, LoadSoFar
  <2>4. KernelWhole'
    BY <1>2, ImageStays DEF vars, loaderVars, LoaderInv
  <2>5. LinkedSoFar' = LinkedSoFar
    BY <1>2 DEF vars, LinkedSoFar
  <2>6. ClusterOf(Kernel)' = ClusterOf(Kernel)
    BY <2>1 DEF ClusterOf
  <2> QED
    BY <1>1, <1>2, <2>2, <2>3, <2>4, <2>5, <2>6 DEF LoaderInv, vars, loaderVars
<1>3. CASE LoadKernel \/ NextSector \/ NoSuchSector \/ OverwriteStack \/ Jump
  BY <1>1, <1>3, LoaderSteps
<1>4. CASE ScanEntry /\ UNCHANGED loaderVars
  <2>1. pc = "scan" /\ disk' = disk /\ UNCHANGED <<pc, answer, stage, image>>
    BY <1>4 DEF ScanEntry, loaderVars
  <2>2. KernelWhole'
    BY <2>1, ImageStays DEF LoaderInv
  <2> QED
    BY <1>1, <2>1, <2>2 DEF LoaderInv
<1>5. CASE /\ stage = "kernel" /\ UNCHANGED loaderVars
           /\ EndScan \/ FollowChain \/ \E p \in Names : FileNotFound(p) \/ StartLoad(p)
  BY <1>1, <1>5, KernelSteps
<1> QED
  BY <1>2, <1>3, <1>4, <1>5 DEF LoaderNext, Continue, KernelCall

\* On disks in order, of every size: the loop that follows a chain has loaded the
\* sectors of the clusters it has passed, and no others.
THEOREM LoaderInvariant == DisksInOrder => (LoaderSpec => []LoaderInv)
<1>1. SUFFICES ASSUME DisksInOrder PROVE LoaderSpec => []LoaderInv
  OBVIOUS
<1>2. LoaderInv /\ [LoaderNext]_<<vars, loaderVars>> => LoaderInv'
  BY <1>1, LoaderInvStep
<1> QED
  BY <1>2, LoaderInvInit, PTL DEF LoaderSpec

\* On such a disk whoever loads a listed file has its sectors, in order, at its
\* address, and is done when it has all of them (read_file, loader_main).
THEOREM FileLoadedHolds == DisksInOrder => (LoaderSpec => []FileLoaded)
<1>1. SUFFICES ASSUME DisksInOrder PROVE LoaderSpec => []FileLoaded
  OBVIOUS
<1>2. LoaderInv => FileLoaded
  <2> SUFFICES ASSUME LoaderInv, InReach(path), ClusterOf(path) # 0
               PROVE  /\ pc = "load" => IsPrefix(loaded, Contents(path))
                      /\ answer = "loaded" => loaded = Contents(path)
    BY DEF FileLoaded
  <2>1. path \in Names /\ loaded \in Seq(Int) /\ disk \in Disks
    BY DEF LoaderInv, Listing, TypeOK, ScanSoFar
  <2>2. ASSUME pc = "load" PROVE IsPrefix(loaded, Contents(path))
    <3>1. LoadSoFar
      BY <2>2 DEF LoaderInv, Found
    <3>2. disk.chain[path] # <<>> /\ DOMAIN disk.chain[path] = 1 .. Len(disk.chain[path])
      BY <1>1, <2>1, ChainIs
    <3>3. /\ Contents(path) \in Seq(Int) /\ Len(Contents(path)) = Len(disk.chain[path])
          /\ \A n \in DOMAIN disk.chain[path] : Contents(path)[n] = Sector(disk.chain[path][n])
      BY <1>1, <2>1, <3>2, ContentsAre DEF DisksInOrder
    <3> DEFINE n == Len(loaded)
               head == SubSeq(Contents(path), 1, n)
    <3>4. n \in 1 .. Len(Contents(path)) /\ n \in Nat /\ Len(Contents(path)) \in Nat
      BY <2>1, <3>1, <3>2, <3>3 DEF LoadSoFar
    <3>5. head \in Seq(Int) /\ Len(head) = n /\ \A k \in 1 .. n : head[k] = Contents(path)[k]
      BY <3>3, <3>4, SubSeqProperties
    <3>6. \A k \in 1 .. n : loaded[k] = Contents(path)[k]
      <4> TAKE k \in 1 .. n
      <4>1. k \in DOMAIN loaded
        BY <2>1, LenProperties
      <4>2. k \in DOMAIN disk.chain[path]
        BY <3>2, <3>3, <3>4
      <4> QED
        BY <3>1, <3>3, <4>1, <4>2 DEF LoadSoFar
    <3> HIDE DEF head
    <3>7. loaded = head
      BY <2>1, <3>5, <3>6, SeqEqual
    <3>8. SubSeq(loaded, 1, Len(loaded)) = loaded
      BY <2>1, SubSeqFull
    <3> QED
      BY <3>4, <3>7, <3>8 DEF IsPrefix, head
  <2> QED
    BY <2>2 DEF LoaderInv, Found
<1> QED
  BY <1>1, <1>2, LoaderInvariant, PTL

\* On such a disk, of a kernel that ends in front of the stack of the loader, at least what
\* the sector of the table leads to is loaded, in order, before the jump, and if that is
\* all, exactly this (loader_main, stage2.c).
THEOREM KernelWholeHolds == DisksInOrder => (LoaderSpec => []KernelWhole)
<1>1. SUFFICES ASSUME DisksInOrder PROVE LoaderSpec => []KernelWhole
  OBVIOUS
<1>2. LoaderInv => KernelWhole
  BY DEF LoaderInv
<1> QED
  BY <1>1, <1>2, LoaderInvariant, PTL
=============================================================================
