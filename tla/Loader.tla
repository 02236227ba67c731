------------------------------- MODULE Loader -------------------------------
(***************************************************************************)
(* Stage 2 of the boot loader: loader_main lists the root directory with   *)
(* its own copy of the code Fat models, loads BOOT.BIN to the address it   *)
(* has mapped the kernel at, and jumps there; the kernel then reads its    *)
(* files as in Fat.                                                        *)
(*                                                                         *)
(* Unlike read_file, loader_main goes on when it has not found the file,   *)
(* with cluster 0: the first word of the table is no cluster but the media *)
(* type, and neither the disk nor the table reaches to that place.  The    *)
(* kernel is loaded from physical address 0 on, and the stack of the       *)
(* loader, with its copy of the table, lies a few pages behind: an image   *)
(* that reaches it makes loader_main jump too early, or go astray.         *)
(***************************************************************************)
EXTENDS Fat

CONSTANTS
  Kernel,             \* BOOT.BIN
  MediaWord,          \* the first word of a table: 0xffffff8
  ImageLimit          \* sectors of the image in front of the loader's stack

ASSUME LoaderAssumption ==
  /\ Kernel \in Names /\ ImageLimit \in 1 .. MaxSectors
  /\ MediaWord \in Nat \ {0, EndOfChain} /\ \A d \in Disks : d.fat[0] = MediaWord

VARIABLES
  stage,              \* who runs: "loader" or "kernel"
  image               \* the sectors at kernel_start when the loader jumps there

loaderVars == <<stage, image>>

LoaderInit ==
  /\ Init
  /\ stage = "loader" /\ image = <<>>

KernelCluster_First == IF files = <<>> THEN 0 ELSE files[1].cluster   \* mutant
KernelCluster == ClusterOf(Kernel)

\* The end of the directory: no test for cluster 0.
LoadKernel ==
  /\ stage = "loader" /\ pc = "scan" /\ AtEnd
  /\ path' = Kernel
  /\ next' = KernelCluster
  /\ loaded' = <<Sector(next')>>
  /\ pc' = "load"
  /\ UNCHANGED <<disk, at, foundfile, files, answer, loaderVars>>

InLoop == stage = "loader" /\ pc = "load"
OnStack == Len(loaded) >= ImageLimit

NextSector ==
  /\ InLoop /\ ~OnStack
  /\ \E word \in FatWords(next) :
       /\ NextCluster(word) \notin {0, MediaWord}
       /\ next' = NextCluster(word)
       /\ loaded' = Append(loaded, Sector(next'))
  /\ UNCHANGED <<disk, at, foundfile, files, pc, path, answer, loaderVars>>

GoAstray ==
  /\ pc' = "lost"
  /\ UNCHANGED <<disk, at, foundfile, files, path, answer, next, loaded, loaderVars>>

\* kernel_entry: the variables of the kernel are others.
EnterKernel ==
  /\ stage' = "kernel" /\ image' = loaded
  /\ at' = 1 /\ foundfile' = FALSE /\ files' = <<>>
  /\ pc' = "scan" /\ next' = 0 /\ loaded' = <<>>
  /\ UNCHANGED <<disk, path, answer>>

\* The cluster of the media type: the drive has no such sector.
NoSuchSector ==
  /\ InLoop
  /\ \E word \in FatWords(next) : NextCluster(word) = MediaWord
  /\ GoAstray

\* The sector that read_data writes over fat[], the variables of the loop and its own
\* return address: whatever they hold from then on, the loop may end there.
OverwriteStack ==
  /\ InLoop /\ OnStack
  /\ \E word \in FatWords(next) : NextCluster(word) \notin {0, MediaWord}
  /\ EnterKernel \/ GoAstray

Jump ==
  /\ InLoop
  /\ \E word \in FatWords(next) : NextCluster(word) = 0
  /\ EnterKernel

KernelCall(p) == stage = "kernel" /\ (FileNotFound(p) \/ StartLoad(p)) /\ UNCHANGED loaderVars

\* What goes on by itself: all but the calls of read_file.
Continue ==
  \/ LoadKernel
  \/ NextSector
  \/ NoSuchSector
  \/ OverwriteStack
  \/ Jump
  \/ ScanEntry /\ UNCHANGED loaderVars
  \/ stage = "kernel" /\ (EndScan \/ FollowChain) /\ UNCHANGED loaderVars

LoaderNext == Continue \/ \E p \in Names : KernelCall(p)

LoaderSpec ==
  LoaderInit /\ [][LoaderNext]_<<vars, loaderVars>> /\ WF_<<vars, loaderVars>>(Continue)
------------------------------------------------------------------------------
\* The kernel ends in front of the loader's stack, and its chain in the one sector of
\* the table that is read.
EndsBeforeStack == disk.chain[Kernel] # <<>> /\ Len(disk.chain[Kernel]) <= ImageLimit
Loadable == EndsBeforeStack /\ InReach(Kernel)

\* The directory and the one sector of the table lead to the n-th cluster of the chain.
Linked(chain, n) == chain[1] < ClusterSpan /\ \A m \in 1 .. n - 1 : chain[m] < FatEntries

\* Of a kernel that ends in front of the stack the loader jumps into all that the sector
\* of the table leads to, each sector at its place, and if that is all of the kernel, into
\* the whole and nothing else: not into another file, nor, when the disk has no kernel it
\* can find, into whatever lies in front of the data area.  When the sector leads only to
\* a part, what comes behind that part is not the kernel's, and may end there.
KernelWhole ==
  stage = "kernel" /\ EndsBeforeStack =>
    /\ InReach(Kernel) => image = Contents(Kernel)
    /\ \A n \in DOMAIN disk.chain[Kernel] : Linked(disk.chain[Kernel], n) =>
         n <= Len(image) /\ image[n] = Contents(Kernel)[n]

\* The entries process_directory_area records.
Recorded == {i \in FileEntries : i <= EntriesPerSector /\ \E j \in 1 .. i - 1 :
               /\ disk.dir[j].kind = "lfn"
               /\ \A k \in j + 1 .. i - 1 : disk.dir[k].kind # "file"}

\* A disk whose root directory names the kernel where the loader looks for it, and
\* whose kernel is Loadable, boots.
Bootable ==
  /\ Loadable
  /\ \E i \in Recorded : /\ disk.dir[i].name = Kernel
                         /\ Cardinality({j \in Recorded : j <= i}) <= MaxFiles
KernelBoots == Bootable => <>(stage = "kernel")

------------------------------------------------------------------------------
\* Inductive: the directory up to the entry the scan is at is listed, and the long
\* name entry in front of it is remembered.
ScanSoFar ==
  /\ disk \in Disks /\ at \in 1 .. Len(disk.dir) + 1
  /\ at > 1 => (disk.dir[at - 1].kind = "lfn" => foundfile)
  /\ \A n \in DOMAIN files : \E i \in FileEntries :
       files[n] = [name |-> disk.dir[i].name, cluster |-> FirstCluster(disk.dir[i])]
  /\ \A i \in FileEntries : LongNamed(i) /\ i < at =>
       \E n \in DOMAIN files : files[n].name = disk.dir[i].name
  /\ pc # "scan" => AtEnd

Listing == TypeOK /\ ScanSoFar

\* The first clusters of the chain, and the place in it the loop has come to.
Found == InReach(path) /\ ClusterOf(path) # 0
LoadSoFar ==
  /\ Len(loaded) \in DOMAIN disk.chain[path]
  /\ next = disk.chain[path][Len(loaded)]
  /\ \A n \in DOMAIN loaded : loaded[n] = Sector(disk.chain[path][n])

\* The part of the kernel the sector of the table leads to, as far as it is loaded.
LinkedSoFar ==
  /\ loaded # <<>>
  /\ \A n \in DOMAIN disk.chain[Kernel] : Linked(disk.chain[Kernel], n) =>
       /\ n <= Len(loaded) => loaded[n] = Sector(disk.chain[Kernel][n])
       /\ n = Len(loaded) => next = disk.chain[Kernel][n]

\* Inductive on disks in order.
LoaderInv ==
  /\ Listing
  /\ stage \in {"loader", "kernel"}
  /\ stage = "loader" => pc # "idle" /\ answer = "none" /\ (pc = "load" => path = Kernel)
  /\ pc = "load" => /\ answer = "none"
                    /\ Found => LoadSoFar
                    /\ stage = "loader" /\ ClusterOf(Kernel) # 0 => LinkedSoFar
                    /\ ClusterOf(path) = 0 => next = 0 /\ stage = "loader"
  /\ pc = "scan" => answer = "none"
  /\ answer = "loaded" /\ Found => loaded = Contents(path)
  /\ KernelWhole
=============================================================================
