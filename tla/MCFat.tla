-------------------------------- MODULE MCFat -------------------------------
(***************************************************************************)
(* Instances of Loader, and with it of Fat, for TLC.  Sectors of six       *)
(* directory entries, a list of two files, table sectors of eight words,   *)
(* cluster numbers of four bits, images of three sectors.  A directory is  *)
(* up to three of: an unused entry, a subdirectory with or without a long  *)
(* name, a file with one, two or no long name entries.                     *)
(***************************************************************************)
EXTENDS Loader, TLC

CONSTANTS A, B, C
MCNames == {A, B, C}

Unused == [kind |-> "unused"]
Long   == [kind |-> "lfn"]
Sub    == [kind |-> "dir"]

\* The clusters of each file, in order: scattered, alone, behind the first sector
\* of the table (also the kernel's), behind the low bits, empty.
Chains ==
  {(A :> <<2, 3>>    @@ B :> <<6>>       @@ C :> <<5, 4>>),
   (A :> <<6, 2, 4, 7>> @@ B :> <<3, 5>> @@ C :> <<12>>),
   (A :> <<7, 9, 5>> @@ B :> <<3, 8, 2>> @@ C :> <<>>),
   (A :> <<2, 7>>    @@ B :> <<18>>      @@ C :> <<9, 3>>),
   (A :> <<9, 2>>    @@ B :> <<3>>       @@ C :> <<5>>)}

FatOf(chain) ==
  [c \in 0 .. FatEntries - 1 |->
     LET users == {f \in MCNames : \E n \in DOMAIN chain[f] : chain[f][n] = c}
     IN  IF c = 0 THEN MediaWord
         ELSE IF users = {} THEN 0
         ELSE LET f == CHOOSE f \in users : TRUE
                  n == CHOOSE n \in DOMAIN chain[f] : chain[f][n] = c
              IN  IF n = Len(chain[f]) THEN EndOfChain ELSE chain[f][n + 1]]

File(chain, f) ==
  [kind |-> "file", name |-> f, cluster |-> IF chain[f] = <<>> THEN 0 ELSE chain[f][1]]

Items(chain) ==
  {<<Unused>>, <<Sub>>, <<Long, Sub>>, <<File(chain, C)>>, <<Long, Long, File(chain, C)>>}
    \cup {<<Long, File(chain, f)>> : f \in {A, B}} \cup {<<File(chain, A)>>}

\* The names of a directory differ.
Distinct(dir) ==
  \A i, j \in DOMAIN dir :
    dir[i].kind = "file" /\ dir[j].kind = "file" /\ dir[i].name = dir[j].name => i = j

DirsOf(chain) ==
  {d \in {FlattenSeq(s) : s \in UNION {[1 .. n -> Items(chain)] : n \in 0 .. 3}} : Distinct(d)}

MCDisks == UNION {{[dir |-> d, fat |-> FatOf(ch), chain |-> ch] : d \in DirsOf(ch)} : ch \in Chains}

\* What the theorems about whole files ask of the disks.
ASSUME MCFatAssumption == DisksInOrder

MCStackWords == {0, 3, 9, EndOfChain}
=============================================================================
