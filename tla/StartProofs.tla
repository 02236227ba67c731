---------------------------- MODULE StartProofs -----------------------------
(***************************************************************************)
(* The boot, for every memory map, kernel, firmware and page size: what    *)
(* pmm_allocate hands out is memory, is nobody else's and lies behind the  *)
(* heap; parse_acpi finds the APICs the tables tell of; nothing that is    *)
(* still needed is written to; every variable has its type; and the bytes  *)
(* of the bitmap suffice.                                                  *)
(***************************************************************************)
EXTENDS Start, PagePoolProofs, FiniteSetTheorems

\* A number is its whole pages and the rest.
LEMMA Divided ==
  ASSUME NEW n \in Nat
  PROVE  /\ n \div PageSize \in Nat /\ n % PageSize \in 0 .. PageSize - 1
         /\ n = (n \div PageSize) * PageSize + (n % PageSize)
         /\ (n \div PageSize) * PageSize \in Nat
  BY PmmAssumption

\* Rounding a number up to a page does not make it smaller.
LEMMA RoundedUpBound ==
  ASSUME NEW n \in Nat
  PROVE  RoundedUp(n) \in Nat /\ RoundedUp(n) >= n
<1> USE PmmAssumption
<1> DEFINE m == n + PageSize - 1
           q == m \div PageSize
<1>1. m \in Nat
  OBVIOUS
<1>2. q * PageSize \in Nat /\ m % PageSize \in 0 .. PageSize - 1
      /\ m = q * PageSize + (m % PageSize)
  BY <1>1, Divided
<1>3. RoundedUp(n) = q * PageSize
  BY DEF RoundedUp
<1> HIDE DEF q
<1> QED
  BY <1>2, <1>3

\* The n-th page of an extent lies in it, and two pages of it lie apart.
LEMMA PageBounds ==
  ASSUME NEW length \in Nat, NEW n \in Nat, n < length \div PageSize
  PROVE  n * PageSize + PageSize <= length
<1> USE PmmAssumption
<1> DEFINE q == length \div PageSize
<1>1. q \in Nat /\ length % PageSize \in Nat
      /\ length = q * PageSize + (length % PageSize)
  OBVIOUS
<1> HIDE DEF q
<1>2. n + 1 <= q
  BY <1>1 DEF q
<1>3. (n + 1) * PageSize <= q * PageSize
  BY <1>1, <1>2
<1>4. (n + 1) * PageSize = n * PageSize + PageSize
  OBVIOUS
<1>5. q * PageSize \in Nat /\ n * PageSize \in Nat
  BY <1>1
<1> QED
  BY <1>1, <1>3, <1>4, <1>5

LEMMA PagesApart ==
  ASSUME NEW base \in Nat, NEW m \in Nat, NEW n \in Nat, m # n
  PROVE  /\ base + m * PageSize # base + n * PageSize
         /\ Apart(base + m * PageSize, PageSize, base + n * PageSize, PageSize)
<1> USE PmmAssumption
<1>1. \A i, j \in Nat : i < j => i * PageSize + PageSize <= j * PageSize
  <2> SUFFICES ASSUME NEW i \in Nat, NEW j \in Nat, i < j
               PROVE  i * PageSize + PageSize <= j * PageSize
    OBVIOUS
  <2>1. (i + 1) * PageSize <= j * PageSize
    OBVIOUS
  <2> QED
    BY <2>1
<1>2. m * PageSize \in Nat /\ n * PageSize \in Nat
  OBVIOUS
<1>3. m < n \/ n < m
  OBVIOUS
<1> QED
  BY <1>1, <1>2, <1>3 DEF Apart

------------------------------------------------------------------------------
\* Of the steps of the boot only those of the memory manager change its state.
LEMMA PoolSteps ==
  ASSUME [StartNext]_startVars
  PROVE  PmmNext \/ UNCHANGED poolVars
BY DEF StartNext, startVars, poolVars, PmmNext, SaveArguments, InitPmm, InitVesa, SetupInterrupts,
   FontPage, ReadFont, InitTextTerminal, InitPaging, TakeTable, BuildTable,
   PoolFails, SetCr3, InstallHeap, StepAcpi, PrintApic, AllocStack, MapApic,
   InitApic, EarlyTick

LEMMA MapFacts ==
  ASSUME map \in Maps, klength \in KernelLengths
  PROVE  /\ Len(map) \in Nat /\ DOMAIN map = 1 .. Len(map)
         /\ klength \in Nat \ {0} /\ KernelStart \in Nat /\ KernelEnd \in Nat
         /\ \A i \in DOMAIN map :
              /\ map[i].base \in Nat /\ map[i].length \in Nat
              /\ map[i].usable \in BOOLEAN
              /\ map[i].usable /\ map[i].base >= KernelStart =>
                   map[i].length - klength \in Nat
<1> DEFINE region == [base : Nat, length : Nat, usable : BOOLEAN]
<1>1. map \in Seq(region)
  BY PmmAssumption
<1> HIDE DEF region
<1>2. /\ Len(map) \in Nat /\ DOMAIN map = 1 .. Len(map)
      /\ \A i \in DOMAIN map : map[i] \in region
  BY <1>1
<1> USE DEF region
<1>3. klength \in Nat \ {0} /\ KernelStart \in Nat /\ KernelEnd \in Nat
  BY PmmAssumption DEF KernelEnd
<1>4. \A i \in DOMAIN map :
        map[i].usable /\ map[i].base >= KernelStart => map[i].length > klength
  BY PmmAssumption
<1> SUFFICES ASSUME NEW i \in DOMAIN map
             PROVE  /\ map[i].base \in Nat /\ map[i].length \in Nat
                    /\ map[i].usable \in BOOLEAN
                    /\ map[i].usable /\ map[i].base >= KernelStart =>
                         map[i].length - klength \in Nat
  BY <1>2, <1>3
<1>5. /\ map[i].base \in Nat /\ map[i].length \in Nat /\ map[i].usable \in BOOLEAN
  BY <1>2
<1>6. ASSUME map[i].usable, map[i].base >= KernelStart
      PROVE  map[i].length - klength \in Nat
  <2>1. map[i].length > klength
    BY <1>4, <1>6
  <2> QED
    BY <1>3, <1>5, <2>1
<1> QED
  BY <1>5, <1>6

\* Before the bitmap is there no page is held.
LEMMA NothingHeld ==
  ASSUME bitmap = <<>>
  PROVE  HeldAreMarked <=> held = {}
<1>1. Marked = {}
  BY DEF Marked
<1> QED
  BY <1>1 DEF HeldAreMarked

LEMMA InitPmmInv == Init => PmmInv
<1> SUFFICES ASSUME Init PROVE PmmInv
  OBVIOUS
<1>1. map \in Maps /\ klength \in KernelLengths
  BY DEF Init
<1>2. \A n \in DOMAIN bitmap : FALSE
  BY DEF Init
<1>3. HeldAreMarked
  BY NothingHeld DEF Init
<1>4. entry \in 1 .. Len(map) + 2 /\ pool \in [base : Nat, length : Nat]
      /\ pool.length = 0
  BY <1>1, MapFacts DEF Init
<1> QED
  BY <1>1, <1>2, <1>3, <1>4 DEF Init, PmmInv

\* While the bitmap is empty the rest of the invariant is about the scan alone.
LEMMA ScanPmmInv ==
  ASSUME map' \in Maps, klength' \in KernelLengths,
         entry' \in 1 .. Len(map') + 2, found' \in BOOLEAN, bitmap' = <<>>, HeldAreMarked',
         pool' \in [base : Nat, length : Nat], ~found' => pool'.length = 0,
         found' /\ NoneAcross => Apart(pool'.base, pool'.length, KernelStart, klength')
  PROVE  PmmInv'
<1>1. \A n \in DOMAIN bitmap' : n \in Nat /\ n < PoolPages' /\ bitmap'[n] \in {0, 1}
  OBVIOUS
<1> QED
  BY <1>1 DEF PmmInv

LEMMA StepPmmInv ==
  ASSUME PmmInv, PmmNext \/ UNCHANGED poolVars
  PROVE  PmmInv'
<1> USE PmmAssumption
<1>1. /\ Len(map) \in Nat /\ DOMAIN map = 1 .. Len(map)
      /\ klength \in Nat \ {0} /\ KernelEnd \in Nat
      /\ pool.base \in Nat /\ pool.length \in Nat /\ found \in BOOLEAN
      /\ entry \in 1 .. Len(map) + 2 /\ map \in Maps /\ klength \in KernelLengths
  BY MapFacts DEF PmmInv
<1>2. ASSUME Scan PROVE PmmInv'
  <2> DEFINE e == map[entry]
             chosen == e.usable /\ ~found /\ (HoldsKernel(e) \/ e.base # 0)
  <2>1. /\ entry \in DOMAIN map /\ ~Ready /\ bitmap = <<>> /\ held = {}
        /\ entry' = entry + 1 /\ ~Ready' /\ bitmap' = <<>> /\ held' = {}
        /\ found' = (found \/ chosen) /\ map' = map /\ klength' = klength
    <3>1. entry \in DOMAIN map /\ ~Ready /\ entry' = entry + 1 /\ map' = map
          /\ klength' = klength /\ bitmap' = bitmap /\ held' = held
      BY <1>1, <1>2 DEF Scan, Scanning, Ready
    <3>2. bitmap = <<>> /\ held = {}
      BY <3>1, NothingHeld DEF PmmInv
    <3>3. found' = (found \/ chosen)
      BY <1>2 DEF Scan
    <3>4. ~Ready'
      BY <1>1, <3>1 DEF Ready
    <3> QED
      BY <3>1, <3>2, <3>3, <3>4
  <2>2. /\ e.base \in Nat /\ e.length \in Nat /\ e.usable \in BOOLEAN
        /\ e.usable /\ e.base >= KernelStart => e.length - klength \in Nat
    BY <1>1, <2>1, MapFacts
  <2> SUFFICES /\ pool' \in [base : Nat, length : Nat]
               /\ ~found' => pool'.length = 0
               /\ found' /\ NoneAcross =>
                    Apart(pool'.base, pool'.length, KernelStart, klength)
    <3>1. HeldAreMarked'
      <4>1. Marked' = {}
        BY <2>1 DEF Marked
      <4> QED
        BY <2>1, <4>1 DEF HeldAreMarked
    <3>2. entry' \in 1 .. Len(map') + 2 /\ found' \in BOOLEAN
      <4>1. Len(map') = Len(map) /\ entry \in 1 .. Len(map) /\ entry' = entry + 1
        BY <1>1, <2>1
      <4>2. Len(map) \in Nat
        BY <1>1
      <4>3. found' = (found \/ chosen)
        BY <2>1
      <4>4. entry' \in 1 .. Len(map') + 2
        BY ONLY <4>1, <4>2
      <4> HIDE DEF chosen
      <4>5. found' \in BOOLEAN
        BY ONLY <4>3
      <4> QED
        BY <4>4, <4>5
    <3>3. map' \in Maps /\ klength' \in KernelLengths /\ bitmap' = <<>>
      BY <1>1, <2>1
    <3> QED
      BY <2>1, <3>1, <3>2, <3>3, ScanPmmInv
  <2>3. CASE ~chosen
    <3>1. pool' = pool
      BY <1>2, <2>3 DEF Scan
    <3>2. found' <=> found
      BY <2>1, <2>3
    <3>3. /\ pool \in [base : Nat, length : Nat]
          /\ ~found => pool.length = 0
          /\ found /\ NoneAcross => Apart(pool.base, pool.length, KernelStart, klength)
      BY Zenon DEF PmmInv
    <3> QED
      BY ONLY <3>1, <3>2, <3>3
  <2>4. CASE chosen /\ HoldsKernel(e)
    <3>1. pool' = [base |-> PoolBase, length |-> e.length - klength]
      BY <1>2, <2>4 DEF Scan
    <3>2. PoolBase \in Nat /\ PoolBase >= KernelEnd
      <4>1. KernelEnd + PageSize \in Nat
        BY <1>1
      <4>2. PoolBase \in Nat /\ PoolBase >= KernelEnd + PageSize
        BY <4>1, RoundedUpBound DEF PoolBase
      <4> QED
        BY <1>1, <4>2
    <3>3. e.length - klength \in Nat
      BY <2>2, <2>4 DEF HoldsKernel
    <3>4. Apart(PoolBase, e.length - klength, KernelStart, klength)
      BY <1>1, <3>2, <3>3 DEF Apart, KernelEnd
    <3> QED
      BY <2>1, <2>4, <3>1, <3>2, <3>3, <3>4
  <2>5. CASE chosen /\ ~HoldsKernel(e)
    <3>1. pool' = [base |-> e.base, length |-> e.length]
      BY <1>2, <2>5 DEF Scan
    <3>2. NoneAcross /\ e.base < KernelStart => e.base + e.length <= KernelStart
      BY <1>1, <2>1, <2>5 DEF NoneAcross
    <3>3. NoneAcross => Apart(e.base, e.length, KernelStart, klength)
      <4>1. CASE e.base < KernelStart
        BY <3>2, <4>1 DEF Apart
      <4>2. CASE e.base >= KernelStart
        <5>1. ~(e.base <= KernelEnd)
          BY <2>5, <4>2 DEF HoldsKernel
        <5> HIDE DEF e
        <5> QED
          BY <1>1, <2>2, <5>1 DEF Apart, KernelEnd
      <4> QED
        BY <2>2, <4>1, <4>2
    <3> QED
      BY <2>1, <2>2, <2>5, <3>1, <3>3
  <2> QED
    BY <2>3, <2>4, <2>5
<1>3. ASSUME ClearBitmap PROVE PmmInv'
  <2>1. /\ entry' = Len(map) + 2 /\ Ready' /\ held = {} /\ held' = {}
        /\ UNCHANGED <<map, klength, found, pool>>
    BY <1>1, <1>3, NothingHeld DEF ClearBitmap, Ready, PmmInv
  <2>2. /\ DOMAIN bitmap' = {n \in 0 .. BitmapSize - 1 : n < PoolPages}
        /\ \A n \in DOMAIN bitmap' : bitmap'[n] = 0
    BY <1>3 DEF ClearBitmap
  <2>3. PoolPages' = PoolPages
    BY <2>1 DEF PoolPages
  <2>4. HeldAreMarked'
    <3>1. Marked' = {}
      BY <2>2 DEF Marked
    <3> QED
      BY <2>1, <3>1 DEF HeldAreMarked
  <2> QED
    BY <1>1, <2>1, <2>2, <2>3, <2>4 DEF PmmInv, Apart
<1>4. ASSUME Allocate PROVE PmmInv'
  <2> DEFINE f == FirstFree(bitmap)
  <2>1. /\ Ready /\ FreePages(bitmap) # {} /\ DOMAIN bitmap \subseteq Nat
        /\ held' = held \cup {pool.base + f * PageSize}
        /\ bitmap' = Taken(bitmap)
        /\ UNCHANGED <<map, klength, entry, found, pool>>
    BY <1>4 DEF Allocate, NextPage, PmmInv
  <2>2. f \in DOMAIN bitmap
    BY <2>1, FirstFreeIsFree
  <2>3. /\ DOMAIN bitmap' = DOMAIN bitmap
        /\ \A n \in DOMAIN bitmap : bitmap'[n] = IF n = f THEN 1 ELSE bitmap[n]
    BY <2>1, TakenMarks
  <2> HIDE DEF f
  <2>4. Marked' = Marked \cup {f}
    BY <2>2, <2>3 DEF Marked
  <2>5. HeldAreMarked'
    BY <2>1, <2>4 DEF PmmInv, HeldAreMarked
  <2>6. Ready' /\ PoolPages' = PoolPages
    BY <2>1 DEF Ready, PoolPages
  <2> QED
    BY <1>1, <2>1, <2>3, <2>5, <2>6 DEF PmmInv, Apart
<1>5. ASSUME NoPage \/ UNCHANGED poolVars PROVE PmmInv'
  <2>1. UNCHANGED <<map, klength, entry, found, pool, bitmap, held>>
    BY <1>5 DEF NoPage, poolVars, vars
  <2> QED
    BY <2>1 DEF PmmInv, Ready, PoolPages, HeldAreMarked, Marked, Apart
<1> QED
  BY <1>2, <1>3, <1>4, <1>5 DEF PmmNext

LEMMA PmmInvPrivate == NoneAcross /\ PmmInv => PagesPrivate
<1> SUFFICES ASSUME NoneAcross, PmmInv PROVE PagesPrivate
  OBVIOUS
<1> USE PmmAssumption
<1> DEFINE page(n) == pool.base + n * PageSize
<1>1. /\ pool.base \in Nat /\ pool.length \in Nat /\ klength \in Nat \ {0}
      /\ \A n \in DOMAIN bitmap : n \in Nat /\ n < PoolPages /\ bitmap[n] \in {0, 1}
      /\ held = {page(n) : n \in {m \in DOMAIN bitmap : bitmap[m] = 1}}
  BY DEF PmmInv, HeldAreMarked, Marked
<1>2. \A m, n \in DOMAIN bitmap :
        m # n => page(m) # page(n) /\ Apart(page(m), PageSize, page(n), PageSize)
  BY <1>1, PagesApart
<1>3. \A n \in DOMAIN bitmap : Apart(page(n), PageSize, KernelStart, klength)
  <2> SUFFICES ASSUME NEW n \in DOMAIN bitmap
               PROVE  Apart(page(n), PageSize, KernelStart, klength)
    OBVIOUS
  <2>1. n \in Nat /\ n < pool.length \div PageSize
    BY <1>1 DEF PoolPages
  <2>2. n * PageSize + PageSize <= pool.length /\ n * PageSize \in Nat
    BY <1>1, <2>1, PageBounds
  <2>3. found
    <3>1. pool.length > 0
      BY <1>1, <2>2
    <3> QED
      BY <3>1 DEF PmmInv
  <2>4. Apart(pool.base, pool.length, KernelStart, klength)
    BY <2>3 DEF PmmInv
  <2> DEFINE offset1 == n * PageSize
  <2> HIDE DEF offset1
  <2>5. offset1 \in Nat /\ offset1 + PageSize <= pool.length
    BY <2>2 DEF offset1
  <2>6. Apart(pool.base + offset1, PageSize, KernelStart, klength)
    BY <1>1, <2>4, <2>5 DEF Apart
  <2> QED
    BY <2>6 DEF offset1
<1> HIDE DEF page
<1> QED
  <2>1. \A a \in held : \E n \in DOMAIN bitmap : a = page(n) /\ bitmap[n] = 1
    BY <1>1
  <2>2. \A n \in DOMAIN bitmap : bitmap[n] = 1 => page(n) \in held
    BY <1>1
  <2>3. \A n \in DOMAIN bitmap : bitmap[n] = 1 <=> page(n) \in held
    BY <1>2, <2>1, <2>2
  <2>4. \A a, b \in held : a # b => Apart(a, PageSize, b, PageSize)
    BY <1>2, <2>1
  <2>5. \A a \in held : Apart(a, PageSize, KernelStart, klength)
    BY <1>3, <2>1
  <2> QED
    BY <2>3, <2>4, <2>5 DEF PagesPrivate, page

\* The pool lies beside what init_pmm takes for the kernel, if no region reaches
\* across its beginning, and its bitmap says exactly which of its pages are handed
\* out.
THEOREM PmmInvariant == StartSpec => []PmmInv
<1>1. StartInit => PmmInv
  BY InitPmmInv DEF StartInit
<1>2. PmmInv /\ [StartNext]_startVars => PmmInv'
  BY PoolSteps, StepPmmInv
<1> QED
  BY <1>1, <1>2, PTL DEF StartSpec

\* No page pmm_allocate hands out, to the font or for a page table, overlaps the
\* kernel or a page handed out before, whatever regions the firmware reports, as
\* long as none of them reaches across the beginning of the kernel.
THEOREM PagesPrivateHolds == NoneAcross => (StartSpec => []PagesPrivate)
<1> SUFFICES ASSUME NoneAcross PROVE StartSpec => []PagesPrivate
  OBVIOUS
<1>1. PmmInv => PagesPrivate
  BY PmmInvPrivate
<1> QED
  BY <1>1, PmmInvariant, PTL

------------------------------------------------------------------------------
\* The pool and the heap.

LEMMA StepPoolBehindKernel ==
  ASSUME HeapFits, PmmInv, PoolBehindKernel, PmmNext \/ UNCHANGED poolVars
  PROVE  PoolBehindKernel'
<1> USE PmmAssumption
<1>1. /\ Len(map) \in Nat /\ DOMAIN map = 1 .. Len(map)
      /\ entry \in 1 .. Len(map) + 2 /\ found \in BOOLEAN
      /\ \A i \in DOMAIN map : map[i].base \in Nat /\ map[i].usable \in BOOLEAN
      /\ KernelStart > 0
  BY MapFacts DEF PmmInv, HeapFits, HeapBytes, KiB
<1>2. map' = map /\ klength' = klength
  BY DEF PmmNext, Scan, ClearBitmap, Allocate, NoPage, poolVars, vars
<1>3. SUFFICES ASSUME NEW i \in DOMAIN map, KernelRegion(i)
               PROVE  IF entry' > i THEN found' /\ pool'.base = PoolBase ELSE ~found'
  BY <1>2 DEF PoolBehindKernel, KernelRegion, HoldsKernel, KernelEnd, PoolBase,
     RoundedUp
<1>4. IF entry > i THEN found /\ pool.base = PoolBase ELSE ~found
  BY <1>3 DEF PoolBehindKernel
<1>5. CASE Scan
  <2> DEFINE e == map[entry]
             chosen == e.usable /\ ~found /\ (HoldsKernel(e) \/ e.base # 0)
  <2>0. i \in Nat /\ entry \in Nat
    BY <1>1
  <2>1. /\ entry \in DOMAIN map /\ entry' = entry + 1
        /\ found' = (found \/ chosen)
        /\ ~chosen => pool' = pool
        /\ chosen /\ HoldsKernel(e) => pool'.base = PoolBase
    <3>1. entry \in DOMAIN map /\ entry' = entry + 1
      BY <1>1, <1>5 DEF Scan, Scanning
    <3>2. found' = (found \/ chosen) /\ (~chosen => pool' = pool)
      BY <1>5 DEF Scan
    <3>3. ASSUME chosen, HoldsKernel(e) PROVE pool'.base = PoolBase
      BY <1>5, <3>3 DEF Scan
    <3> QED
      BY <3>1, <3>2, <3>3
  <2>2. CASE entry > i
    <3>1. found /\ pool.base = PoolBase /\ ~chosen
      BY <1>4, <2>2
    <3>2. entry' > i
      BY <1>1, <2>1, <2>2, <2>0
    <3>3. found' /\ pool' = pool
      <4> HIDE DEF e, chosen
      <4> QED BY Zenon, <2>1, <3>1
    <3> QED
      BY <3>1, <3>2, <3>3
  <2>3. CASE entry = i
    <3>1. ~found
      BY <1>1, <1>4, <2>3
    <3>2. e.usable /\ HoldsKernel(e)
      BY <1>3, <2>3 DEF KernelRegion
    <3>3. chosen /\ HoldsKernel(e)
      BY <3>1, <3>2
    <3>4. entry' > i
      BY <2>0, <2>1, <2>3
    <3>5. found' /\ pool'.base = PoolBase
      <4> HIDE DEF e, chosen
      <4> QED BY Zenon, <2>1, <3>3
    <3> QED
      BY <3>4, <3>5
  <2>4. CASE entry < i
    <3>1. e.usable => e.base = 0
      BY <1>1, <1>3, <2>1, <2>4 DEF KernelRegion
    <3>2. ~chosen
      BY <1>1, <2>1, <3>1 DEF HoldsKernel
    <3> QED
      BY <1>1, <1>4, <2>1, <2>4, <3>2
  <2> QED
    BY <1>1, <2>2, <2>3, <2>4
<1>6. CASE ClearBitmap
  <2>1. entry > i /\ entry' > i /\ UNCHANGED <<found, pool>>
    BY <1>1, <1>6 DEF ClearBitmap
  <2> QED
    BY <1>4, <2>1
<1>7. CASE Allocate \/ NoPage \/ UNCHANGED poolVars
  <2>1. UNCHANGED <<entry, found, pool>>
    BY <1>7 DEF Allocate, NoPage, poolVars, vars
  <2> QED
    BY <1>4, <2>1
<1> QED
  BY <1>5, <1>6, <1>7 DEF PmmNext

LEMMA HeapEndsBeforePool ==
  ASSUME HeapFits, PmmInv, PoolBehindKernel
  PROVE  HeapApart
<1> USE PmmAssumption
<1> SUFFICES ASSUME MapInOrder, NEW a \in held
             PROVE  Apart(HeapStart(klength), HeapBytes, a, PageSize)
  BY DEF HeapApart
<1>1. /\ DOMAIN map = 1 .. Len(map) /\ Len(map) \in Nat /\ klength \in Nat
      /\ KernelStart \in Nat /\ KernelEnd \in Nat /\ KernelEnd = KernelStart + klength
  BY MapFacts DEF PmmInv, KernelEnd
<1>2. PICK n \in Marked : a = pool.base + n * PageSize
  BY DEF PmmInv, HeldAreMarked
<1>3. n \in Nat /\ n * PageSize \in Nat /\ Ready
  <2>1. n \in DOMAIN bitmap
    BY <1>2 DEF Marked
  <2>2. bitmap # <<>>
    BY <2>1
  <2> QED
    BY <2>1, <2>2 DEF PmmInv
<1>4. PICK i \in DOMAIN map : KernelRegion(i)
  BY DEF MapInOrder
<1>5. pool.base = PoolBase
  BY <1>1, <1>3, <1>4 DEF PoolBehindKernel, Ready
<1>6. PoolBase \in Nat /\ PoolBase >= KernelEnd + PageSize
  <2>1. KernelEnd + PageSize \in Nat
    BY <1>1
  <2> QED
    BY <2>1, RoundedUpBound DEF PoolBase
<1>7. HeapStart(klength) \in Nat /\ HeapStart(klength) <= klength + PageSize
  <2> DEFINE m == klength + PageSize
             q == m \div PageSize
  <2>1. m \in Nat
    BY <1>1
  <2>2. q * PageSize \in Nat /\ m % PageSize \in 0 .. PageSize - 1
        /\ m = q * PageSize + (m % PageSize)
    BY <2>1, Divided
  <2>3. HeapStart(klength) = q * PageSize
    BY DEF HeapStart
  <2> HIDE DEF q
  <2> QED
    BY <2>2, <2>3
<1>8. HeapBytes \in Nat
  BY DEF HeapBytes, KiB
<1> DEFINE gap == n * PageSize
<1>9. a = PoolBase + gap /\ gap \in Nat
  BY <1>2, <1>3, <1>5
<1> HIDE DEF gap
<1> QED
  <2>1. HeapBytes <= KernelStart
    BY DEF HeapFits
  <2>2. PageSize \in Nat
    BY DEF PmmAssumption
  <2>3. HeapStart(klength) + HeapBytes <= a
    BY ONLY <1>1, <1>6, <1>7, <1>8, <1>9, <2>1, <2>2
  <2> QED
    BY ONLY <2>3 DEF Apart

\* init_pmm has found the region of the kernel, if there is one.
LEMMA PoolBehindKernelHolds == HeapFits => (StartSpec => []PoolBehindKernel)
<1> SUFFICES ASSUME HeapFits PROVE StartSpec => []PoolBehindKernel
  OBVIOUS
<1>1. StartInit => PoolBehindKernel
  <2> SUFFICES ASSUME Init, NEW i \in DOMAIN map
               PROVE  ~ (entry > i) /\ ~found
    BY DEF StartInit, PoolBehindKernel
  <2>1. map \in Maps /\ klength \in KernelLengths
    BY DEF Init
  <2>2. i \in 1 .. Len(map) /\ Len(map) \in Nat
    BY <2>1, MapFacts
  <2> QED
    BY <2>2 DEF Init
<1>2. PmmInv /\ PoolBehindKernel /\ [StartNext]_startVars => PoolBehindKernel'
  BY PoolSteps, StepPoolBehindKernel
<1> QED
  BY <1>1, <1>2, PmmInvariant, PTL DEF StartSpec

\* install_heap puts the heap behind the kernel without asking for memory; it ends
\* before the first page of the pool for every length of the kernel, because
\* init_pmm takes the kernel to be a megabyte further up than it is.
THEOREM HeapApartHolds == HeapFits => (StartSpec => []HeapApart)
<1> SUFFICES ASSUME HeapFits PROVE StartSpec => []HeapApart
  OBVIOUS
<1>1. PmmInv /\ PoolBehindKernel => HeapApart
  BY HeapEndsBeforePool
<1> QED
  BY <1>1, PmmInvariant, PoolBehindKernelHolds, PTL DEF StartSpec

------------------------------------------------------------------------------
\* The walk over the tables of the firmware.

\* What the firmware leaves.
LEMMA FirmwareIs ==
  ASSUME firmware \in Firmwares
  PROVE  /\ firmware.list \in Seq(Nat) /\ Len(firmware.list) \in Nat
         /\ DOMAIN firmware.list = 1 .. Len(firmware.list)
         /\ RsdtEntries \in Nat
         /\ \A a : IsMadt(a) => firmware.tables[a].records \in Seq(MadtRecord)
BY AcpiAssumption DEF IsMadt

LEMMA RecordIs ==
  ASSUME NEW r \in MadtRecord
  PROVE  r.length \in Nat
BY DEF MadtRecord

\* The last of a set of places.
LEMMA MaxPlace ==
  ASSUME NEW len \in Nat, NEW S, S \subseteq 1 .. len, S # {}
  PROVE  Max(S) \in S /\ \A n \in S : n <= Max(S)
<1> DEFINE Back == {len - n : n \in S}
<1>1. \A n \in S : n \in 1 .. len
  OBVIOUS
<1>2. \A n \in S : n \in Nat /\ len - n \in Nat
  BY <1>1
<1>3. Back \in SUBSET Nat /\ Back # {}
  BY <1>2
<1>4. PICK b \in Back : \A c \in Back : b <= c
  BY <1>3, LeastNumber
<1>5. PICK m \in S : b = len - m
  BY <1>4
<1>6. \A n \in S : m >= n
  <2> TAKE n \in S
  <2>1. len - m <= len - n
    BY <1>4, <1>5
  <2> QED
    BY <1>2, <2>1
<1>7. \E x \in S : \A y \in S : x >= y
  BY <1>6
<1>8. Max(S) \in S /\ \A y \in S : Max(S) >= y
  BY <1>7 DEF Max
<1> QED
  BY <1>2, <1>8

LEMMA MinPlace ==
  ASSUME NEW S \in SUBSET Nat, S # {}
  PROVE  Min(S) \in S /\ \A n \in S : Min(S) <= n
<1>1. \E x \in S : \A y \in S : x <= y
  BY LeastNumber
<1> QED
  BY <1>1 DEF Min

\* A record begins where the one before it ends.
LEMMA OffsetsAre ==
  ASSUME NEW m, m.records \in Seq(MadtRecord)
  PROVE  /\ RecordOffset(m, 1) = 44
         /\ \A k \in 1 .. Len(m.records) :
              RecordOffset(m, k + 1) = RecordOffset(m, k) + m.records[k].length
<1> DEFINE len == Len(m.records)
           Value(T, k) == IF k = 1 THEN 44 ELSE T[k - 1] + m.records[k - 1].length
           Defined(n) == \E T : T = [k \in 1 .. n |-> Value(T, k)]
           Good == {n \in Nat : Defined(n)}
<1>1. len \in Nat
  OBVIOUS
<1>2. Defined(1)
  <2> DEFINE T1 == [k \in 1 .. 1 |-> 44]
  <2>1. T1 = [k \in 1 .. 1 |-> Value(T1, k)]
    OBVIOUS
  <2> QED
    BY <2>1
<1>3. ASSUME NEW n \in Nat, n >= 1, Defined(n) PROVE Defined(n + 1)
  <2>1. PICK T : T = [k \in 1 .. n |-> Value(T, k)]
    BY <1>3
  <2> DEFINE U == [k \in 1 .. n + 1 |-> Value(T, k)]
  <2>2. \A k \in 1 .. n : U[k] = T[k]
    <3> TAKE k \in 1 .. n
    <3>1. k \in 1 .. n + 1
      BY <1>3
    <3>2. U[k] = Value(T, k)
      BY <3>1
    <3>3. [j \in 1 .. n |-> Value(T, j)][k] = Value(T, k)
      OBVIOUS
    <3> HIDE DEF Value, U
    <3> QED
      BY <2>1, <3>2, <3>3
  <2>3. \A k \in 1 .. n + 1 : Value(T, k) = Value(U, k)
    <3> TAKE k \in 1 .. n + 1
    <3>1. k = 1 \/ k - 1 \in 1 .. n
      BY <1>3
    <3> HIDE DEF U
    <3> QED
      BY <2>2, <3>1
  <2>4. U = [k \in 1 .. n + 1 |-> Value(U, k)]
    <3> HIDE DEF Value
    <3>1. [k \in 1 .. n + 1 |-> Value(T, k)] = [k \in 1 .. n + 1 |-> Value(U, k)]
      BY <2>3
    <3> QED
      BY <3>1
  <2> QED
    BY <2>4
<1> HIDE DEF Defined
<1>4. \A n \in 1 .. len + 1 : n \in Good
  <2>1. 1 \in Good /\ \A n \in 1 .. (len + 1) - 1 : n \in Good => n + 1 \in Good
    BY <1>1, <1>2, <1>3
  <2>2. 1 \in Nat /\ len + 1 \in Nat
    BY <1>1
  <2> HIDE DEF Good, len
  <2> QED
    BY <2>1, <2>2, StepByStep
<1>5. Defined(len + 1)
  BY <1>1, <1>4
<1> DEFINE at == CHOOSE T : T = [k \in 1 .. len + 1 |-> Value(T, k)]
<1>6. \A n : RecordOffset(m, n) = at[n]
  BY DEF RecordOffset
<1>7. at = [k \in 1 .. len + 1 |-> Value(at, k)]
  <2>1. \E T : T = [k \in 1 .. len + 1 |-> Value(T, k)]
    BY <1>5 DEF Defined
  <2> HIDE DEF Value, len
  <2> QED
    BY <2>1
<1>8. \A k \in 1 .. len + 1 : at[k] = Value(at, k)
  <2> HIDE DEF Value, at, len
  <2> QED
    BY <1>7
<1> HIDE DEF at
<1>9. \A k \in 1 .. len : k \in 1 .. len + 1 /\ k + 1 \in 1 .. len + 1 /\ k + 1 # 1 /\ (k + 1) - 1 = k
  BY <1>1
<1>10. 1 \in 1 .. len + 1
  BY <1>1
<1> HIDE DEF len
<1>11. \A k \in 1 .. len : at[k + 1] = at[k] + m.records[k].length
  BY <1>8, <1>9
<1> QED
  BY <1>6, <1>8, <1>10, <1>11 DEF len

\* Later records lie behind.
LEMMA OffsetsGrow ==
  ASSUME NEW m, m.records \in Seq(MadtRecord)
  PROVE  /\ \A k \in 1 .. Len(m.records) + 1 : RecordOffset(m, k) \in Nat
         /\ \A i, j \in 1 .. Len(m.records) + 1 :
              i < j => RecordOffset(m, i) + m.records[i].length <= RecordOffset(m, j)
<1> DEFINE len == Len(m.records)
           At(k) == RecordOffset(m, k)
           Size(k) == m.records[k].length
           Numbers == {k \in 1 .. len + 1 : At(k) \in Nat}
<1>1. len \in Nat /\ \A k \in 1 .. len : Size(k) \in Nat
  <2>1. \A k \in 1 .. len : m.records[k] \in MadtRecord
    OBVIOUS
  <2> QED
    BY <2>1, RecordIs
<1>2. At(1) = 44 /\ \A k \in 1 .. len : At(k + 1) = At(k) + Size(k)
  BY OffsetsAre
<1> HIDE DEF At, Size, len
<1>3. \A k \in 1 .. len + 1 : At(k) \in Nat
  <2>1. 1 \in Numbers /\ \A k \in 1 .. (len + 1) - 1 : k \in Numbers => k + 1 \in Numbers
    BY <1>1, <1>2
  <2>2. 1 \in Nat /\ len + 1 \in Nat
    BY <1>1
  <2> HIDE DEF Numbers
  <2>3. \A k \in 1 .. len + 1 : k \in Numbers
    BY <2>1, <2>2, StepByStep
  <2> QED
    BY <2>3 DEF Numbers
<1>4. ASSUME NEW i \in 1 .. len + 1, NEW j \in 1 .. len + 1, i < j PROVE At(i) + Size(i) <= At(j)
  <2> DEFINE Behind == {k \in 1 .. len + 1 : At(i) + Size(i) <= At(k)}
  <2>1. i \in 1 .. len /\ i + 1 \in Nat /\ j \in Nat /\ i \in Nat
    BY <1>1, <1>4
  <2>2. i + 1 \in Behind
    BY <1>1, <1>2, <1>3, <2>1
  <2>3. \A k \in i + 1 .. j - 1 : k \in Behind => k + 1 \in Behind
    <3> SUFFICES ASSUME NEW k \in i + 1 .. j - 1, k \in Behind PROVE k + 1 \in Behind
      OBVIOUS
    <3>1. k \in 1 .. len /\ k + 1 \in 1 .. len + 1
      BY <1>1, <2>1
    <3>2. At(k) \in Nat /\ Size(k) \in Nat /\ At(k + 1) = At(k) + Size(k) /\ At(i) \in Nat /\ Size(i) \in Nat
      BY <1>1, <1>2, <1>3, <2>1, <3>1
    <3> QED
      BY <3>1, <3>2
  <2> HIDE DEF Behind
  <2>4. \A k \in i + 1 .. j : k \in Behind
    BY <2>1, <2>2, <2>3, StepByStep
  <2>5. j \in Behind
    BY <1>4, <2>1, <2>4
  <2> QED
    BY <2>5 DEF Behind
<1> QED
  BY <1>3, <1>4 DEF At, Size, len

\* What depends on the firmware alone.
LEMMA SameFirmware ==
  ASSUME firmware' = firmware
  PROVE  /\ UsesXsdt' = UsesXsdt /\ InList' = InList /\ FirstMadt' = FirstMadt
         /\ \A a : IsMadt(a)' = IsMadt(a)
         /\ LastIndex' = LastIndex
         /\ \A i : Place(i)' = Place(i) /\ TableAddress(i)' = TableAddress(i)
BY DEF UsesXsdt, InList, FirstMadt, IsMadt, LastIndex, Place, TableAddress, Entry

\* The table looked at is the entry at its place in the list, or lies behind the list.
LEMMA PlaceIs ==
  ASSUME AcpiInv, index <= LastIndex
  PROVE  /\ Place(index) \in Nat \ {0}
         /\ Place(index) \in DOMAIN firmware.list =>
              Place(index) \in InList /\ TableAddress(index) = firmware.list[Place(index)]
         /\ Place(index) \notin DOMAIN firmware.list => TableAddress(index) = firmware.behind
<1>1. index \in Nat \ {0} /\ firmware \in Firmwares
  BY DEF AcpiInv
<1> QED
  BY <1>1, FirmwareIs DEF Place, InList, TableAddress, Entry, LastIndex

\* The list: every table up to the index was looked at.
LEMMA ListSteps ==
  ASSUME AcpiInv, NoXsdp \/ OpenList \/ NextTable \/ EndOfList \/ SkipTable
  PROVE  AcpiInv'
<1>1. /\ firmware' = firmware /\ firmware \in Firmwares /\ index \in Nat \ {0}
      /\ NonePassed /\ apic' = apic /\ apic = [local |-> NoApic, io |-> NoApic]
  BY DEF AcpiInv, NoXsdp, OpenList, NextTable, EndOfList, SkipTable
<1>2. /\ InList' = InList /\ LastIndex' = LastIndex
      /\ \A i : Place(i)' = Place(i) /\ TableAddress(i)' = TableAddress(i)
      /\ \A a : IsMadt(a)' = IsMadt(a)
  BY <1>1, SameFirmware
<1>3. index' = index => NonePassed'
  BY <1>1, <1>2 DEF NonePassed, Place, InList, IsMadt, UsesXsdt
<1>4. CASE NoXsdp
  BY <1>1, <1>4 DEF NoXsdp, AcpiInv, ApicFound
<1>5. CASE OpenList
  BY <1>1, <1>3, <1>5 DEF OpenList, AcpiInv, ApicFound
<1>6. CASE NextTable
  <2>1. /\ step' = "table" /\ index' = index /\ index <= LastIndex /\ table' = TableAddress(index)
    BY <1>6 DEF NextTable
  <2>2. index' <= LastIndex' /\ table' = TableAddress(index)'
    BY <1>1, <1>2, <2>1 DEF TableAddress, Entry, UsesXsdt
  <2> QED
    BY <1>1, <1>3, <2>1, <2>2 DEF AcpiInv, ApicFound
<1>7. CASE EndOfList
  <2>1. step' = "done" /\ index' = index /\ index > LastIndex
    BY <1>7 DEF EndOfList
  <2>2. \A i \in InList : i < Place(index)
    BY <1>1, <2>1, FirmwareIs DEF InList, Place, LastIndex
  <2>3. ~ \E i \in InList : IsMadt(firmware.list[i])
    BY <1>1, <2>2 DEF NonePassed
  <2>4. ~ \E i \in InList' : IsMadt(firmware.list[i])'
    BY <1>1, <2>3 DEF InList, IsMadt, UsesXsdt
  <2>5. ApicFound'
    BY <1>1, <2>4 DEF ApicFound
  <2> QED
    BY <1>1, <2>1, <2>5 DEF AcpiInv
<1>8. CASE SkipTable
  <2>1. step = "table" /\ step' = "list" /\ index' = index + 1 /\ ~IsMadt(table)
    BY <1>8 DEF SkipTable
  <2>2. index <= LastIndex /\ table = TableAddress(index)
    BY <2>1 DEF AcpiInv
  <2>3. \A i \in InList : i < Place(index + 1) => ~IsMadt(firmware.list[i])
    <3> SUFFICES ASSUME NEW i \in InList, i < Place(index + 1) PROVE ~IsMadt(firmware.list[i])
      OBVIOUS
    <3>1. i \in Nat /\ i \in DOMAIN firmware.list
      BY <1>1, FirmwareIs DEF InList
    <3>2. CASE i < Place(index)
      BY <1>1, <3>2 DEF NonePassed
    <3>3. CASE ~(i < Place(index))
      <4>1. i = Place(index)
        BY <1>1, <3>1, <3>3 DEF Place
      <4> QED
        BY <2>1, <2>2, <3>1, <4>1, PlaceIs
    <3> QED
      BY <3>2, <3>3
  <2>4. NonePassed'
    BY <1>1, <2>1, <2>3 DEF NonePassed, Place, InList, IsMadt, UsesXsdt
  <2>5. index' \in Nat \ {0}
    BY <1>1, <2>1
  <2> QED
    BY <1>1, <2>1, <2>4, <2>5 DEF AcpiInv, ApicFound
<1> QED
  BY <1>4, <1>5, <1>6, <1>7, <1>8

\* The first MADT is opened, or one behind the list.
LEMMA OpenSteps ==
  ASSUME AcpiInv, OpenMadt
  PROVE  AcpiInv'
<1>1. /\ firmware' = firmware /\ firmware \in Firmwares /\ index \in Nat \ {0} /\ index' = index
      /\ NonePassed /\ apic = [local |-> NoApic, io |-> NoApic] /\ IsMadt(table)
      /\ index <= LastIndex /\ table = TableAddress(index) /\ table' = table /\ offset' = 44
      /\ step' = "records"
      /\ apic' = [apic EXCEPT !.local = Madt.local]
  BY DEF AcpiInv, OpenMadt
<1>2. apic' = [local |-> Madt.local, io |-> NoApic]
  BY <1>1
<1>3. Madt.records \in Seq(MadtRecord)
  BY <1>1, FirmwareIs DEF Madt
<1>4. Len(Madt.records) \in Nat /\ DOMAIN Madt.records = 1 .. Len(Madt.records)
  BY <1>3
<1>5. LastIoApic(1) = NoApic
  <2>1. {n \in IoApics(Madt) : n < 1} = {}
    BY <1>4 DEF IoApics
  <2> QED
    BY <2>1 DEF LastIoApic
<1>6. RecordOffset(Madt, 1) = 44
  BY <1>3, OffsetsAre
<1> DEFINE p == Place(index)
           found1 == {i \in InList : IsMadt(firmware.list[i])}
<1>7. p \in Nat \ {0} /\ (p \in DOMAIN firmware.list => p \in InList /\ table = firmware.list[p])
      /\ (p \notin DOMAIN firmware.list => table = firmware.behind)
  BY <1>1, PlaceIs
<1>8. \A i \in InList : i \in 1 .. Len(firmware.list) /\ i \in Nat
  BY <1>1, FirmwareIs DEF InList
<1> HIDE DEF p
<1>9. ASSUME found1 # {} PROVE Madt = FirstMadt
  <2>1. PICK i \in InList : IsMadt(firmware.list[i])
    BY <1>9
  <2>2. \A j \in found1 : p <= j
    BY <1>1, <1>7, <1>8 DEF NonePassed, p
  <2>3. p \in found1
    <3>1. p <= i
      BY <2>1, <2>2
    <3>2. p \in DOMAIN firmware.list
      BY <1>1, <1>7, <1>8, <3>1, FirmwareIs
    <3> QED
      BY <1>1, <1>7, <3>2
  <2>4. found1 \in SUBSET Nat
    BY <1>8
  <2>5. Min(found1) = p
    <3> HIDE DEF found1
    <3>1. Min(found1) \in found1 /\ Min(found1) <= p
      BY <2>3, <2>4, MinPlace
    <3>2. p <= Min(found1) /\ Min(found1) \in Nat
      BY <2>2, <2>4, <3>1
    <3> QED
      BY <1>7, <3>1, <3>2
  <2>6. FirstMadt = firmware.tables[firmware.list[p]]
    BY <2>5 DEF FirstMadt
  <2>7. table = firmware.list[p]
    BY <1>7, <2>3 DEF InList
  <2> QED
    BY <1>9, <2>6, <2>7 DEF Madt
<1>10. AtFirstMadt'
  <2>1. IF \E i \in InList : IsMadt(firmware.list[i]) THEN Madt = FirstMadt ELSE IsMadt(firmware.behind)
    <3>1. CASE found1 # {}
      BY <1>9, <3>1
    <3>2. CASE found1 = {}
      BY <1>1, <1>7, <3>2
    <3> QED
      BY <3>1, <3>2
  <2>2. Madt' = Madt
    BY <1>1 DEF Madt
  <2>3. apic.local' = Madt'.local
    BY <1>2, <2>2
  <2> QED
    BY <1>1, <2>1, <2>2, <2>3, SameFirmware DEF AtFirstMadt, IsMadt
<1>11. 1 \in 1 .. Len(Madt.records) + 1 /\ Madt' = Madt
  BY <1>1, <1>4 DEF Madt
<1>12. /\ 1 \in 1 .. Len(Madt'.records) + 1 /\ offset' = RecordOffset(Madt', 1)
       /\ LastIoApic(1)' = NoApic /\ apic' = [local |-> Madt'.local, io |-> LastIoApic(1)']
  BY <1>1, <1>2, <1>5, <1>6, <1>11 DEF LastIoApic
<1> QED
  BY <1>1, <1>10, <1>12 DEF AcpiInv, ApicFound

\* Up to where the walk over the records has come.
LEMMA RecordSteps ==
  ASSUME IoApicsSized, AcpiInv, NextRecord \/ EndOfRecords
  PROVE  AcpiInv'
<1>1. /\ step = "records" /\ firmware' = firmware /\ firmware \in Firmwares
      /\ index' = index /\ index \in Nat \ {0} /\ table' = table /\ AtFirstMadt /\ IsMadt(table)
  BY DEF AcpiInv, AtFirstMadt, NextRecord, EndOfRecords
<1> DEFINE len == Len(Madt.records)
           At(k) == RecordOffset(Madt, k)
<1>2. Madt.records \in Seq(MadtRecord) /\ Madt' = Madt
  BY <1>1, FirmwareIs DEF Madt
<1>3. /\ len \in Nat /\ DOMAIN Madt.records = 1 .. len
      /\ \A n \in 1 .. len : Madt.records[n].length \in Nat
  <2>1. \A n \in 1 .. len : Madt.records[n] \in MadtRecord
    BY <1>2
  <2> QED
    BY <1>2, <2>1, RecordIs
<1>4. \A n \in 1 .. len : Madt.records[n].type = IoApic => Madt.records[n].length > 0
  BY <1>1, <1>3 DEF IoApicsSized, IsMadt, Madt
<1>5. /\ \A k \in 1 .. len + 1 : At(k) \in Nat
      /\ \A k \in 1 .. len : At(k + 1) = At(k) + Madt.records[k].length
      /\ \A i, j \in 1 .. len + 1 : i < j => At(i) + Madt.records[i].length <= At(j)
  BY <1>2, OffsetsAre, OffsetsGrow
<1>6. PICK k \in 1 .. len + 1 :
        offset = At(k) /\ apic = [local |-> Madt.local, io |-> LastIoApic(k)]
  BY <1>1 DEF AcpiInv
<1>7. MadtEnd = At(len + 1)
  BY DEF MadtEnd
<1>8. \A n : LastIoApic(n)' = LastIoApic(n)
  BY <1>2 DEF LastIoApic
<1>9. \A i \in IoApics(Madt) : i \in 1 .. len /\ Madt.records[i].type = IoApic
  BY <1>3 DEF IoApics
<1>10. CASE NextRecord
  <2> DEFINE same == {n \in DOMAIN Madt.records : At(n) = offset}
             q == Min(same)
  <2>1. /\ offset < MadtEnd /\ step' = step /\ offset' = offset + Record.length
        /\ apic' = IF Record.type = IoApic THEN [apic EXCEPT !.io = Record.address] ELSE apic
    BY <1>10 DEF NextRecord, OffsetAfter
  <2> HIDE DEF At, len
  <2>2. k \in 1 .. len
    BY <1>3, <1>5, <1>6, <1>7, <2>1
  <2>3. k \in same /\ same \in SUBSET Nat
    BY <1>3, <1>6, <2>2
  <2>4. q \in same /\ q <= k
    <3> HIDE DEF same
    <3> QED
      BY <2>3, MinPlace
  <2>5. q \in 1 .. len /\ At(q) = At(k)
    BY <1>3, <1>6, <2>4
  <2>6. Record = Madt.records[q]
    BY DEF Record, At
  <2> HIDE DEF q, same
  <2> DEFINE ComeTo(n) == /\ n \in 1 .. len + 1 /\ offset' = At(n)
                           /\ apic' = [local |-> Madt.local, io |-> LastIoApic(n)]
  <2>7. \E n \in 1 .. len + 1 : ComeTo(n)
    <3>1. CASE q < k
      <4>1. At(q) + Madt.records[q].length <= At(k) /\ At(q) \in Nat /\ Madt.records[q].length \in Nat
        <5>1. q \in 1 .. len + 1 /\ k \in 1 .. len + 1
          BY <1>3, <2>2, <2>5
        <5>2. At(q) + Madt.records[q].length <= At(k) /\ At(q) \in Nat
          BY <1>5, <3>1, <5>1
        <5> QED
          BY <1>3, <2>5, <5>2
      <4>2. Madt.records[q].length = 0
        BY <2>5, <4>1
      <4>3. Record.type # IoApic
        BY <1>4, <2>5, <2>6, <4>2
      <4>4. offset' = offset /\ apic' = apic
        BY <1>5, <1>6, <2>1, <2>6, <4>2, <4>3
      <4> QED
        BY <1>6, <4>4
    <3>2. CASE ~(q < k)
      <4>1. q = k
        BY <1>3, <2>2, <2>4, <2>5, <3>2
      <4>2. k + 1 \in 1 .. len + 1 /\ offset' = At(k + 1)
        BY <1>3, <1>5, <1>6, <2>1, <2>2, <2>6, <4>1
      <4>3. CASE Record.type = IoApic
        <5> DEFINE passed == {n \in IoApics(Madt) : n < k + 1}
        <5>1. k \in IoApics(Madt)
          BY <1>3, <2>2, <2>6, <4>1, <4>3 DEF IoApics
        <5>2. k \in passed /\ passed \subseteq 1 .. k
          BY <1>3, <1>9, <2>2, <5>1
        <5>3. k \in Nat
          BY <1>3, <2>2
        <5> HIDE DEF passed
        <5>4. Max(passed) \in passed /\ k <= Max(passed)
          BY <5>2, <5>3, MaxPlace
        <5>5. Max(passed) = k
          <6>1. Max(passed) \in 1 .. k
            BY <5>2, <5>4
          <6> QED
            BY <5>3, <5>4, <6>1
        <5>6. LastIoApic(k + 1) = Madt.records[k].address
          BY <5>2, <5>5 DEF LastIoApic, passed
        <5>7. apic' = [local |-> Madt.local, io |-> LastIoApic(k + 1)]
          BY <1>6, <2>1, <2>6, <4>1, <4>3, <5>6
        <5> QED
          BY <4>2, <5>7
      <4>4. CASE Record.type # IoApic
        <5>1. k \notin IoApics(Madt)
          BY <2>6, <4>1, <4>4 DEF IoApics
        <5>2. {n \in IoApics(Madt) : n < k + 1} = {n \in IoApics(Madt) : n < k}
          BY <1>3, <1>9, <2>2, <5>1
        <5>3. LastIoApic(k + 1) = LastIoApic(k)
          BY <5>2 DEF LastIoApic
        <5> QED
          BY <1>6, <2>1, <4>2, <4>4, <5>3
      <4> QED
        BY <4>3, <4>4
    <3> QED
      BY <3>1, <3>2
  <2>8. PICK n \in 1 .. len + 1 : ComeTo(n)
    BY <2>7
  <2>9. /\ n \in 1 .. Len(Madt'.records) + 1 /\ offset' = RecordOffset(Madt', n)
        /\ apic' = [local |-> Madt'.local, io |-> LastIoApic(n)']
    BY <1>2, <1>8, <2>8 DEF At, len
  <2>10. AtFirstMadt'
    <3>1. apic'.local = Madt'.local
      BY <2>9
    <3> QED
      BY <1>1, <1>2, <3>1, SameFirmware DEF AtFirstMadt, InList, IsMadt, UsesXsdt
  <2> QED
    BY <1>1, <2>1, <2>9, <2>10 DEF AcpiInv, ApicFound
<1>11. CASE EndOfRecords
  <2>1. offset >= MadtEnd /\ step' = "done" /\ apic' = apic
    BY <1>11 DEF EndOfRecords
  <2> HIDE DEF At, len
  <2>2. \A n \in IoApics(Madt) : n < k
    <3> SUFFICES ASSUME NEW n \in IoApics(Madt), ~(n < k) PROVE FALSE
      OBVIOUS
    <3>1. n \in 1 .. len /\ Madt.records[n].length \in Nat /\ Madt.records[n].length > 0
      BY <1>3, <1>4, <1>9
    <3>2. n \in 1 .. len + 1 /\ len + 1 \in 1 .. len + 1 /\ n < len + 1
      BY <1>3, <3>1
    <3>3. At(n) + Madt.records[n].length <= At(len + 1)
      BY <1>5, <3>2
    <3>4. At(k) <= At(n)
      <4>1. CASE k = n
        BY <1>5, <3>2, <4>1
      <4>2. CASE k # n
        <5>1. k < n /\ k \in 1 .. len
          BY <1>3, <1>6, <3>1, <4>2
        <5>2. At(k) + Madt.records[k].length <= At(n) /\ Madt.records[k].length \in Nat
          BY <1>3, <1>5, <3>2, <5>1
        <5> QED
          BY <1>5, <3>2, <5>2
      <4> QED
        BY <4>1, <4>2
    <3>5. At(k) \in Nat /\ At(n) \in Nat /\ At(len + 1) \in Nat /\ At(k) >= At(len + 1)
      BY <1>5, <1>6, <1>7, <2>1, <3>2
    <3> QED
      BY <3>1, <3>3, <3>4, <3>5
  <2>3. {n \in IoApics(Madt) : n < k} = IoApics(Madt)
    BY <2>2
  <2>4. apic.local = Madt.local
        /\ apic.io = IF IoApics(Madt) = {} THEN NoApic ELSE Madt.records[Max(IoApics(Madt))].address
    BY <1>6, <2>3 DEF LastIoApic
  <2>5. IF \E i \in InList : IsMadt(firmware.list[i])
          THEN /\ apic.local = FirstMadt.local
               /\ apic.io = IF IoApics(FirstMadt) = {} THEN NoApic
                            ELSE FirstMadt.records[Max(IoApics(FirstMadt))].address
          ELSE IsMadt(firmware.behind)
    BY <1>1, <2>4 DEF AtFirstMadt
  <2>6. ApicFound'
    BY <1>1, <2>1, <2>5, SameFirmware DEF ApicFound, InList, IsMadt, UsesXsdt
  <2> QED
    BY <1>1, <2>1, <2>6 DEF AcpiInv
<1> QED
  BY <1>10, <1>11

LEMMA AcpiInvInit == InitAcpi => AcpiInv
<1> SUFFICES ASSUME InitAcpi PROVE AcpiInv
  OBVIOUS
<1>1. firmware \in Firmwares /\ index = 1 /\ step = "start" /\ apic = [local |-> NoApic, io |-> NoApic]
  BY DEF InitAcpi
<1>2. NonePassed
  BY <1>1, FirmwareIs DEF NonePassed, Place, InList
<1> QED
  BY <1>1, <1>2 DEF AcpiInv, ApicFound

LEMMA AcpiInvStep ==
  ASSUME IoApicsSized, AcpiInv, [StartNext]_startVars
  PROVE  AcpiInv'
<1>1. ParseAcpi \/ UNCHANGED <<firmware, apic, step, index, table, offset>>
  BY DEF StartNext, startVars, acpiVars, SaveArguments, InitPmm, InitVesa, SetupInterrupts, FontPage, ReadFont,
     InitTextTerminal, InitPaging, TakeTable, BuildTable, PoolFails, SetCr3, InstallHeap, StepAcpi,
     PrintApic, AllocStack, MapApic, InitApic, EarlyTick
<1>2. CASE ParseAcpi
  <2>1. CASE Fault
    BY <2>1 DEF Fault, AcpiInv, ApicFound
  <2> QED
    BY <1>2, <2>1, ListSteps, OpenSteps, RecordSteps DEF ParseAcpi
<1>3. CASE UNCHANGED <<firmware, apic, step, index, table, offset>>
  BY <1>3 DEF AcpiInv, ApicFound, NonePassed, AtFirstMadt, LastIoApic, Madt, FirstMadt, IsMadt, InList,
     Place, LastIndex, TableAddress, Entry, UsesXsdt
<1> QED
  BY <1>1, <1>2, <1>3

\* Whatever tables the firmware leaves, parse_acpi passes over no MADT of the list it
\* looks at, and when it returns apic holds what the first of them says: the local
\* APIC and the last I/O APIC, as long as the record of an I/O APIC has a length.
THEOREM ApicFoundHolds == IoApicsSized => (StartSpec => []ApicFound)
<1> SUFFICES ASSUME IoApicsSized PROVE StartSpec => []ApicFound
  OBVIOUS
<1>1. StartInit => AcpiInv
  BY AcpiInvInit DEF StartInit
<1>2. AcpiInv /\ [StartNext]_startVars => AcpiInv'
  BY AcpiInvStep
<1>3. AcpiInv => ApicFound
  BY DEF AcpiInv
<1> QED
  BY <1>1, <1>2, <1>3, PTL DEF StartSpec

------------------------------------------------------------------------------
\* The pool is memory.

LEMMA RoundedUpClose ==
  ASSUME NEW n \in Nat
  PROVE  RoundedUp(n) <= n + PageSize
<1> USE PmmAssumption
<1> DEFINE m == n + PageSize - 1
           q == m \div PageSize
<1>1. m \in Nat
  OBVIOUS
<1>2. q * PageSize \in Nat /\ m % PageSize \in 0 .. PageSize - 1
      /\ m = q * PageSize + (m % PageSize)
  BY <1>1, Divided
<1>3. RoundedUp(n) = q * PageSize
  BY DEF RoundedUp
<1> HIDE DEF q
<1> QED
  BY <1>2, <1>3

LEMMA PoolIsRegionInit == Init => PoolIsRegion
BY DEF Init, PoolIsRegion

LEMMA PoolIsRegionStep ==
  ASSUME PmmInv, PoolIsRegion, PmmNext \/ UNCHANGED poolVars
  PROVE  PoolIsRegion'
<1>1. /\ map' = map /\ klength' = klength
      /\ DOMAIN map = 1 .. Len(map) /\ Len(map) \in Nat /\ entry \in Nat \ {0}
  BY MapFacts DEF PmmInv, PmmNext, Scan, ClearBitmap, Allocate, NoPage, poolVars, vars
<1> DEFINE PoolOf(i) == IF HoldsKernel(map[i])
                          THEN [base |-> PoolBase, length |-> map[i].length - klength]
                          ELSE [base |-> map[i].base, length |-> map[i].length]
<1>2. \A i : map'[i] = map[i] /\ (HoldsKernel(map[i])' <=> HoldsKernel(map[i]))
      /\ PoolBase' = PoolBase
  BY <1>1 DEF HoldsKernel, PoolBase, RoundedUp, KernelEnd
<1>3. found => \E i \in DOMAIN map : map[i].usable /\ pool = PoolOf(i)
  BY DEF PoolIsRegion
<1>4. SUFFICES /\ found' => \E i \in DOMAIN map : map[i].usable /\ pool' = PoolOf(i)
               /\ \A n \in DOMAIN bitmap' : n < BitmapSize
  <2>1. \A i : PoolOf(i)' = PoolOf(i)
    BY <1>1, <1>2
  <2> HIDE DEF PoolOf
  <2>2. PoolIsRegion' <=> /\ found' => \E i \in DOMAIN map' : map'[i].usable /\ pool' = PoolOf(i)'
                          /\ \A n \in DOMAIN bitmap' : n < BitmapSize
    BY DEF PoolIsRegion, PoolOf
  <2> QED
    BY <1>1, <1>4, <2>1, <2>2
<1>5. CASE Scan
  <2> DEFINE e == map[entry]
             chosen == e.usable /\ ~found /\ (HoldsKernel(e) \/ e.base # 0)
  <2>1. entry \in DOMAIN map /\ bitmap' = bitmap /\ found' = (found \/ chosen)
        /\ pool' = IF chosen THEN PoolOf(entry) ELSE pool
    BY <1>1, <1>5 DEF Scan, Scanning
  <2>2. \A n \in DOMAIN bitmap' : n < BitmapSize
    BY <2>1 DEF PoolIsRegion
  <2>3. CASE chosen
    BY <2>1, <2>2, <2>3
  <2>4. CASE ~chosen
    BY <1>3, <2>1, <2>2, <2>4
  <2> QED
    BY <2>3, <2>4
<1>6. CASE ClearBitmap
  <2>1. found' = found /\ pool' = pool
        /\ DOMAIN bitmap' = {n \in 0 .. BitmapSize - 1 : n < PoolPages}
    BY <1>6 DEF ClearBitmap
  <2>2. \A n \in DOMAIN bitmap' : n < BitmapSize
    BY <2>1, PmmAssumption
  <2> QED
    BY <1>3, <2>1, <2>2
<1>7. CASE Allocate
  <2>1. DOMAIN bitmap' = DOMAIN bitmap
    BY <1>7, TakenMarks DEF Allocate, PmmInv
  <2>2. found' = found /\ pool' = pool
    BY <1>7 DEF Allocate
  <2> QED
    BY <1>3, <2>1, <2>2 DEF PoolIsRegion
<1>8. CASE NoPage \/ UNCHANGED poolVars
  BY <1>3, <1>8 DEF NoPage, poolVars, vars, PoolIsRegion
<1> QED
  BY <1>5, <1>6, <1>7, <1>8 DEF PmmNext

\* A page handed out is a page of the pool, one for which the bitmap has a byte.
LEMMA HeldPage ==
  ASSUME PmmInv, PoolIsRegion, NEW a \in held
  PROVE  \E n \in Nat : /\ a = pool.base + n * PageSize /\ n < PoolPages /\ n < BitmapSize
                        /\ Ready /\ found
<1>1. PICK n \in Marked : a = pool.base + n * PageSize
  BY DEF PmmInv, HeldAreMarked
<1>2. n \in DOMAIN bitmap
  BY DEF Marked
<1>3. n \in Nat /\ n < PoolPages /\ n < BitmapSize /\ Ready
  <2>1. bitmap # <<>>
    BY <1>2
  <2> QED
    BY <1>2, <2>1 DEF PmmInv, PoolIsRegion
<1>4. found
  <2>1. n * PageSize + PageSize <= pool.length /\ n * PageSize \in Nat
    BY <1>3, PageBounds, PmmAssumption DEF PmmInv, PoolPages
  <2>2. pool.length # 0
    BY <2>1, PmmAssumption
  <2> QED
    BY <2>2 DEF PmmInv
<1> QED
  BY <1>1, <1>3, <1>4

LEMMA HeldInRegion ==
  ASSUME KernelRegionsLong, PmmInv, PoolIsRegion
  PROVE  PagesAreMemory
<1> USE PmmAssumption
<1> SUFFICES ASSUME NEW a \in held
             PROVE  \E i \in DOMAIN map :
                      map[i].usable /\ map[i].base <= a /\ a + PageSize <= map[i].base + map[i].length
  BY DEF PagesAreMemory
<1>1. PICK n \in Nat : /\ a = pool.base + n * PageSize /\ n < PoolPages /\ n < BitmapSize
                       /\ Ready /\ found
  BY HeldPage
<1>2. PICK i \in DOMAIN map :
        /\ map[i].usable
        /\ pool = IF HoldsKernel(map[i])
                    THEN [base |-> PoolBase, length |-> map[i].length - klength]
                    ELSE [base |-> map[i].base, length |-> map[i].length]
  BY <1>1 DEF PoolIsRegion
<1>3. /\ map[i].base \in Nat /\ map[i].length \in Nat /\ klength \in Nat /\ KernelEnd \in Nat
      /\ KernelEnd = KernelStart + klength /\ pool.length \in Nat
      /\ map \in Maps /\ klength \in KernelLengths
  BY MapFacts DEF PmmInv, KernelEnd
<1>4. n * PageSize + PageSize <= pool.length /\ n * PageSize \in Nat
  <2>1. n < pool.length \div PageSize
    BY <1>1 DEF PoolPages
  <2>2. n * PageSize + PageSize <= pool.length
    BY ONLY <1>1, <1>3, <2>1, PageBounds
  <2>3. n * PageSize \in Nat
    BY <1>1
  <2> QED
    BY <2>2, <2>3
<1> DEFINE gap == n * PageSize
<1>5. CASE ~HoldsKernel(map[i])
  <2>1. pool.base = map[i].base /\ pool.length = map[i].length
    BY <1>2, <1>5
  <2> HIDE DEF gap
  <2>2. a = pool.base + gap /\ gap \in Nat /\ gap + PageSize <= pool.length
    BY <1>1, <1>4 DEF gap
  <2>3. \A b, l, g \in Nat : g + PageSize <= l => b <= b + g /\ (b + g) + PageSize <= b + l
    BY PmmAssumption
  <2>4. map[i].base <= a /\ a + PageSize <= map[i].base + map[i].length
    BY <1>3, <2>1, <2>2, <2>3
  <2> QED
    BY <1>2, <2>4
<1>6. CASE HoldsKernel(map[i])
  <2>1. /\ map[i].base >= KernelStart /\ map[i].base <= KernelStart + klength
        /\ pool.base = PoolBase
    BY <1>2, <1>3, <1>6 DEF HoldsKernel
  <2>2. PoolBase \in Nat /\ PoolBase >= KernelEnd + PageSize /\ PoolBase <= KernelEnd + PageSize + PageSize
    <3>1. KernelEnd + PageSize \in Nat
      BY <1>3
    <3> QED
      BY <3>1, RoundedUpBound, RoundedUpClose DEF PoolBase
  <2> DEFINE all == BitmapSize * PageSize
  <2>3. klength + (BitmapSize + 2) * PageSize <= map[i].length
    BY <1>2, <1>3, <2>1 DEF KernelRegionsLong
  <2>4. (BitmapSize + 2) * PageSize = all + PageSize + PageSize /\ all \in Nat
    OBVIOUS
  <2>5. gap + PageSize <= all
    <3>1. n + 1 <= BitmapSize
      BY <1>1
    <3>2. (n + 1) * PageSize <= BitmapSize * PageSize
      BY <3>1
    <3>3. (n + 1) * PageSize = gap + PageSize
      OBVIOUS
    <3> QED
      BY <3>2, <3>3
  <2>6. klength + (all + PageSize + PageSize) <= map[i].length
    BY <2>3, <2>4
  <2> HIDE DEF all, gap
  <2>7. a = pool.base + gap /\ gap \in Nat
    BY <1>1, <1>4 DEF gap
  <2> DEFINE base == map[i].base
             length == map[i].length
  <2>8. /\ base \in Nat /\ length \in Nat /\ KernelStart <= base /\ base <= KernelStart + klength
        /\ klength + (all + PageSize + PageSize) <= length
    BY <1>3, <2>1, <2>6
  <2> HIDE DEF base, length
  <2>9. base <= a /\ a + PageSize <= base + length
    <3>1. /\ a = PoolBase + gap /\ gap \in Nat /\ PoolBase \in Nat /\ klength \in Nat
          /\ PoolBase >= KernelStart + klength + PageSize
          /\ PoolBase <= KernelStart + klength + PageSize + PageSize
      BY <1>3, <2>1, <2>2, <2>7
    <3> QED
      BY <2>4, <2>5, <2>8, <3>1
  <2> QED
    BY <1>2, <2>9 DEF base, length
<1> QED
  BY <1>5, <1>6

LEMMA PoolIsRegionHolds == StartSpec => []PoolIsRegion
<1>1. StartInit => PoolIsRegion
  BY PoolIsRegionInit DEF StartInit
<1>2. PmmInv /\ PoolIsRegion /\ [StartNext]_startVars => PoolIsRegion'
  BY PoolSteps, PoolIsRegionStep
<1> QED
  BY <1>1, <1>2, PmmInvariant, PTL DEF StartSpec

\* init_pmm moves the pool behind the kernel without giving up the length it moved by;
\* the pages are memory all the same, as far as the bitmap reaches, if each region that
\* begins in the kernel is longer than it by what the bitmap stands for and two pages.
THEOREM PagesAreMemoryHolds == KernelRegionsLong => (StartSpec => []PagesAreMemory)
<1> SUFFICES ASSUME KernelRegionsLong PROVE StartSpec => []PagesAreMemory
  OBVIOUS
<1>1. PmmInv /\ PoolIsRegion => PagesAreMemory
  BY HeldInRegion
<1> QED
  BY <1>1, PmmInvariant, PoolIsRegionHolds, PTL

------------------------------------------------------------------------------
\* Nobody loses what is still needed.

\* The extents that are fixed when the kernel is linked, and those of the heap.
LEMMA LayoutIs ==
  ASSUME LayoutSound, NEW k \in KernelLengths
  PROVE  /\ k \in Nat /\ BssLength \in Nat /\ BssLength <= k
         /\ HeapStart(k) \in Nat /\ k <= HeapStart(k) /\ HeapStart(k) <= k + 4096
         /\ HeapStart(k) + 393240 <= 655360
         /\ StackTop(k) \in Nat /\ k + 196608 <= StackTop(k) /\ StackTop(k) <= k + 212991
         /\ StackTop(k) <= 655360
         /\ BootStackUse \in Nat /\ BootStackUse <= 40960
         /\ KernelStart \in Nat /\ 1048576 <= KernelStart
         /\ KiB = 1024 /\ BlockBytes = 131072 /\ HeaderBytes = 24
<1>1. KiB = 1024 /\ BlockBytes = 131072 /\ HeaderBytes = 24 /\ HeapBytes = 1048576
  BY DEF KiB, BlockBytes, HeaderBytes, HeapBytes
<1>2. k \in Nat /\ KernelStart \in Nat /\ BssLength \in Nat /\ BssLength <= k /\ BootStackUse \in Nat
  BY PmmAssumption, StartAssumption
<1>3. PageSize = 4096 /\ BootStackUse <= 40960 /\ 1048576 <= KernelStart /\ k <= 256000
  <2>1. PageSize = 4 * KiB /\ BootStackUse <= 40 * KiB /\ HeapBytes <= KernelStart /\ k <= 250 * KiB
    BY Zenon DEF LayoutSound, HeapFits
  <2> QED
    BY <1>1, <2>1
<1>4. HeapStart(k) \in Nat /\ k <= HeapStart(k) /\ HeapStart(k) <= k + 4096
  <2> DEFINE q == (k + 4096) \div 4096
  <2>1. HeapStart(k) = q * 4096
    BY <1>3 DEF HeapStart
  <2>2. \A m \in Nat : /\ m \div 4096 \in Nat /\ m - 4095 <= (m \div 4096) * 4096
                       /\ (m \div 4096) * 4096 <= m
    OBVIOUS
  <2>3. k + 4096 \in Nat
    BY <1>2
  <2>4. q \in Nat /\ (k + 4096) - 4095 <= q * 4096 /\ q * 4096 <= k + 4096
    BY <2>2, <2>3
  <2> HIDE DEF q
  <2> QED
    BY <1>2, <2>1, <2>4
<1>5. StackTop(k) \in Nat /\ k + 196608 <= StackTop(k) /\ StackTop(k) <= k + 212991
  <2>1. StackTop(k) = ((k + 65536 + 16384 - 1) \div 16384) * 16384 + 131072
    BY <1>1 DEF StackTop, AlignedUp
  <2>2. \A m \in Nat : /\ (m \div 16384) \in Nat /\ m - 16383 <= (m \div 16384) * 16384
                       /\ (m \div 16384) * 16384 <= m
    OBVIOUS
  <2>3. k + 65536 + 16384 - 1 \in Nat
    BY <1>2
  <2> DEFINE q == (k + 65536 + 16384 - 1) \div 16384
  <2>4. q \in Nat /\ (k + 65536 + 16384 - 1) - 16383 <= q * 16384 /\ q * 16384 <= k + 65536 + 16384 - 1
    BY <2>2, <2>3
  <2>5. StackTop(k) = q * 16384 + 131072
    BY <2>1
  <2> HIDE DEF q
  <2> QED
    BY <1>2, <2>4, <2>5
<1>6. HeapStart(k) + 393240 <= 655360 /\ StackTop(k) <= 655360
  BY <1>2, <1>3, <1>4, <1>5
<1> QED
  BY <1>1, <1>2, <1>3, <1>4, <1>5, <1>6

\* A header or a stack lies in its block; extents of the .bss in the kernel.
HeapPieces(k) == {Header(k, n) : n \in 0 .. 3} \cup {Stack(k, n) : n \in 0 .. 2}

LEMMA HeapPieceIs ==
  ASSUME LayoutSound, NEW k \in KernelLengths, NEW w \in HeapPieces(k)
  PROVE  /\ w.at \in Nat /\ w.length \in Nat
         /\ HeapStart(k) <= w.at /\ w.at + w.length <= 655360
         /\ ~Overlap(w, BootStack(k))
         /\ \A l \in HeapPieces(k) : w = l \/ ~Overlap(w, l)
<1>1. /\ HeapStart(k) \in Nat /\ KiB = 1024 /\ BlockBytes = 131072 /\ HeaderBytes = 24
      /\ HeapStart(k) + 393240 <= 655360
      /\ k \in Nat /\ k <= HeapStart(k) /\ HeapStart(k) <= k + 4096
  BY LayoutIs
<1> DEFINE H(n) == HeapStart(k) + n * 131072
<1>2. ASSUME NEW n \in 0 .. 3
      PROVE  /\ Header(k, n).at = H(n) /\ Header(k, n).length = 24 /\ H(n) \in Nat
             /\ HeapStart(k) <= H(n) /\ H(n) + 24 <= 655360
  BY <1>1 DEF Header, Extent
<1>3. ASSUME NEW n \in 0 .. 2
      PROVE  /\ Stack(k, n).at = H(n) + 24 /\ Stack(k, n).length = 16384 /\ H(n) \in Nat
             /\ HeapStart(k) <= H(n) /\ H(n) + 24 + 16384 <= 655360
  BY <1>1 DEF Stack, Extent
<1>4. \A m, n \in 0 .. 3 : m < n => H(m) + 131072 <= H(n)
  BY <1>1
<1>5. /\ \A n \in 0 .. 1 : H(n) + 24 + 16384 <= BootStack(k).at
      /\ \A n \in 2 .. 3 : BootStack(k).at + BootStack(k).length <= H(n)
      /\ BootStack(k).at \in Nat /\ BootStack(k).length \in Nat
  <2>1. /\ StackTop(k) \in Nat /\ k + 196608 <= StackTop(k) /\ StackTop(k) <= k + 212991
        /\ BootStackUse \in Nat /\ BootStackUse <= 40960
    BY LayoutIs
  <2>2. BootStack(k).at = StackTop(k) - BootStackUse /\ BootStack(k).length = BootStackUse
    BY DEF BootStack, Extent
  <2>3. \A n \in 0 .. 1 : H(n) <= k + 135168
    BY <1>1
  <2>4. \A n \in 2 .. 3 : k + 262144 <= H(n)
    BY <1>1
  <2> HIDE DEF H
  <2> QED
    BY <1>1, <1>2, <2>1, <2>2, <2>3, <2>4
<1> HIDE DEF H
<1>6. CASE \E n \in 0 .. 3 : w = Header(k, n)
  <2>1. PICK n \in 0 .. 3 : w = Header(k, n)
    BY <1>6
  <2>2. ~Overlap(w, BootStack(k))
    <3>1. n \in 0 .. 1 \/ n \in 2 .. 3
      OBVIOUS
    <3> QED
      BY <1>2, <1>5, <2>1, <3>1 DEF Overlap, Apart
  <2>3. ASSUME NEW m \in 0 .. 3 PROVE w = Header(k, m) \/ ~Overlap(w, Header(k, m))
    <3>1. CASE m = n
      BY <2>1, <3>1
    <3>2. CASE m # n
      <4>1. m < n \/ n < m
        BY <3>2
      <4>2. H(m) + 24 <= H(n) \/ H(n) + 24 <= H(m)
        BY <1>2, <1>4, <4>1
      <4> QED
        BY <1>2, <2>1, <4>2 DEF Overlap, Apart
    <3> QED
      BY <3>1, <3>2
  <2>4. ASSUME NEW m \in 0 .. 2 PROVE ~Overlap(w, Stack(k, m))
    <3>1. m \in 0 .. 3 /\ (m = n \/ m < n \/ n < m)
      OBVIOUS
    <3>2. H(n) + 24 <= H(m) + 24 \/ H(m) + 24 + 16384 <= H(n)
      BY <1>2, <1>4, <3>1
    <3> QED
      BY <1>2, <1>3, <2>1, <3>2 DEF Overlap, Apart
  <2> QED
    BY <1>1, <1>2, <2>1, <2>2, <2>3, <2>4 DEF HeapPieces
<1>7. CASE \E n \in 0 .. 2 : w = Stack(k, n)
  <2>1. PICK n \in 0 .. 2 : w = Stack(k, n)
    BY <1>7
  <2>2. ~Overlap(w, BootStack(k))
    <3>1. n \in 0 .. 1 \/ n \in 2 .. 3
      OBVIOUS
    <3> QED
      BY <1>3, <1>5, <2>1, <3>1 DEF Overlap, Apart
  <2>3. ASSUME NEW m \in 0 .. 2 PROVE w = Stack(k, m) \/ ~Overlap(w, Stack(k, m))
    <3>1. CASE m = n
      BY <2>1, <3>1
    <3>2. CASE m # n
      <4>1. m \in 0 .. 3 /\ n \in 0 .. 3 /\ (m < n \/ n < m)
        BY <3>2
      <4>2. H(m) + 131072 <= H(n) \/ H(n) + 131072 <= H(m)
        BY <1>4, <4>1
      <4>3. H(m) + 24 + 16384 <= H(n) + 24 \/ H(n) + 24 + 16384 <= H(m) + 24
        BY <1>3, <4>2
      <4> QED
        BY <1>3, <2>1, <4>3 DEF Overlap, Apart
    <3> QED
      BY <3>1, <3>2
  <2>4. ASSUME NEW m \in 0 .. 3 PROVE ~Overlap(w, Header(k, m))
    <3>1. n \in 0 .. 3 /\ (m = n \/ m < n \/ n < m)
      OBVIOUS
    <3>2. H(m) + 24 <= H(n) + 24 \/ H(n) + 24 + 16384 <= H(m)
      BY <1>2, <1>4, <3>1
    <3> QED
      BY <1>2, <1>3, <2>1, <3>2 DEF Overlap, Apart
  <2> QED
    BY <1>1, <1>3, <2>1, <2>2, <2>3, <2>4 DEF HeapPieces
<1> QED
  BY <1>6, <1>7 DEF HeapPieces

VariablesOf(k) == {Variables(k, p) : p \in Parts}

LEMMA BssIs ==
  ASSUME LayoutSound, NEW k \in KernelLengths, NEW w \in VariablesOf(k)
  PROVE  /\ w.of \in Parts
         /\ w.at \in Nat /\ w.length \in Nat /\ k - BssLength <= w.at /\ w.at + w.length <= k
         /\ \A l \in VariablesOf(k) : w = l \/ ~Overlap(w, l)
         /\ \A l \in BootData :
              l.of = "loader tables" \/ w.of \in WrittenBefore(l.of) => ~Overlap(w, l)
<1>1. k \in Nat /\ BssLength \in Nat /\ k - BssLength \in Nat
  BY LayoutIs
<1>2. \A p \in Parts : Bss[p].at \in Nat /\ Bss[p].length \in Nat
  <2>1. Bss \in [Parts -> [at : Nat, length : Nat]]
    BY StartAssumption
  <2> TAKE p \in Parts
  <2>2. Bss[p] \in [at : Nat, length : Nat]
    BY <2>1
  <2> QED
    BY <2>2
<1>3. /\ \A p \in Parts : Bss[p].at + Bss[p].length <= BssLength
      /\ \A p, q \in Parts : p = q \/ Apart(Bss[p].at, Bss[p].length, Bss[q].at, Bss[q].length)
      /\ \A l \in BootData : IF l.of = "loader tables" THEN k <= l.at
                             ELSE \A p \in WrittenBefore(l.of) : ~Overlap(Variables(k, p), l)
  BY Zenon DEF LayoutSound
<1>4. ASSUME NEW p \in Parts
      PROVE  /\ Variables(k, p).of = p
             /\ Variables(k, p).at = (k - BssLength) + Bss[p].at
             /\ Variables(k, p).length = Bss[p].length
  BY DEF Variables, Extent
<1>5. PICK p \in Parts : w = Variables(k, p)
  BY DEF VariablesOf
<1>6. w.of = p /\ w.of \in Parts
  BY <1>4, <1>5
<1>7. /\ w.at \in Nat /\ w.length \in Nat /\ k - BssLength <= w.at /\ w.at + w.length <= k
  <2>1. /\ w.at = (k - BssLength) + Bss[p].at /\ w.length = Bss[p].length
        /\ Bss[p].at \in Nat /\ Bss[p].length \in Nat /\ Bss[p].at + Bss[p].length <= BssLength
    BY <1>2, <1>3, <1>4, <1>5
  <2> QED
    BY <1>1, <2>1
<1>8. ASSUME NEW l \in VariablesOf(k) PROVE w = l \/ ~Overlap(w, l)
  <2>1. PICK q \in Parts : l = Variables(k, q)
    BY DEF VariablesOf
  <2>2. CASE p = q
    BY <1>5, <2>1, <2>2
  <2>3. CASE p # q
    <3>1. Apart(Bss[p].at, Bss[p].length, Bss[q].at, Bss[q].length)
      BY <1>3, <2>3
    <3>2. /\ w.at = (k - BssLength) + Bss[p].at /\ w.length = Bss[p].length
          /\ l.at = (k - BssLength) + Bss[q].at /\ l.length = Bss[q].length
          /\ Bss[p].at \in Nat /\ Bss[p].length \in Nat /\ Bss[q].at \in Nat /\ Bss[q].length \in Nat
      BY <1>2, <1>4, <1>5, <2>1
    <3> QED
      BY <1>1, <3>1, <3>2 DEF Overlap, Apart
  <2> QED
    BY <2>2, <2>3
<1>9. ASSUME NEW l \in BootData, l.of = "loader tables" \/ w.of \in WrittenBefore(l.of)
      PROVE  ~Overlap(w, l)
  <2>1. CASE l.of = "loader tables"
    <3>1. l.at \in Nat /\ l.length \in Nat
      BY StartAssumption
    <3>2. k <= l.at
      BY <1>3, <2>1
    <3> QED
      BY <1>1, <1>7, <3>1, <3>2 DEF Overlap, Apart
  <2>2. CASE l.of # "loader tables"
    BY <1>3, <1>5, <1>6, <1>9, <2>2
  <2> QED
    BY <2>1, <2>2
<1> QED
  BY <1>6, <1>7, <1>8, <1>9

\* What the kernel keeps for good lies below the pool, and what it writes there hits
\* nothing else of it.
LEMMA KeptIs ==
  ASSUME LayoutSound, NEW k \in KernelLengths, NEW l \in Kept(k)
  PROVE  l.at \in Nat /\ l.length \in Nat /\ l.at + l.length <= KernelStart
<1>1. /\ k \in Nat /\ BssLength \in Nat /\ BssLength <= k /\ BootStackUse \in Nat
      /\ BootStackUse <= 40960 /\ StackTop(k) \in Nat /\ k + 196608 <= StackTop(k)
      /\ StackTop(k) <= 655360 /\ KernelStart \in Nat /\ 1048576 <= KernelStart /\ KiB = 1024
  BY LayoutIs
<1>2. CASE l = Image(k) \/ l = Adapters
  <2>1. CASE l = Image(k)
    <3>1. l.at = 0 /\ l.length = k - BssLength
      BY <2>1 DEF Image, Extent
    <3> QED
      BY <1>1, <3>1
  <2>2. CASE l = Adapters
    <3>1. l.at = 640 * KiB /\ l.length = 384 * KiB
      BY <2>2 DEF Adapters, Extent
    <3> QED
      BY <1>1, <3>1
  <2> QED
    BY <1>2, <2>1, <2>2
<1>3. CASE l = BootStack(k)
  <2>1. l.at = StackTop(k) - BootStackUse /\ l.length = BootStackUse
    BY <1>3 DEF BootStack, Extent
  <2> QED
    BY <1>1, <2>1
<1>4. CASE l \in VariablesOf(k)
  <2>1. l.at \in Nat /\ l.length \in Nat /\ l.at + l.length <= k
    BY <1>4, BssIs
  <2> QED
    BY <1>1, <2>1
<1>5. CASE l \in HeapPieces(k)
  BY <1>1, <1>5, HeapPieceIs
<1> QED
  BY <1>2, <1>3, <1>4, <1>5 DEF Kept, VariablesOf, HeapPieces

LEMMA KeptApart ==
  ASSUME LayoutSound, NEW k \in KernelLengths, NEW l \in Kept(k),
         NEW w \in VariablesOf(k) \cup HeapPieces(k)
  PROVE  w = l \/ ~Overlap(w, l)
<1>1. /\ k \in Nat /\ BssLength \in Nat /\ BssLength <= k /\ BootStackUse \in Nat
      /\ BootStackUse <= 40960 /\ StackTop(k) \in Nat /\ k + 196608 <= StackTop(k)
      /\ StackTop(k) <= 655360 /\ KiB = 1024 /\ HeapStart(k) \in Nat /\ k <= HeapStart(k)
      /\ HeapStart(k) + 393240 <= 655360
  BY LayoutIs
<1>2. /\ Image(k).at = 0 /\ Image(k).length = k - BssLength
      /\ BootStack(k).at = StackTop(k) - BootStackUse /\ BootStack(k).length = BootStackUse
      /\ Adapters.at = 655360
  BY <1>1 DEF Image, BootStack, Adapters, Extent
<1>3. CASE w \in VariablesOf(k)
  <2>1. w.at \in Nat /\ w.length \in Nat /\ k - BssLength <= w.at /\ w.at + w.length <= k
    BY <1>3, BssIs
  <2>2. CASE l \in {Image(k), BootStack(k), Adapters}
    BY <1>1, <1>2, <2>1, <2>2 DEF Overlap, Apart
  <2>3. CASE l \in VariablesOf(k)
    BY <1>3, <2>3, BssIs
  <2>4. CASE l \in HeapPieces(k)
    <3>1. l.at \in Nat /\ HeapStart(k) <= l.at
      BY <2>4, HeapPieceIs
    <3> QED
      BY <1>1, <2>1, <3>1 DEF Overlap, Apart
  <2> QED
    BY <2>2, <2>3, <2>4 DEF Kept, VariablesOf, HeapPieces
<1>4. CASE w \in HeapPieces(k)
  <2>1. /\ w.at \in Nat /\ w.length \in Nat /\ HeapStart(k) <= w.at /\ w.at + w.length <= 655360
        /\ ~Overlap(w, BootStack(k)) /\ \A m \in HeapPieces(k) : w = m \/ ~Overlap(w, m)
    BY <1>4, HeapPieceIs
  <2>2. CASE l = Image(k) \/ l = Adapters
    BY <1>1, <1>2, <2>1, <2>2 DEF Overlap, Apart
  <2>3. CASE l \in VariablesOf(k)
    <3>1. l.at \in Nat /\ l.length \in Nat /\ l.at + l.length <= k
      BY <2>3, BssIs
    <3> QED
      BY <1>1, <2>1, <3>1 DEF Overlap, Apart
  <2>4. CASE l = BootStack(k) \/ l \in HeapPieces(k)
    BY <2>1, <2>4
  <2> QED
    BY <2>2, <2>3, <2>4 DEF Kept, VariablesOf, HeapPieces
<1> QED
  BY <1>3, <1>4

\* The pages of a machine in order.
LEMMA PoolHigh ==
  ASSUME HeapFits, MapInOrder, PmmInv, PoolBehindKernel, Ready
  PROVE  /\ pool.base \in Nat /\ KernelStart <= pool.base /\ KernelStart \in Nat
         /\ \A n \in Nat : /\ pool.base + n * PageSize \in Nat
                           /\ KernelStart <= pool.base + n * PageSize
<1> USE PmmAssumption
<1>1. /\ DOMAIN map = 1 .. Len(map) /\ Len(map) \in Nat /\ klength \in Nat
      /\ KernelStart \in Nat /\ KernelEnd \in Nat /\ KernelEnd = KernelStart + klength
  BY MapFacts DEF PmmInv, KernelEnd
<1>2. PICK i \in DOMAIN map : KernelRegion(i)
  BY DEF MapInOrder
<1>3. pool.base = PoolBase
  BY <1>1, <1>2 DEF PoolBehindKernel, Ready
<1>4. PoolBase \in Nat /\ PoolBase >= KernelEnd + PageSize
  <2>1. KernelEnd + PageSize \in Nat
    BY <1>1
  <2> QED
    BY <2>1, RoundedUpBound DEF PoolBase
<1>5. pool.base \in Nat /\ KernelStart <= pool.base
  BY <1>1, <1>3, <1>4
<1>6. \A n \in Nat : n * PageSize \in Nat
  OBVIOUS
<1> SUFFICES ASSUME NEW n \in Nat
             PROVE  /\ pool.base + n * PageSize \in Nat /\ KernelStart <= pool.base + n * PageSize
  BY <1>1, <1>5
<1> DEFINE gap == n * PageSize
<1>7. gap \in Nat
  OBVIOUS
<1> HIDE DEF gap
<1>8. pool.base + gap \in Nat /\ KernelStart <= pool.base + gap
  BY <1>1, <1>5, <1>7
<1> QED
  BY <1>8 DEF gap

LEMMA HeldHigh ==
  ASSUME HeapFits, MapInOrder, PmmInv, PoolBehindKernel, NEW a \in held
  PROVE  a \in Nat /\ KernelStart <= a /\ KernelStart \in Nat
<1>1. PICK n \in Marked : a = pool.base + n * PageSize
  BY DEF PmmInv, HeldAreMarked
<1>2. n \in DOMAIN bitmap
  BY DEF Marked
<1>3. n \in Nat /\ Ready
  <2>1. bitmap # <<>>
    BY <1>2
  <2> QED
    BY <1>2, <2>1 DEF PmmInv
<1> QED
  BY <1>1, <1>3, PoolHigh

LEMMA NextPageIs ==
  ASSUME HeapFits, MapInOrder, PmmInv, PoolBehindKernel, Allocate
  PROVE  /\ NextPage \in Nat /\ KernelStart <= NextPage
         /\ \A a \in held : Apart(NextPage, PageSize, a, PageSize)
<1> DEFINE f == FirstFree(bitmap)
<1>1. Ready /\ DOMAIN bitmap \subseteq Nat /\ FreePages(bitmap) # {} /\ pool.base \in Nat
  BY DEF Allocate, PmmInv
<1>2. f \in DOMAIN bitmap /\ f \in Nat /\ bitmap[f] = 0
  BY <1>1, FirstFreeIsFree
<1>3. NextPage \in Nat /\ KernelStart <= NextPage
  BY <1>1, <1>2, PoolHigh DEF NextPage
<1>4. ASSUME NEW a \in held PROVE Apart(NextPage, PageSize, a, PageSize)
  <2>1. PICK n \in Marked : a = pool.base + n * PageSize
    BY DEF PmmInv, HeldAreMarked
  <2>2. n \in Nat /\ n # f
    BY <1>1, <1>2 DEF Marked
  <2> QED
    BY <1>1, <1>2, <2>1, <2>2, PagesApart DEF NextPage
<1> QED
  BY <1>3, <1>4

\* A step that writes beside what is live damages nothing.
LEMMA WriteApart ==
  ASSUME NEW W, NEW R, Write(W, R), \A w \in W, l \in live : w = l \/ ~Overlap(w, l)
  PROVE  damaged' = damaged
<1>1. {l.of : l \in {l \in live : \E w \in W : w # l /\ Overlap(w, l)}} = {}
  OBVIOUS
<1> QED
  BY <1>1 DEF Write

LEMMA EndsBefore ==
  ASSUME NEW at \in Nat, NEW length \in Nat, NEW m \in Nat, NEW n \in Nat, at + length <= m, m <= n
  PROVE  at + length <= n
OBVIOUS

\* What a step needs to know of where it writes: low, as what the kernel keeps, or
\* high, as the pool.
LEMMA LowApart ==
  ASSUME LayoutSound, HeapFits, MapInOrder, PmmInv, PoolBehindKernel, BootInv,
         phase # "lost",
         NEW w \in VariablesOf(klength) \cup HeapPieces(klength),
         w \in HeapPieces(klength) => phase \notin BeforeTables \cup {"tables"},
         Unread("memory map") => w.of \in WrittenBefore("memory map"),
         Unread("video mode") => w.of \in WrittenBefore("video mode"),
         NEW l \in live
  PROVE  w = l \/ ~Overlap(w, l)
<1>1. klength \in KernelLengths
  BY DEF PmmInv
<1>2. StillNeeded(l) /\ sectors \in Nat
  BY DEF BootInv
<1>3. CASE l \in Kept(klength)
  BY <1>1, <1>3, KeptApart
<1>4. CASE l \in BootData /\ Unread(l.of)
  <2>1. phase \in BeforeTables \cup {"tables"}
    BY <1>4 DEF Unread, BeforeTables
  <2>2. w \in VariablesOf(klength)
    BY <2>1
  <2>3. l.of \in {"memory map", "video mode", "loader tables"}
    BY <1>4, StartAssumption
  <2>4. l.of = "loader tables" \/ w.of \in WrittenBefore(l.of)
    BY <1>4, <2>3
  <2> QED
    BY <1>1, <1>4, <2>2, <2>4, BssIs
<1>5. w.at \in Nat /\ w.length \in Nat /\ w.at + w.length <= KernelStart
  <2>1. w \in Kept(klength)
    BY DEF Kept, VariablesOf, HeapPieces
  <2> QED
    BY <1>1, <2>1, KeptIs
<1>6. CASE \E a \in held : l = Extent("font", a, 512 * sectors)
                         \/ l = Extent("page", a, PageSize)
  <2>1. PICK a \in held : l = Extent("font", a, 512 * sectors) \/ l = Extent("page", a, PageSize)
    BY <1>6
  <2>2. l.at = a
    <3>1. CASE l = Extent("font", a, 512 * sectors)
      BY <3>1 DEF Extent
    <3>2. CASE l = Extent("page", a, PageSize)
      BY <3>2 DEF Extent
    <3> QED
      BY <2>1, <3>1, <3>2
  <2>3. a \in Nat /\ KernelStart <= a
    BY HeldHigh
  <2>4. KernelStart \in Nat
    BY PmmAssumption
  <2>5. w.at + w.length <= l.at
    <3>1. w.at + w.length <= a
      BY <1>5, <2>3, <2>4, EndsBefore
    <3> QED
      BY <2>2, <3>1
  <2> QED
    BY <2>5 DEF Overlap, Apart
<1> QED
  BY <1>2, <1>3, <1>4, <1>6 DEF StillNeeded

LEMMA HighApart ==
  ASSUME LayoutSound, HeapFits, MapInOrder, PmmInv, PoolBehindKernel, BootInv,
         phase \notin {"terminal", "lost"},
         NEW w, w.at \in Nat, KernelStart <= w.at, w.length \in Nat,
         phase \notin BeforeTables => \A a \in held : Apart(w.at, w.length, a, PageSize),
         NEW l \in live
  PROVE  ~Overlap(w, l)
<1>1. klength \in KernelLengths /\ KernelStart \in Nat
  BY PmmAssumption DEF PmmInv
<1>2. StillNeeded(l)
  BY DEF BootInv
<1>3. CASE l \in Kept(klength)
  BY <1>1, <1>3, KeptIs DEF Overlap, Apart
<1>4. CASE l \in BootData
  <2>1. l.at \in Nat /\ l.length \in Nat
    BY <1>4, StartAssumption
  <2>2. l.at + l.length <= KernelStart
    BY <1>4, Zenon DEF LayoutSound
  <2> QED
    BY <1>1, <2>1, <2>2 DEF Overlap, Apart
<1>5. CASE phase \notin BeforeTables /\ \E a \in held : l = Extent("page", a, PageSize)
  <2>1. PICK a \in held : l.at = a /\ l.length = PageSize
    BY <1>5 DEF Extent
  <2> QED
    BY <1>5, <2>1 DEF Overlap
<1> QED
  BY <1>2, <1>3, <1>4, <1>5 DEF StillNeeded

\* What was needed and is not released is needed still.
LEMMA NeededStill ==
  ASSUME UNCHANGED <<klength, sectors>>, held \subseteq held', NEW l, StillNeeded(l),
         l \in BootData /\ Unread(l.of) => Unread(l.of)',
         l.of = "font" /\ phase \in {"terminal", "lost"} => phase' \in {"terminal", "lost"},
         phase \notin BeforeTables => phase' \notin BeforeTables
  PROVE  StillNeeded(l)'
<1>1. Kept(klength') = Kept(klength)
  OBVIOUS
<1>2. CASE l \in Kept(klength)
  BY <1>1, <1>2 DEF StillNeeded
<1>3. CASE l \in BootData /\ Unread(l.of)
  BY <1>3 DEF StillNeeded
<1>4. CASE phase \in {"terminal", "lost"} /\ \E a \in held : l = Extent("font", a, 512 * sectors)
  <2>1. l.of = "font"
    BY <1>4 DEF Extent
  <2> QED
    BY <1>4, <2>1 DEF StillNeeded, Extent
<1>5. CASE phase \notin BeforeTables /\ \E a \in held : l = Extent("page", a, PageSize)
  BY <1>5 DEF StillNeeded, Extent
<1> QED
  BY <1>2, <1>3, <1>4, <1>5 DEF StillNeeded

\* A step that leaves live and damaged alone, between calls that release nothing.
LEMMA NothingWritten ==
  ASSUME PmmInv, BootInv, UNCHANGED <<map, klength, sectors, live, damaged>>, held \subseteq held',
         \A l \in live : l \in BootData /\ Unread(l.of) => Unread(l.of)',
         phase \in {"terminal", "lost"} => phase' \in {"terminal", "lost"},
         phase \notin BeforeTables => phase' \notin BeforeTables,
         phase' \in BeforeTables => todo' = {},
         phase' = "font" => held' # {},
         stacks' = stacks
  PROVE  BootInv'
<1>1. \A l \in live' : StillNeeded(l)'
  BY NeededStill DEF BootInv
<1>2. MapInOrder' <=> MapInOrder
  BY DEF MapInOrder, KernelRegion, HoldsKernel, KernelEnd
<1> QED
  BY <1>1, <1>2 DEF BootInv

\* A step that writes.
LEMMA SomethingWritten ==
  ASSUME PmmInv, BootInv, UNCHANGED <<map, klength, sectors>>, held \subseteq held',
         NEW W, NEW R, Write(W, R),
         \A w \in W : StillNeeded(w)',
         \A l \in live : l.of \notin R /\ l \in BootData /\ Unread(l.of) => Unread(l.of)',
         phase \in {"terminal", "lost"} => phase' \in {"terminal", "lost"} \/ "font" \in R,
         phase \notin BeforeTables => phase' \notin BeforeTables,
         phase' \in BeforeTables => todo' = {},
         phase' = "font" => held' # {},
         stacks' \in 0 .. 3,
         MapInOrder => \A w \in W, l \in live : w = l \/ ~Overlap(w, l)
  PROVE  BootInv'
<1>1. ASSUME NEW l \in live' PROVE StillNeeded(l)'
  <2>1. l \in W \/ (l \in live /\ l.of \notin R)
    BY DEF Write
  <2>2. CASE l \in live /\ l.of \notin R
    BY <2>2, NeededStill DEF BootInv
  <2> QED
    BY <2>1, <2>2
<1>2. MapInOrder' <=> MapInOrder
  BY DEF MapInOrder, KernelRegion, HoldsKernel, KernelEnd
<1>3. MapInOrder => damaged' = damaged
  BY WriteApart
<1> QED
  BY <1>1, <1>2, <1>3 DEF BootInv

\* A step that writes to variables of the kernel, to the heap or to the stacks.
LEMMA LowWritten ==
  ASSUME LayoutSound, PmmInv, PoolBehindKernel, BootInv,
         UNCHANGED <<map, klength, sectors, held>>, phase # "lost",
         NEW W \in SUBSET (VariablesOf(klength) \cup HeapPieces(klength)), NEW R, Write(W, R),
         phase \in BeforeTables \cup {"tables"} => W \cap HeapPieces(klength) = {},
         \A w \in W : /\ Unread("memory map") => w.of \in WrittenBefore("memory map")
                      /\ Unread("video mode") => w.of \in WrittenBefore("video mode"),
         \A l \in live : l.of \notin R /\ l \in BootData /\ Unread(l.of) => Unread(l.of)',
         phase = "terminal" => "font" \in R,
         phase \notin BeforeTables => phase' \notin BeforeTables,
         phase' \in BeforeTables => todo' = {},
         phase' # "font",
         stacks' \in 0 .. 3
  PROVE  BootInv'
<1>1. HeapFits
  BY Zenon DEF LayoutSound
<1>2. ASSUME NEW w \in W PROVE StillNeeded(w)'
  <2>1. w \in Kept(klength)
    BY DEF Kept, VariablesOf, HeapPieces
  <2>2. w \in Kept(klength')
    BY <2>1
  <2> QED
    BY <2>2 DEF StillNeeded
<1>3. ASSUME MapInOrder, NEW w \in W, NEW l \in live PROVE w = l \/ ~Overlap(w, l)
  <2>1. w \in VariablesOf(klength) \cup HeapPieces(klength)
    OBVIOUS
  <2>2. w \in HeapPieces(klength) => phase \notin BeforeTables \cup {"tables"}
    OBVIOUS
  <2>3. /\ Unread("memory map") => w.of \in WrittenBefore("memory map")
        /\ Unread("video mode") => w.of \in WrittenBefore("video mode")
    OBVIOUS
  <2> QED
    BY <1>1, <1>3, <2>1, <2>2, <2>3, LowApart
<1> QED
  BY <1>2, <1>3, SomethingWritten

------------------------------------------------------------------------------
\* Every step of start() keeps what is needed.

LEMMA BootInvInit == StartInit => BootInv
<1> SUFFICES ASSUME StartInit PROVE BootInv
  OBVIOUS
<1>1. /\ phase = "start" /\ sectors \in {0, FontSectors} /\ todo = {} /\ stacks = 0 /\ damaged = {}
      /\ live = BootData \cup {Image(klength), BootStack(klength), Adapters}
  BY Zenon DEF StartInit
<1>2. sectors \in Nat
  <2>1. sectors = 0 \/ sectors = FontSectors
    BY <1>1
  <2>2. FontSectors \in Nat
    BY StartAssumption
  <2> QED
    BY ONLY <2>1, <2>2
<1>3. ASSUME NEW l \in live PROVE StillNeeded(l)
  <2>1. CASE l \in BootData
    BY <1>1, <2>1 DEF StillNeeded, Unread
  <2>2. CASE l \in {Image(klength), BootStack(klength), Adapters}
    BY <2>2, Zenon DEF StillNeeded, Kept
  <2> QED
    BY <1>1, <2>1, <2>2
<1> QED
  BY <1>1, <1>2, <1>3 DEF BootInv

\* The steps that write nothing.
LEMMA QuietSteps ==
  ASSUME PmmInv, BootInv,
         \/ FontPage \/ PoolFails \/ (StepAcpi /\ step' # "records") \/ PrintApic \/ MapApic \/ InitApic \/ EarlyTick
         \/ UNCHANGED startVars
  PROVE  BootInv'
<1>1. CASE FontPage
  <2>1. /\ UNCHANGED <<map, klength, sectors, live, damaged, todo, stacks>>
        /\ held' = held \cup {NextPage} /\ phase = "font page" /\ phase' = "font"
    BY <1>1 DEF FontPage, Allocate
  <2>2. \A l \in live : Unread(l.of) => Unread(l.of)'
    BY <2>1 DEF Unread, BeforeTables
  <2>3. todo' = {}
    BY <2>1 DEF BootInv, BeforeTables
  <2> QED
    BY <2>1, <2>2, <2>3, NothingWritten DEF BeforeTables
<1>2. CASE PoolFails \/ EarlyTick
  <2>1. /\ UNCHANGED <<map, klength, sectors, live, damaged, held, stacks>> /\ phase' = "lost"
    BY <1>2 DEF PoolFails, EarlyTick, NoPage, Lost, poolVars, vars
  <2>2. \A l \in live : Unread(l.of)'
    BY <2>1 DEF Unread
  <2> QED
    BY <2>1, <2>2, NothingWritten DEF BeforeTables
<1>3. CASE (StepAcpi /\ step' # "records") \/ PrintApic \/ MapApic \/ InitApic
  <2>1. /\ UNCHANGED <<map, klength, sectors, live, damaged, held, stacks>>
        /\ phase \in {"acpi", "apic", "sti"}
        /\ phase' \in {"acpi", "scheduler", "sti", "running", "halted", "lost"}
    <3>1. CASE StepAcpi /\ step' # "records"
      BY <3>1 DEF StepAcpi, poolVars, vars
    <3>2. CASE PrintApic
      BY <3>2 DEF PrintApic, poolVars, vars
    <3>3. CASE MapApic
      BY <3>3 DEF MapApic, poolVars, vars
    <3>4. CASE InitApic
      BY <3>4 DEF InitApic, Lost, poolVars, vars
    <3> QED
      BY <1>3, <3>1, <3>2, <3>3, <3>4
  <2>2. \A l \in live : ~Unread(l.of)
    BY <2>1 DEF Unread, BeforeTables
  <2> QED
    BY <2>1, <2>2, NothingWritten DEF BeforeTables
<1>4. CASE UNCHANGED startVars
  <2>1. /\ UNCHANGED <<map, klength, sectors, live, damaged, held, stacks, phase, todo>>
    BY <1>4 DEF startVars, poolVars, vars, ownVars
  <2>2. \A l \in live : Unread(l.of) => Unread(l.of)'
    BY <2>1 DEF Unread
  <2> QED
    BY <2>1, <2>2, NothingWritten DEF BootInv
<1> QED
  BY <1>1, <1>2, <1>3, <1>4

\* set_cr3 only gives up what the loader left.
LEMMA SetCr3Step ==
  ASSUME PmmInv, BootInv, SetCr3
  PROVE  BootInv'
<1>1. /\ UNCHANGED <<map, klength, sectors, held, stacks, todo>>
      /\ phase = "tables" /\ phase' = "heap" /\ Write({}, {"loader tables"})
  BY DEF SetCr3, poolVars, vars
<1>2. \A l \in live : l.of \notin {"loader tables"} => ~Unread(l.of)
  BY <1>1 DEF Unread, BeforeTables
<1> QED
  BY <1>1, <1>2, SomethingWritten DEF BootInv, BeforeTables

\* The variables of a part, by its name.
LEMMA PartIs ==
  ASSUME NEW k, NEW p \in Parts
  PROVE  /\ Variables(k, p) \in VariablesOf(k) /\ Variables(k, p).of = p
         /\ Variables(k, p) \notin HeapPieces(k)
<1>1. Variables(k, p) \in VariablesOf(k) /\ Variables(k, p).of = p
  BY DEF VariablesOf, Variables, Extent
<1>2. \A w \in HeapPieces(k) : w.of \in {"heap", "stack"}
  BY DEF HeapPieces, Header, Stack, Extent
<1>3. p \notin {"heap", "stack"}
  BY DEF Parts
<1> QED
  BY <1>1, <1>2, <1>3

\* The calls in front of read_file write to the variables of one part each, while some
\* of what the loader left is to be read.
LEMMA EarlySteps ==
  ASSUME LayoutSound, PmmInv, PoolBehindKernel, BootInv,
         SaveArguments \/ InitPmm \/ InitVesa \/ SetupInterrupts
  PROVE  BootInv'
<1>1. PICK p \in {"start", "pmm", "vesa", "interrupts"}, R \in SUBSET {"memory map", "video mode"} :
        /\ Write({Variables(klength, p)}, R)
        /\ UNCHANGED <<map, klength, sectors, held, stacks, todo>>
        /\ phase \in {"start", "pool", "video", "interrupts"}
        /\ phase' \in {"pool", "video", "interrupts", "font page"}
        /\ p = "vesa" => phase = "video"
        /\ p = "interrupts" => phase = "interrupts"
        /\ phase' \notin {"start", "pool"} => "memory map" \in R \/ phase \notin {"start", "pool"}
        /\ phase' \notin {"start", "pool", "video"} =>
             "video mode" \in R \/ phase \notin {"start", "pool", "video"}
  <2>1. CASE SaveArguments
    BY <2>1 DEF SaveArguments, poolVars, vars
  <2>2. CASE InitPmm
    <3>1. UNCHANGED <<map, klength, sectors, held, stacks, todo>>
      BY <2>2 DEF InitPmm, Scan, ClearBitmap
    <3>2. CASE Ready'
      <4>1. Write({Variables(klength, "pmm")}, {"memory map"}) /\ phase = "pool" /\ phase' = "video"
        BY <2>2, <3>2 DEF InitPmm
      <4> QED
        BY <3>1, <4>1
    <3>3. CASE ~Ready'
      <4>1. Write({Variables(klength, "pmm")}, {}) /\ phase = "pool" /\ phase' = "pool"
        BY <2>2, <3>3 DEF InitPmm
      <4> QED
        BY <3>1, <4>1
    <3> QED
      BY <3>2, <3>3
  <2>3. CASE InitVesa
    BY <2>3 DEF InitVesa, poolVars, vars
  <2>4. CASE SetupInterrupts
    BY <2>4 DEF SetupInterrupts, poolVars, vars
  <2> QED
    BY <2>1, <2>2, <2>3, <2>4
<1>2. p \in Parts
  BY DEF Parts
<1> DEFINE W == {Variables(klength, p)}
<1>3. /\ W \in SUBSET (VariablesOf(klength) \cup HeapPieces(klength))
      /\ W \cap HeapPieces(klength) = {} /\ \A w \in W : w.of = p
  BY <1>2, PartIs
<1>4. /\ Unread("memory map") => p \in WrittenBefore("memory map")
      /\ Unread("video mode") => p \in WrittenBefore("video mode")
  BY <1>1 DEF Unread, WrittenBefore, BeforeTables
<1>5. ASSUME NEW l \in live, l.of \notin R, l \in BootData, Unread(l.of) PROVE Unread(l.of)'
  <2>1. l.of \in {"memory map", "video mode", "loader tables"}
    BY <1>5, StartAssumption
  <2> QED
    BY <1>1, <1>5, <2>1 DEF Unread, BeforeTables
<1>6. todo' = {} /\ stacks' \in 0 .. 3
  BY <1>1 DEF BootInv, BeforeTables
<1>7. Write(W, R) /\ UNCHANGED <<map, klength, sectors, held>> /\ phase # "lost" /\ phase \in BeforeTables
  BY <1>1 DEF BeforeTables
<1>8. phase # "terminal" /\ phase' # "font"
  BY <1>1
<1> HIDE DEF W
<1>9. \A w \in W : /\ Unread("memory map") => w.of \in WrittenBefore("memory map")
                   /\ Unread("video mode") => w.of \in WrittenBefore("video mode")
  BY <1>3, <1>4
<1> QED
  BY <1>3, <1>5, <1>6, <1>7, <1>8, <1>9, LowWritten

\* The later ones write to the variables of one part, and to their piece of the heap.
LEMMA LowSteps ==
  ASSUME LayoutSound, PmmInv, PoolBehindKernel, BootInv,
         InitTextTerminal \/ InstallHeap \/ (StepAcpi /\ step' = "records") \/ AllocStack
  PROVE  BootInv'
<1>1. PICK p \in Parts, H \in SUBSET HeapPieces(klength), R \in SUBSET {"font"} :
        /\ Write(H \cup {Variables(klength, p)}, R)
        /\ UNCHANGED <<map, klength, sectors, held>> /\ stacks' \in 0 .. 3
        /\ phase \in {"terminal", "heap", "acpi", "scheduler"}
        /\ phase = "terminal" => /\ H = {} /\ R = {"font"} /\ phase' \in {"paging", "lost"}
                                 /\ todo' = todo
        /\ phase # "terminal" => phase' \in {"acpi", "scheduler", "apic", "halted", "lost"}
  <2>1. stacks \in 0 .. 3
    BY DEF BootInv
  <2>2. {"terminal", "alloc", "acpi", "scheduler"} \subseteq Parts
    BY DEF Parts
  <2>3. CASE InitTextTerminal
    <3>1. /\ UNCHANGED <<map, klength, sectors, held, stacks, todo>>
          /\ phase = "terminal" /\ phase' \in {"paging", "lost"}
          /\ Write({} \cup {Variables(klength, "terminal")}, {"font"})
      BY <2>3 DEF InitTextTerminal, Lost, poolVars, vars
    <3> QED
      BY <2>1, <2>2, <3>1
  <2>4. CASE InstallHeap
    <3>1. Header(klength, 0) \in HeapPieces(klength)
      BY DEF HeapPieces
    <3>2. /\ UNCHANGED <<map, klength, sectors, held, stacks>>
          /\ phase = "heap" /\ phase' = "acpi"
          /\ Write({Header(klength, 0)} \cup {Variables(klength, "alloc")}, {})
      BY <2>4 DEF InstallHeap, poolVars, vars
    <3>3. {Header(klength, 0)} \in SUBSET HeapPieces(klength) /\ {} \in SUBSET {"font"} /\ "alloc" \in Parts
      BY <2>2, <3>1
    <3> QED
      BY <2>1, <3>2, <3>3
  <2>5. CASE StepAcpi /\ step' = "records"
    <3>1. /\ UNCHANGED <<map, klength, sectors, held, stacks>>
          /\ phase = "acpi" /\ phase' = "acpi"
          /\ Write({} \cup {Variables(klength, "acpi")}, {})
      BY <2>5 DEF StepAcpi, poolVars, vars
    <3>2. {} \in SUBSET HeapPieces(klength) /\ {} \in SUBSET {"font"} /\ "acpi" \in Parts
      BY <2>2
    <3> QED
      BY <2>1, <3>1, <3>2
  <2>6. CASE AllocStack
    <3>1. /\ UNCHANGED <<map, klength, sectors, held>>
          /\ phase = "scheduler" /\ phase' \in {"scheduler", "apic"} /\ stacks < 3 /\ stacks' = stacks + 1
          /\ Write({Header(klength, stacks + 1), Stack(klength, stacks)} \cup {Variables(klength, "scheduler")}, {})
      <4>1. {Header(klength, stacks + 1), Stack(klength, stacks), Variables(klength, "scheduler")}
              = {Header(klength, stacks + 1), Stack(klength, stacks)} \cup {Variables(klength, "scheduler")}
        OBVIOUS
      <4> QED
        BY <2>6, <4>1 DEF AllocStack, poolVars, vars
    <3>2. stacks \in 0 .. 2 /\ stacks + 1 \in 0 .. 3
      BY <2>1, <3>1
    <3>3. {Header(klength, stacks + 1), Stack(klength, stacks)} \in SUBSET HeapPieces(klength)
      BY <3>2 DEF HeapPieces
    <3>4. stacks' \in 0 .. 3 /\ {} \in SUBSET {"font"} /\ "scheduler" \in Parts
      BY <2>2, <3>1, <3>2
    <3> QED
      BY <3>1, <3>3, <3>4
  <2> QED
    BY <2>3, <2>4, <2>5, <2>6
<1> DEFINE W == H \cup {Variables(klength, p)}
<1>2. W \in SUBSET (VariablesOf(klength) \cup HeapPieces(klength)) /\ Write(W, R)
  BY <1>1, PartIs
<1>3. phase \in BeforeTables \cup {"tables"} => W \cap HeapPieces(klength) = {}
  <2>1. phase \in BeforeTables \cup {"tables"} => H = {}
    BY <1>1 DEF BeforeTables
  <2> QED
    BY <2>1, PartIs
<1>4. \A of : Unread(of) => of = "loader tables" /\ phase = "terminal"
  BY <1>1 DEF Unread, BeforeTables
<1>5. \A l \in live : l.of \notin R /\ l \in BootData /\ Unread(l.of) => Unread(l.of)'
  BY <1>1, <1>4 DEF Unread, BeforeTables
<1>6. /\ UNCHANGED <<map, klength, sectors, held>> /\ phase # "lost" /\ stacks' \in 0 .. 3
      /\ phase = "terminal" => "font" \in R
      /\ phase \notin BeforeTables => phase' \notin BeforeTables
      /\ phase' \in BeforeTables => todo' = {}
      /\ phase' # "font"
  BY <1>1 DEF BootInv, BeforeTables
<1> HIDE DEF W
<1>7. ~Unread("memory map") /\ ~Unread("video mode")
  BY <1>1 DEF Unread, BeforeTables
<1> QED
  BY <1>2, <1>3, <1>5, <1>6, <1>7, LowWritten

\* The steps that write to pages of the pool.
LEMMA HighSteps ==
  ASSUME LayoutSound, PmmInv, PoolBehindKernel, BootInv, ReadFont \/ InitPaging \/ BuildTable
  PROVE  BootInv'
<1>1. HeapFits
  BY Zenon DEF LayoutSound
<1>2. CASE ReadFont
  <2>1. /\ UNCHANGED <<map, klength, sectors, held, stacks, todo>>
        /\ phase = "font" /\ phase' \in {"terminal", "lost"}
    BY <1>2 DEF ReadFont, Lost, poolVars, vars
  <2>2. \A l \in live : Unread(l.of) => Unread(l.of)'
    BY <2>1 DEF Unread, BeforeTables
  <2>3. todo' = {} /\ held # {} /\ sectors \in Nat
    BY <2>1 DEF BootInv, BeforeTables
  <2> DEFINE F == Variables(klength, "fat")
             W == {F} \cup (IF sectors = 0 THEN {} ELSE {Font})
  <2>4. CASE UNCHANGED <<live, damaged>>
    BY <2>1, <2>2, <2>3, <2>4, NothingWritten DEF BeforeTables
  <2>5. CASE phase' = "terminal" /\ Write(W, {})
    <3>f. F \in VariablesOf(klength)
      BY PartIs DEF Parts
    <3>g. F \in Kept(klength) /\ klength' = klength
      BY <2>1, <3>f DEF VariablesOf, Kept
    <3>h. ASSUME NEW w \in {F} PROVE StillNeeded(w)'
      <4>1. w \in Kept(klength)'
        BY <3>g, <3>h
      <4> QED
        BY <4>1 DEF StillNeeded
    <3>i. ASSUME MapInOrder, NEW l \in live PROVE F = l \/ ~Overlap(F, l)
      <4>1. ~Unread("memory map") /\ ~Unread("video mode")
        BY <2>1 DEF Unread, BeforeTables
      <4>2. F \notin HeapPieces(klength)
        BY PartIs DEF Parts
      <4> HIDE DEF F
      <4> QED
        BY <1>1, <2>1, <3>f, <3>i, <4>1, <4>2, LowApart
    <3>1. PICK a \in held : Font = Extent("font", a, 512 * sectors)
      BY <2>3 DEF Font
    <3>2. ASSUME NEW w \in {Font} PROVE StillNeeded(w)'
      <4>1. \E b \in held' : w = Extent("font", b, 512 * sectors')
        BY <2>1, <3>1
      <4> QED
        BY <2>5, <4>1 DEF StillNeeded
    <3>3. ASSUME MapInOrder, NEW l \in live PROVE ~Overlap(Font, l)
      <4>1. Font.at = a /\ Font.length = 512 * sectors /\ Font.length \in Nat
        BY <2>3, <3>1 DEF Extent
      <4>2. a \in Nat /\ KernelStart <= a
        BY <1>1, <3>3, HeldHigh
      <4> QED
        BY <1>1, <2>1, <3>3, <4>1, <4>2, HighApart DEF BeforeTables
    <3>4. stacks' \in 0 .. 3
      BY <2>1 DEF BootInv
    <3>5. /\ \A w \in W : StillNeeded(w)'
          /\ MapInOrder => \A w \in W, l \in live : w = l \/ ~Overlap(w, l)
      <4>1. \A w \in W : w = F \/ w = Font
        OBVIOUS
      <4>2. \A w \in {F, Font} : StillNeeded(w)'
        BY <3>2, <3>h
      <4>3. MapInOrder => \A l \in live : (F = l \/ ~Overlap(F, l)) /\ ~Overlap(Font, l)
        BY <3>3, <3>i
      <4> HIDE DEF F, W
      <4> QED
        BY <4>1, <4>2, <4>3
    <3> HIDE DEF W
    <3> QED
      BY <2>1, <2>2, <2>3, <2>5, <3>4, <3>5, SomethingWritten DEF BeforeTables
  <2> QED
    BY <1>2, <2>4, <2>5 DEF ReadFont
<1>3. CASE InitPaging \/ BuildTable
  <2> DEFINE w == Extent("page", NextPage, PageSize)
             F == Variables(klength, "vmm")
  <2>1. PICK V \in SUBSET {F} :
        /\ UNCHANGED <<map, klength, sectors, stacks>> /\ Allocate /\ Write({w} \cup V, {})
        /\ V # {} => phase = "paging"
        /\ \/ phase = "paging" /\ phase' = "tables"
           \/ todo # {} /\ phase # "lost" /\ phase' = phase
    <3>1. \A V : TakeTable(V) => /\ Allocate /\ UNCHANGED <<map, klength>> /\ Write({w} \cup V, {})
      BY DEF TakeTable, Allocate
    <3> HIDE DEF w
    <3>2. CASE InitPaging
      BY <3>1, <3>2 DEF InitPaging
    <3>3. CASE BuildTable
      BY <3>1, <3>3 DEF BuildTable
    <3> QED
      BY <1>3, <3>2, <3>3
  <2>2. held' = held \cup {NextPage}
    BY <2>1 DEF Allocate
  <2>3. phase' \notin BeforeTables /\ phase \notin {"terminal", "lost"}
    BY <2>1 DEF BootInv, BeforeTables
  <2>4. \A l \in live : Unread(l.of) => Unread(l.of)'
    BY <2>1 DEF Unread, BeforeTables
  <2>5. ASSUME NEW v \in {w} PROVE StillNeeded(v)'
    <3>1. \E b \in held' : v = Extent("page", b, PageSize)
      BY <2>2
    <3> QED
      BY <2>3, <3>1 DEF StillNeeded
  <2>6. ASSUME MapInOrder, NEW l \in live PROVE ~Overlap(w, l)
    <3>1. /\ NextPage \in Nat /\ KernelStart <= NextPage
          /\ \A a \in held : Apart(NextPage, PageSize, a, PageSize)
      BY <1>1, <2>1, <2>6, NextPageIs
    <3>2. w.at = NextPage /\ w.length = PageSize /\ PageSize \in Nat
      BY PmmAssumption DEF Extent
    <3> HIDE DEF w
    <3> QED
      BY <1>1, <2>3, <2>6, <3>1, <3>2, HighApart
  <2>f. F \in VariablesOf(klength) /\ F \notin HeapPieces(klength)
    BY PartIs DEF Parts
  <2>g. ASSUME NEW v \in {F} PROVE StillNeeded(v)'
    <3>1. F \in Kept(klength) /\ klength' = klength
      BY <2>1, <2>f DEF VariablesOf, Kept
    <3>2. v \in Kept(klength)'
      BY <2>g, <3>1
    <3> QED
      BY <3>2 DEF StillNeeded
  <2>h. ASSUME V # {}, MapInOrder, NEW l \in live PROVE F = l \/ ~Overlap(F, l)
    <3>1. phase = "paging" /\ ~Unread("memory map") /\ ~Unread("video mode")
      BY <2>1, <2>h DEF Unread, BeforeTables
    <3> HIDE DEF F
    <3> QED
      BY <1>1, <2>f, <2>h, <3>1, LowApart
  <2> HIDE DEF w, F
  <2>7. stacks' \in 0 .. 3 /\ held \subseteq held'
    BY <2>1, <2>2 DEF BootInv
  <2> DEFINE W == {w} \cup V
  <2>8. /\ \A v \in W : StillNeeded(v)'
        /\ MapInOrder => \A v \in W, l \in live : v = l \/ ~Overlap(v, l)
    <3>1. \A v \in W : v = w \/ (v = F /\ V # {})
      BY <2>1
    <3>2. \A v \in {w, F} : StillNeeded(v)'
      BY <2>5, <2>g
    <3>3. MapInOrder => \A l \in live : ~Overlap(w, l) /\ (V # {} => F = l \/ ~Overlap(F, l))
      BY <2>6, <2>h
    <3> HIDE DEF W
    <3> QED
      BY <3>1, <3>2, <3>3
  <2>9. Write(W, {})
    BY <2>1
  <2>10. phase' # "font" /\ (phase' \in BeforeTables => todo' = {})
    BY <2>3 DEF BeforeTables
  <2> HIDE DEF W
  <2> QED
    BY <2>1, <2>3, <2>4, <2>7, <2>8, <2>9, <2>10, SomethingWritten
<1> QED
  BY <1>2, <1>3

LEMMA BootInvHolds == LayoutSound => (StartSpec => []BootInv)
<1> SUFFICES ASSUME LayoutSound PROVE StartSpec => []BootInv
  OBVIOUS
<1> HeapFits
  BY Zenon DEF LayoutSound
<1>1. PmmInv /\ PoolBehindKernel /\ BootInv /\ [StartNext]_startVars => BootInv'
  BY QuietSteps, SetCr3Step, EarlySteps, LowSteps, HighSteps DEF StartNext
<1> QED
  BY <1>1, BootInvInit, PmmInvariant, PoolBehindKernelHolds, PTL DEF StartSpec

\* Nothing that is still needed is written to: whatever the memory map, the length of
\* the kernel and the number of pages the boot takes, the order of the calls in start()
\* and a layout of the linker that is sound keep every owner's memory from the others.
THEOREM NothingLostHolds == LayoutSound => (StartSpec => []NothingLost)
<1> SUFFICES ASSUME LayoutSound PROVE StartSpec => []NothingLost
  OBVIOUS
<1>1. BootInv => NothingLost
  BY DEF BootInv, NothingLost
<1> QED
  BY <1>1, BootInvHolds, PTL

------------------------------------------------------------------------------
\* Everything has its type.

LEMMA MaxOfTwo ==
  ASSUME NEW a \in Nat, NEW b \in Nat
  PROVE  Max({a, b}) \in Nat /\ a <= Max({a, b}) /\ b <= Max({a, b})
<1>1. \E x \in {a, b} : \A y \in {a, b} : x >= y
  <2>1. CASE a >= b
    BY <2>1
  <2>2. CASE b >= a
    BY <2>2
  <2> QED
    BY <2>1, <2>2
<1>2. Max({a, b}) \in {a, b} /\ \A y \in {a, b} : Max({a, b}) >= y
  BY <1>1 DEF Max
<1> QED
  BY <1>2

LEMMA OutputIs ==
  ASSUME row \in 0 .. Height - 1, interrupts \in BOOLEAN, NEW n \in Nat, Output(n)
  PROVE  row' \in 0 .. Height - 1 /\ interrupts' \in BOOLEAN
<1> DEFINE S == {row + n, Height - 1}
<1>1. Height \in Nat \ {0}
  BY AcpiAssumption
<1>2. S \in SUBSET Nat /\ S # {}
  BY <1>1
<1>3. row' = Min(S) /\ interrupts' \in BOOLEAN
  BY DEF Output, RowAfter
<1>4. Min(S) \in S /\ \A m \in S : Min(S) <= m
  <2> HIDE DEF S
  <2> QED
    BY <1>2, MinPlace
<1> QED
  BY <1>1, <1>2, <1>3, <1>4

\* The letters of a signature and what print finds behind them.
LEMMA SignatureIs ==
  ASSUME row \in 0 .. Height - 1, interrupts \in BOOLEAN, PrintSignature
  PROVE  row' \in 0 .. Height - 1 /\ interrupts' \in BOOLEAN
<1> DEFINE Ends(n) == {k \in PrintedOf(n) : Bytes(n)[k] = NewLine}
<1>1. \A n : Cardinality(Ends(n)) \in Nat
  <2>1. TAKE n
  <2>2. Ends(n) \subseteq 1 .. 3
    BY DEF PrintedOf
  <2>3. IsFiniteSet(1 .. 3)
    <3>1. 1 \in Int /\ 3 \in Int
      OBVIOUS
    <3> QED
      BY <3>1, FS_Interval
  <2> HIDE DEF Ends
  <2> QED
    BY <2>2, <2>3, FS_Subset, FS_CardinalityType
<1>2. SignatureLines(table) \in Nat
  <2> HIDE DEF Ends
  <2>1. CASE table \in DOMAIN firmware.tables
    <3>1. SignatureLines(table) = Cardinality(Ends(LengthOf(firmware.tables[table])))
      BY <2>1 DEF SignatureLines, Ends
    <3> QED
      BY <1>1, <3>1
  <2>2. CASE table \notin DOMAIN firmware.tables
    BY <2>2 DEF SignatureLines
  <2> QED
    BY <2>1, <2>2
<1> QED
  BY <1>2, OutputIs DEF PrintSignature

LEMMA WithPageIs ==
  ASSUME \A r \in space : r.from \in Int /\ r.to \in Int, NEW at \in Nat
  PROVE  \A r \in WithPage(at) : r.from \in Int /\ r.to \in Int
<1>1. at \div PageBytes \in Int
  BY DEF PageBytes
<1> QED
  BY <1>1 DEF WithPage

\* An entry of the list, or what lies behind it, is an address.
LEMMA TableAddressIs ==
  ASSUME firmware \in Firmwares, NEW i \in Nat \ {0}
  PROVE  TableAddress(i) \in Nat /\ firmware.rsdt \in Nat /\ firmware.xsdt \in Nat
<1>1. firmware.list \in Seq(Nat) /\ firmware.rsdt \in Nat /\ firmware.xsdt \in Nat /\ firmware.behind \in Nat
  BY AcpiAssumption
<1>2. \A n \in Nat \ {0} : Entry(n) \in Nat
  BY <1>1 DEF Entry
<1> QED
  BY <1>1, <1>2 DEF TableAddress

\* The steps beside the walk.
LEMMA WalkRests ==
  ASSUME WalkInv, UNCHANGED <<firmware, apic, step, index, table, offset>>,
         row' \in 0 .. Height - 1, interrupts' \in BOOLEAN,
         \A r \in space' : r.from \in Int /\ r.to \in Int
  PROVE  WalkInv'
<1>1. AcpiTypeOK'
  BY DEF WalkInv, AcpiTypeOK
<1>2. LastIndex' = LastIndex /\ IsMadt(table)' = IsMadt(table) /\ Madt' = Madt
  BY SameFirmware DEF Madt, IsMadt
<1>3. step' = "records" =>
        IsMadt(table)' /\ \E k \in 1 .. Len(Madt'.records) + 1 : offset' = RecordOffset(Madt', k)
  BY <1>2 DEF WalkInv
<1> QED
  BY <1>1, <1>2, <1>3 DEF WalkInv

\* The record looked at, and where the next one begins.
LEMMA RecordAt ==
  ASSUME WalkInv, step = "records", offset < MadtEnd
  PROVE  /\ Record \in MadtRecord
         /\ \E k \in 1 .. Len(Madt.records) + 1 : offset + Record.length = RecordOffset(Madt, k)
<1> DEFINE len == Len(Madt.records)
           At(k) == RecordOffset(Madt, k)
           same == {n \in DOMAIN Madt.records : At(n) = offset}
           q == Min(same)
<1>1. Madt.records \in Seq(MadtRecord)
  BY FirmwareIs DEF WalkInv, Madt
<1>2. len \in Nat /\ DOMAIN Madt.records = 1 .. len /\ \A n \in 1 .. len : Madt.records[n] \in MadtRecord
  BY <1>1
<1>3. /\ \A k \in 1 .. len + 1 : At(k) \in Nat
      /\ \A k \in 1 .. len : At(k + 1) = At(k) + Madt.records[k].length
  BY <1>1, OffsetsAre, OffsetsGrow
<1>4. PICK k \in 1 .. len + 1 : offset = At(k)
  BY DEF WalkInv
<1>5. MadtEnd = At(len + 1)
  BY DEF MadtEnd
<1>6. Record = Madt.records[q]
  BY DEF Record
<1> HIDE DEF At, len
<1>7. k \in 1 .. len
  BY <1>2, <1>3, <1>4, <1>5
<1>8. k \in same /\ same \in SUBSET Nat
  BY <1>2, <1>4, <1>7
<1>9. q \in same
  <2> HIDE DEF same
  <2> QED
    BY <1>8, MinPlace
<1>10. q \in 1 .. len /\ At(q) = offset
  BY <1>2, <1>9
<1> HIDE DEF q, same
<1>11. q + 1 \in 1 .. len + 1 /\ offset + Record.length = At(q + 1)
  BY <1>2, <1>3, <1>6, <1>10
<1> QED
  BY <1>2, <1>6, <1>10, <1>11 DEF At, len

LEMMA WalkSteps ==
  ASSUME WalkInv, ParseAcpi
  PROVE  WalkInv'
<1>1. /\ AcpiTypeOK /\ firmware \in Firmwares /\ firmware' = firmware
  BY DEF WalkInv, ParseAcpi, NoXsdp, OpenList, NextTable, EndOfList, SkipTable, OpenMadt, NextRecord,
     EndOfRecords, Fault
<1>2. LastIndex' = LastIndex /\ \A a : IsMadt(a)' = IsMadt(a)
  BY <1>1, SameFirmware
<1>3. /\ apic \in [local : Nat, io : Nat] /\ index \in Nat \ {0} /\ table \in Nat /\ offset \in Nat
      /\ row \in 0 .. Height - 1 /\ interrupts \in BOOLEAN
      /\ \A r \in space : r.from \in Int /\ r.to \in Int
      /\ index \in 1 .. Max({RsdtEntries, Len(firmware.list)}) + 1
  <2>1. Max({RsdtEntries, Len(firmware.list)}) \in Nat
    BY <1>1, FirmwareIs, MaxOfTwo
  <2> QED
    BY <1>1, <2>1 DEF AcpiTypeOK
<1>4. CASE NoXsdp
  <2>1. row' \in 0 .. Height - 1 /\ interrupts' \in BOOLEAN
    BY <1>3, <1>4, OutputIs DEF NoXsdp
  <2> QED
    BY <1>1, <1>4, <2>1 DEF NoXsdp, WalkInv, AcpiTypeOK
<1>5. CASE OpenList
  <2>1. row' \in 0 .. Height - 1 /\ interrupts' \in BOOLEAN
    <3>1. PICK n \in Nat : Output(n)
      BY <1>5 DEF OpenList
    <3> QED
      BY <1>3, <3>1, OutputIs
  <2>2. \A r \in space' : r.from \in Int /\ r.to \in Int
    <3>1. PICK at \in Nat : space' = WithPage(at)
      BY <1>1, <1>5, TableAddressIs DEF OpenList
    <3> QED
      BY <1>3, <3>1, WithPageIs
  <2> QED
    BY <1>1, <1>5, <2>1, <2>2 DEF OpenList, WalkInv, AcpiTypeOK
<1>6. CASE NextTable
  <2>1. table' \in Nat /\ index' = index /\ index <= LastIndex /\ step' = "table"
        /\ UNCHANGED <<apic, offset>>
    BY <1>1, <1>3, <1>6, TableAddressIs DEF NextTable
  <2>2. row' \in 0 .. Height - 1 /\ interrupts' \in BOOLEAN /\ \A r \in space' : r.from \in Int /\ r.to \in Int
    <3>1. CASE UsesXsdt
      <4>1. PICK n \in Nat : Output(n)
        BY <1>6, <3>1 DEF NextTable
      <4>2. space' = WithPage(table')
        BY <1>6, <3>1 DEF NextTable
      <4> QED
        BY <1>3, <2>1, <4>1, <4>2, OutputIs, WithPageIs
    <3>2. CASE ~UsesXsdt
      BY <1>3, <1>6, <3>2 DEF NextTable
    <3> QED
      BY <3>1, <3>2
  <2> QED
    BY <1>1, <1>2, <1>3, <2>1, <2>2 DEF WalkInv, AcpiTypeOK
<1>7. CASE EndOfList \/ EndOfRecords \/ Fault
  BY <1>1, <1>7 DEF EndOfList, EndOfRecords, Fault, WalkInv, AcpiTypeOK
<1>8. CASE SkipTable
  <2>1. index <= LastIndex /\ index' = index + 1 /\ step' = "list"
        /\ UNCHANGED <<apic, space, table, offset>>
    BY <1>8 DEF SkipTable, WalkInv
  <2>2. row' \in 0 .. Height - 1 /\ interrupts' \in BOOLEAN
    BY <1>3, <1>8, SignatureIs DEF SkipTable
  <2>3. LastIndex <= Max({RsdtEntries, Len(firmware.list)}) /\ Max({RsdtEntries, Len(firmware.list)}) \in Nat
    BY <1>1, FirmwareIs, MaxOfTwo DEF LastIndex
  <2>4. LastIndex \in Nat
    BY <1>1, FirmwareIs DEF LastIndex
  <2>5. index' \in 1 .. Max({RsdtEntries, Len(firmware.list)}) + 1
    BY <1>3, <2>1, <2>3, <2>4
  <2> QED
    BY <1>1, <2>1, <2>2, <2>5 DEF WalkInv, AcpiTypeOK
<1>9. CASE OpenMadt
  <2>1. /\ IsMadt(table) /\ apic' = [apic EXCEPT !.local = Madt.local] /\ offset' = 44 /\ step' = "records"
        /\ UNCHANGED <<space, index, table>>
    BY <1>9 DEF OpenMadt
  <2>2. row' \in 0 .. Height - 1 /\ interrupts' \in BOOLEAN
    BY <1>3, <1>9, SignatureIs DEF OpenMadt
  <2>3. Madt.records \in Seq(MadtRecord) /\ Madt.local \in Nat
    BY <1>1, <2>1, AcpiAssumption DEF Madt, IsMadt
  <2>4. Madt' = Madt /\ RecordOffset(Madt, 1) = 44 /\ 1 \in 1 .. Len(Madt.records) + 1
    BY <1>1, <2>1, <2>3, OffsetsAre DEF Madt
  <2>5. \E k \in 1 .. Len(Madt'.records) + 1 : offset' = RecordOffset(Madt', k)
    BY <2>1, <2>4
  <2>6. apic' \in [local : Nat, io : Nat]
    BY <1>3, <2>1, <2>3
  <2>7. AcpiTypeOK'
    BY <1>1, <2>1, <2>2, <2>6 DEF AcpiTypeOK
  <2>8. IsMadt(table)'
    BY <1>2, <2>1
  <2> QED
    BY <1>1, <2>1, <2>5, <2>7, <2>8 DEF WalkInv
<1>10. CASE NextRecord
  <2>1. /\ step = "records" /\ offset < MadtEnd /\ offset' = offset + Record.length
        /\ apic' = IF Record.type = IoApic THEN [apic EXCEPT !.io = Record.address] ELSE apic
        /\ UNCHANGED <<space, step, index, table>>
    BY <1>10 DEF NextRecord, OffsetAfter
  <2>2. Record \in MadtRecord /\ \E k \in 1 .. Len(Madt.records) + 1 : offset' = RecordOffset(Madt, k)
    BY <2>1, RecordAt
  <2>3. Record.length \in Nat /\ (Record.type = IoApic => Record.address \in Nat)
    BY <2>2 DEF MadtRecord
  <2>4. apic' \in [local : Nat, io : Nat] /\ offset' \in Nat
    BY <1>3, <2>1, <2>3
  <2>5. row' \in 0 .. Height - 1 /\ interrupts' \in BOOLEAN
    <3>1. PICK n \in Nat : Output(n)
      BY <1>10 DEF NextRecord, LinesOf
    <3> QED
      BY <1>3, <3>1, OutputIs
  <2>6. Madt' = Madt /\ IsMadt(table)' /\ step' = "records"
    BY <1>1, <1>2, <2>1 DEF Madt, WalkInv, IsMadt
  <2>7. \E k \in 1 .. Len(Madt'.records) + 1 : offset' = RecordOffset(Madt', k)
    BY <2>2, <2>6
  <2>8. AcpiTypeOK'
    BY <1>1, <2>1, <2>4, <2>5 DEF AcpiTypeOK
  <2> QED
    BY <1>1, <2>6, <2>7, <2>8 DEF WalkInv
<1> QED
  BY <1>4, <1>5, <1>6, <1>7, <1>8, <1>9, <1>10 DEF ParseAcpi

LEMMA WalkInvInit == StartInit => WalkInv
<1> SUFFICES ASSUME StartInit PROVE WalkInv
  OBVIOUS
<1>1. /\ firmware \in Firmwares /\ apic = [local |-> 0, io |-> 0] /\ step = "start" /\ index = 1
      /\ table = 0 /\ offset = 0 /\ row = 0 /\ interrupts = FALSE
      /\ space = {[from |-> 0, to |-> 512], [from |-> KernelPage, to |-> KernelPage + 512]}
  BY DEF StartInit, InitAcpi, NoApic
<1>2. Max({RsdtEntries, Len(firmware.list)}) \in Nat
  BY <1>1, FirmwareIs, MaxOfTwo
<1>3. 0 \in 0 .. Height - 1
  BY AcpiAssumption
<1>4. \A r \in space : r.from \in Int /\ r.to \in Int
  <2>1. KernelPage \in Int
    BY SMT DEF KernelPage
  <2> QED
    BY <1>1, <2>1
<1>5. apic \in [local : Nat, io : Nat] /\ index \in 1 .. Max({RsdtEntries, Len(firmware.list)}) + 1
  BY <1>1, <1>2
<1>6. AcpiTypeOK
  BY <1>1, <1>3, <1>4, <1>5 DEF AcpiTypeOK
<1> QED
  BY <1>1, <1>6 DEF WalkInv

LEMMA WalkInvStep ==
  ASSUME WalkInv, [StartNext]_startVars
  PROVE  WalkInv'
<1>1. /\ apic \in [local : Nat, io : Nat] /\ row \in 0 .. Height - 1 /\ interrupts \in BOOLEAN
      /\ \A r \in space : r.from \in Int /\ r.to \in Int
  BY DEF WalkInv, AcpiTypeOK
<1>2. CASE StepAcpi
  BY <1>2, WalkSteps DEF StepAcpi
<1>3. CASE PrintApic
  <2>1. UNCHANGED <<firmware, space, apic, step, index, table, offset>> /\ Output(2)
    BY <1>3 DEF PrintApic
  <2>2. row' \in 0 .. Height - 1 /\ interrupts' \in BOOLEAN
    BY <1>1, <2>1, OutputIs
  <2> QED
    BY <1>1, <2>1, <2>2, WalkRests
<1>4. CASE SetCr3
  <2>1. UNCHANGED <<firmware, apic, step, index, table, offset, row, interrupts>> /\ space' = Ranges
    BY <1>4 DEF SetCr3
  <2>2. KernelPage \in Int /\ InitPages \in Int
    BY SMT DEF KernelPage, InitPages
  <2>3. \A p \in {KernelPage, 0, Framebuffer} : p \in Int
    <3>1. Framebuffer \in Nat
      BY StartAssumption
    <3> QED
      BY <2>2, <3>1
  <2>4. \A r \in Ranges : r.from \in Int /\ r.to \in Int
    BY <2>2, <2>3 DEF Ranges, FirstPages
  <2> QED
    BY <1>1, <2>1, <2>4, WalkRests
<1>5. CASE MapApic
  <2>1. /\ UNCHANGED <<firmware, apic, step, index, table, offset, row, interrupts>>
        /\ space' = space \cup {[from |-> apic.local, to |-> apic.local + 1]}
    BY <1>5 DEF MapApic
  <2>2. \A r \in space' : r.from \in Int /\ r.to \in Int
    BY <1>1, <2>1
  <2> QED
    BY <1>1, <2>1, <2>2, WalkRests
<1>6. CASE InitApic
  <2>1. UNCHANGED <<firmware, space, apic, step, index, table, offset, row>> /\ interrupts' \in BOOLEAN
    BY <1>1, <1>6 DEF InitApic
  <2> QED
    BY <1>1, <2>1, WalkRests
<1>7. CASE UNCHANGED acpiVars
  BY <1>1, <1>7, WalkRests DEF acpiVars
<1> QED
  BY <1>2, <1>3, <1>4, <1>5, <1>6, <1>7 DEF StartNext, startVars, SaveArguments, InitPmm, InitVesa, SetupInterrupts,
     FontPage, ReadFont, InitTextTerminal, InitPaging, TakeTable, BuildTable, PoolFails, InstallHeap,
     AllocStack, EarlyTick

\* The memory of the machine and the end of the bitmap.
Counted == total \in Nat /\ overrun \in BOOLEAN

LEMMA CountedStep ==
  ASSUME PmmInv, Counted, PmmNext \/ UNCHANGED poolVars
  PROVE  Counted'
<1>1. CASE Scan
  <2>1. entry \in 1 .. Len(map) /\ overrun' = overrun
        /\ total' = IF map[entry].usable THEN total + map[entry].length ELSE total
    BY <1>1, MapFacts DEF PmmInv, Scan, Scanning
  <2>2. map[entry].length \in Nat
    BY <2>1, MapFacts DEF PmmInv
  <2> QED
    BY <2>1, <2>2 DEF Counted
<1>2. CASE ClearBitmap \/ Allocate \/ NoPage \/ UNCHANGED poolVars
  BY <1>2 DEF ClearBitmap, Allocate, NoPage, poolVars, vars, Counted
<1> QED
  BY <1>1, <1>2 DEF PmmNext

LEMMA TypesFollow ==
  ASSUME LayoutSound, PmmInv, BootInv, WalkInv, Counted
  PROVE  StartTypeOK
<1>1. ASSUME NEW l \in live PROVE l.at \in Nat /\ l.length \in Nat
  <2>1. StillNeeded(l) /\ sectors \in Nat /\ klength \in KernelLengths /\ PageSize \in Nat
    BY PmmAssumption DEF BootInv, PmmInv
  <2>2. CASE l \in Kept(klength)
    BY <2>1, <2>2, KeptIs
  <2>3. CASE l \in BootData
    BY <2>3, StartAssumption
  <2>4. CASE \E a \in held : l = Extent("font", a, 512 * sectors) \/ l = Extent("page", a, PageSize)
    <3>1. PICK a \in held : l = Extent("font", a, 512 * sectors) \/ l = Extent("page", a, PageSize)
      BY <2>4
    <3>2. a \in Nat
      <4>1. PICK n \in Marked : a = pool.base + n * PageSize
        BY DEF PmmInv, HeldAreMarked
      <4>2. n \in Nat /\ pool.base \in Nat
        BY DEF Marked, PmmInv
      <4> QED
        BY <2>1, <4>1, <4>2
    <3>3. l.at = a /\ l.length \in {512 * sectors, PageSize}
      BY <3>1 DEF Extent
    <3> QED
      BY <2>1, <3>2, <3>3
  <2> QED
    BY <2>1, <2>2, <2>3, <2>4 DEF StillNeeded
<1>2. stacks \in 0 .. 3
  BY DEF BootInv
<1>3. /\ entry \in 1 .. Len(map) + 2 /\ found \in BOOLEAN /\ pool.base \in Nat /\ pool.length \in Nat
      /\ \A n \in DOMAIN bitmap : bitmap[n] \in {0, 1}
  BY DEF PmmInv
<1>4. AcpiTypeOK
  BY DEF WalkInv
<1> QED
  BY <1>1, <1>2, <1>3, <1>4 DEF StartTypeOK, Counted

\* Every variable of the boot has its type: the walk over the tables stays in the list
\* and in the records, the cursor on the screen, and what is needed are extents of memory.
THEOREM StartTypesHold == LayoutSound => (StartSpec => []StartTypeOK)
<1> SUFFICES ASSUME LayoutSound PROVE StartSpec => []StartTypeOK
  OBVIOUS
<1>1. StartInit => WalkInv /\ Counted
  <2>1. StartInit => Init
    BY Zenon DEF StartInit
  <2>2. Init => Counted
    <3>1. Init => total = 0 /\ overrun = FALSE
      BY Zenon DEF Init
    <3>2. total = 0 => total \in Nat
      OBVIOUS
    <3>3. overrun = FALSE => overrun \in BOOLEAN
      BY Zenon
    <3> QED
      BY <3>1, <3>2, <3>3, Zenon DEF Counted
  <2> QED
    BY <2>1, <2>2, WalkInvInit
<1>2. PmmInv /\ WalkInv /\ Counted /\ [StartNext]_startVars => WalkInv' /\ Counted'
  BY WalkInvStep, PoolSteps, CountedStep
<1>3. PmmInv /\ BootInv /\ WalkInv /\ Counted => StartTypeOK
  BY TypesFollow
<1> QED
  BY <1>1, <1>2, <1>3, PmmInvariant, BootInvHolds, PTL DEF StartSpec

------------------------------------------------------------------------------
\* The bitmap suffices.

\* Each range that is mapped asks for tables of the boot.
LEMMA RangesAreBoot ==
  ASSUME NEW f, NEW S, S \subseteq BootRanges(f)
  PROVE  Missing(S) \subseteq BootTables(f) /\ Missing(S) \cap built = {}
<1>1. ASSUME NEW t \in Missing(S) PROVE t \in BootTables(f) /\ t \notin built
  <2>1. t \in UNION {TablesOf(r) : r \in S} /\ t \notin built
    BY <1>1 DEF Missing
  <2> QED
    BY <2>1 DEF BootTables
<1> QED
  BY <1>1

\* What a step of the walk maps, and which APIC it finds.
LEMMA WalkMaps ==
  ASSUME WalkInv, apic.local \in ApicPages(firmware), ParseAcpi
  PROVE  /\ space' \ space \subseteq BootRanges(firmware)
         /\ apic'.local \in ApicPages(firmware) /\ firmware' = firmware
<1>1. firmware' = firmware
  BY DEF ParseAcpi, NoXsdp, OpenList, NextTable, EndOfList, SkipTable, OpenMadt, NextRecord,
     EndOfRecords, Fault
<1> DEFINE Addresses == {firmware.rsdt, firmware.xsdt, firmware.behind} \cup Range(firmware.list)
<1>2. ASSUME NEW at \in Addresses PROVE WithPage(at) \ space \subseteq BootRanges(firmware)
  <2>1. OnePageAt(at \div PageBytes) \in BootRanges(firmware)
    BY DEF BootRanges
  <2> QED
    BY <2>1 DEF WithPage, OnePageAt
<1>3. apic \in [local : Nat, io : Nat] /\ firmware \in Firmwares /\ index \in Nat \ {0}
  <2>1. Max({RsdtEntries, Len(firmware.list)}) \in Nat
    BY FirmwareIs, MaxOfTwo DEF WalkInv
  <2> QED
    BY <2>1 DEF WalkInv, AcpiTypeOK
<1>4. CASE NoXsdp \/ EndOfList \/ SkipTable \/ EndOfRecords \/ Fault
  BY <1>1, <1>4 DEF NoXsdp, EndOfList, SkipTable, EndOfRecords, Fault
<1>5. CASE OpenList
  <2>1. apic' = apic /\ \E at \in Addresses : space' = WithPage(at)
    BY <1>5 DEF OpenList
  <2> QED
    BY <1>1, <1>2, <2>1
<1>6. CASE NextTable
  <2>1. apic' = apic /\ table' = TableAddress(index) /\ (space' = WithPage(table') \/ space' = space)
    BY <1>6 DEF NextTable
  <2>2. \A i \in Nat \ {0} : Entry(i) \in Addresses
    <3> TAKE i \in Nat \ {0}
    <3>1. i <= Len(firmware.list) => i \in DOMAIN firmware.list
      BY <1>3, FirmwareIs
    <3>2. i <= Len(firmware.list) => firmware.list[i] \in Range(firmware.list)
      BY <3>1 DEF Range
    <3> QED
      BY <3>2 DEF Entry
  <2>3. TableAddress(index) \in Addresses
    BY <1>3, <2>2 DEF TableAddress
  <2> HIDE DEF Addresses
  <2> QED
    BY <1>1, <1>2, <2>1, <2>3
<1>7. CASE OpenMadt
  <2>1. space' = space /\ IsMadt(table) /\ apic' = [apic EXCEPT !.local = Madt.local]
    BY <1>7 DEF OpenMadt
  <2>2. apic'.local = Madt.local
    BY <1>3, <2>1
  <2>3. Madt.local \in ApicPages(firmware)
    BY <2>1 DEF Madt, IsMadt, ApicPages
  <2> QED
    BY <1>1, <2>1, <2>2, <2>3
<1>8. CASE NextRecord
  <2>1. space' = space /\ apic' = IF Record.type = IoApic THEN [apic EXCEPT !.io = Record.address] ELSE apic
    BY <1>8 DEF NextRecord
  <2>2. apic'.local = apic.local
    BY <1>3, <2>1
  <2> QED
    BY <1>1, <2>1, <2>2
<1> QED
  BY <1>4, <1>5, <1>6, <1>7, <1>8 DEF ParseAcpi

LEMMA OtherPagesIs ==
  /\ OtherPages = IF phase \in {"start", "pool", "video", "interrupts", "font page"} THEN 0
                  ELSE IF phase \in {"font", "terminal", "paging"} THEN 1 ELSE 2
  /\ OtherPages' = IF phase' \in {"start", "pool", "video", "interrupts", "font page"} THEN 0
                   ELSE IF phase' \in {"font", "terminal", "paging"} THEN 1 ELSE 2
BY DEF OtherPages

LEMMA TableInvInit == StartInit => TableInv
<1> SUFFICES ASSUME StartInit PROVE TableInv
  OBVIOUS
<1>1. Init /\ InitAcpi /\ phase = "start" /\ todo = {} /\ built = {}
  BY Zenon DEF StartInit
<1>2. bitmap = <<>> /\ entry = 1 /\ map \in Maps /\ klength \in KernelLengths
  BY <1>1, Zenon DEF Init
<1>3. ~Ready
  BY <1>2, MapFacts DEF Ready
<1>4. Marked = {}
  BY <1>2 DEF Marked
<1>5. Cardinality(Marked) <= Cardinality(built) + OtherPages
  BY <1>1, <1>4, FS_EmptySet DEF OtherPages
<1>6. apic.local \in ApicPages(firmware)
  BY <1>1 DEF InitAcpi, ApicPages
<1>7. overrun = FALSE
  BY <1>1, Zenon DEF Init
<1> QED
  BY <1>1, <1>3, <1>5, <1>6, <1>7 DEF TableInv

\* A page more or none is marked; the bitmap keeps its length.
LEMMA MarkedIs ==
  ASSUME PmmInv, TableInv
  PROVE  /\ IsFiniteSet(Marked) /\ Cardinality(Marked) \in Nat
         /\ Allocate => IsFiniteSet(Marked') /\ Cardinality(Marked') = Cardinality(Marked) + 1
<1> USE PmmAssumption
<1>1. DOMAIN bitmap \subseteq 0 .. BitmapSize - 1
  <2>1. ~Ready => bitmap = <<>>
    BY DEF PmmInv
  <2> QED
    BY <2>1 DEF TableInv
<1>2. IsFiniteSet(Marked)
  <2>1. IsFiniteSet(0 .. BitmapSize - 1)
    BY FS_Interval
  <2> QED
    BY <1>1, <2>1, FS_Subset DEF Marked
<1>3. ASSUME Allocate PROVE IsFiniteSet(Marked') /\ Cardinality(Marked') = Cardinality(Marked) + 1
  <2> DEFINE f == FirstFree(bitmap)
  <2>1. FreePages(bitmap) # {} /\ bitmap' = Taken(bitmap)
    BY <1>3 DEF Allocate
  <2>2. DOMAIN bitmap \subseteq Nat
    BY <1>1
  <2>3. f \in DOMAIN bitmap /\ bitmap[f] = 0 /\ DOMAIN bitmap' = DOMAIN bitmap
        /\ \A i \in DOMAIN bitmap : bitmap'[i] = IF i = f THEN 1 ELSE bitmap[i]
    BY <2>1, <2>2, FirstFreeIsFree, TakenMarks
  <2> HIDE DEF f
  <2>4. Marked' = Marked \cup {f} /\ f \notin Marked
    BY <2>3 DEF Marked
  <2> QED
    BY <1>2, <2>4, FS_AddElement
<1> QED
  BY <1>2, <1>3, FS_CardinalityType

LEMMA BuiltIs ==
  ASSUME TablesFit, WalkInv, TableInv
  PROVE  /\ IsFiniteSet(built) /\ Cardinality(built) \in Nat
         /\ Cardinality(BootTables(firmware)) \in Nat
         /\ Cardinality(built) <= Cardinality(BootTables(firmware))
         /\ todo # {} => Cardinality(built) < Cardinality(BootTables(firmware))
         /\ Cardinality(BootTables(firmware)) + 2 <= BitmapSize
<1> DEFINE T == BootTables(firmware)
<1>1. IsFiniteSet(T) /\ Cardinality(T) + 2 <= BitmapSize
  BY DEF TablesFit, WalkInv
<1>2. built \in SUBSET T /\ (todo # {} => built # T)
  BY DEF TableInv
<1> HIDE DEF T
<1>3. /\ IsFiniteSet(built) /\ Cardinality(built) <= Cardinality(T)
      /\ Cardinality(T) = Cardinality(built) => T = built
  BY <1>1, <1>2, FS_Subset
<1>4. Cardinality(built) \in Nat /\ Cardinality(T) \in Nat
  BY <1>1, <1>3, FS_CardinalityType
<1>5. todo # {} => Cardinality(built) < Cardinality(T)
  BY <1>2, <1>3, <1>4
<1> QED
  BY <1>1, <1>3, <1>4, <1>5 DEF T

\* The steps that take no page.
LEMMA PoolRests ==
  ASSUME PmmInv, WalkInv, TablesFit, TableInv, UNCHANGED <<poolVars, built, firmware>>,
         apic'.local \in ApicPages(firmware),
         todo' \subseteq BootTables(firmware), todo' \cap built = {}, OtherPages <= OtherPages'
  PROVE  TableInv'
<1>1. /\ Ready' = Ready /\ Marked' = Marked /\ PoolPages' = PoolPages /\ bitmap' = bitmap /\ overrun' = overrun
  BY DEF poolVars, vars, Ready, Marked, PoolPages
<1>2. Cardinality(Marked) \in Nat /\ Cardinality(built) \in Nat
  BY MarkedIs, BuiltIs
<1>3. OtherPages \in {0, 1, 2} /\ OtherPages' \in {0, 1, 2}
  BY OtherPagesIs
<1>4. Cardinality(Marked') <= Cardinality(built') + OtherPages'
  BY <1>1, <1>2, <1>3 DEF TableInv
<1> QED
  BY <1>1, <1>4 DEF TableInv

\* The steps that take one.
LEMMA PageTaken ==
  ASSUME PmmInv, WalkInv, TablesFit, TableInv, Allocate, UNCHANGED <<firmware, apic>>,
         built' \cup todo' \subseteq BootTables(firmware), todo' \cap built' = {},
         Cardinality(built) + OtherPages + 1 <= Cardinality(built') + OtherPages'
  PROVE  TableInv'
<1>1. Ready' = Ready /\ PoolPages' = PoolPages /\ overrun' = overrun /\ Ready
  BY DEF Allocate, Ready, PoolPages
<1>2. DOMAIN bitmap' = DOMAIN bitmap
  BY TakenMarks DEF Allocate, PmmInv
<1>3. Cardinality(Marked) \in Nat /\ Cardinality(Marked') = Cardinality(Marked) + 1 /\ Cardinality(built) \in Nat
  BY MarkedIs, BuiltIs
<1>4. IsFiniteSet(built') /\ Cardinality(built') \in Nat
  <2>1. built' \in SUBSET BootTables(firmware) /\ IsFiniteSet(BootTables(firmware))
    BY DEF TablesFit, WalkInv
  <2> QED
    BY <2>1, FS_Subset, FS_CardinalityType
<1>5. OtherPages \in {0, 1, 2} /\ OtherPages' \in {0, 1, 2}
  BY OtherPagesIs
<1>6. Cardinality(Marked') <= Cardinality(built') + OtherPages'
  BY <1>3, <1>4, <1>5 DEF TableInv
<1> QED
  BY <1>1, <1>2, <1>6 DEF TableInv

LEMMA TableInvStep ==
  ASSUME TablesFit, PmmInv, WalkInv, TableInv, [StartNext]_startVars
  PROVE  TableInv'
<1>1. /\ apic.local \in ApicPages(firmware) /\ built \cap todo = {}
      /\ built \subseteq BootTables(firmware) /\ todo \subseteq BootTables(firmware)
  BY DEF TableInv
<1>2. CASE InitPmm
  <2>1. /\ UNCHANGED <<firmware, apic, todo, built, overrun>> /\ phase = "pool" /\ phase' \in {"pool", "video"}
        /\ Scan \/ ClearBitmap
    BY <1>2 DEF InitPmm, Scan, ClearBitmap, acpiVars
  <2>2. OtherPages = 0 /\ OtherPages' = 0
    BY <2>1, OtherPagesIs
  <2>3. Len(map) \in Nat /\ entry \in Nat
    BY MapFacts DEF PmmInv
  <2>4. CASE Scan
    <3>1. bitmap' = bitmap /\ ~Ready'
      BY <2>3, <2>4 DEF Scan, Scanning, Ready
    <3>2. Marked' = Marked
      BY <3>1 DEF Marked
    <3> QED
      BY <1>1, <2>1, <2>2, <3>1, <3>2 DEF TableInv
  <2>5. CASE ClearBitmap
    <3>1. DOMAIN bitmap' = {n \in 0 .. BitmapSize - 1 : n < PoolPages} /\ PoolPages' = PoolPages
          /\ \A n \in DOMAIN bitmap' : bitmap'[n] = 0
      BY <2>5 DEF ClearBitmap, PoolPages
    <3>2. Marked' = {}
      BY <3>1 DEF Marked
    <3>3. Cardinality(Marked') <= Cardinality(built') + OtherPages'
      BY <2>1, <2>2, <3>2, FS_EmptySet, BuiltIs
    <3> QED
      BY <1>1, <2>1, <3>1, <3>3 DEF TableInv
  <2> QED
    BY <2>1, <2>4, <2>5
<1>3. CASE SaveArguments \/ InitVesa \/ SetupInterrupts \/ ReadFont \/ InitTextTerminal \/ InstallHeap
           \/ PrintApic \/ AllocStack \/ InitApic \/ EarlyTick \/ SetCr3 \/ UNCHANGED startVars
  <2>1. UNCHANGED <<poolVars, firmware, apic, todo, built>>
    BY <1>3 DEF SaveArguments, InitVesa, SetupInterrupts, ReadFont, InitTextTerminal, InstallHeap, PrintApic,
       AllocStack, InitApic, EarlyTick, SetCr3, startVars, acpiVars, ownVars
  <2>2. \/ phase' = phase
        \/ phase \in {"start", "video", "interrupts"} /\ phase' \in {"pool", "interrupts", "font page"}
        \/ phase \in {"font", "terminal"} /\ phase' \in {"terminal", "paging"}
        \/ phase' \in {"lost", "heap", "acpi", "scheduler", "apic", "running"}
    <3>1. CASE SaveArguments \/ InitVesa \/ SetupInterrupts
      BY <3>1 DEF SaveArguments, InitVesa, SetupInterrupts
    <3>2. CASE ReadFont
      BY <3>2 DEF ReadFont, Lost
    <3>3. CASE InitTextTerminal
      BY <3>3 DEF InitTextTerminal, Lost
    <3>4. CASE InstallHeap \/ PrintApic \/ AllocStack
      BY <3>4 DEF InstallHeap, PrintApic, AllocStack
    <3>5. CASE InitApic \/ EarlyTick \/ SetCr3 \/ UNCHANGED startVars
      BY <3>5 DEF InitApic, EarlyTick, SetCr3, startVars, ownVars, Lost
    <3> QED
      BY <1>3, <3>1, <3>2, <3>3, <3>4, <3>5
  <2>3. OtherPages <= OtherPages'
    <3>1. CASE phase' = phase
      <4>1. OtherPages' = OtherPages /\ OtherPages \in {0, 1, 2}
        BY <3>1, OtherPagesIs
      <4> QED
        BY <4>1
    <3>2. CASE phase \in {"start", "video", "interrupts"} /\ phase' \in {"pool", "interrupts", "font page"}
      <4>1. OtherPages = 0 /\ OtherPages' = 0
        BY <3>2, OtherPagesIs
      <4> QED
        BY <4>1
    <3>3. CASE phase \in {"font", "terminal"} /\ phase' \in {"terminal", "paging"}
      <4>1. OtherPages = 1 /\ OtherPages' = 1
        BY <3>3, OtherPagesIs
      <4> QED
        BY <4>1
    <3>4. CASE phase' \in {"lost", "heap", "acpi", "scheduler", "apic", "running"}
      <4>1. OtherPages \in {0, 1, 2} /\ OtherPages' = 2
        BY <3>4, OtherPagesIs
      <4> QED
        BY <4>1
    <3> QED
      BY <2>2, <3>1, <3>2, <3>3, <3>4
  <2> QED
    BY <1>1, <2>1, <2>3, PoolRests
<1>4. CASE FontPage
  <2>1. Allocate /\ UNCHANGED <<firmware, apic, todo, built>> /\ phase = "font page" /\ phase' = "font"
    BY <1>4 DEF FontPage, acpiVars
  <2>2. OtherPages = 0 /\ OtherPages' = 1
    BY <2>1, OtherPagesIs
  <2>3. Cardinality(built) + OtherPages + 1 <= Cardinality(built') + OtherPages'
    <3>1. Cardinality(built) \in Nat /\ built' = built
      BY <2>1, BuiltIs
    <3> QED
      BY <2>2, <3>1
  <2> QED
    BY <1>1, <2>1, <2>3, PageTaken
<1>5. CASE InitPaging
  <2>1. /\ Allocate /\ UNCHANGED <<firmware, apic, built>> /\ phase = "paging" /\ phase' = "tables"
        /\ todo' = Missing(Ranges)
    BY <1>5 DEF InitPaging, TakeTable, acpiVars
  <2>2. OtherPages = 1 /\ OtherPages' = 2
    BY <2>1, OtherPagesIs
  <2>3. Cardinality(built) + OtherPages + 1 <= Cardinality(built') + OtherPages'
    <3>1. Cardinality(built) \in Nat /\ built' = built
      BY <2>1, BuiltIs
    <3> QED
      BY <2>2, <3>1
  <2>4. todo' \subseteq BootTables(firmware) /\ todo' \cap built = {}
    <3>1. Ranges \subseteq BootRanges(firmware)
      BY DEF BootRanges
    <3> QED
      BY <2>1, <3>1, RangesAreBoot
  <2> QED
    BY <1>1, <2>1, <2>3, <2>4, PageTaken
<1>6. CASE BuildTable
  <2>1. PICK t \in todo : todo' = todo \ {t} /\ built' = built \cup {t}
    BY <1>6 DEF BuildTable
  <2>2. Allocate /\ UNCHANGED <<firmware, apic, phase>>
    BY <1>6 DEF BuildTable, TakeTable, acpiVars
  <2>3. Cardinality(built') = Cardinality(built) + 1 /\ Cardinality(built) \in Nat
    BY <1>1, <2>1, BuiltIs, FS_AddElement
  <2>4. OtherPages' = OtherPages /\ OtherPages \in {0, 1, 2}
    BY <2>2, OtherPagesIs
  <2>5. Cardinality(built) + OtherPages + 1 <= Cardinality(built') + OtherPages'
    BY <2>3, <2>4
  <2> QED
    BY <1>1, <2>1, <2>2, <2>5, PageTaken
<1>7. CASE PoolFails
  <2>1. /\ NoPage /\ UNCHANGED <<firmware, apic, todo, built>> /\ phase' = "lost"
        /\ (phase = "paging" \/ todo # {})
    BY <1>7 DEF PoolFails, Lost, acpiVars
  <2>2. OtherPages' = 2 /\ OtherPages \in {0, 1, 2} /\ (phase = "paging" => OtherPages = 1)
    BY <2>1, OtherPagesIs
  <2>3. Cardinality(Marked) < BitmapSize
    <3>1. Cardinality(Marked) \in Nat /\ Cardinality(Marked) <= Cardinality(built) + OtherPages
      BY MarkedIs DEF TableInv
    <3> QED
      BY <2>1, <2>2, <3>1, BuiltIs, PmmAssumption
  <2>4. ~(PoolPages > BitmapSize)
    <3>1. SUFFICES ASSUME PoolPages > BitmapSize PROVE FALSE
      OBVIOUS
    <3>2. PoolPages \in Nat /\ BitmapSize \in Nat \ {0}
      <4>1. pool.length \in Nat /\ PageSize \in Nat \ {0} /\ BitmapSize \in Nat \ {0}
        BY PmmAssumption DEF PmmInv
      <4> QED
        BY <4>1 DEF PoolPages
    <3>3. DOMAIN bitmap = 0 .. BitmapSize - 1
      BY <2>1, <3>1, <3>2 DEF TableInv, NoPage
    <3>4. \A n \in DOMAIN bitmap : bitmap[n] = 1
      BY <2>1 DEF NoPage, FreePages, PmmInv
    <3>5. Marked = 0 .. BitmapSize - 1
      BY <3>3, <3>4 DEF Marked
    <3>6. Cardinality(Marked) = BitmapSize
      BY <3>2, <3>5, FS_Interval
    <3> QED
      BY <2>3, <3>2, <3>6
  <2>5. UNCHANGED poolVars
    BY <2>1, <2>4 DEF NoPage, poolVars, vars, TableInv
  <2>6. OtherPages <= OtherPages'
    BY <2>2
  <2> QED
    BY <1>1, <2>1, <2>5, <2>6, PoolRests
<1>8. CASE StepAcpi
  <2>1. /\ ParseAcpi /\ UNCHANGED <<poolVars, built>> /\ todo' = Missing(space' \ space)
        /\ phase = "acpi" /\ phase' \in {"acpi", "lost", "halted"}
    BY <1>8 DEF StepAcpi
  <2>2. OtherPages = 2 /\ OtherPages' = 2
    BY <2>1, OtherPagesIs
  <2>3. /\ space' \ space \subseteq BootRanges(firmware) /\ firmware' = firmware
        /\ apic'.local \in ApicPages(firmware)
    BY <1>1, <2>1, WalkMaps
  <2>4. todo' \subseteq BootTables(firmware) /\ todo' \cap built = {}
    BY <2>1, <2>3, RangesAreBoot
  <2> QED
    BY <2>1, <2>2, <2>3, <2>4, PoolRests
<1>9. CASE MapApic
  <2>1. /\ UNCHANGED <<poolVars, firmware, apic, built>> /\ todo' = Missing({OnePageAt(apic.local)})
        /\ phase = "apic" /\ phase' = "sti"
    BY <1>9 DEF MapApic, OnePageAt
  <2>2. OtherPages <= OtherPages'
    BY <2>1, OtherPagesIs
  <2>3. {OnePageAt(apic.local)} \subseteq BootRanges(firmware)
    BY <1>1 DEF BootRanges
  <2>4. todo' \subseteq BootTables(firmware) /\ todo' \cap built = {}
    BY <2>1, <2>3, RangesAreBoot
  <2> QED
    BY <1>1, <2>1, <2>2, <2>4, PoolRests
<1> QED
  BY <1>2, <1>3, <1>4, <1>5, <1>6, <1>7, <1>8, <1>9 DEF StartNext

\* The boot takes fewer pages than pool.bitmap has bytes, so that the search of
\* pmm_allocate, which runs to pool.pages, never looks behind it, whatever the memory
\* map and the tables of the firmware, as long as the tables of what is mapped fit.
THEOREM BitmapSufficesHolds == TablesFit => (StartSpec => []BitmapSuffices)
<1> SUFFICES ASSUME TablesFit PROVE StartSpec => []BitmapSuffices
  OBVIOUS
<1>1. PmmInv /\ WalkInv /\ TableInv /\ [StartNext]_startVars => WalkInv' /\ TableInv'
  BY WalkInvStep, TableInvStep
<1>2. TableInv => BitmapSuffices
  BY DEF TableInv, BitmapSuffices
<1> QED
  BY <1>1, <1>2, WalkInvInit, TableInvInit, PmmInvariant, PTL DEF StartSpec
=============================================================================
