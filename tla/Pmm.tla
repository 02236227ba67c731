-------------------------------- MODULE Pmm ---------------------------------
(***************************************************************************)
(* The physical memory manager: init_pmm chooses the pool from the memory  *)
(* map of the firmware, pmm_allocate hands out its pages.  Addresses and   *)
(* lengths are bytes, so that a kernel, or a region, need not end at a     *)
(* page boundary.                                                          *)
(***************************************************************************)
EXTENDS PagePool, Sequences

CONSTANTS
  Maps,           \* memory maps: sequences of [base, length, usable]
  KernelLengths,  \* kernel_end - kernel_start
  KernelStart,    \* kphys_start, 0x100000
  PageSize,       \* 0x1000
  BitmapSize      \* bytes of pool.bitmap, one for each page: 100

ASSUME PmmAssumption ==
  /\ KernelStart \in Nat /\ KernelLengths \subseteq Nat \ {0}
  /\ PageSize \in Nat \ {0} /\ BitmapSize \in Nat \ {0}
  /\ KernelStart % PageSize = 0
  /\ Maps \subseteq Seq([base : Nat, length : Nat, usable : BOOLEAN])
  /\ \A m \in Maps, k \in KernelLengths : \A i \in DOMAIN m :
       m[i].usable /\ m[i].base >= KernelStart => m[i].length > k   \* or the length of the pool wraps

\* A map is what the loop of init_pmm looks at: the entries in front of the first that
\* is all zero, and of those no more than fifty.
EntriesScanned == 50
ASSUME MapsAssumption == \A m \in Maps : Len(m) <= EntriesScanned

VARIABLES
  map,            \* the memory map
  klength,
  entry,          \* the entry init_pmm is at; behind the last one it is done
  found,          \* foundMemoryArea
  pool,           \* pool.base and pool.length
  total,          \* pmeminfo.total_memory
  bitmap,         \* the part of pool.bitmap that stands for pages of the pool
  held,           \* addresses of the pages handed out
  overrun         \* pmm_allocate has looked for a page behind pool.bitmap

vars == <<map, klength, entry, found, pool, total, bitmap, held, overrun>>

KernelEnd == KernelStart + klength

RoundedUp(n) == ((n + PageSize - 1) \div PageSize) * PageSize

\* The pool in the region that holds the kernel: a page and the rounding past it.
PoolBase_NoGap == RoundedUp(KernelStart)   \* mutant: the kernel is not skipped
PoolBase == RoundedUp(KernelEnd + PageSize)

Init ==
  /\ map \in Maps
  /\ klength \in KernelLengths
  /\ entry = 1
  /\ found = FALSE
  /\ pool = [base |-> 0, length |-> 0]
  /\ total = 0
  /\ bitmap = <<>>
  /\ held = {}
  /\ overrun = FALSE

Scanning == entry <= Len(map)
HoldsKernel_AnyAbove(e) == e.base >= KernelStart   \* mutant: no upper bound
HoldsKernel(e) == e.base >= KernelStart /\ e.base <= KernelEnd

\* The first usable region that begins in the kernel, or any other one that does
\* not begin at 0, becomes the pool.
Scan ==
  /\ Scanning
  /\ LET e == map[entry]
         chosen == e.usable /\ ~found /\ (HoldsKernel(e) \/ e.base # 0)
     IN  /\ pool' = IF ~chosen THEN pool
                    ELSE IF HoldsKernel(e)
                      THEN [base |-> PoolBase, length |-> e.length - klength]
                      ELSE [base |-> e.base, length |-> e.length]
         /\ found' = (found \/ chosen)
         /\ total' = IF e.usable THEN total + e.length ELSE total
  /\ entry' = entry + 1
  /\ UNCHANGED <<map, klength, bitmap, held, overrun>>

PoolPages == pool.length \div PageSize

\* The end of init_pmm.
ClearBitmap ==
  /\ entry = Len(map) + 1
  /\ bitmap' = [i \in {n \in 0 .. BitmapSize - 1 : n < PoolPages} |-> 0]
  /\ entry' = entry + 1
  /\ UNCHANGED <<map, klength, found, pool, total, held, overrun>>

Ready == entry = Len(map) + 2
NextPage == pool.base + FirstFree(bitmap) * PageSize

\* pmm_allocate finds a page.
Allocate ==
  /\ Ready /\ FreePages(bitmap) # {}
  /\ held' = held \cup {NextPage}
  /\ bitmap' = Taken(bitmap)
  /\ UNCHANGED <<map, klength, entry, found, pool, total, overrun>>

\* It finds none: it returns 0, unless the loop, which runs to pool.pages, goes
\* over the end of the bitmap.
NoPage ==
  /\ Ready /\ FreePages(bitmap) = {}
  /\ overrun' = (overrun \/ PoolPages > BitmapSize)
  /\ UNCHANGED <<map, klength, entry, found, pool, total, bitmap, held>>

------------------------------------------------------------------------------
\* Two extents of memory have no byte in common.
Apart(base1, length1, base2, length2) ==
  base1 + length1 <= base2 \/ base2 + length2 <= base1

\* A page handed out belongs to nobody else: it is not part of what init_pmm
\* takes for the kernel, and every call of pmm_allocate has added one page that
\* overlaps none before it.
PagesPrivate ==
  /\ \A a \in held : Apart(a, PageSize, KernelStart, klength)
  /\ \A a, b \in held : a # b => Apart(a, PageSize, b, PageSize)
  /\ \A n \in DOMAIN bitmap :
       bitmap[n] = 1 <=> pool.base + n * PageSize \in held

\* The steps of the memory manager, whoever calls it.
PmmNext == Scan \/ ClearBitmap \/ Allocate \/ NoPage

\* Usable memory in front of the kernel ends in front of it, as it does on a
\* machine with adapters between 640 KB and 1 MB.
NoneAcross ==
  \A m \in Maps : \A i \in DOMAIN m :
    m[i].usable /\ m[i].base # 0 /\ m[i].base < KernelStart =>
      m[i].base + m[i].length <= KernelStart

\* The inductive invariant behind PagesPrivate: the pool lies beside the kernel,
\* and the bitmap, no longer than the pool, says which of its pages are held.
Marked == {n \in DOMAIN bitmap : bitmap[n] = 1}
HeldAreMarked == held = {pool.base + n * PageSize : n \in Marked}

\* The regions that begin in the kernel hold it, the rounding behind it and a page
\* for each byte of the bitmap.
KernelRegionsLong ==
  \A m \in Maps, k \in KernelLengths : \A i \in DOMAIN m :
    m[i].usable /\ m[i].base >= KernelStart /\ m[i].base <= KernelStart + k =>
      k + (BitmapSize + 2) * PageSize <= m[i].length

\* Inductive: the pool is what init_pmm makes of one of the regions, and the bitmap
\* has no more bytes than there are.
PoolIsRegion ==
  /\ found => \E i \in DOMAIN map :
       /\ map[i].usable
       /\ pool = IF HoldsKernel(map[i])
                   THEN [base |-> PoolBase, length |-> map[i].length - klength]
                   ELSE [base |-> map[i].base, length |-> map[i].length]
  /\ \A n \in DOMAIN bitmap : n < BitmapSize

PmmInv ==
  /\ map \in Maps /\ klength \in KernelLengths
  /\ entry \in 1 .. Len(map) + 2 /\ found \in BOOLEAN
  /\ pool \in [base : Nat, length : Nat]
  /\ ~found => pool.length = 0
  /\ found /\ NoneAcross => Apart(pool.base, pool.length, KernelStart, klength)
  /\ ~Ready => bitmap = <<>>
  /\ \A n \in DOMAIN bitmap : n \in Nat /\ n < PoolPages /\ bitmap[n] \in {0, 1}
  /\ HeldAreMarked
=============================================================================
