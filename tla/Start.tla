-------------------------------- MODULE Start -------------------------------
(***************************************************************************)
(* start(): the order in which the parts of the kernel come up, on the     *)
(* memory of a real machine.  The pool is Pmm, the walk over the tables of *)
(* the firmware is Acpi; the file system, the terminal, the page tables,   *)
(* the heap and the scheduler appear as what they read, write and keep in  *)
(* memory at boot.                                                         *)
(*                                                                         *)
(* The loader puts the kernel at physical address 0 and maps it at         *)
(* kernel_start, and nobody keeps a map of who uses which memory: live is  *)
(* that map, damaged whatever was written to while somebody still needed   *)
(* it.  Addresses are physical; virtual pages are numbered as signed       *)
(* integers, so that kernel_start is page -2^19.                           *)
(***************************************************************************)
EXTENDS Pmm, Acpi

CONSTANTS
  BssLength,      \* .bss, the end of the kernel
  Bss,            \* [at, length] in it, of the variables of each part
  BootData,       \* extents the loader leaves: [of, at, length]
  BootStackUse,   \* how far the boot stack grows
  FontSectors,    \* sectors of the font file; 0 when the disk has none
  Framebuffer     \* page of info.framebuffer

\* The files of the kernel that have variables, and where their first write comes.
Parts == {"start", "pmm", "vesa", "interrupts", "fat", "terminal", "vmm", "alloc", "acpi", "scheduler"}

ASSUME StartAssumption ==
  /\ BssLength \in Nat /\ BootStackUse \in Nat /\ FontSectors \in Nat /\ Framebuffer \in Nat
  /\ Bss \in [Parts -> [at : Nat, length : Nat]]
  /\ BootData \subseteq [of : {"memory map", "video mode", "loader tables"}, at : Nat, length : Nat]
  /\ \A k \in KernelLengths : BssLength <= k     \* .bss is the end of the kernel

VARIABLES
  phase,          \* the call start() is at
  sectors,        \* of the font file on this disk
  todo,           \* tables map_page still has to build
  built,          \* page tables, by level and by what they cover
  stacks,         \* stacks allocated
  live,           \* extents [of, at, length] whose content is still needed
  damaged         \* owners whose extent somebody else wrote to

poolVars == vars
ownVars == <<phase, sectors, todo, built, stacks, live, damaged>>
startVars == <<poolVars, acpiVars, ownVars>>

Extent(of, at, length) == [of |-> of, at |-> at, length |-> length]
Overlap(e, f) == ~Apart(e.at, e.length, f.at, f.length)

KiB == 1024
KernelPage == -524288           \* kernel_start, -2^19
AlignedUp(n, size) == ((n + size - 1) \div size) * size

\* kernel/linker.ld: 64 KB of padding, then 128 KB of stack at 16 KB, behind a
\* kernel of k bytes.
StackTop(k) == AlignedUp(k + 64 * KiB, 16 * KiB) + 128 * KiB
BootStack(k) == Extent("boot stack", StackTop(k) - BootStackUse, BootStackUse)
Image(k) == Extent("image", 0, k - BssLength)
Adapters == Extent("adapters and firmware", 640 * KiB, 384 * KiB)

Variables(k, p) == Extent(p, k - BssLength + Bss[p].at, Bss[p].length)

\* What other steps may not write to, and what the step no longer needs.  All variables
\* of a part count as written at the first of its writes.
Write(written, released) ==
  /\ damaged' = damaged \cup {l.of : l \in {l \in live : \E w \in written : w # l /\ Overlap(w, l)}}
  /\ live' = {l \in live : l.of \notin released} \cup written

StartInit ==
  /\ Init /\ InitAcpi
  /\ phase = "start"
  /\ sectors \in {0, FontSectors}
  /\ space = {[from |-> 0, to |-> 512], [from |-> KernelPage, to |-> KernelPage + 512]}
  /\ todo = {} /\ built = {} /\ stacks = 0
  /\ live = BootData \cup {Image(klength), BootStack(klength), Adapters}
  /\ damaged = {}

Lost == phase' = "lost"

------------------------------------------------------------------------------
\* memorymaps = m, vesa = v; init_pmm, init_vesa, setup_interrupts.

SaveArguments ==
  /\ phase = "start"
  /\ Write({Variables(klength, "start")}, {})
  /\ phase' = "pool"
  /\ UNCHANGED <<poolVars, acpiVars, sectors, todo, built, stacks>>

InitPmm ==
  /\ phase = "pool"
  /\ Scan \/ ClearBitmap
  /\ Write({Variables(klength, "pmm")}, IF Ready' THEN {"memory map"} ELSE {})
  /\ phase' = IF Ready' THEN "video" ELSE phase
  /\ UNCHANGED <<acpiVars, sectors, todo, built, stacks>>

InitVesa ==
  /\ phase = "video"
  /\ Write({Variables(klength, "vesa")}, {"video mode"})
  /\ phase' = "interrupts"
  /\ UNCHANGED <<poolVars, acpiVars, sectors, todo, built, stacks>>

SetupInterrupts ==
  /\ phase = "interrupts"
  /\ Write({Variables(klength, "interrupts")}, {})
  /\ phase' = "font page"
  /\ UNCHANGED <<poolVars, acpiVars, sectors, todo, built, stacks>>

------------------------------------------------------------------------------
\* mem = pmm_allocate(), init_fat, read_file("FONT    PSF", mem), init_text_terminal:
\* the file is longer than the page.

FontPage ==
  /\ phase = "font page"
  /\ Allocate
  /\ phase' = "font"
  /\ UNCHANGED <<acpiVars, sectors, todo, built, stacks, live, damaged>>

Font == Extent("font", CHOOSE a \in held : TRUE, 512 * sectors)

\* The loader has mapped the first two megabytes.
ReadFont ==
  /\ phase = "font"
  /\ IF sectors = 0 \/ Mapped(Font.at, Font.length)
       THEN /\ phase' = "terminal"
            /\ Write({Variables(klength, "fat")} \cup (IF sectors = 0 THEN {} ELSE {Font}), {})
       ELSE Lost /\ UNCHANGED <<live, damaged>>
  /\ UNCHANGED <<poolVars, acpiVars, sectors, todo, built, stacks>>

\* install_font copies the glyphs; without a file the height of a glyph is
\* whatever the page holds, and the rows of the terminal are a division by it.
InitTextTerminal ==
  /\ phase = "terminal"
  /\ Write({Variables(klength, "terminal")}, {"font"})
  /\ IF sectors = 0 THEN Lost ELSE phase' = "paging"
  /\ UNCHANGED <<poolVars, acpiVars, sectors, todo, built, stacks>>

------------------------------------------------------------------------------
\* init_paging.  A table covers 512 pages, 512 tables, or 512 of those.

InitPages == 6400
FirstPages(n) == {[from |-> p, to |-> p + n] : p \in {KernelPage, 0, Framebuffer}}
Ranges == FirstPages(InitPages)

TablesOf(r) ==
  {<<"pt", n>> : n \in r.from \div 512 .. (r.to - 1) \div 512} \cup
  {<<"pmd", n>> : n \in r.from \div 512^2 .. (r.to - 1) \div 512^2} \cup
  {<<"pud", n>> : n \in r.from \div 512^3 .. (r.to - 1) \div 512^3}

Missing(ranges) == (UNION {TablesOf(r) : r \in ranges}) \ built

\* The next page of the pool, cleared and linked, or kept in variables.
TakeTable(variables) ==
  /\ Allocate /\ Mapped(NextPage, PageSize)
  /\ Write({Extent("page", NextPage, PageSize)} \cup variables, {})

InitPaging_Large ==            \* mutant: 100 MB
  /\ phase = "paging" /\ TakeTable({Variables(klength, "vmm")})
  /\ todo' = Missing(FirstPages(25600)) /\ phase' = "tables"
  /\ UNCHANGED <<acpiVars, sectors, built, stacks>>
InitPaging ==
  /\ phase = "paging"
  /\ TakeTable({Variables(klength, "vmm")})
  /\ todo' = Missing(Ranges)
  /\ phase' = "tables"
  /\ UNCHANGED <<acpiVars, sectors, built, stacks>>

BuildTable ==
  /\ todo # {} /\ phase # "lost"
  /\ TakeTable({})
  /\ LET t == CHOOSE t \in todo : TRUE IN todo' = todo \ {t} /\ built' = built \cup {t}
  /\ UNCHANGED <<acpiVars, phase, sectors, stacks>>

\* Without a page pmm_allocate returns 0, and the table is built over the kernel;
\* behind the bitmap anything may be a page.
PoolFails ==
  /\ phase = "paging" \/ (todo # {} /\ phase # "lost")
  /\ NoPage
  /\ Lost
  /\ UNCHANGED <<acpiVars, sectors, todo, built, stacks, live, damaged>>

\* set_cr3: the page tables of the loader are no longer in use.
SetCr3 ==
  /\ phase = "tables" /\ todo = {}
  /\ space' = Ranges
  /\ Write({}, {"loader tables"})
  /\ phase' = "heap"
  /\ UNCHANGED <<poolVars, firmware, apic, step, index, table, offset, row, interrupts,
                 sectors, todo, built, stacks>>

------------------------------------------------------------------------------
\* install_heap: the heap lies behind the kernel.

HeapStart_RoundedDown(k) == (k \div PageSize) * PageSize   \* mutant
HeapStart(k) == ((k + PageSize) \div PageSize) * PageSize
HeapBytes == 8 * 128 * KiB      \* split_block counts heap_size in words
BlockBytes == 8 * 16 * KiB      \* and what alloc_stack asks for
HeaderBytes == 24

\* The n-th header behind a kernel of k bytes, and what begins behind it.
Header(k, n) == Extent("heap", HeapStart(k) + n * BlockBytes, HeaderBytes)
Stack(k, n) == Extent("stack", HeapStart(k) + n * BlockBytes + HeaderBytes, 16 * KiB)

InstallHeap ==
  /\ phase = "heap"
  /\ Write({Header(klength, 0), Variables(klength, "alloc")}, {})
  /\ phase' = "acpi"
  /\ UNCHANGED <<poolVars, acpiVars, sectors, todo, built, stacks>>

------------------------------------------------------------------------------
\* parse_acpi, between whose steps map_page builds tables, and the two lines
\* start() prints behind it.

StepAcpi ==
  /\ phase = "acpi" /\ todo = {}
  /\ ParseAcpi
  /\ todo' = Missing(space' \ space)
  /\ phase' = CASE step' = "fault"  -> "lost"
                [] step' = "halted" -> "halted"
                [] OTHER            -> "acpi"
  /\ IF step' = "records" THEN Write({Variables(klength, "acpi")}, {}) ELSE UNCHANGED <<live, damaged>>
  /\ UNCHANGED <<poolVars, sectors, built, stacks>>

PrintApic ==
  /\ phase = "acpi" /\ todo = {} /\ step = "done"
  /\ Output(2)
  /\ phase' = "scheduler"
  /\ UNCHANGED <<poolVars, firmware, space, apic, step, index, table, offset,
                 sectors, todo, built, stacks, live, damaged>>

\* One alloc_stack of init_scheduler: the stack is the first 16 KB of its block.
AllocStack ==
  /\ phase = "scheduler" /\ stacks < 3
  /\ stacks' = stacks + 1
  /\ Write({Header(klength, stacks + 1), Stack(klength, stacks), Variables(klength, "scheduler")}, {})
  /\ phase' = IF stacks' = 3 THEN "apic" ELSE phase
  /\ UNCHANGED <<poolVars, acpiVars, sectors, todo, built>>

\* init_apic maps and enables the APIC at the address of the MADT; APIC_REG, here
\* and in the handler, knows only this one.  The PIC is masked; then sti.
ApicRegisters == 1043968         \* page 0xFEE00

MapApic ==
  /\ phase = "apic"
  /\ todo' = Missing({[from |-> apic.local, to |-> apic.local + 1]})
  /\ space' = space \cup {[from |-> apic.local, to |-> apic.local + 1]}
  /\ phase' = "sti"
  /\ UNCHANGED <<poolVars, firmware, apic, step, index, table, offset, row, interrupts,
                 sectors, built, stacks, live, damaged>>

InitApic ==
  /\ phase = "sti" /\ todo = {}
  /\ IF apic.local = ApicRegisters THEN phase' = "running" /\ interrupts' = TRUE
                                   ELSE Lost /\ UNCHANGED interrupts
  /\ UNCHANGED <<poolVars, firmware, space, apic, step, index, table, offset, row,
                 sectors, todo, built, stacks, live, damaged>>

\* A tick of the PIT, on vector 8, that finds interrupts enabled before the end:
\* the handler acknowledges it at an address nobody has mapped, and would switch
\* to a process that is not there.
EarlyTick ==
  /\ interrupts /\ phase \notin {"running", "lost"}
  /\ Lost
  /\ UNCHANGED <<poolVars, acpiVars, sectors, todo, built, stacks, live, damaged>>

StartNext ==
  \/ SaveArguments \/ InitPmm \/ InitVesa \/ SetupInterrupts
  \/ FontPage \/ ReadFont \/ InitTextTerminal
  \/ InitPaging \/ BuildTable \/ PoolFails \/ SetCr3
  \/ InstallHeap
  \/ StepAcpi \/ PrintApic
  \/ AllocStack
  \/ MapApic \/ InitApic
  \/ EarlyTick

\* The boot thread goes on.
StartSpec == StartInit /\ [][StartNext]_startVars /\ WF_startVars(StartNext)
------------------------------------------------------------------------------
StartTypeOK ==
  /\ AcpiTypeOK
  /\ entry \in 1 .. Len(map) + 2 /\ found \in BOOLEAN /\ overrun \in BOOLEAN
  /\ pool.base \in Nat /\ pool.length \in Nat /\ total \in Nat
  /\ \A n \in DOMAIN bitmap : bitmap[n] \in {0, 1}
  /\ stacks \in 0 .. 3
  /\ \A l \in live : l.at \in Nat /\ l.length \in Nat

\* The regions init_pmm goes by hold the whole pool as far as the boot uses it.
PagesAreMemory ==
  \A a \in held : \E i \in DOMAIN map :
    map[i].usable /\ map[i].base <= a /\ a + PageSize <= map[i].base + map[i].length

\* What start() needs of the memory map: behind memory at 0, which init_pmm
\* leaves alone, the region of the kernel comes first, and is long enough.
KernelRegion(i) ==
  /\ map[i].usable /\ HoldsKernel(map[i])
  /\ map[i].length - klength >= BitmapSize * PageSize
  /\ \A j \in 1 .. i - 1 : map[j].usable => map[j].base = 0

MapInOrder == \E i \in DOMAIN map : KernelRegion(i)

\* Nothing that is still needed is written to: neither what the loader and the
\* firmware left, under the variables of a kernel that begins at address 0, nor
\* the font, which is longer than its page and is copied out of the next one
\* before that becomes the root table, nor the variables themselves, nor the boot
\* stack, over which the heap and the stacks of the processes lie.
NothingLost == MapInOrder => damaged = {}

\* The heap of 1 MB behind the kernel at 0 ends where the pool begins, behind the
\* kernel that init_pmm takes to be at 1 MB.
HeapApart == MapInOrder => \A a \in held : Apart(HeapStart(klength), HeapBytes, a, PageSize)

\* The megabyte in front of kernel_start, where the kernel is not, holds the heap.
HeapFits == HeapBytes <= KernelStart

\* The parts that write to their variables while what the loader left is not yet read.
WrittenBefore(of) == {"start", "pmm"} \cup IF of = "video mode" THEN {"vesa"} ELSE {}

\* What NothingLost asks of the sizes of a build, where neither the pool nor the order
\* of start() keeps extents apart: what start() uses of the heap ends in front of the
\* adapters, the kernel in front of the page tables of the loader, the variables that
\* are written before the memory map and the video mode are read lie beside those, and
\* the boot stack grows no further than to the second of the stacks taken from the heap.
LayoutSound ==
  /\ PageSize = 4 * KiB /\ HeapFits
  /\ \A e \in BootData : e.at + e.length <= KernelStart
  /\ \A p \in Parts : Bss[p].at + Bss[p].length <= BssLength
  /\ \A p, q \in Parts : p = q \/ Apart(Bss[p].at, Bss[p].length, Bss[q].at, Bss[q].length)
  /\ BootStackUse <= 40 * KiB
  /\ \A k \in KernelLengths :
       /\ k <= 250 * KiB
       /\ \A l \in BootData :
            IF l.of = "loader tables" THEN k <= l.at
            ELSE \A p \in WrittenBefore(l.of) : ~Overlap(Variables(k, p), l)

\* Inductive: who still needs which memory at which call of start(), and that nobody
\* has lost any.  What the kernel keeps for good lies below the pool; what the loader
\* left is in use until the call that reads it; the font only behind read_file,
\* while no page of the pool is a table.
Kept(k) ==
  {Image(k), BootStack(k), Adapters} \cup {Variables(k, p) : p \in Parts}
  \cup {Header(k, n) : n \in 0 .. 3} \cup {Stack(k, n) : n \in 0 .. 2}

BeforeTables == {"start", "pool", "video", "interrupts", "font page", "font", "terminal", "paging"}

Unread(of) ==
  \/ phase \in {"start", "pool", "lost"}
  \/ phase = "video" /\ of # "memory map"
  \/ phase \in BeforeTables \cup {"tables"} /\ of = "loader tables"

StillNeeded(l) ==
  \/ l \in Kept(klength)
  \/ l \in BootData /\ Unread(l.of)
  \/ phase \in {"terminal", "lost"} /\ \E a \in held : l = Extent("font", a, 512 * sectors)
  \/ phase \notin BeforeTables /\ \E a \in held : l = Extent("page", a, PageSize)

BootInv ==
  /\ sectors \in Nat
  /\ \A l \in live : StillNeeded(l)
  /\ phase \in BeforeTables => todo = {}
  /\ phase = "font" => held # {}
  /\ stacks \in 0 .. 3
  /\ MapInOrder => damaged = {}

\* init_pmm finds the region of the kernel: the inductive invariant behind HeapApart.
PoolBehindKernel ==
  \A i \in DOMAIN map :
    KernelRegion(i) => IF entry > i THEN found /\ pool.base = PoolBase ELSE ~found

\* The boot does not outlive the 100 bytes of the bitmap.
BitmapSuffices == ~overrun

\* What start() maps: the first pages, those of the tables, that of the APIC.  With
\* the page of the font and the root table they fit into the bitmap.
OnePageAt(p) == [from |-> p, to |-> p + 1]
ApicPages(f) ==
  {NoApic} \cup {f.tables[a].local : a \in {a \in DOMAIN f.tables : f.tables[a].signature = "APIC"}}
BootRanges(f) ==
  Ranges \cup {OnePageAt(p) : p \in ApicPages(f)}
  \cup {OnePageAt(a \div PageBytes) : a \in {f.rsdt, f.xsdt, f.behind} \cup Range(f.list)}
BootTables(f) == UNION {TablesOf(r) : r \in BootRanges(f)}

TablesFit ==
  \A f \in Firmwares : IsFiniteSet(BootTables(f)) /\ Cardinality(BootTables(f)) + 2 <= BitmapSize

\* Inductive: a page is handed out once for each table, and for the font and the root.
OtherPages ==
  CASE phase \in {"start", "pool", "video", "interrupts", "font page"} -> 0
    [] phase \in {"font", "terminal", "paging"}                        -> 1
    [] OTHER                                                           -> 2

TableInv ==
  /\ apic.local \in ApicPages(firmware)
  /\ built \cap todo = {} /\ built \cup todo \subseteq BootTables(firmware)
  /\ Ready => DOMAIN bitmap = {n \in 0 .. BitmapSize - 1 : n < PoolPages}
  /\ Cardinality(Marked) <= Cardinality(built) + OtherPages
  /\ overrun = FALSE

\* What the boot needs of the tables: a MADT that is looked at, records with a
\* length, fewer lines than rows, and what is read on a page that is mapped.
Reached == Min({i \in InList : IsMadt(firmware.list[i])})
Lines ==
  LET of(t) == Cardinality({n \in DOMAIN FirstMadt.records : FirstMadt.records[n].type = t})
  IN  2 + of(LocalApic) +
      IF UsesXsdt
        THEN 2 + Reached + of(IoApic) + MapThenSumSet(LAMBDA i : SignatureLines(firmware.list[i]), 2 .. Reached)
        ELSE 1
OnePage(at, length) == at \div PageSize = (at + length - 1) \div PageSize
ListPage == (IF UsesXsdt THEN firmware.xsdt ELSE firmware.rsdt) \div PageSize
InListPage(at, length) == OnePage(at, length) /\ at \div PageSize = ListPage

TablesInOrder ==
  /\ firmware.found
  /\ \E i \in InList : IsMadt(firmware.list[i])
  /\ FirstMadt.local = ApicRegisters
  /\ \A n \in DOMAIN FirstMadt.records : FirstMadt.records[n].length > 0
  /\ Lines < Height
  /\ LET madt == firmware.list[Reached]
         length == RecordOffset(FirstMadt, Len(FirstMadt.records) + 1)
     IN  IF UsesXsdt
           THEN /\ InListPage(firmware.xsdt, 36 + 8 * Len(firmware.list))
                /\ \A i \in 2 .. Reached : OnePage(firmware.list[i], SignatureBytes(firmware.list[i]))
                /\ OnePage(madt, length)
           ELSE /\ InListPage(firmware.rsdt, 36 + 4 * Len(firmware.list))
                /\ \A i \in 1 .. Reached : InListPage(firmware.list[i], 4)
                /\ InListPage(madt, length)

\* On such a machine, with the font on the disk, start() reaches its end, with the
\* timer running: no access to a page that is not mapped, no interrupt before the
\* scheduler is ready for it, no division by the height of a missing font.
Completes == MapInOrder /\ TablesInOrder /\ sectors # 0 => <>(phase = "running")

\* The walk over the tables ends, unless a record says that it has no bytes.
Sized == \A a \in DOMAIN firmware.tables :
           IsMadt(a) => \A n \in DOMAIN firmware.tables[a].records : firmware.tables[a].records[n].length > 0
WalkEnds == phase = "acpi" /\ Sized ~> phase # "acpi"
=============================================================================
