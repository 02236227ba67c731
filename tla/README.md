# A TLA+ development for paskakasaOS

paskakasaOS is a small x86-64 kernel with its own boot loader: a preemptive
round robin scheduler on the local APIC timer, a physical page pool, page
tables, a heap, a text terminal drawn into a VESA frame buffer, an ATA and a
FAT32 driver and a walk over the ACPI tables. It has no tests. This directory
holds TLA+ modules for the parts that have state and an order of steps worth
arguing about, TLC configurations that check them on small instances, and
TLAPS proofs of their invariants, and of the four refinements, for every size.

Contents: [inventory](#the-system), [modules](#the-modules),
[runs](#what-the-runs-show), [divergences](#where-code-and-comments-disagree),
[proofs](#what-is-proved), [limits](#limits), [plan](#plan).

## The system

| Part | Source | State | Operations | Used by |
|---|---|---|---|---|
| Scheduler | `kernel/scheduler.c` | `processes[4]`, `counter` | `init_scheduler`, `save_context`, `schedule`, the four loops | interrupt handler |
| Interrupt path | `kernel/interrupts/` | frame on the stack in use, IDT, `val` | gates, `interrupt_stub`, `interrupt_general_handler` | processor |
| APIC | `kernel/apic.c` | timer, in-service and pending bits | `init_apic`, EOI in the handler | interrupt path |
| Heap | `kernel/memory/alloc.c` | block list, `free_ptr` | `install_heap`, `kalloc`, `split_block` | `alloc_stack` |
| Page pool | `kernel/memory/pmm.c` | `pool` | `init_pmm`, `pmm_allocate` | page tables, `start` |
| Page tables | `kernel/memory/vmm.c` | `pml` and the tables below | `init_paging`, `map_page` | `start`, ACPI, APIC |
| Text terminal | `kernel/utils/text_terminal.c` | `terminal`, `lines[]`, pixels | `printcount`, `scroll`, `clear_glyph` | everybody who prints |
| Frame buffer, font | `kernel/utils/vesa.c`, `text_terminal.c` | mode info, `glyphs` | `init_vesa`, `install_font` | terminal |
| ATA driver | `kernel/storage/ata_pio.c` | drive registers | `read_sector` | FAT32 |
| FAT32 driver | `kernel/storage/fat32.c` | `bpb`, `files[5]` | `init_fat`, `read_file` | `start` |
| ACPI | `kernel/acpi.c` | `apic` | `parse_acpi` | `start` |
| Start | `kernel/start.c`, `linker.ld` | memory layout | `start` | boot loader |
| Boot loader | `bootloader/` | page tables, copies of the two drivers | sector 0, stage 1, `loader_main` | firmware |
| Unused | `spinlock.c`, `vga.c`, `process.c`, `context_switch.asm` | | | |

How they interact. `start()` runs on the boot thread with interrupts disabled
and brings up the pool, interrupts, file system, terminal, paging, heap, ACPI,
scheduler and APIC, in that order. The `sti` at the end of `init_apic` lets the
first tick in; from there the boot thread is process 0, and four processes
share one processor. They share the terminal with no lock: `processA` and
`processB` disable interrupts around their prints, and `scroll()` enables them
again. The interrupt handler shares `processes[]` and `counter` with nobody, but
relies on the gate, the `cli` of the stub and the interrupt shadow of its `sti`
for that. The page tables take frames from the pool, the heap lies behind the
kernel image, the loaders write files to memory they do not measure. No part keeps
a map of the physical memory: the loader puts the kernel at address 0, `init_pmm`
believes it at 1 MB, and that the pool, the heap, the stacks, the variables and
what the loader left behind do not overlap when it matters follows only from the
sizes and from the order of `start()`.

What is hard about it:

* every instruction boundary with interrupts enabled can be followed by another
  process (scheduler, terminal);
* two pieces of state mean the same thing and are never compared: `counter` and
  the process that runs, `free_ptr` and the status bytes, `terminal.x` and
  `lines[y].length`, the screen and `lines[]`, the bitmap and the tables;
* boundaries: the last row, the full row, the last block of the heap, the last
  page of the pool, the first sector of a directory and of the FAT;
* the order of `start()`: what it reads from the loader lies where its own
  variables come to lie, the font is longer than its page, a scroll enables
  interrupts;
* progress: one pending bit for the ticks, an EOI before the switch, polls
  without a limit, chains without one.

What makes each part correct:

* scheduler: a process finds its registers, stack and interrupt flag as it left
  them, and gets the processor again;
* heap: disjoint extents inside the heap, a refusal only without room, an intact
  list whatever callers write into their memory;
* pool: every page handed out once, none of them in the kernel, all of them
  memory;
* page tables: the translation is exactly what was mapped, first come first
  served;
* terminal: the rows are the end of what was printed and the screen shows the
  rows; of several processes, whole messages;
* ATA: the sector asked for, in order; FAT: the file asked for, whole;
* ACPI: the APIC addresses of the first MADT, whatever lies in the list;
* start: nobody writes to what is still needed, and on a machine in order the
  boot ends with the timer running; loader: no jump before the sectors of the
  kernel are there, which the code ensures only as far as the one table sector
  it reads leads, and only for a kernel that ends in front of its stack.

`PROJECT.json` lists every hazard at its line, with the properties that watch it.

## The modules

| Component | Specification | Promise it implements | Instance | Proofs |
|---|---|---|---|---|
| scheduler, interrupt path, timer | `Scheduler` | `VirtualCpus` | `MCScheduler` | `SchedulerProofs` |
| heap | `Heap` | `Allocator` | `MCHeap` | `HeapProofs` |
| page pool | `Pmm`, `PagePool` | | `MCStart`, `MCPaging` | `PagePoolProofs`, `StartProofs` |
| ACPI tables | `Acpi` | | `MCStart` | `StartProofs` |
| boot of the kernel | `Start` (with `Pmm`, `Acpi`) | | `MCStart` | `StartProofs` |
| page tables | `Paging` (with `PagePool`) | `AddressSpace` | `MCPaging` | `PagingProofs` |
| terminal, one caller | `Terminal` (with `TerminalRows`) | `Paper` | `MCTerminal` | `TerminalProofs` |
| terminal, preempted callers | `Console` (with `TerminalRows`) | | `MCConsole` | `TerminalProofs` |
| ATA driver and drive | `Ata` | | `MCAta` | `AtaProofs` |
| FAT32 driver | `Fat` | | `MCFat` | `LoaderProofs` |
| boot loader, stage 2 | `Loader` (with `Fat`) | | `MCFat` | `LoaderProofs` |

`map` in `PROJECT.json` gives the source lines of every definition. Operators
with an underscore suffix and the comment "mutant" are plausible bugs; nothing
uses them unless a definition is replaced to see a property fail.

**Scheduler.** One interrupt is four steps: the processor pushes the frame and
goes through the gate (`Interrupt`), the stub and the first call of the handler
save it (`Stub`), the handler chooses (`SwitchContext`, `IgnoreVector`, `Halt`),
the stub leaves (`Return`; its `sti` takes effect behind the `iretq`). A process
executes any instruction (`Execute`) or its own `cli` and `sti`. A register set
is an owner of the code, an owner of the stack, one abstract value for all
registers `save_context` copies, one for `rbx`, which it does not copy, and the
interrupt flag. The timer has one pending bit and is delivered only when nothing
is in service. The shadow of that `sti` is built into `Return`, one step from `sti` to
`iretq`. Every vector has the same frame: 8 and 10 to 14, whose stubs push no error
code of their own, are none of the vectors raised (`VectorsAssumption`). `VirtualCpus` says what processes rely on: a processor each. The
refinement reads a process's registers from the processor while it runs, from
the frame while its interrupt is handled and from its slot otherwise.

**Heap.** Addresses and sizes count words, because `split_block` adds `n` to a
`uint64_t` pointer. The state is the set of intact headers in memory by address;
any other write over a header removes it. `kalloc` is a call, a look at
`free_ptr`, and a search with one step per block. `Write` is a caller that fills
the `n` bytes it asked for. `Allocator` knows only extents.

**PagePool, Pmm, Paging.** `PagePool` is the search of `pmm_allocate`, used by
both. `Pmm` scans the memory map with one step per entry, in bytes, as the
kernel and the regions need not end at a page; a map is what `init_pmm` looks at, the
entries in front of the first zero one, at most 50 (`MapsAssumption`). Behind the scan, `Allocate` takes
a page, `NoPage` finds none: it answers 0 or, when the pool is longer than the
bitmap, runs over its end (`overrun`). `Paging` keeps tables as contents of pool
frames; `map_page` is one step per level. Frames hold a present entry as junk
until they are cleared, so a forgotten `memset` maps something. When the pool is
dry, `pmm_allocate` answers 0 and `map_page` builds on page 0; `dry` records it
and `AddressSpace` promises nothing from there.

**Acpi.** The firmware is a record: root pointer, list of tables, the MADT with
its records. One step opens the list, looks at a table, or reads a record.
`TableAddress` is the address the code computes: the entry itself in an RSDT, the
entry behind it in an XSDT, whose array the compiler aligns. Every read has the
extent of memory it touches, and a page that is not mapped ends the walk
(`Fault`). Lines printed count, because the one that scrolls enables interrupts.
The signature of a table is four letters without a zero byte behind them: `print`
reads and prints the bytes of the length as well, up to a zero one
(`SignatureBytes`), and a 10 among them is a new line (`SignatureLines`), so a
table that is no MADT has a length here.

**Start.** One action per call of `start()`, with `Pmm` and `Acpi` as they are and
the rest by what it does to memory: `live` is the set of extents whose content
somebody still needs, `damaged` whose were overwritten. `Write` moves both: a
step writes extents that are live from then on, and releases what is no longer
needed (the memory map when `init_pmm` returns, the video mode when `init_vesa` has
copied it, the font when it is copied, the tables of the loader at `set_cr3`). The
variables are extents of `.bss`, one for each part of the kernel (`Bss`), written
at the part's first write (`Variables`), beginning with `memorymaps` and `vesa` in the
first lines of `start()` (`SaveArguments`). The page tables are their number: `Missing`
is the tables a range needs, `BuildTable` takes a page of the pool for each,
and the page must be mapped already. `phase = "lost"` is every way the boot
fails: a page fault, a division by the height of a font that is not there, a tick
no handler can acknowledge.

**TerminalRows, Terminal, Console.** `TerminalRows` holds the data. The ink of
a character has four parts because `clear_glyph` clears 17 rows of 9 pixels:
what it takes from the neighbours is visible (the ninth pixel column of the last
character, which on a screen without padding is the first of the next scan line, is
left out: that row is drawn again afterwards). `Terminal` is the boot, one caller;
its rows are the end of an endless roll of `Paper`. `Console` takes the same
routines apart into loads and stores for two preempted processes: any step with
interrupts enabled can be followed by `Preempt`. `DrawChar` and `StoreChar` are the
code for columns inside a row; a column beyond it would overwrite the length and
the next rows, so nothing is claimed of messages for which a row has no room
(`MessagesFit`).

**Ata, Fat.** `Ata` writes the registers one by one, polls twice and reads word
by word; the drive takes time to raise BSY, then answers or fails. `Fat` reads
the directory entry by entry and follows a chain cluster by cluster, `read_sector`
being one step; reading the FAT behind its first sector gives whatever the stack
holds.

**Loader.** `loader_main` runs the directory scan of `Fat` on variables of its own,
follows the chain of the kernel and jumps; the kernel then begins `Fat` anew. A
missing kernel is cluster 0, whose word in the table is the media type, a cluster
no disk has (`NoSuchSector`). An image that reaches the stack, where the table and the
variables of the loop are, leaves them any value: the loader may jump with what it
has, or go astray (`OverwriteStack`, `GoAstray`). A cluster behind the first sector of
the table has for its next one any word the stack may hold behind `fat[]`; a 0 among
them ends the loop, and the loader jumps into a part of a kernel.

## What the runs show

| Run | Instance | Shows |
|---|---|---|
| `SchedulerTimer` | 4 processes, 2 of them printing, 2 register values, fair | slots, counter and running process stay in step at every point of the path; `VirtualCpus` is implemented; the timer is acknowledged before a process resumes; every process runs again and again |
| `SchedulerStray` | 3 processes, also the spurious vector and the one the handler halts on | no process ever runs on another one's stack; no interrupt inside an interrupt |
| `Heap` | 40 words, requests of 4, 6 and 9, fair | list intact, allocator implemented, the search finds nothing, every call returns |
| `Paging` | 9 frames, 4 levels of 2 entries, 4 pages that share all, some or no tables | the tables form a tree and translate what was mapped, until the pool is dry |
| `Start` | 4 memory maps, 3 kernel sizes, with and without a font, 189 firmwares | pages handed out are memory and overlap neither the kernel nor each other; nothing still needed is overwritten, by variables in `.bss` either; heap and pool stay apart; 100 bytes of bitmap suffice for the boot; the APIC addresses are what the tables say; the walk ends; on a machine in order (the lines printed fit on the screen, those inside a signature counted) the boot does |
| `Terminal` | 3 rows of 2, 2 characters | rows are the end of the paper, the screen shows the rows, the cursor is at the end |
| `Console` | 4 rows of 4, 2 processes printing forever | until the first scroll, whole messages on rows of their own; with scrolling, nothing beyond a row |
| `Ata` | 4 bit addresses, 3 words, fair | the right sector in order, registers written only while the drive rests, calls end unless the drive fails |
| `Fat` | 6 entries per sector, 2 files, FAT sector of 8 words, 3 directory items, images of 3 sectors, fair | a kernel that ends in front of the loader's stack is jumped into only with all the sectors the table sector leads to, in order, and exactly whole if that is all of it, and it is when the disk names it; the directory is listed, files in reach are loaded whole, loads end |

Bounds. Two register values tell a kept register from a lost one; three processes
are the least with which a neighbour's neighbour is somebody else, four is the
source's number. 40 heap words are used up by every mix of the three requests,
remainders of 1, 2 and 3 words included. Two entries per table and four pages
cover sharing at every level. Three rows are a first, a middle and a last one.
One message of each process in `Console` fits into a row (`MessagesFit`): longer
ones do leave it, and the source's are far shorter than its 128 columns. `Start` has the sizes of the
source and of a build of it: 4096 byte pages, a bitmap of 100, 6400 pages in each
range, 25 RSDT entries, 48 rows, a kernel of 17.5 KB and 23 KB of `.bss`, one that
ends at a page boundary, one a page longer. The four maps are in order, with a
hole, with the pool far away, and with low memory that does not begin at 0 (a pool
of 9 pages). The firmwares put tables on the page of the list, on the next, across
a boundary, at the very end of a page, and far away, with the MADT first, second,
third or missing, and with lengths that read as one new line, as two and as none.
`MCBss` are the variables of a build. `MCPaired`
combines every firmware with the machine in order, and every machine with two
firmwares. `BootStackUse`, 16 KB, bounds how far the boot stack grows.
The kernels of `Fat` are in
reach, too long for the memory in front of the stack, or leave the first table sector
at their first or at their second cluster. `MaxSectors` bounds how many loaded sectors are told apart; `TickModulus`
bounds `val`. The addresses 16 and 17 in `Ata` exceed the address width on
purpose.

`CHECK_DEADLOCK FALSE` is given where the system stops: `SchedulerStray` (hlt
with interrupts disabled), `Start` (the endless loop at the end of `start()`, or a
boot that failed) and `Fat` (a loader that has gone astray).

Fairness. The scheduler assumes the timer keeps ticking (it is periodic), the
processor takes a deliverable interrupt and finishes the handler, and a print
between `cli` and `sti` ends. Weak fairness is enough although a printer enables
interrupts only for one instruction, because a pending tick is taken before the
next instruction. `Heap`, `Ata`, `Fat` and `Start` assume that the code under way
goes on running, `Ata` also that the drive answers or fails in the end.

## Where code and comments disagree

Three have a run in which TLC finds the counterexample.

* `SchedulerSpurious`: `save_context` advances `counter` for every vector, the
  switch happens for three. After one spurious interrupt the order is not round
  robin (the repository's `README.md:11`), and contexts go to the wrong slots.
* `HeapEdge`: "large enough" does not count the header of the remainder, which
  then reaches past the end of the heap.
* `ConsoleStale`: the `sti` of `scroll` opens the critical section of the
  printers before the cursor is reset; characters stay on the screen for good.

Others were met while translating and have no run:

* `interrupts.c:151` says trap gate, the type is an interrupt gate (and must be:
  the mutant of `NoNesting` is the trap gate).
* `pmm.c:70` moves the pool "past kernel memory" without giving up the length it
  moved by, so its last pages lie behind the region.
* `text_terminal.c:55` clears 9x17 pixels for a character of 8x16; `TerminalRows`
  models it, and the order of the loops in `scroll` hides it inside the text.
* `fat32.c:112`, "file not found": also for a file under a plain 8.3 name in
  capitals, which has no long name entry.
* `ata_pio.c:8` says slave, 0xE0 selects the master.
* `apic.c:131-144` maps and enables the APIC at the address of the MADT and then
  programs it at the fixed address of `APIC_REG` (`Completes` asks for equality).
* `stage2.c:182`: "Jump to kernel code loaded from disk" (`:199`) is a jump into a part
  when the chain of the kernel leaves the one table sector of `:162` and the word taken
  from behind `fat[]` is 0, as much of the frame is (`:150-152`). The states are in the
  run `Fat`; `KernelWhole` promises such a kernel only the part in front of that point.
* `acpi.c:118` prints `signature`, a `char[4]`, as a string that ends.
* `fat32.c:78` puts the high bits of the first cluster in, but `&` binds tighter than
  `|`, so that they are lost; `DirectoryListed` speaks of files whose first cluster fits
  into the low bits, and would hold of the repaired code too.
* `acpi.c:114`, `sdt_addresses`: the XSDT is read four bytes late, halves swapped
  back: its first entry is never looked at, its last read goes past the end.
* `pmm.c:55`: "dont hard code this": the kernel is at 0, not at the 1 MB the pool
  is placed behind.
* `interrupts.c:122`: the page fault handler, switched off, hangs on case 0x14,
  but page faults are vector 14.

## What is proved

For every value of the constants that satisfies the `ASSUME`s of the modules.
Where a theorem has a further hypothesis it stands in the statement; none is
empty, since TLC evaluates `NoneAcross`, `KernelRegionsLong`, `HeapFits`,
`LayoutSound`, `TablesFit` and `IoApicsSized` in `MCStart`, `MessagesFit` in
`MCConsole` and `DisksInOrder` in `MCFat`, and `OnlySwitchVectors` is true of the
instance of `SchedulerTimer`. The values in `MCStart` are those of the source and
of a build of it, so these theorems are about the kernel as it is.

| Module | Properties of runs | Refinement | Inductive invariant |
|---|---|---|---|
| `SchedulerProofs` | `SlotIntegrity`, `AckedBeforeResume`, `RoundRobin` (`OnlySwitchVectors`); `NoNesting`, `OwnStack` (any vector) | `VirtualCpus` | `IInv`, `StrayInv` |
| `HeapProofs` | `Tiling`, `SearchIsFutile` | `Allocator` | `IInv` |
| `AtaProofs` | `OnlyWhenReady`, `RightSector` | | `IInv` |
| `TerminalProofs` | `TypeOK`, `CursorAtEnd`, `ScreenShowsText`; `ConsoleTypeOK`, `WithinWidth`, `WholeMessages` (`MessagesFit`) | `Paper` | `IInv`; `ConsoleInv`, `WidthInv`, `WholeInv` |
| `PagingProofs` | `TypeOK`, `TablesFormTree` | `AddressSpace` | `PagingInv`, `PathInv` |
| `StartProofs` | `PagesPrivate` (`NoneAcross`), `PagesAreMemory` (`KernelRegionsLong`), `HeapApart` (`HeapFits`), `NothingLost`, `StartTypeOK` (`LayoutSound`), `BitmapSuffices` (`TablesFit`), `ApicFound` (`IoApicsSized`) | | `PmmInv`, `PoolIsRegion`, `PoolBehindKernel`, `BootInv`, `TableInv`, `AcpiInv`, `WalkInv` |
| `LoaderProofs` | `TypeOK`, `DirectoryListed`; `FileLoaded`, `KernelWhole` (`DisksInOrder`) | | `Listing`, `LoaderInv` |

The invariants were checked with TLC on the instances of the runs before they were
proved; `IInv` of `Scheduler` and `Heap` are invariants of runs as well. Each
proof that a step keeps one has a step per action.

**Scheduler.** `OnlySwitchVectors` says that every vector raised is one the
handler switches on; without it `SchedulerSpurious` violates `RoundRobin`.
`SlotIntegrity` alone is not inductive: that `save_context` fills the right slot
needs `CounterNamesRunning`, that the returned slot is the right one needs
`counter = AdvanceCounter(cpu.rip)` behind the save, and that the frame is worth
saving needs that interrupts are disabled from the gate to the `iretq`. In the
refinement only `Execute`, `Cli` and `Sti` are steps of a process and only
`Return` passes the turn; every other action leaves `VirtualRegs` alone. With any
vector `StrayInv` keeps less: slots in use are `Resumable` (code and stack of the
same process, interrupts enabled), although nobody knows whose they are. The one
slot it must leave out is that of process 0 before its first save, which nothing
returns to until `counter` has moved.

**Heap.** `Tiling` needs that the free block is the last (`OnlyFreeBlock`), that
blocks do not overlap (`BlocksApart`), so that the two headers of a split and the
bytes of a caller hit no other header, and that there are no holes (`NoHoles`),
which the refusal needs. The lemmas about `WithHeader` and `Overwritten` carry the
memory part. In the refinement a split is a `Grant`, the end of a search a
`Refuse`, and `NoRoom` shows that a refusal is justified: any larger vacant extent
would lie in the free block at `free_ptr`.

**ATA.** `RightSector` is about the end of a call. Its invariant relates the three
counts the code never compares: the register it is at, the words the driver has
read and the words the drive has left (`left = Words - step`), so that the drive
rests exactly when the driver is done. `OnlyWhenReady` is why `read_sector` may
write the registers without a look at the status.

**Terminal.** A scroll is one step per row, with a row twice in memory and the
screen half moved. `BuffersInOrder` and `ScreenInOrder` say where text and pixels
are at every row: the cells already scrolled show the text that moved up, and only
the row at hand may have lost ink to `clear_glyph`. In the refinement a new row is
one `Feed` of `Paper`, taken by `NextRow` or where a scroll begins; the rows of
the scroll are stutters, and the buffers, read as in `Window`, are the end of the
roll throughout.

**Console.** Interrupts are enabled in the middle of a message only behind a
`scroll`, at the store that resets the cursor and in front of the next character;
`Labelled` says so for each label, and `OneAtATime` that at most one process has
interrupts disabled, so that never two are between a load and a store of
`terminal.y`: the cursor stays in the rows. That no row is left needs a measure:
those who still owe the reset of a scroll they have done are `Late`, and in front of
a message the cursor is at most behind one message of each of them (`Room`);
`MessagesFit` is that a row has such room for everybody, and a hypothesis of every theorem about `Console`,
the types included: beyond a row the model is not the code. Until the first scroll
nobody is late, and `WholeInv` says at every label how much of the message at hand
is counted, stored and drawn.

**Page tables.** That tables form a tree is proved with depths, since "reachable
from `pml`" has no induction here: `Trees` are the ways to give every frame a
depth (0 for what is no table, 1 for `pml`) such that entries lead one deeper,
each frame is entered from one place, and tables are marked and nobody else's;
each step shows one to exist behind it, given one before. `Path` is the
processor's walk, a recursive function of the level; `PathInv` says that
`map_page` is at the table to which the walk of its request leads. An exhausted
pool hands out page 0, and the promises end there (`dry`).

**Pool, ACPI, boot.** `StartProofs` follows the one specification `StartSpec`, in
which `Pmm` and `Acpi` are components, so what it proves survives every other call
of `start()`. `PagesPrivate` needs that the pool stays where it is once the scan
found it and that the held pages are those marked (`HeldAreMarked`); `NoneAcross`,
that no usable region but one at 0, which the scan skips, begins before the kernel
and reaches beyond its start, is what `init_pmm` takes for granted.
`PagesAreMemory` is false of a pool as such, whose last pages lie behind the region;
the bitmap does not reach them when the region is long enough (`PoolIsRegion`,
`KernelRegionsLong`). `HeapApart` needs that the region of the kernel is found
(`PoolBehindKernel`), for any length of the kernel. `AcpiInv` says that no MADT was
passed over and that the I/O APIC is that of the last record behind which the walk
has come; `IoApicsSized` gives those records a length (a record without one keeps
the walk in place).

`NothingLost` is about every pair of a write and an extent that is still needed.
`BootInv` bounds what can be needed at each call: what the kernel keeps for good
(`Kept`: image, variables, boot stack, heap headers, stacks), which is below 1 MB;
what the loader left, until the call that reads it; the font, between `read_file`
and the copy, while no page of the pool is a table; and the pages of the tables.
A write to the pool misses what is below because the pool begins behind
`kernel_start`, misses the pages because each is new, and misses the font because of
the order of `start()`; a write below misses the rest because of the layout alone.
`LayoutSound` says in sizes alone what neither the pool nor the order gives: the
kernel is no longer than 250 KB and ends in front of the page tables of the loader; the
variables of the parts are inside `.bss` and apart; those written before the memory
map and the video mode are read (`start`, `pmm`, and for the latter `vesa`) lie beside
these; and the boot stack grows by 40 KB at most, so it ends above the second stack taken
from the heap (where `kernel.end` rounds to is part of the proof). The types
follow with `WalkInv`, which keeps the walk over the tables in the list and at the
beginning of a record. For `BitmapSuffices`, `TableInv` counts: the marked bits are
no more than the tables built, the font and the root, each table is built once, and
all of them are among those of what is mapped (`BootTables`), however the firmware
spreads its tables; `TablesFit` says that these fit into the bitmap.

**FAT32 and loader.** `Listing` is the directory scan at any entry: what is listed
is there, and what has a long name before the scan is listed. `LoaderInv` says the
loops of `loader_main` and `read_file` are at the cluster of the chain whose
number is the length of what is loaded, for the loader's copy and for the
kernel's, and that a cluster of 0 belongs to a kernel that is not there.
`LinkedSoFar` says the same of any chain of the kernel as far as the table sector leads,
and `KernelWhole` follows: the loop cannot end in front of that (`NoneLeft`). What is
excluded stands in the statement: a kernel that reaches the stack, and, for "whole", a
chain that leaves the sector; nothing is proved of what the loader does there.
`DisksInOrder`: one sector per cluster, directory and table as the files lie on the
disk, chains no longer than the model keeps track of.

`PagePoolProofs` has what the others share. The library's induction theorems take
an operator as a parameter, which the provers cannot instantiate; `LeastNumber`,
from the well-foundedness of `<`, says that a set of numbers has a least one, and
`StepByStep` is the induction that follows for the members of a given set. With
them the recursive functions `Path` and `RecordOffset` are unfolded step by step.

Every invariant, action property and refinement of a passing run is stated by a
theorem. Only model-checked:

* all liveness (`EveryProcessRuns`, the calls that return, the walks and the boot that
  end, the sectors that arrive): fairness and ENABLED are beyond the prover;
* that the hypotheses hold of the source's sizes: TLC evaluates them;
* the runs that disagree with a comment, which are counterexamples.

## Limits

* Not modelled: the values of the registers of the APIC and the PIC; exceptions,
  whose handlers print and halt; the spinlock and VGA text mode, which nothing
  uses; stages 0 and 1 of the loader, straight-line firmware calls; glyphs and
  rectangles; `itoa` and `print_hex` (formatting).
* `Start` takes the sizes of `.bss` and of the image from a build; another
  compiler gives others. That `.bss` is zero when the kernel starts (nobody
  clears it: `counter`, `files[]`, `apic`) is assumed, and that ACPI addresses in
  the low bits of a page entry do no harm.
* In `Start` a walk to a record, a table or a list that is read past its end
  stops at the first page that is not mapped; what a mapped page behind a
  table holds is one more pointer (`behind`).
* `rbx` is not promised: `save_context` does not copy it. Whether compiled code
  holds it across a tick cannot be seen in the source; the same goes for the red
  zone below `rsp`.
* Past the 100 bytes of the bitmap, and past `files[5]`, the code overwrites memory
  that depends on the build. `Pmm` records the former, `Fat` keeps such records
  apart and finds none of them.
* What lies behind `fat[]` depends on the frame the compiler lays out: `StackWords` is any
  such word. What an overwritten stack makes of the loader is a jump at once or
  nothing further in the model; it could do anything in between.
* Beyond the width of a row (`Console`), the vectors whose stubs push no error code
  (`Scheduler`), and memory maps the loader's buffer has no room for (`Pmm`) are
  excluded by the assumptions named above.
* `Fat` assumes one sector per cluster, as `mkfs.fat` lays out the 256 MB disk of
  `createdisk.sh`.

## Plan

1. Done: the modules above, and the proofs of all their invariants, action properties
   and refinements.
2. Left: proofs that the hypotheses follow from the sizes of the source (TLC
   evaluates them); liveness, which stays with TLC; `Fat` and `Loader` with clusters
   of more than one sector, should the disk be laid out so.
3. `Spinlock`, should something begin to use it.
