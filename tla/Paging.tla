------------------------------- MODULE Paging -------------------------------
(***************************************************************************)
(* The page tables of the kernel (vmm.c) on the frames of the physical     *)
(* pool (pmm.c).  map_page descends from the root table, one step per      *)
(* level, allocating and clearing the tables that are missing.             *)
(*                                                                         *)
(* Frame i of the pool is the page at pool.base + (i-1) * 4096.  Page 0 is *)
(* modelled too: pmm_allocate answers 0 when nothing is left, and map_page *)
(* uses the answer unseen.                                                 *)
(***************************************************************************)
EXTENDS PagePool, Sequences

CONSTANTS
  NumFrames,      \* pages in the pool
  Levels,         \* levels of tables, 4 in the source
  Indices,        \* indices in a table, 512 in the source
  Pages,          \* pages that are mapped: sequences of one index per level
  Addresses,      \* frames they are mapped to, 0 for all memory outside the pool
  Absent,         \* an entry without PRESENT
  None            \* no request

PageZero == 0
Pool == 1 .. NumFrames
Frames == Pool \cup {PageZero}
Junk == PageZero  \* what memory holds before it is cleared: a present entry

ASSUME PagingAssumption ==
  /\ NumFrames \in Nat \ {0}
  /\ Levels \in Nat \ {0}
  /\ Pages \subseteq [1 .. Levels -> Indices]
  /\ Addresses \subseteq 0 .. NumFrames
  /\ Absent \notin Nat
  /\ None \notin [v : Pages, p : Addresses]

VARIABLES
  bitmap,         \* pool.bitmap
  memory,         \* contents of the frames, as tables
  pml,            \* the root table, PageZero before init_paging
  owned,          \* pages other callers of pmm_allocate hold
  request,        \* arguments of map_page, None between two calls
  table,          \* the table map_page is at
  level,          \* and its level
  dry             \* a frame was needed when none was left

vars == <<bitmap, memory, pml, owned, request, table, level, dry>>

Entries == Frames \cup {Absent}
ClearTable == [i \in Indices |-> Absent]
JunkTable == [i \in Indices |-> Junk]

Init ==
  /\ bitmap = [f \in Pool |-> 0]
  /\ memory = [f \in Frames |-> JunkTable]
  /\ pml = PageZero
  /\ owned = {}
  /\ request = None
  /\ table = PageZero
  /\ level = 1
  /\ dry = FALSE

------------------------------------------------------------------------------
\* pmm_allocate: the frame it returns, and the bitmap behind the call.
Empty == FreePages(bitmap) = {}
Allocated_OneOff == IF Empty THEN PageZero ELSE FirstFree(bitmap) + 1   \* mutant
Allocated == IF Empty THEN PageZero ELSE FirstFree(bitmap)
BitmapAfter == IF Empty THEN bitmap ELSE Taken(bitmap)

\* Another caller takes a page (the font in start()) and fills it.
AllocateOther ==
  /\ request = None /\ ~Empty
  /\ owned' = owned \cup {Allocated}
  /\ bitmap' = BitmapAfter
  /\ UNCHANGED <<memory, pml, request, table, level, dry>>

Fill(f) ==
  /\ request = None
  /\ memory' = [memory EXCEPT ![f] = JunkTable]
  /\ UNCHANGED <<bitmap, pml, owned, request, table, level, dry>>

\* The memory behind memset(frame, 0, 0x1000).
Cleared_Not(mem, f) == mem                  \* mutant: the memset is forgotten
Cleared(mem, f) == [mem EXCEPT ![f] = ClearTable]

\* The head of init_paging: the root table.
InitPaging ==
  /\ pml = PageZero /\ ~dry
  /\ pml' = Allocated
  /\ memory' = Cleared(memory, Allocated)
  /\ bitmap' = BitmapAfter
  /\ dry' = Empty
  /\ UNCHANGED <<owned, request, table, level>>

------------------------------------------------------------------------------
\* map_page(v, p).

MapPage(v, p) ==
  /\ pml # PageZero \/ dry
  /\ request = None
  /\ request' = [v |-> v, p |-> p]
  /\ table' = pml
  /\ level' = 1
  /\ UNCHANGED <<bitmap, memory, pml, owned, dry>>

Index == request.v[level]
Entry == memory[table][Index]

\* The entry of an upper table is present: follow it.
Follow ==
  /\ request # None /\ level < Levels /\ Entry # Absent
  /\ table' = Entry
  /\ level' = level + 1
  /\ UNCHANGED <<bitmap, memory, pml, owned, request, dry>>

\* It is not: take a frame, clear it, enter it, follow it.
NewTable ==
  /\ request # None /\ level < Levels /\ Entry = Absent
  /\ memory' = [Cleared(memory, Allocated) EXCEPT ![table][Index] = Allocated]
  /\ bitmap' = BitmapAfter
  /\ table' = Allocated
  /\ level' = level + 1
  /\ dry' = (dry \/ Empty)
  /\ UNCHANGED <<pml, owned, request>>

\* The last table: enter the page unless its entry is present.
EntryAfter == IF Entry = Absent THEN request.p ELSE Entry

EnterPage ==
  /\ request # None /\ level = Levels
  /\ memory' = [memory EXCEPT ![table][Index] = EntryAfter]
  /\ request' = None
  /\ UNCHANGED <<bitmap, pml, owned, table, level, dry>>

Next ==
  \/ AllocateOther
  \/ \E f \in owned : Fill(f)
  \/ InitPaging
  \/ \E v \in Pages, p \in Addresses : MapPage(v, p)
  \/ Follow
  \/ NewTable
  \/ EnterPage

Spec == Init /\ [][Next]_vars

------------------------------------------------------------------------------
\* Types of the state.
TypeOK ==
  /\ bitmap \in [Pool -> {0, 1}]
  /\ memory \in [Frames -> [Indices -> Entries]]
  /\ pml \in Frames
  /\ owned \subseteq Pool
  /\ request \in [v : Pages, p : Addresses] \cup {None}
  /\ table \in Frames
  /\ level \in 1 .. Levels
  /\ dry \in BOOLEAN

\* The tables of level l.
TablesAt[l \in 1 .. Levels] ==
  IF l = 1 THEN {pml}
  ELSE {memory[t][i] : t \in TablesAt[l - 1], i \in Indices} \ {Absent}

\* As long as the pool lasts the tables form a tree of allocated frames: none is
\* page 0, none belongs to another caller, none is at two levels, and no two
\* entries lead to the same table.
TablesFormTree ==
  pml # PageZero /\ ~dry =>
    /\ \A l \in 1 .. Levels : \A t \in TablesAt[l] :
         t \in Pool \ owned /\ bitmap[t] = 1
    /\ \A l, m \in 1 .. Levels : l # m => TablesAt[l] \cap TablesAt[m] = {}
    /\ \A l \in 1 .. Levels - 1 : \A t, u \in TablesAt[l] : \A i, j \in Indices :
         memory[t][i] = memory[u][j] /\ memory[t][i] # Absent => t = u /\ i = j

\* The inductive invariant behind it: depth[f] is the level of the table in frame
\* f, 0 when f holds none.  A table is an allocated frame of nobody else, every
\* entry above the last level leads one level down, and no two lead to the same
\* table; map_page is where it takes itself to be.
Inner(depth) == {t \in Frames : depth[t] \in 1 .. Levels - 1}

Tree(depth) ==
  /\ depth \in [Frames -> 0 .. Levels]
  /\ depth[pml] = 1
  /\ \A t \in Frames : depth[t] # 0 => t \in Pool \ owned /\ bitmap[t] = 1
  /\ \A t \in Inner(depth), i \in Indices :
       memory[t][i] # Absent => depth[memory[t][i]] = depth[t] + 1
  /\ \A t, u \in Inner(depth), i, j \in Indices :
       memory[t][i] = memory[u][j] /\ memory[t][i] # Absent => t = u /\ i = j
  /\ request # None => depth[table] = level

Trees == {depth \in [Frames -> 0 .. Levels] : Tree(depth)}

PagingInv ==
  /\ TypeOK
  /\ \A f \in owned : bitmap[f] = 1
  /\ ~dry => IF pml = PageZero THEN request = None ELSE Trees # {}

\* The processor's walk for page v: the entries it finds, level by level.
Path(v) ==
  LET entry[l \in 0 .. Levels] ==
        IF l = 0 THEN pml
        ELSE IF entry[l - 1] = Absent THEN Absent
        ELSE memory[entry[l - 1]][v[l]]
  IN  entry

Walk(v) == Path(v)[Levels]

AllPages == [1 .. Levels -> Indices]
Translation ==
  IF pml = PageZero \/ dry THEN [v \in {} |-> None]
  ELSE [v \in {w \in AllPages : Walk(w) # Absent} |-> Walk(v)]

Promised == INSTANCE AddressSpace
  WITH space <- Translation, request <- IF dry THEN None ELSE request

\* What the processor finds in the tables is exactly what was mapped, first come
\* first served, as long as the pool lasts; a table half built maps nothing.
ImplementsAddressSpace == Promised!Spec
=============================================================================
