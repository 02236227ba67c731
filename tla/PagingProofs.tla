---------------------------- MODULE PagingProofs ----------------------------
(***************************************************************************)
(* For pools, tables and numbers of levels of every size: the page tables  *)
(* form a tree, and what the processor finds in it is what was mapped.     *)
(***************************************************************************)
EXTENDS Paging, PagePoolProofs

USE PagingAssumption

\* Page 0 is no page of the pool, an absent entry leads nowhere.
LEMMA FramesAre ==
  /\ Levels \in Nat /\ Levels > 0 /\ NumFrames \in Nat
  /\ \A f \in Pool : f \in Frames /\ f # PageZero
  /\ PageZero \in Frames /\ PageZero \notin Pool /\ Absent \notin Frames
  /\ Addresses \subseteq Frames
BY DEF Pool, Frames, PageZero

LEMMA EmptyTable ==
  /\ ClearTable \in [Indices -> Entries] /\ JunkTable \in [Indices -> Entries]
  /\ \A i \in Indices : ClearTable[i] = Absent
BY DEF ClearTable, JunkTable, Junk, Entries, Frames

\* pmm_allocate: a page nobody holds, marked, or page 0.
LEMMA AllocatedIs ==
  ASSUME bitmap \in [Pool -> {0, 1}]
  PROVE  /\ Allocated \in Frames /\ BitmapAfter \in [Pool -> {0, 1}]
         /\ \A f \in Pool : bitmap[f] = 1 => BitmapAfter[f] = 1
         /\ Empty => Allocated = PageZero
         /\ ~Empty => /\ Allocated \in Pool /\ bitmap[Allocated] = 0
                      /\ BitmapAfter[Allocated] = 1
<1>1. CASE Empty
  BY <1>1, FramesAre DEF Allocated, BitmapAfter
<1>2. CASE ~Empty
  <2>1. FreePages(bitmap) # {} /\ DOMAIN bitmap = Pool /\ Pool \subseteq Nat
    BY <1>2 DEF Empty, Pool
  <2>2. FirstFree(bitmap) \in Pool /\ bitmap[FirstFree(bitmap)] = 0
    BY <2>1, FirstFreeIsFree
  <2>3. Taken(bitmap) = [bitmap EXCEPT ![FirstFree(bitmap)] = 1]
    BY DEF Taken
  <2>4. Allocated = FirstFree(bitmap) /\ BitmapAfter = Taken(bitmap)
    BY <1>2 DEF Allocated, BitmapAfter
  <2>5. Allocated \in Frames
    BY <2>2, <2>4, FramesAre
  <2> HIDE DEF Empty
  <2> QED
    BY <1>2, <2>2, <2>3, <2>4, <2>5
<1> QED
  BY <1>1, <1>2

\* memset over the frame.
LEMMA ClearedIs ==
  ASSUME memory \in [Frames -> [Indices -> Entries]], NEW f \in Frames
  PROVE  /\ Cleared(memory, f) \in [Frames -> [Indices -> Entries]]
         /\ \A t \in Frames : Cleared(memory, f)[t] = IF t = f THEN ClearTable ELSE memory[t]
BY EmptyTable DEF Cleared

\* What a request asks for.
LEMMA RequestIs ==
  ASSUME TypeOK, request # None
  PROVE  /\ request.v \in Pages /\ request.p \in Frames
         /\ \A l \in 1 .. Levels : request.v[l] \in Indices
<1>1. request \in [v : Pages, p : Addresses]
  BY DEF TypeOK
<1>2. request.v \in Pages /\ request.p \in Addresses
  BY <1>1
<1> QED
  BY <1>2, FramesAre

------------------------------------------------------------------------------
\* The types.
LEMMA PagingTypes ==
  ASSUME TypeOK, [Next]_vars
  PROVE  TypeOK'
<1> USE DEF TypeOK
<1>1. /\ Allocated \in Frames /\ BitmapAfter \in [Pool -> {0, 1}]
      /\ ~Empty => Allocated \in Pool
      /\ Cleared(memory, Allocated) \in [Frames -> [Indices -> Entries]]
      /\ Empty \in BOOLEAN
  <2>1. Allocated \in Frames /\ BitmapAfter \in [Pool -> {0, 1}]
        /\ (~Empty => Allocated \in Pool)
    BY AllocatedIs
  <2>2. Cleared(memory, Allocated) \in [Frames -> [Indices -> Entries]]
    BY <2>1, ClearedIs
  <2> QED
    BY <2>1, <2>2 DEF Empty
<1> HIDE DEF Empty
<1>2. CASE AllocateOther
  BY <1>1, <1>2 DEF AllocateOther
<1>3. ASSUME NEW f \in owned, Fill(f) PROVE TypeOK'
  <2>1. memory' = [memory EXCEPT ![f] = JunkTable] /\ f \in Frames
    BY <1>3, FramesAre DEF Fill
  <2> QED
    BY <1>3, <2>1, EmptyTable DEF Fill
<1>4. CASE InitPaging
  BY <1>1, <1>4 DEF InitPaging
<1>5. ASSUME NEW v \in Pages, NEW p \in Addresses, MapPage(v, p) PROVE TypeOK'
  BY <1>5, FramesAre DEF MapPage
<1>6. CASE Follow
  <2>1. Entry \in Frames
    BY <1>6, RequestIs DEF Follow, Entry, Index, Entries
  <2>2. level + 1 \in 1 .. Levels
    BY <1>6, FramesAre DEF Follow
  <2> QED
    BY <1>6, <2>1, <2>2 DEF Follow
<1>7. CASE NewTable
  <2> DEFINE cleared == Cleared(memory, Allocated)
  <2>1. memory' = [cleared EXCEPT ![table][Index] = Allocated]
    BY <1>7 DEF NewTable
  <2>2. Allocated \in Entries /\ cleared \in [Frames -> [Indices -> Entries]]
    BY <1>1 DEF Entries
  <2> HIDE DEF cleared
  <2>3. memory' \in [Frames -> [Indices -> Entries]]
    BY <2>1, <2>2
  <2>4. level + 1 \in 1 .. Levels
    BY <1>7, FramesAre DEF NewTable
  <2>5. (dry \/ Empty) \in BOOLEAN
    BY <1>1
  <2> QED
    BY <1>1, <1>7, <2>3, <2>4, <2>5 DEF NewTable
<1>8. CASE EnterPage
  <2>1. Index \in Indices /\ request.p \in Frames
    BY <1>8, RequestIs, FramesAre DEF EnterPage, Index
  <2>2. EntryAfter \in Entries
    BY <2>1 DEF EntryAfter, Entry, Entries
  <2>3. memory' = [memory EXCEPT ![table][Index] = EntryAfter]
    BY <1>8 DEF EnterPage
  <2>4. memory' \in [Frames -> [Indices -> Entries]]
    BY <2>2, <2>3
  <2> QED
    BY <1>8, <2>4 DEF EnterPage
<1>9. CASE UNCHANGED vars
  BY <1>9 DEF vars
<1> QED
  BY <1>2, <1>3, <1>4, <1>5, <1>6, <1>7, <1>8, <1>9 DEF Next

------------------------------------------------------------------------------
\* The tree.  What keeps it, when neither the root nor the tables change.
OwnedMarked == \A f \in owned : bitmap[f] = 1

\* The frame pmm_allocate returns holds no table.
LEMMA NewFrame ==
  ASSUME TypeOK, OwnedMarked, ~Empty
  PROVE  /\ Allocated \in Frames /\ Allocated \in Pool \ owned
         /\ \A depth \in Trees : depth[Allocated] = 0
<1>1. Allocated \in Pool /\ bitmap[Allocated] = 0 /\ Allocated \in Frames
  BY AllocatedIs DEF TypeOK
<1>2. Allocated \notin owned
  BY <1>1 DEF OwnedMarked
<1>3. ASSUME NEW depth \in Trees PROVE depth[Allocated] = 0
  BY <1>1, <1>3 DEF Trees, Tree
<1> QED
  BY <1>1, <1>2, <1>3

LEMMA TreeStart ==
  ASSUME TypeOK, OwnedMarked, InitPaging, ~dry', request = None
  PROVE  Trees' # {}
<1>1. pml' = Allocated /\ ~Empty /\ memory' = Cleared(memory, Allocated)
      /\ bitmap' = BitmapAfter /\ UNCHANGED <<owned, request, table, level>>
  BY DEF InitPaging
<1>2. /\ Allocated \in Pool /\ BitmapAfter[Allocated] = 1 /\ Allocated \in Frames
      /\ Allocated \notin owned
  BY <1>1, AllocatedIs, NewFrame DEF TypeOK
<1> DEFINE first == [f \in Frames |-> IF f = Allocated THEN 1 ELSE 0]
<1>3. \A i \in Indices : memory'[Allocated][i] = Absent
  BY <1>1, <1>2, ClearedIs, EmptyTable DEF TypeOK
<1>4. first \in [Frames -> 0 .. Levels]
  BY FramesAre
<1>5. PICK depth \in [Frames -> 0 .. Levels] : depth = first
  BY <1>4
<1>6. depth[Allocated] = 1 /\ \A t \in Frames : depth[t] # 0 => t = Allocated
  BY <1>2, <1>5
<1> HIDE DEF first
<1>7. Tree(depth)'
  <2>1. \A t \in Frames : depth[t] # 0 => t \in Pool \ owned' /\ bitmap'[t] = 1
    BY <1>1, <1>2, <1>6
  <2>2. \A t \in Inner(depth), i \in Indices : memory'[t][i] = Absent
    BY <1>3, <1>6, FramesAre DEF Inner
  <2>3. request' = None
    BY <1>1
  <2> QED
    BY <1>1, <1>6, <2>1, <2>2, <2>3 DEF Tree, Inner
<1> QED
  BY <1>7 DEF Trees

\* A step that leaves the tables of the tree as they are, and takes map_page, if
\* anywhere, to a table of the level it says.
LEMMA TreeKept ==
  ASSUME TypeOK, NEW depth \in Trees, pml' = pml,
         \A t \in Frames : depth[t] # 0 => t \notin owned' /\ bitmap'[t] = 1,
         \A t \in Inner(depth), i \in Indices : memory'[t][i] = memory[t][i],
         request' # None => depth[table'] = level'
  PROVE  depth \in Trees'
<1>1. Tree(depth) /\ depth \in [Frames -> 0 .. Levels]
  BY DEF Trees
<1>2. Tree(depth)'
  BY <1>1 DEF Tree, Inner
<1> QED
  BY <1>1, <1>2 DEF Trees

\* A frame is taken, cleared, and entered where map_page found nothing.
LEMMA TreeGrows ==
  ASSUME TypeOK, OwnedMarked, NewTable, ~dry', NEW depth \in Trees
  PROVE  [depth EXCEPT ![Allocated] = level + 1] \in Trees'
<1> DEFINE f == Allocated
           grown == [depth EXCEPT ![f] = level + 1]
           cleared == Cleared(memory, f)
<1>1. /\ request # None /\ level < Levels /\ level \in 1 .. Levels
      /\ memory[table][Index] = Absent /\ ~Empty
      /\ memory' = [cleared EXCEPT ![table][Index] = f]
      /\ bitmap' = BitmapAfter /\ table' = f /\ level' = level + 1
      /\ UNCHANGED <<pml, owned, request>>
  BY DEF NewTable, Entry, TypeOK
<1>2. /\ f \in Pool \ owned /\ f \in Frames /\ depth[f] = 0 /\ BitmapAfter[f] = 1
      /\ \A t \in Pool : bitmap[t] = 1 => BitmapAfter[t] = 1
  BY <1>1, NewFrame, AllocatedIs DEF TypeOK
<1>3. /\ Tree(depth) /\ depth \in [Frames -> 0 .. Levels]
      /\ Index \in Indices /\ table \in Frames
  BY <1>1, RequestIs DEF Trees, Index, TypeOK
<1>4. depth[table] = level /\ depth[pml] = 1 /\ f # table /\ f # pml /\ pml \in Frames
  BY <1>1, <1>2, <1>3 DEF Tree, TypeOK
<1>5. /\ cleared \in [Frames -> [Indices -> Entries]]
      /\ \A t \in Frames : cleared[t] = IF t = f THEN ClearTable ELSE memory[t]
  BY <1>2, ClearedIs DEF TypeOK
<1> HIDE DEF f, cleared
<1>6. ASSUME NEW t \in Frames, NEW i \in Indices
      PROVE  memory'[t][i] = IF t = table /\ i = Index THEN f
                             ELSE IF t = f THEN Absent ELSE memory[t][i]
  <2>1. memory'[t][i] = IF t = table /\ i = Index THEN f ELSE cleared[t][i]
    BY <1>1, <1>3, <1>5
  <2> QED
    BY <1>4, <1>5, <2>1, EmptyTable
<1>7. PICK deeper \in [Frames -> 0 .. Levels] :
        /\ deeper = grown
        /\ \A t \in Frames : deeper[t] = IF t = f THEN level + 1 ELSE depth[t]
  <2>1. level + 1 \in 0 .. Levels /\ f \in Frames /\ depth \in [Frames -> 0 .. Levels]
    BY <1>1, <1>2, <1>3, FramesAre
  <2>2. grown \in [Frames -> 0 .. Levels]
        /\ \A t \in Frames : grown[t] = IF t = f THEN level + 1 ELSE depth[t]
    BY <2>1
  <2> HIDE DEF grown
  <2> QED
    BY <2>2
<1> HIDE DEF grown
<1>8. \A t \in Inner(deeper) : t \in Frames /\ (t \in Inner(depth) \/ t = f)
  BY <1>7 DEF Inner
<1>9. f # Absent
  BY <1>2, FramesAre
<1>10. Tree(deeper)'
  <2>1. deeper[pml'] = 1
    BY <1>1, <1>4, <1>7
  <2>2. ASSUME NEW t \in Frames, deeper[t] # 0
        PROVE  t \in Pool \ owned' /\ bitmap'[t] = 1
    BY <1>1, <1>2, <1>3, <1>7, <2>2 DEF Tree
  <2>3. ASSUME NEW t \in Inner(deeper), NEW i \in Indices, memory'[t][i] # Absent
        PROVE  deeper[memory'[t][i]] = deeper[t] + 1
    <3>1. CASE t = table /\ i = Index
      <4>1. memory'[t][i] = f /\ deeper[f] = level + 1 /\ deeper[t] = level
        BY <1>2, <1>3, <1>4, <1>6, <1>7, <3>1
      <4> QED
        BY <4>1
    <3>2. CASE ~ (t = table /\ i = Index)
      <4>1. t # f /\ t \in Frames /\ t \in Inner(depth) /\ memory'[t][i] = memory[t][i]
        BY <1>6, <1>8, <2>3, <3>2
      <4>2. depth[memory[t][i]] = depth[t] + 1 /\ memory[t][i] \in Frames
        BY <1>3, <2>3, <4>1 DEF Tree, TypeOK, Entries
      <4>3. depth[t] \in 1 .. Levels - 1
        BY <4>1 DEF Inner
      <4>4. memory[t][i] # f
        BY <1>2, <4>2, <4>3
      <4> QED
        BY <1>7, <4>1, <4>2, <4>4
    <3> QED
      BY <3>1, <3>2
  <2>4. ASSUME NEW t \in Inner(deeper), NEW u \in Inner(deeper),
               NEW i \in Indices, NEW j \in Indices,
               memory'[t][i] = memory'[u][j], memory'[t][i] # Absent
        PROVE  t = u /\ i = j
    <3>1. ASSUME NEW w \in Inner(deeper), NEW k \in Indices, memory'[w][k] # Absent,
                 ~ (w = table /\ k = Index)
          PROVE  w \in Inner(depth) /\ memory'[w][k] = memory[w][k] /\ memory[w][k] # f
      <4>1. w # f /\ w \in Frames /\ w \in Inner(depth) /\ memory'[w][k] = memory[w][k]
        BY <1>6, <1>8, <3>1
      <4>2. depth[memory[w][k]] = depth[w] + 1
        BY <1>3, <3>1, <4>1 DEF Tree
      <4>3. depth[w] \in 1 .. Levels - 1
        BY <4>1 DEF Inner
      <4> QED
        BY <1>2, <4>1, <4>2, <4>3
    <3>2. memory'[table][Index] = f
      BY <1>3, <1>6
    <3>3. CASE t = table /\ i = Index
      BY <2>4, <3>1, <3>2, <3>3
    <3>4. CASE u = table /\ j = Index
      BY <2>4, <3>1, <3>2, <3>4
    <3>5. CASE ~ (t = table /\ i = Index) /\ ~ (u = table /\ j = Index)
      <4>1. t \in Inner(depth) /\ u \in Inner(depth) /\ memory[t][i] = memory[u][j]
            /\ memory[t][i] # Absent
        BY <2>4, <3>1, <3>5
      <4> QED
        BY <1>3, <4>1 DEF Tree
    <3> QED
      BY <3>3, <3>4, <3>5
  <2>5. deeper[table'] = level'
    BY <1>1, <1>2, <1>7
  <2>6. Inner(deeper)' = Inner(deeper)
    BY DEF Inner
  <2> QED
    BY <2>1, <2>2, <2>3, <2>4, <2>5, <2>6 DEF Tree
<1> QED
  BY <1>7, <1>10 DEF Trees, grown, f

\* The inductive step: one tree for the next.
LEMMA PagingSteps ==
  ASSUME PagingInv, [Next]_vars
  PROVE  PagingInv'
<1>1. TypeOK /\ OwnedMarked /\ TypeOK'
  BY PagingTypes DEF PagingInv, OwnedMarked
<1>2. /\ Allocated \in Frames /\ (Empty => Allocated = PageZero)
      /\ \A f \in Pool : bitmap[f] = 1 => BitmapAfter[f] = 1
      /\ ~Empty => Allocated \in Pool \ owned /\ BitmapAfter[Allocated] = 1
  BY <1>1, AllocatedIs, NewFrame DEF TypeOK
<1>3. ASSUME NEW depth \in Trees
      PROVE  /\ \A t \in Frames : depth[t] # 0 => t \in Pool \ owned /\ bitmap[t] = 1
             /\ \A t \in Inner(depth) : t \in Frames /\ depth[t] # 0 /\ depth[t] # Levels
             /\ request # None => depth[table] = level
             /\ depth \in [Frames -> 0 .. Levels] /\ Tree(depth)
  BY <1>3, FramesAre DEF Trees, Tree, Inner
<1> HIDE DEF Empty
<1>4. CASE AllocateOther
  <2>1. /\ request = None /\ ~Empty /\ owned' = owned \cup {Allocated} /\ bitmap' = BitmapAfter
        /\ UNCHANGED <<memory, pml, request, table, level, dry>>
    BY <1>4 DEF AllocateOther
  <2>2. OwnedMarked'
    BY <1>1, <1>2, <2>1 DEF OwnedMarked, TypeOK
  <2>3. ASSUME NEW depth \in Trees PROVE depth \in Trees'
    <3>1. depth[Allocated] = 0
      BY <1>1, <2>1, NewFrame
    <3>2. \A t \in Frames : depth[t] # 0 => t \notin owned' /\ bitmap'[t] = 1
      BY <1>2, <1>3, <2>1, <3>1
    <3> QED
      BY <1>1, <2>1, <3>2, TreeKept
  <2> QED
    BY <1>1, <2>1, <2>2, <2>3 DEF PagingInv, OwnedMarked
<1>5. ASSUME NEW f \in owned, Fill(f) PROVE PagingInv'
  <2>1. /\ request = None /\ memory' = [memory EXCEPT ![f] = JunkTable]
        /\ UNCHANGED <<bitmap, pml, owned, request, table, level, dry>>
    BY <1>5 DEF Fill
  <2>2. ASSUME NEW depth \in Trees PROVE depth \in Trees'
    <3>1. \A t \in Inner(depth), i \in Indices : memory'[t][i] = memory[t][i]
      BY <1>1, <1>3, <1>5, <2>1 DEF TypeOK
    <3> QED
      BY <1>1, <1>3, <2>1, <3>1, TreeKept
  <2> QED
    BY <1>1, <2>1, <2>2 DEF PagingInv, OwnedMarked
<1>6. CASE InitPaging
  <2>1. /\ pml = PageZero /\ ~dry /\ pml' = Allocated /\ dry' = Empty
        /\ bitmap' = BitmapAfter /\ UNCHANGED <<owned, request>> /\ request = None
    BY <1>6 DEF InitPaging, PagingInv
  <2>2. OwnedMarked'
    BY <1>1, <1>2, <2>1 DEF OwnedMarked, TypeOK
  <2>3. ~dry' => pml' # PageZero /\ Trees' # {}
    BY <1>1, <1>2, <1>6, <2>1, TreeStart, FramesAre
  <2> QED
    BY <1>1, <2>2, <2>3 DEF PagingInv, OwnedMarked
<1>7. ASSUME NEW v \in Pages, NEW p \in Addresses, MapPage(v, p) PROVE PagingInv'
  <2>1. /\ pml # PageZero \/ dry
        /\ table' = pml /\ level' = 1 /\ UNCHANGED <<bitmap, memory, pml, owned, dry>>
    BY <1>7 DEF MapPage
  <2>2. ASSUME NEW depth \in Trees PROVE depth \in Trees'
    <3>1. depth[table'] = level'
      BY <1>3, <2>1 DEF Tree
    <3> QED
      BY <1>1, <1>3, <2>1, <3>1, TreeKept
  <2> QED
    BY <1>1, <2>1, <2>2 DEF PagingInv, OwnedMarked
<1>8. CASE Follow
  <2>1. /\ request # None /\ level < Levels /\ level \in 1 .. Levels /\ Entry # Absent
        /\ table' = Entry /\ level' = level + 1
        /\ UNCHANGED <<bitmap, memory, pml, owned, request, dry>>
        /\ table \in Frames /\ Index \in Indices
    BY <1>1, <1>8, RequestIs DEF Follow, TypeOK, Index
  <2>2. ASSUME NEW depth \in Trees PROVE depth \in Trees'
    <3>1. table \in Inner(depth)
      BY <1>3, <2>1, FramesAre DEF Inner
    <3>2. depth[table'] = level'
      BY <1>3, <2>1, <3>1 DEF Tree, Entry
    <3> QED
      BY <1>1, <1>3, <2>1, <3>2, TreeKept
  <2> QED
    BY <1>1, <2>1, <2>2 DEF PagingInv, OwnedMarked
<1>9. CASE NewTable
  <2>1. /\ request # None /\ bitmap' = BitmapAfter /\ dry' = (dry \/ Empty)
        /\ UNCHANGED <<pml, owned, request>>
    BY <1>9 DEF NewTable
  <2>2. OwnedMarked'
    BY <1>1, <1>2, <2>1 DEF OwnedMarked, TypeOK
  <2>3. ASSUME ~dry' PROVE pml' # PageZero /\ Trees' # {}
    <3>1. ~dry /\ pml # PageZero /\ Trees # {}
      BY <2>1, <2>3 DEF PagingInv
    <3> QED
      BY <1>1, <1>9, <2>1, <2>3, <3>1, TreeGrows
  <2> QED
    BY <1>1, <2>2, <2>3 DEF PagingInv, OwnedMarked
<1>10. CASE EnterPage
  <2>1. /\ request # None /\ level = Levels /\ request' = None
        /\ memory' = [memory EXCEPT ![table][Index] = EntryAfter]
        /\ UNCHANGED <<bitmap, pml, owned, table, level, dry>>
    BY <1>10 DEF EnterPage
  <2>2. ASSUME NEW depth \in Trees PROVE depth \in Trees'
    <3>1. \A t \in Inner(depth) : t # table
      BY <1>3, <2>1
    <3>2. \A t \in Inner(depth), i \in Indices : memory'[t][i] = memory[t][i]
      BY <1>1, <1>3, <2>1, <3>1 DEF TypeOK
    <3> QED
      BY <1>1, <1>3, <2>1, <3>2, TreeKept
  <2> QED
    BY <1>1, <2>1, <2>2 DEF PagingInv, OwnedMarked
<1>11. CASE UNCHANGED vars
  BY <1>1, <1>11 DEF vars, PagingInv, Trees, Tree, Inner
<1> QED
  BY <1>4, <1>5, <1>6, <1>7, <1>8, <1>9, <1>10, <1>11 DEF Next

LEMMA PagingInit == Init => PagingInv
<1> SUFFICES ASSUME Init PROVE PagingInv
  OBVIOUS
<1>1. bitmap \in [Pool -> {0, 1}] /\ memory \in [Frames -> [Indices -> Entries]]
  BY EmptyTable DEF Init
<1>2. level \in 1 .. Levels
  BY FramesAre DEF Init
<1>3. TypeOK
  BY <1>1, <1>2, FramesAre DEF Init, TypeOK
<1> QED
  BY <1>3 DEF Init, PagingInv

\* Frames, tables and the walk of map_page, whatever it is asked for and whoever
\* else takes frames: the inductive invariant of vmm.c.
THEOREM PagingInvariant == Spec => []PagingInv
BY PagingInit, PagingSteps, PTL DEF Spec

------------------------------------------------------------------------------
\* The recursive definition of TablesAt has the value it describes, shown for one
\* level more at a time.
Below(ts) == {memory[t][i] : t \in ts, i \in Indices} \ {Absent}

LEMMA TablesAtIs ==
  /\ TablesAt[1] = {pml}
  /\ \A l \in 1 .. Levels - 1 : TablesAt[l + 1] = Below(TablesAt[l])
<1> DEFINE Value(T, l) == IF l = 1 THEN {pml} ELSE Below(T[l - 1])
           Defined(n) == \E T : T = [l \in 1 .. n |-> Value(T, l)]
           Good == {n \in Nat : Defined(n)}
<1>1. Defined(0)
  <2> DEFINE T0 == [l \in 1 .. 0 |-> {}]
  <2>1. T0 = [l \in 1 .. 0 |-> Value(T0, l)]
    OBVIOUS
  <2> QED
    BY <2>1
<1>2. ASSUME NEW n \in Nat, Defined(n) PROVE Defined(n + 1)
  <2> HIDE DEF Below
  <2>1. PICK T : T = [l \in 1 .. n |-> Value(T, l)]
    BY <1>2
  <2> DEFINE U == [l \in 1 .. n + 1 |-> Value(T, l)]
  <2>2. ASSUME NEW l \in 1 .. n + 1 PROVE Value(U, l) = Value(T, l)
    <3>1. CASE l = 1
      BY <3>1
    <3>2. CASE l # 1
      <4>1. l - 1 \in 1 .. n /\ l - 1 \in 1 .. n + 1
        BY <3>2
      <4>2. U[l - 1] = T[l - 1]
        <5>1. U[l - 1] = Value(T, l - 1)
          BY <4>1
        <5>2. T[l - 1] = Value(T, l - 1)
          <6> DEFINE k == l - 1
          <6>1. k \in 1 .. n
            BY <4>1
          <6> HIDE DEF k
          <6>2. [j \in 1 .. n |-> Value(T, j)][k] = Value(T, k)
            BY <6>1
          <6>3. T[k] = Value(T, k)
            <7> HIDE DEF Value
            <7> QED
              BY <2>1, <6>2
          <6> QED
            BY <6>3 DEF k
        <5> QED
          BY <5>1, <5>2
      <4> HIDE DEF U
      <4> QED
        BY <4>2
    <3> QED
      BY <3>1, <3>2
  <2>3. U = [l \in 1 .. n + 1 |-> Value(U, l)]
    <3> HIDE DEF Value
    <3>1. [l \in 1 .. n + 1 |-> Value(U, l)] = [l \in 1 .. n + 1 |-> Value(T, l)]
      BY <2>2
    <3> QED
      BY <3>1
  <2> QED
    BY <2>3
<1> HIDE DEF Defined
<1>3. \A n \in 0 .. Levels : n \in Good
  <2>1. 0 \in Good /\ \A n \in 0 .. Levels - 1 : n \in Good => n + 1 \in Good
    BY <1>1, <1>2, FramesAre
  <2> HIDE DEF Good
  <2> QED
    BY <2>1, StepByStep, FramesAre
<1>4. Defined(Levels)
  BY <1>3, FramesAre
<1>5. TablesAt = [l \in 1 .. Levels |-> Value(TablesAt, l)]
  <2>1. TablesAt = CHOOSE T : T = [l \in 1 .. Levels |-> Value(T, l)]
    BY DEF TablesAt, Below
  <2>2. \E T : T = [l \in 1 .. Levels |-> Value(T, l)]
    BY <1>4 DEF Defined
  <2> HIDE DEF Value
  <2> QED
    BY <2>1, <2>2
<1>6. \A l \in 1 .. Levels : TablesAt[l] = Value(TablesAt, l)
  <2> HIDE DEF Value
  <2> QED
    BY <1>5
<1> QED
  BY <1>6, FramesAre

\* TablesAt finds tables of the level it says.
LEMMA TablesAreDeep ==
  ASSUME TypeOK, NEW depth \in Trees
  PROVE  \A l \in 1 .. Levels : \A t \in TablesAt[l] : t \in Frames /\ depth[t] = l
<1> DEFINE Good == {l \in 1 .. Levels : \A t \in TablesAt[l] : t \in Frames /\ depth[t] = l}
<1>1. Tree(depth)
  BY DEF Trees
<1>2. 1 \in Good
  BY <1>1, TablesAtIs, FramesAre DEF Tree, TypeOK
<1>3. ASSUME NEW l \in 1 .. Levels - 1, l \in Good PROVE l + 1 \in Good
  <2>1. l + 1 \in 1 .. Levels /\ TablesAt[l + 1] = Below(TablesAt[l])
    BY TablesAtIs, FramesAre
  <2>2. ASSUME NEW t \in TablesAt[l], NEW i \in Indices, memory[t][i] # Absent
        PROVE  memory[t][i] \in Frames /\ depth[memory[t][i]] = l + 1
    <3>1. t \in Frames /\ depth[t] = l /\ t \in Inner(depth)
      BY <1>3, FramesAre DEF Inner
    <3>2. memory[t][i] \in Entries
      BY <3>1 DEF TypeOK
    <3> QED
      BY <1>1, <2>2, <3>1, <3>2 DEF Tree, Entries
  <2>3. \A u \in TablesAt[l + 1] : u \in Frames /\ depth[u] = l + 1
    BY <2>1, <2>2 DEF Below
  <2> QED
    BY <2>1, <2>3
<1> HIDE DEF Good
<1>4. \A l \in 1 .. Levels : l \in Good
  BY <1>2, <1>3, StepByStep, FramesAre
<1> QED
  BY <1>4 DEF Good

\* As long as the pool lasts the tables form a tree of frames that belong to
\* nobody else, whatever is mapped in whatever order and whoever else allocates.
THEOREM TablesFormTreeHolds == Spec => []TablesFormTree
<1>1. PagingInv => TablesFormTree
  <2> SUFFICES ASSUME PagingInv, pml # PageZero, ~dry PROVE TablesFormTree
    BY DEF TablesFormTree
  <2>1. PICK depth \in Trees : TRUE
    BY DEF PagingInv
  <2>2. TypeOK /\ Tree(depth)
    BY <2>1 DEF PagingInv, Trees
  <2>3. \A l \in 1 .. Levels : \A t \in TablesAt[l] : t \in Frames /\ depth[t] = l
    BY <2>2, TablesAreDeep
  <2>4. \A l \in 1 .. Levels : \A t \in TablesAt[l] : t \in Pool \ owned /\ bitmap[t] = 1
    <3> SUFFICES ASSUME NEW l \in 1 .. Levels, NEW t \in TablesAt[l]
                 PROVE  t \in Pool \ owned /\ bitmap[t] = 1
      OBVIOUS
    <3>1. t \in Frames /\ depth[t] # 0
      BY <2>3, FramesAre
    <3> QED
      BY <2>2, <3>1 DEF Tree
  <2>5. \A l, m \in 1 .. Levels : l # m => TablesAt[l] \cap TablesAt[m] = {}
    BY <2>3
  <2>6. \A l \in 1 .. Levels - 1 : \A t, u \in TablesAt[l] : \A i, j \in Indices :
          memory[t][i] = memory[u][j] /\ memory[t][i] # Absent => t = u /\ i = j
    <3> SUFFICES ASSUME NEW l \in 1 .. Levels - 1, NEW t \in TablesAt[l], NEW u \in TablesAt[l]
                 PROVE  t \in Inner(depth) /\ u \in Inner(depth)
      BY <2>2 DEF Tree
    <3>1. l \in 1 .. Levels
      BY FramesAre
    <3> QED
      BY <2>3, <3>1 DEF Inner
  <2> QED
    BY <2>4, <2>5, <2>6 DEF TablesFormTree
<1> QED
  BY <1>1, PagingInvariant, PTL

\* Frames, tables and requests keep their types, also behind the end of the pool.
THEOREM PagingTypesHold == Spec => []TypeOK
<1>1. PagingInv => TypeOK
  BY DEF PagingInv
<1> QED
  BY <1>1, PagingInvariant, PTL

------------------------------------------------------------------------------
\* The walk of the processor: Path has the value its definition describes.
PathsWalk ==
  \A v \in AllPages :
    /\ Path(v)[0] = pml
    /\ \A l \in 0 .. Levels - 1 :
         Path(v)[l + 1] = IF Path(v)[l] = Absent THEN Absent
                          ELSE memory[Path(v)[l]][v[l + 1]]

LEMMA PathIs == PathsWalk
<1> SUFFICES ASSUME NEW v \in AllPages
             PROVE  /\ Path(v)[0] = pml
                    /\ \A l \in 0 .. Levels - 1 :
                         Path(v)[l + 1] = IF Path(v)[l] = Absent THEN Absent
                                          ELSE memory[Path(v)[l]][v[l + 1]]
  BY DEF PathsWalk
<1> DEFINE Below1(t, l) == IF t = Absent THEN Absent ELSE memory[t][v[l]]
           Value(T, l) == IF l = 0 THEN pml ELSE Below1(T[l - 1], l)
           Defined(n) == \E T : T = [l \in 0 .. n |-> Value(T, l)]
           Good == {n \in Nat : Defined(n)}
<1>1. Defined(0)
  <2> DEFINE T0 == [l \in 0 .. 0 |-> pml]
  <2>1. T0 = [l \in 0 .. 0 |-> Value(T0, l)]
    OBVIOUS
  <2> QED
    BY <2>1
<1>2. ASSUME NEW n \in Nat, Defined(n) PROVE Defined(n + 1)
  <2> HIDE DEF Below1
  <2>1. PICK T : T = [l \in 0 .. n |-> Value(T, l)]
    BY <1>2
  <2> DEFINE U == [l \in 0 .. n + 1 |-> Value(T, l)]
  <2>2. ASSUME NEW l \in 0 .. n + 1 PROVE Value(U, l) = Value(T, l)
    <3>1. CASE l = 0
      BY <3>1
    <3>2. CASE l # 0
      <4> DEFINE k == l - 1
      <4>1. k \in 0 .. n /\ k \in 0 .. n + 1
        BY <3>2
      <4> HIDE DEF k
      <4>2. T[k] = Value(T, k)
        <5>1. [j \in 0 .. n |-> Value(T, j)][k] = Value(T, k)
          BY <4>1
        <5> HIDE DEF Value
        <5> QED
          BY <2>1, <5>1
      <4>3. U[k] = Value(T, k)
        BY <4>1
      <4>4. U[k] = T[k]
        BY <4>2, <4>3
      <4> HIDE DEF U
      <4> QED
        BY <4>4 DEF k
    <3> QED
      BY <3>1, <3>2
  <2>3. U = [l \in 0 .. n + 1 |-> Value(U, l)]
    <3> HIDE DEF Value
    <3>1. [l \in 0 .. n + 1 |-> Value(U, l)] = [l \in 0 .. n + 1 |-> Value(T, l)]
      BY <2>2
    <3> QED
      BY <3>1
  <2> QED
    BY <2>3
<1> HIDE DEF Defined
<1>3. \A n \in 0 .. Levels : n \in Good
  <2>1. 0 \in Good /\ \A n \in 0 .. Levels - 1 : n \in Good => n + 1 \in Good
    BY <1>1, <1>2, FramesAre
  <2> HIDE DEF Good
  <2> QED
    BY <2>1, StepByStep, FramesAre
<1>4. Defined(Levels)
  BY <1>3, FramesAre
<1>5. Path(v) = [l \in 0 .. Levels |-> Value(Path(v), l)]
  <2>1. Path(v) = CHOOSE T : T = [l \in 0 .. Levels |-> Value(T, l)]
    BY DEF Path
  <2>2. \E T : T = [l \in 0 .. Levels |-> Value(T, l)]
    BY <1>4 DEF Defined
  <2> HIDE DEF Value
  <2> QED
    BY <2>1, <2>2
<1> HIDE DEF Below1
<1>6. \A l \in 0 .. Levels : Path(v)[l] = Value(Path(v), l)
  <2> HIDE DEF Value
  <2> QED
    BY <1>5
<1>7. \A l \in 0 .. Levels - 1 :
        l + 1 \in 0 .. Levels /\ l + 1 # 0 /\ (l + 1) - 1 = l
  BY FramesAre
<1> QED
  BY <1>6, <1>7, FramesAre DEF Below1

\* A walk meets at each level nothing or a table of that level, and two walks that
\* meet the same table came the same way.
LEMMA PathDeep ==
  ASSUME TypeOK, NEW depth \in Trees, NEW v \in AllPages
  PROVE  /\ \A l \in 0 .. Levels - 1 :
              Path(v)[l] # Absent => Path(v)[l] \in Frames /\ depth[Path(v)[l]] = l + 1
         /\ Walk(v) \in Entries
<1> DEFINE W == Path(v)
           Good == {l \in 0 .. Levels - 1 :
                      W[l] # Absent => W[l] \in Frames /\ depth[W[l]] = l + 1}
<1>1. Tree(depth) /\ pml \in Frames
  BY DEF Trees, TypeOK
<1>2. /\ W[0] = pml
      /\ \A l \in 0 .. Levels - 1 :
           W[l + 1] = IF W[l] = Absent THEN Absent ELSE memory[W[l]][v[l + 1]]
      /\ \A l \in 1 .. Levels : v[l] \in Indices
  BY PathIs DEF PathsWalk, AllPages
<1> HIDE DEF W
<1>3. 0 \in Good
  BY <1>1, <1>2, FramesAre DEF Tree
<1>4. ASSUME NEW l \in 0 .. Levels - 2, l \in Good PROVE l + 1 \in Good
  <2>1. l \in 0 .. Levels - 1 /\ l + 1 \in 0 .. Levels - 1 /\ l + 1 \in 1 .. Levels
        /\ l + 1 \in 1 .. Levels - 1
    BY FramesAre
  <2> SUFFICES ASSUME W[l + 1] # Absent
               PROVE  W[l + 1] \in Frames /\ depth[W[l + 1]] = (l + 1) + 1
    BY <2>1
  <2>2. W[l] # Absent /\ W[l + 1] = memory[W[l]][v[l + 1]] /\ v[l + 1] \in Indices
    BY <1>2, <2>1
  <2>3. W[l] \in Frames /\ depth[W[l]] = l + 1 /\ W[l] \in Inner(depth)
    BY <1>4, <2>1, <2>2 DEF Inner
  <2>4. W[l + 1] \in Entries
    BY <2>2, <2>3 DEF TypeOK
  <2> QED
    BY <1>1, <2>2, <2>3, <2>4 DEF Tree, Entries
<1> HIDE DEF Good
<1>5. \A l \in 0 .. Levels - 1 : l \in Good
  <2>1. Levels - 1 \in Nat /\ (Levels - 1) - 1 = Levels - 2
    BY FramesAre
  <2> QED
    BY <1>3, <1>4, <2>1, StepByStep
<1>6. Walk(v) \in Entries
  <2>1. Levels - 1 \in 0 .. Levels - 1 /\ (Levels - 1) + 1 = Levels /\ Levels \in 1 .. Levels
    BY FramesAre
  <2>2. W[Levels] = IF W[Levels - 1] = Absent THEN Absent ELSE memory[W[Levels - 1]][v[Levels]]
    BY <1>2, <2>1
  <2>3. W[Levels - 1] # Absent => W[Levels - 1] \in Frames
    BY <1>5, <2>1 DEF Good
  <2> QED
    BY <1>2, <2>1, <2>2, <2>3 DEF Walk, W, TypeOK, Entries
<1> QED
  BY <1>5, <1>6 DEF Good, W

LEMMA PathUnique ==
  ASSUME TypeOK, NEW depth \in Trees, NEW v \in AllPages, NEW w \in AllPages
  PROVE  \A l \in 0 .. Levels - 1 :
           Path(v)[l] = Path(w)[l] /\ Path(v)[l] # Absent => \A k \in 1 .. l : v[k] = w[k]
<1> DEFINE V == Path(v)
           W == Path(w)
           Good == {l \in 0 .. Levels - 1 :
                      V[l] = W[l] /\ V[l] # Absent => \A k \in 1 .. l : v[k] = w[k]}
<1>1. /\ \A l \in 0 .. Levels - 1 :
           /\ V[l + 1] = IF V[l] = Absent THEN Absent ELSE memory[V[l]][v[l + 1]]
           /\ W[l + 1] = IF W[l] = Absent THEN Absent ELSE memory[W[l]][w[l + 1]]
           /\ V[l] # Absent => V[l] \in Frames /\ depth[V[l]] = l + 1
           /\ W[l] # Absent => W[l] \in Frames /\ depth[W[l]] = l + 1
      /\ \A l \in 1 .. Levels : v[l] \in Indices /\ w[l] \in Indices
      /\ Tree(depth)
  <2>1. \A l \in 0 .. Levels - 1 :
          /\ V[l + 1] = IF V[l] = Absent THEN Absent ELSE memory[V[l]][v[l + 1]]
          /\ W[l + 1] = IF W[l] = Absent THEN Absent ELSE memory[W[l]][w[l + 1]]
    BY PathIs DEF PathsWalk
  <2>2. \A l \in 0 .. Levels - 1 :
          /\ V[l] # Absent => V[l] \in Frames /\ depth[V[l]] = l + 1
          /\ W[l] # Absent => W[l] \in Frames /\ depth[W[l]] = l + 1
    BY PathDeep
  <2>3. \A l \in 1 .. Levels : v[l] \in Indices /\ w[l] \in Indices
    BY DEF AllPages
  <2>4. Tree(depth)
    BY DEF Trees
  <2> HIDE DEF V, W
  <2> QED
    BY <2>1, <2>2, <2>3, <2>4
<1> HIDE DEF V, W
<1>2. 0 \in Good
  BY FramesAre
<1>3. ASSUME NEW l \in 0 .. Levels - 2, l \in Good PROVE l + 1 \in Good
  <2>1. l \in 0 .. Levels - 1 /\ l + 1 \in 0 .. Levels - 1 /\ l + 1 \in 1 .. Levels
        /\ l + 1 \in 1 .. Levels - 1
    BY FramesAre
  <2> SUFFICES ASSUME V[l + 1] = W[l + 1], V[l + 1] # Absent, NEW k \in 1 .. l + 1
               PROVE  v[k] = w[k]
    BY <2>1
  <2>2. /\ V[l] # Absent /\ W[l] # Absent
        /\ memory[V[l]][v[l + 1]] = memory[W[l]][w[l + 1]]
        /\ memory[V[l]][v[l + 1]] # Absent
        /\ v[l + 1] \in Indices /\ w[l + 1] \in Indices
    BY <1>1, <2>1
  <2>3. V[l] \in Inner(depth) /\ W[l] \in Inner(depth)
    BY <1>1, <2>1, <2>2 DEF Inner
  <2>4. V[l] = W[l] /\ v[l + 1] = w[l + 1]
    BY <1>1, <2>2, <2>3 DEF Tree
  <2> QED
    BY <1>3, <2>2, <2>4
<1> HIDE DEF Good
<1>4. \A l \in 0 .. Levels - 1 : l \in Good
  <2>1. Levels - 1 \in Nat /\ (Levels - 1) - 1 = Levels - 2
    BY FramesAre
  <2> QED
    BY <1>2, <1>3, <2>1, StepByStep
<1> QED
  BY <1>4 DEF Good, V, W

------------------------------------------------------------------------------
\* The refinement.  map_page has come to its table by the walk of its request.
PathInv ==
  /\ PagingInv
  /\ ~dry /\ request # None => Path(request.v)[level - 1] = table

\* A step that leaves the tables of the tree alone leaves all walks alone.
LEMMA PathsKept ==
  ASSUME TypeOK, NEW depth \in Trees, pml' = pml,
         \A t \in Frames, i \in Indices : depth[t] # 0 => memory'[t][i] = memory[t][i]
  PROVE  \A v \in AllPages : \A l \in 0 .. Levels : Path(v)'[l] = Path(v)[l]
<1> SUFFICES ASSUME NEW v \in AllPages
             PROVE  \A l \in 0 .. Levels : Path(v)'[l] = Path(v)[l]
  OBVIOUS
<1> DEFINE Good == {l \in 0 .. Levels : Path(v)'[l] = Path(v)[l]}
<1>1. PathsWalk /\ PathsWalk'
  BY PathIs, PTL
<1>2. 0 \in Good
  BY <1>1, FramesAre DEF PathsWalk
<1>3. ASSUME NEW l \in 0 .. Levels - 1, l \in Good PROVE l + 1 \in Good
  <2>1. l + 1 \in 0 .. Levels /\ v[l + 1] \in Indices
    BY FramesAre DEF AllPages
  <2>2. /\ Path(v)[l + 1] = IF Path(v)[l] = Absent THEN Absent
                            ELSE memory[Path(v)[l]][v[l + 1]]
        /\ Path(v)'[l + 1] = IF Path(v)[l] = Absent THEN Absent
                             ELSE memory'[Path(v)[l]][v[l + 1]]
    BY <1>1, <1>3 DEF PathsWalk
  <2>3. Path(v)[l] # Absent => Path(v)[l] \in Frames /\ depth[Path(v)[l]] = l + 1
    BY PathDeep
  <2>4. l + 1 # 0
    BY FramesAre
  <2> HIDE DEF Path
  <2> QED
    BY <2>1, <2>2, <2>3, <2>4
<1> HIDE DEF Good
<1>4. \A l \in 0 .. Levels : l \in Good
  BY <1>2, <1>3, StepByStep, FramesAre
<1> QED
  BY <1>4 DEF Good

\* A new table lengthens the walks through the entry it is entered in by one level,
\* and no walk to its end.
LEMMA PathsGrow ==
  ASSUME TypeOK, OwnedMarked, NewTable, ~Empty, NEW depth \in Trees,
         Path(request.v)[level - 1] = table
  PROVE  \A v \in AllPages : \A l \in 0 .. Levels :
           Path(v)'[l] = IF l = level /\ Path(v)[level - 1] = table /\ v[level] = Index
                           THEN Allocated ELSE Path(v)[l]
<1> SUFFICES ASSUME NEW v \in AllPages
             PROVE  \A l \in 0 .. Levels :
                      Path(v)'[l] = IF l = level /\ Path(v)[level - 1] = table /\ v[level] = Index
                                      THEN Allocated ELSE Path(v)[l]
  OBVIOUS
<1>1. PICK L \in 1 .. Levels - 1, f \in Frames, T \in Frames, I \in Indices :
        L = level /\ f = Allocated /\ T = table /\ I = Index
  <2>1. request # None /\ level < Levels /\ level \in 1 .. Levels
    BY DEF NewTable, TypeOK
  <2>2. level \in 1 .. Levels - 1
    BY <2>1, FramesAre
  <2>3. Index \in Indices /\ Allocated \in Frames /\ table \in Frames
    BY <2>1, RequestIs, NewFrame DEF Index, TypeOK
  <2> QED
    BY <2>2, <2>3
<1>2. /\ memory[T][I] = Absent /\ pml' = pml /\ depth[f] = 0 /\ depth[T] = L
      /\ Tree(depth) /\ f # T /\ f # Absent
  <2>1. request # None /\ memory[table][Index] = Absent /\ pml' = pml
    BY DEF NewTable, Entry
  <2>2. depth[Allocated] = 0 /\ Tree(depth) /\ Allocated \in Frames
    BY NewFrame DEF Trees
  <2>3. depth[table] = level
    BY <2>1, <2>2 DEF Tree
  <2> QED
    BY <1>1, <2>1, <2>2, <2>3, FramesAre
<1>3. ASSUME NEW t \in Frames, NEW i \in Indices
      PROVE  memory'[t][i] = IF t = T /\ i = I THEN f
                             ELSE IF t = f THEN Absent ELSE memory[t][i]
  <2> DEFINE cleared == Cleared(memory, f)
  <2>1. /\ cleared \in [Frames -> [Indices -> Entries]]
        /\ \A u \in Frames : cleared[u] = IF u = f THEN ClearTable ELSE memory[u]
    BY <1>1, ClearedIs DEF TypeOK
  <2>2. memory' = [cleared EXCEPT ![T][I] = f]
    BY <1>1 DEF NewTable
  <2> HIDE DEF cleared
  <2>3. memory'[t][i] = IF t = T /\ i = I THEN f ELSE cleared[t][i]
    BY <1>1, <2>1, <2>2
  <2> QED
    BY <1>2, <2>1, <2>3, EmptyTable
<1> DEFINE W == Path(v)
           hit == W[L - 1] = T /\ v[L] = I
           New(l) == IF l = L /\ hit THEN f ELSE W[l]
           Good == {l \in 0 .. Levels : Path(v)'[l] = New(l)}
<1>4. /\ W[0] = pml /\ Path(v)'[0] = pml
      /\ \A l \in 0 .. Levels - 1 :
           /\ W[l + 1] = IF W[l] = Absent THEN Absent ELSE memory[W[l]][v[l + 1]]
           /\ Path(v)'[l + 1] = IF Path(v)'[l] = Absent THEN Absent
                                ELSE memory'[Path(v)'[l]][v[l + 1]]
           /\ W[l] # Absent => W[l] \in Frames /\ depth[W[l]] = l + 1
      /\ \A l \in 1 .. Levels : v[l] \in Indices
  <2>1. PathsWalk /\ PathsWalk'
    BY PathIs, PTL
  <2>2. \A l \in 0 .. Levels - 1 :
          W[l] # Absent => W[l] \in Frames /\ depth[W[l]] = l + 1
    BY PathDeep
  <2>3. \A l \in 0 .. Levels - 1 :
          W[l + 1] = IF W[l] = Absent THEN Absent ELSE memory[W[l]][v[l + 1]]
    BY <2>1 DEF PathsWalk
  <2>4. \A l \in 0 .. Levels - 1 :
          Path(v)'[l + 1] = IF Path(v)'[l] = Absent THEN Absent
                            ELSE memory'[Path(v)'[l]][v[l + 1]]
    BY <2>1 DEF PathsWalk
  <2>5. W[0] = pml /\ Path(v)'[0] = pml
    BY <1>2, <2>1 DEF PathsWalk
  <2> HIDE DEF W
  <2> QED
    BY <2>2, <2>3, <2>4, <2>5 DEF AllPages
<1>5. PICK V : V = Path(v)'
  OBVIOUS
<1> HIDE DEF W
<1>6. 0 \in Good
  BY <1>1, <1>4, FramesAre
<1>7. ASSUME NEW l \in 0 .. Levels - 1, l \in Good PROVE l + 1 \in Good
  <2>1. l + 1 \in 0 .. Levels /\ l + 1 \in 1 .. Levels /\ v[l + 1] \in Indices
        /\ l \in Nat /\ L \in Nat /\ l + 1 # 0
    BY <1>1, <1>4, FramesAre
  <2>2. /\ W[l + 1] = IF W[l] = Absent THEN Absent ELSE memory[W[l]][v[l + 1]]
        /\ V[l + 1] = IF V[l] = Absent THEN Absent ELSE memory'[V[l]][v[l + 1]]
        /\ V[l] = New(l)
        /\ W[l] # Absent => W[l] \in Frames /\ depth[W[l]] = l + 1
    BY <1>4, <1>5, <1>7
  <2>3. SUFFICES V[l + 1] = New(l + 1)
    BY <1>5, <2>1
  <2>4. CASE l = L /\ hit
    <3>1. V[l] = f /\ memory'[f][v[l + 1]] = Absent
      BY <1>1, <1>2, <1>3, <2>1, <2>2, <2>4
    <3>2. V[l + 1] = Absent
      BY <1>2, <2>2, <3>1
    <3>3. W[l] = Absent
      <4>1. L - 1 \in 0 .. Levels - 1 /\ (L - 1) + 1 = L
        BY <1>1, FramesAre
      <4>2. W[L] = IF W[L - 1] = Absent THEN Absent ELSE memory[W[L - 1]][v[L]]
        BY <1>4, <4>1
      <4> QED
        BY <1>2, <2>4, <4>2
    <3>4. ~ (l + 1 = L)
      BY <2>1, <2>4
    <3> QED
      BY <2>2, <3>2, <3>3, <3>4
  <2>5. CASE ~ (l = L /\ hit) /\ W[l] = Absent
    <3>1. V[l + 1] = Absent /\ W[l + 1] = Absent
      BY <2>2, <2>5
    <3>2. ~ (l + 1 = L /\ hit)
      <4>1. l + 1 = L => L - 1 = l
        BY <2>1
      <4>2. T # Absent
        BY <1>1, FramesAre
      <4> QED
        BY <2>5, <4>1, <4>2
    <3> QED
      BY <3>1, <3>2
  <2>6. CASE ~ (l = L /\ hit) /\ W[l] # Absent
    <3>1. V[l] = W[l] /\ W[l] \in Frames /\ depth[W[l]] = l + 1 /\ W[l] # f
          /\ V[l + 1] = memory'[W[l]][v[l + 1]] /\ W[l + 1] = memory[W[l]][v[l + 1]]
      BY <1>2, <2>1, <2>2, <2>6
    <3>2. memory'[W[l]][v[l + 1]] = IF W[l] = T /\ v[l + 1] = I THEN f
                                    ELSE memory[W[l]][v[l + 1]]
      BY <1>3, <2>1, <3>1
    <3>3. W[l] = T /\ v[l + 1] = I <=> l + 1 = L /\ hit
      <4>1. W[l] = T => l + 1 = L
        BY <1>2, <3>1
      <4>2. l + 1 = L => L - 1 = l
        BY <2>1
      <4> QED
        BY <4>1, <4>2
    <3> QED
      BY <3>1, <3>2, <3>3
  <2> QED
    BY <2>4, <2>5, <2>6
<1> HIDE DEF Good
<1>8. \A l \in 0 .. Levels : l \in Good
  BY <1>6, <1>7, StepByStep, FramesAre
<1> QED
  BY <1>1, <1>8 DEF Good, W

\* The last step of map_page changes the entry of its own page and of no other.
LEMMA WalksAfterEntry ==
  ASSUME TypeOK, EnterPage, NEW depth \in Trees,
         Path(request.v)[level - 1] = table
  PROVE  \A v \in AllPages :
           Walk(v)' = IF v = request.v THEN EntryAfter ELSE Walk(v)
<1> SUFFICES ASSUME NEW v \in AllPages
             PROVE  Walk(v)' = IF v = request.v THEN EntryAfter ELSE Walk(v)
  OBVIOUS
<1> DEFINE n == Levels - 1
<1>1. /\ request # None /\ level = Levels /\ pml' = pml
      /\ memory' = [memory EXCEPT ![table][Index] = EntryAfter]
      /\ request.v \in AllPages /\ table \in Frames /\ Index = request.v[Levels]
      /\ Index \in Indices
  BY RequestIs DEF EnterPage, TypeOK, AllPages, Index
<1>2. n \in 0 .. Levels - 1 /\ n + 1 = Levels /\ Levels \in 1 .. Levels /\ n \in Nat
  BY FramesAre
<1>3. depth[table] = Levels /\ table # Absent
  BY <1>1, FramesAre DEF Trees, Tree
<1>4. \A l \in 0 .. n : Path(v)'[l] = Path(v)[l]
  <2>1. PathsWalk /\ PathsWalk'
    BY PathIs, PTL
  <2> DEFINE Good == {l \in 0 .. n : Path(v)'[l] = Path(v)[l]}
  <2>2. 0 \in Good
    BY <1>1, <1>2, <2>1 DEF PathsWalk
  <2>3. ASSUME NEW l \in 0 .. n - 1, l \in Good PROVE l + 1 \in Good
    <3>1. l \in 0 .. Levels - 1 /\ l + 1 \in 0 .. n /\ v[l + 1] \in Indices /\ l + 1 < Levels
      BY <1>2 DEF AllPages
    <3>2. /\ Path(v)[l + 1] = IF Path(v)[l] = Absent THEN Absent
                              ELSE memory[Path(v)[l]][v[l + 1]]
          /\ Path(v)'[l + 1] = IF Path(v)[l] = Absent THEN Absent
                               ELSE memory'[Path(v)[l]][v[l + 1]]
      BY <2>1, <2>3, <3>1 DEF PathsWalk
    <3>3. Path(v)[l] # Absent => Path(v)[l] \in Frames /\ depth[Path(v)[l]] = l + 1
      BY <3>1, PathDeep
    <3> HIDE DEF Path
    <3>4. Path(v)[l] # Absent => memory'[Path(v)[l]][v[l + 1]] = memory[Path(v)[l]][v[l + 1]]
      BY <1>1, <1>3, <3>1, <3>3 DEF TypeOK
    <3> QED
      BY <3>1, <3>2, <3>4
  <2> HIDE DEF Good
  <2>4. \A l \in 0 .. n : l \in Good
    BY <1>2, <2>2, <2>3, StepByStep
  <2> QED
    BY <2>4 DEF Good
<1> DEFINE t == Path(v)[n]
<1>5. /\ Walk(v) = IF t = Absent THEN Absent ELSE memory[t][v[Levels]]
      /\ Walk(v)' = IF t = Absent THEN Absent ELSE memory'[t][v[Levels]]
  <2>1. PathsWalk /\ PathsWalk'
    BY PathIs, PTL
  <2>2. Path(v)'[n] = Path(v)[n]
    BY <1>2, <1>4
  <2>3. /\ Path(v)[n + 1] = IF t = Absent THEN Absent ELSE memory[t][v[n + 1]]
        /\ Path(v)'[n + 1] = IF Path(v)'[n] = Absent THEN Absent
                             ELSE memory'[Path(v)'[n]][v[n + 1]]
    BY <1>2, <2>1 DEF PathsWalk
  <2> QED
    BY <1>2, <2>2, <2>3 DEF Walk
<1>6. v[Levels] \in Indices /\ (t # Absent => t \in Frames)
  BY <1>2, PathDeep DEF AllPages
<1>7. t = table /\ v[Levels] = Index <=> v = request.v
  <2>1. ASSUME v = request.v PROVE t = table /\ v[Levels] = Index
    BY <1>1, <2>1
  <2>2. ASSUME t = table, v[Levels] = Index PROVE v = request.v
    <3>1. \A k \in 1 .. n : v[k] = request.v[k]
      <4>1. Path(v)[n] = Path(request.v)[n] /\ Path(v)[n] # Absent
        BY <1>1, <1>3, <2>2
      <4> QED
        BY <1>1, <1>2, <4>1, PathUnique
    <3>2. \A k \in 1 .. Levels : v[k] = request.v[k]
      BY <1>1, <1>2, <2>2, <3>1
    <3> QED
      BY <1>1, <3>2 DEF AllPages
  <2> QED
    BY <2>1, <2>2
<1> HIDE DEF t
<1>8. t # Absent => memory'[t][v[Levels]] = IF t = table /\ v[Levels] = Index THEN EntryAfter
                                            ELSE memory[t][v[Levels]]
  BY <1>1, <1>6 DEF TypeOK
<1> QED
  BY <1>3, <1>5, <1>7, <1>8

\* The entry map_page looks at is where the walk for its page ends.
LEMMA EntryIsWalk ==
  ASSUME TypeOK, EnterPage, NEW depth \in Trees, Path(request.v)[level - 1] = table
  PROVE  request.v \in AllPages /\ Entry = Walk(request.v)
<1>1. level = Levels /\ request # None /\ request.v \in AllPages /\ table # Absent
  BY RequestIs, FramesAre DEF EnterPage, TypeOK, AllPages
<1> DEFINE n == Levels - 1
<1>2. n \in 0 .. Levels - 1 /\ n + 1 = Levels
  BY FramesAre
<1>3. PathsWalk
  BY PathIs
<1>4. Path(request.v)[n + 1] = memory[table][request.v[n + 1]]
  BY <1>1, <1>2, <1>3 DEF PathsWalk
<1> QED
  BY <1>1, <1>2, <1>4 DEF Entry, Index, Walk

LEMMA PathInvSteps ==
  ASSUME PathInv, [Next]_vars
  PROVE  PathInv'
<1>1. PagingInv /\ PagingInv' /\ TypeOK /\ OwnedMarked
  BY PagingSteps DEF PathInv, PagingInv, OwnedMarked
<1>2. SUFFICES ASSUME ~dry', request' # None
               PROVE  Path(request.v)'[level' - 1] = table'
  BY <1>1 DEF PathInv
<1>3. PathsWalk /\ PathsWalk'
  BY PathIs, PTL
<1>4. request' \in [v : Pages, p : Addresses]
  BY <1>1, <1>2 DEF PagingInv, TypeOK
<1>5. PICK r \in AllPages : r = request'.v
  BY <1>4 DEF AllPages
<1>6. SUFFICES Path(r)'[level' - 1] = table'
  BY <1>5
<1>7. ASSUME NEW v \in Pages, NEW p \in Addresses, MapPage(v, p)
      PROVE  Path(r)'[level' - 1] = table'
  <2>1. table' = pml /\ pml' = pml /\ level' = 1
    BY <1>7 DEF MapPage
  <2> QED
    BY <1>3, <2>1 DEF PathsWalk
<1>8. ASSUME request' = request, request # None, ~dry
      PROVE  /\ r = request.v /\ Path(r)[level - 1] = table
             /\ level \in 1 .. Levels /\ table \in Frames
             /\ \E depth : depth \in Trees
  BY <1>1, <1>5, <1>8 DEF PathInv, PagingInv, TypeOK
<1>9. CASE Follow
  <2>1. /\ request' = request /\ request # None /\ ~dry /\ level < Levels
        /\ table' = memory[table][request.v[level]] /\ level' = level + 1
        /\ memory' = memory /\ pml' = pml
    BY <1>2, <1>9 DEF Follow, Entry, Index
  <2>2. r = request.v /\ Path(r)[level - 1] = table /\ level \in 1 .. Levels /\ table # Absent
    BY <1>8, <2>1, FramesAre
  <2>3. Path(r)' = Path(r)
    BY <2>1 DEF Path
  <2> DEFINE k == level - 1
  <2>4. k \in 0 .. Levels - 1 /\ k + 1 = level /\ level' - 1 = k + 1
    BY <2>1, <2>2, FramesAre
  <2>5. Path(r)[k + 1] = memory[table][r[k + 1]]
    BY <1>3, <2>2, <2>4 DEF PathsWalk
  <2> QED
    BY <2>1, <2>2, <2>3, <2>4, <2>5
<1>10. CASE NewTable
  <2>1. /\ request' = request /\ request # None /\ ~dry /\ ~Empty
        /\ table' = Allocated /\ level' = level + 1
    BY <1>2, <1>10 DEF NewTable
  <2>2. /\ r = request.v /\ Path(r)[level - 1] = table /\ level \in 1 .. Levels
        /\ Path(request.v)[level - 1] = table
    BY <1>8, <2>1
  <2>3. PICK depth \in Trees : TRUE
    BY <1>8, <2>1
  <2>4. \A l \in 0 .. Levels :
          Path(r)'[l] = IF l = level /\ Path(r)[level - 1] = table /\ r[level] = Index
                          THEN Allocated ELSE Path(r)[l]
    BY <1>1, <1>10, <2>1, <2>2, <2>3, PathsGrow
  <2>5. level \in 0 .. Levels /\ level' - 1 = level /\ r[level] = Index
    BY <2>1, <2>2, FramesAre DEF Index
  <2> QED
    BY <2>1, <2>2, <2>4, <2>5
<1>11. CASE AllocateOther \/ InitPaging \/ EnterPage \/ \E f \in owned : Fill(f)
  BY <1>1, <1>2, <1>11 DEF AllocateOther, InitPaging, EnterPage, Fill, PagingInv
<1>12. CASE UNCHANGED vars
  <2>1. request' = request /\ request # None /\ ~dry /\ memory' = memory /\ pml' = pml
        /\ level' = level /\ table' = table
    BY <1>2, <1>12 DEF vars
  <2>2. Path(r)' = Path(r)
    BY <2>1 DEF Path
  <2> QED
    BY <1>8, <2>1, <2>2
<1> QED
  BY <1>7, <1>9, <1>10, <1>11, <1>12 DEF Next

LEMMA PathInvariant == Spec => []PathInv
<1>1. Init => PathInv
  BY PagingInit DEF PathInv, Init
<1> QED
  BY <1>1, PathInvSteps, PTL DEF Spec

------------------------------------------------------------------------------
Asked == IF dry THEN None ELSE request

\* What the processor finds, when there is a tree and when there is none.
LEMMA TranslationIs ==
  /\ pml = PageZero \/ dry => Translation = Promised!Nothing
  /\ ~ (pml = PageZero \/ dry) =>
       Translation = [v \in {w \in AllPages : Walk(w) # Absent} |-> Walk(v)]
BY DEF Translation, Promised!Nothing

LEMMA TranslationKept ==
  ASSUME UNCHANGED <<pml, dry>>,
         ~ (pml = PageZero \/ dry) => \A v \in AllPages : Walk(v)' = Walk(v)
  PROVE  Translation' = Translation
<1>1. CASE pml = PageZero \/ dry
  BY <1>1 DEF Translation
<1>2. CASE ~ (pml = PageZero \/ dry)
  <2>1. \A v \in AllPages : Walk(v)' = Walk(v)
    BY <1>2
  <2> HIDE DEF Walk
  <2> DEFINE D == {w \in AllPages : Walk(w) # Absent}
  <2>2. {w \in AllPages : Walk(w)' # Absent} = D
    BY <2>1
  <2>3. Translation = [v \in D |-> Walk(v)]
    BY <1>2 DEF Translation
  <2>4. Translation' = [v \in D |-> Walk(v)']
    BY <1>2, <2>2 DEF Translation
  <2>5. \A v \in D : Walk(v)' = Walk(v)
    BY <2>1
  <2> HIDE DEF D
  <2> QED
    BY <2>3, <2>4, <2>5
<1> QED
  BY <1>1, <1>2

\* The step that enters a page is the one the caller was promised.
LEMMA EntersPromised ==
  ASSUME PathInv, EnterPage, ~dry
  PROVE  Promised!Enter
<1>1. /\ request # None /\ request' = None /\ UNCHANGED <<pml, dry>> /\ TypeOK
      /\ Path(request.v)[level - 1] = table /\ pml # PageZero
  BY DEF PathInv, PagingInv, EnterPage
<1>2. PICK depth \in Trees : TRUE
  BY <1>1 DEF PathInv, PagingInv
<1>3. \A v \in AllPages : Walk(v)' = IF v = request.v THEN EntryAfter ELSE Walk(v)
  BY <1>1, <1>2, WalksAfterEntry
<1>4. request.v \in AllPages /\ Entry = Walk(request.v) /\ request.p # Absent /\ request.p \in Frames
  BY <1>1, <1>2, EntryIsWalk, RequestIs, FramesAre
<1>5. PICK r \in AllPages, p \in Frames : r = request.v /\ p = request.p
  BY <1>4
<1>6. EntryAfter = IF Walk(r) = Absent THEN p ELSE Walk(r)
  BY <1>4, <1>5 DEF EntryAfter
<1> DEFINE D == {w \in AllPages : Walk(w) # Absent}
           E == {w \in AllPages : Walk(w)' # Absent}
<1>7. Translation = [v \in D |-> Walk(v)] /\ Translation' = [v \in E |-> Walk(v)']
  BY <1>1 DEF Translation
<1> HIDE DEF Walk
<1>8. Translation' = IF r \in D THEN Translation
                     ELSE [v \in D \cup {r} |-> IF v = r THEN p ELSE Translation[v]]
  <2>1. CASE r \in D
    <3>1. \A v \in AllPages : Walk(v)' = Walk(v)
      BY <1>3, <1>5, <1>6, <2>1
    <3>2. E = D /\ \A v \in D : Walk(v)' = Walk(v)
      BY <3>1
    <3> HIDE DEF D, E
    <3> QED
      BY <1>7, <2>1, <3>2
  <2>2. CASE r \notin D
    <3>1. \A v \in AllPages : Walk(v)' = IF v = r THEN p ELSE Walk(v)
      BY <1>3, <1>5, <1>6, <2>2
    <3>2. E = D \cup {r}
      BY <1>4, <1>5, <3>1
    <3>3. \A v \in D \cup {r} : Walk(v)' = IF v = r THEN p ELSE Translation[v]
      BY <1>7, <3>1
    <3> HIDE DEF D, E
    <3> QED
      BY <1>7, <2>2, <3>2, <3>3
  <2> QED
    BY <2>1, <2>2
<1>9. DOMAIN Translation = D
  BY <1>7
<1> HIDE DEF D, E
<1> QED
  BY <1>1, <1>5, <1>8, <1>9 DEF Promised!Enter

LEMMA PagingPromised ==
  ASSUME PathInv, [Next]_vars
  PROVE  [Promised!Next]_Promised!vars
<1>1. TypeOK /\ OwnedMarked
  BY DEF PathInv, PagingInv, OwnedMarked
<1> HIDE DEF Empty
<1>2. ASSUME dry PROVE UNCHANGED Promised!vars
  <2>1. dry'
    BY <1>2 DEF Next, AllocateOther, Fill, InitPaging, MapPage, Follow, NewTable, EnterPage, vars
  <2> QED
    BY <1>2, <2>1 DEF Promised!vars, Translation
<1>3. ASSUME UNCHANGED <<pml, dry, request>>,
             ~ (pml = PageZero \/ dry) => \A v \in AllPages : Walk(v)' = Walk(v)
      PROVE  UNCHANGED Promised!vars
  BY <1>3, TranslationKept DEF Promised!vars
<1>4. ASSUME ~dry, pml # PageZero PROVE \E depth : depth \in Trees
  BY <1>4 DEF PathInv, PagingInv
<1>5. ASSUME ~dry, NEW depth \in Trees, UNCHANGED <<pml, dry, request>>,
             \A t \in Frames, i \in Indices : depth[t] # 0 => memory'[t][i] = memory[t][i]
      PROVE  UNCHANGED Promised!vars
  <2>1. \A v \in AllPages : \A l \in 0 .. Levels : Path(v)'[l] = Path(v)[l]
    BY <1>1, <1>5, PathsKept
  <2>2. \A v \in AllPages : Walk(v)' = Walk(v)
    BY <2>1, FramesAre DEF Walk
  <2> QED
    BY <1>3, <1>5, <2>2
<1>6. ASSUME ~dry, dry', Trees # {} \/ pml = PageZero
      PROVE  Promised!RunDry
  BY <1>6 DEF Promised!RunDry, Translation, Promised!Nothing
<1>7. CASE ~dry /\ AllocateOther
  <2>1. UNCHANGED <<pml, dry, request>> /\ memory' = memory
    BY <1>7 DEF AllocateOther
  <2>2. \A v \in AllPages : Walk(v)' = Walk(v)
    BY <2>1 DEF Walk, Path
  <2> QED
    BY <1>3, <2>1, <2>2
<1>8. ASSUME ~dry, NEW f \in owned, Fill(f) PROVE UNCHANGED Promised!vars
  <2>1. UNCHANGED <<pml, dry, request>> /\ memory' = [memory EXCEPT ![f] = JunkTable]
    BY <1>8 DEF Fill
  <2>2. CASE pml = PageZero
    BY <1>3, <2>1, <2>2
  <2>3. CASE pml # PageZero
    <3>1. PICK depth \in Trees : TRUE
      BY <1>4, <1>8, <2>3
    <3>2. \A t \in Frames, i \in Indices : depth[t] # 0 => memory'[t][i] = memory[t][i]
      BY <1>1, <1>8, <2>1, <3>1 DEF Trees, Tree, TypeOK
    <3> QED
      BY <1>5, <1>8, <2>1, <3>1, <3>2
  <2> QED
    BY <2>2, <2>3
<1>9. ASSUME ~dry, InitPaging PROVE [Promised!Next]_Promised!vars
  <2>1. /\ pml = PageZero /\ pml' = Allocated /\ dry' = Empty
        /\ memory' = Cleared(memory, Allocated) /\ request = None /\ request' = None
    BY <1>9 DEF InitPaging, PathInv, PagingInv
  <2>2. CASE Empty
    BY <1>6, <1>9, <2>1, <2>2 DEF Promised!Next
  <2>3. CASE ~Empty
    <3>1. Allocated \in Frames /\ pml' # PageZero
      BY <1>1, <2>1, <2>3, NewFrame, FramesAre
    <3>2. ASSUME NEW v \in AllPages PROVE Walk(v)' = Absent
      <4>1. PathsWalk'
        BY PathIs, PTL
      <4> DEFINE Good == {l \in 1 .. Levels : Path(v)'[l] = Absent}
      <4>2. 1 \in Good
        <5>1. Path(v)'[0] = Allocated /\ Allocated # Absent /\ 0 \in 0 .. Levels - 1
              /\ 1 \in 1 .. Levels /\ v[1] \in Indices
          BY <2>1, <3>1, <4>1, FramesAre DEF PathsWalk, AllPages
        <5>2. Path(v)'[0 + 1] = memory'[Allocated][v[0 + 1]]
          BY <2>1, <4>1, <5>1 DEF PathsWalk
        <5>3. memory'[Allocated][v[1]] = Absent
          BY <1>1, <2>1, <3>1, <5>1, ClearedIs, EmptyTable DEF TypeOK
        <5> QED
          BY <5>1, <5>2, <5>3
      <4>3. ASSUME NEW l \in 1 .. Levels - 1, l \in Good PROVE l + 1 \in Good
        <5>1. l \in 0 .. Levels - 1 /\ l + 1 \in 1 .. Levels
          BY FramesAre
        <5> QED
          BY <4>1, <4>3, <5>1 DEF PathsWalk
      <4> HIDE DEF Good
      <4>4. \A l \in 1 .. Levels : l \in Good
        BY <4>2, <4>3, StepByStep, FramesAre
      <4> QED
        BY <4>4, FramesAre DEF Good, Walk
    <3>3. Translation' = Promised!Nothing
      <4>1. ~ (pml' = PageZero \/ dry')
        BY <2>1, <2>3, <3>1 DEF Empty
      <4>2. {w \in AllPages : Walk(w)' # Absent} = {}
        BY <3>2
      <4> HIDE DEF Walk
      <4>3. Translation' = [v \in {w \in AllPages : Walk(w)' # Absent} |-> Walk(v)']
        BY <4>1 DEF Translation
      <4> QED
        BY <4>2, <4>3 DEF Promised!Nothing
    <3>4. Translation = Promised!Nothing
      BY <2>1, TranslationIs
    <3>5. dry' = dry
      BY <1>9, <2>1, <2>3, <1>1 DEF Empty, TypeOK
    <3> QED
      BY <2>1, <3>3, <3>4, <3>5 DEF Promised!vars
  <2> QED
    BY <2>2, <2>3
<1>10. ASSUME ~dry, NEW v \in Pages, NEW p \in Addresses, MapPage(v, p)
       PROVE  Promised!Next
  <2>1. UNCHANGED <<pml, dry, memory>> /\ request = None /\ request' = [v |-> v, p |-> p]
    BY <1>10 DEF MapPage
  <2>2. \A w \in AllPages : Walk(w)' = Walk(w)
    BY <2>1 DEF Walk, Path
  <2>3. Translation' = Translation
    BY <2>1, <2>2, TranslationKept
  <2>4. Promised!Call(v, p)
    BY <1>10, <2>1, <2>3 DEF Promised!Call
  <2> QED
    BY <2>4 DEF Promised!Next
<1>11. CASE ~dry /\ Follow
  <2>1. UNCHANGED <<pml, dry, request>> /\ memory' = memory
    BY <1>11 DEF Follow
  <2>2. \A v \in AllPages : Walk(v)' = Walk(v)
    BY <2>1 DEF Walk, Path
  <2> QED
    BY <1>3, <2>1, <2>2
<1>12. ASSUME ~dry, NewTable PROVE [Promised!Next]_Promised!vars
  <2>1. /\ request # None /\ dry' = (dry \/ Empty) /\ UNCHANGED <<pml, request>>
        /\ level \in 1 .. Levels /\ level < Levels
    BY <1>1, <1>12 DEF NewTable, TypeOK
  <2>2. pml # PageZero /\ Path(request.v)[level - 1] = table
    BY <1>12, <2>1 DEF PathInv, PagingInv
  <2>3. PICK depth \in Trees : TRUE
    BY <1>4, <1>12, <2>2
  <2>4. CASE Empty
    BY <1>6, <1>12, <2>1, <2>3, <2>4 DEF Promised!Next
  <2>5. CASE ~Empty
    <3>1. \A v \in AllPages : \A l \in 0 .. Levels :
            Path(v)'[l] = IF l = level /\ Path(v)[level - 1] = table /\ v[level] = Index
                            THEN Allocated ELSE Path(v)[l]
      BY <1>1, <1>12, <2>2, <2>3, <2>5, PathsGrow
    <3>2. \A v \in AllPages : Walk(v)' = Walk(v)
      <4>1. Levels \in 0 .. Levels /\ Levels # level
        BY <2>1, FramesAre
      <4> QED
        BY <3>1, <4>1 DEF Walk
    <3>3. dry' = dry
      BY <1>1, <1>12, <2>1, <2>5 DEF Empty, TypeOK
    <3> QED
      BY <1>3, <2>1, <3>2, <3>3
  <2> QED
    BY <2>4, <2>5
<1>13. CASE ~dry /\ EnterPage
  BY <1>13, EntersPromised DEF Promised!Next
<1>14. CASE UNCHANGED vars
  <2>1. UNCHANGED <<pml, dry, request>> /\ memory' = memory
    BY <1>14 DEF vars
  <2>2. \A v \in AllPages : Walk(v)' = Walk(v)
    BY <2>1 DEF Walk, Path
  <2> QED
    BY <1>3, <2>1, <2>2
<1> QED
  BY <1>2, <1>7, <1>8, <1>9, <1>10, <1>11, <1>12, <1>13, <1>14 DEF Next

\* The refinement: what the processor finds in the tables is what was mapped, first
\* come first served, and a table half built maps nothing, until the pool is empty.
THEOREM ImplementsAddressSpaceHolds == Spec => ImplementsAddressSpace
<1>1. Init => Promised!Init
  BY TranslationIs DEF Init, Promised!Init
<1>2. PathInv /\ [Next]_vars => [Promised!Next]_Promised!vars
  BY PagingPromised
<1> QED
  BY <1>1, <1>2, PathInvariant, PTL DEF Spec, ImplementsAddressSpace, Promised!Spec
=============================================================================
