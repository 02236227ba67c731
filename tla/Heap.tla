-------------------------------- MODULE Heap --------------------------------
(***************************************************************************)
(* The kernel heap: a list of blocks, each headed by its size, status and  *)
(* next pointer, that kalloc splits off the front of one free block.       *)
(*                                                                         *)
(* Sizes and addresses count words of 8 bytes: split_block adds n to a     *)
(* uint64_t pointer, so a caller that asks for n bytes gets a block of n   *)
(* words, header included.  Memory is modelled as far as it holds headers: *)
(* a write of anything else over a header removes it from the model.       *)
(***************************************************************************)
EXTENDS Integers

CONSTANTS
  HeapStart,      \* heap_start
  HeapSize,       \* heap_size, 128*1024 in the source
  Requests        \* arguments of kalloc; 0x4000 (alloc_stack) in the source

Null == 0
HeaderWords == 3  \* sizeof(block_t) = 24 bytes
BLOCK_FREE == 0
BLOCK_USED == 1

\* A request below 4 would leave no room for its bytes behind the header.
ASSUME HeapAssumption ==
  /\ HeapStart \in Nat \ {0}
  /\ HeapSize \in Nat \ {0}
  /\ Requests \subseteq {n \in Nat : n > HeaderWords}

VARIABLES
  header,         \* the headers in memory, by the address of their block
  free_ptr,       \* latest known free block
  pc,             \* where kalloc is, "idle" between two calls
  want,           \* its argument n, 0 between two calls
  ptr,            \* its local pointer
  reply           \* what the last call returned

vars == <<header, free_ptr, pc, want, ptr, reply>>

HeapEnd == HeapStart + HeapSize
Addresses == HeapStart .. HeapEnd - 1
Header == [size : 1 .. HeapSize, status : {BLOCK_FREE, BLOCK_USED},
           next : Addresses \cup {Null}]
Blocks == DOMAIN header
UsedBlocks == {a \in Blocks : header[a].status = BLOCK_USED}

\* install_heap.
Init ==
  /\ header = [a \in {HeapStart} |-> [size |-> HeapSize, status |-> BLOCK_FREE,
                                      next |-> Null]]
  /\ free_ptr = HeapStart
  /\ pc = "idle"
  /\ want = 0
  /\ ptr = Null
  /\ reply = Null

------------------------------------------------------------------------------
\* Memory h after words from .. to - 1 were overwritten.
Overwritten(h, from, to) ==
  [a \in {b \in DOMAIN h : b + HeaderWords <= from \/ to <= b} |-> h[a]]

\* Memory h after the header block was written at address a.
WithHeader(h, a, block) ==
  LET rest == Overwritten(h, a, a + HeaderWords)
  IN  [b \in DOMAIN rest \cup {a} |-> IF b = a THEN block ELSE rest[b]]

\* The test of both paths of kalloc.
Fits_Used(p, n) == header[p].size > n      \* mutant: the status is not tested
Fits(p, n) == header[p].status = BLOCK_FREE /\ header[p].size > n

\* (uint64_t*)ptr + n.
SplitPoint_Bytes(p, n) == p + n \div 8     \* mutant: n bytes behind ptr
SplitPoint(p, n) == p + n

\* What split_block writes behind the split.
Remainder_Whole(block, n) == block         \* mutant: the size is not reduced
Remainder(block, n) == [size |-> block.size - n, status |-> BLOCK_FREE,
                        next |-> block.next]

FreeAfterSplit_Kept(p, rest) == p          \* mutant: free_ptr is not moved
FreeAfterSplit(p, rest) == rest

\* split_block(p, want), and the return of the payload behind the header.
Split(p) ==
  LET rest == SplitPoint(p, want)
      front == [size |-> want, status |-> BLOCK_USED, next |-> rest]
  IN  /\ header' = WithHeader(WithHeader(header, rest, Remainder(header[p], want)),
                              p, front)
      /\ free_ptr' = FreeAfterSplit(p, rest)
      /\ reply' = p + HeaderWords
      /\ pc' = "idle"
      /\ want' = 0
      /\ ptr' = Null

Call(n) ==
  /\ pc = "idle"
  /\ pc' = "check"
  /\ want' = n
  /\ UNCHANGED <<header, free_ptr, ptr, reply>>

\* The block at free_ptr is large enough.
TakeFree ==
  /\ pc = "check" /\ free_ptr \in Blocks
  /\ Fits(free_ptr, want)
  /\ Split(free_ptr)

\* It is not: search the list from its head.
StartSearch ==
  /\ pc = "check" /\ free_ptr \in Blocks
  /\ ~Fits(free_ptr, want)
  /\ pc' = "search"
  /\ ptr' = HeapStart
  /\ UNCHANGED <<header, free_ptr, want, reply>>

\* One round of the search loop.
SearchNext_Stays(p) == p                   \* mutant: ptr = ptr->next is missing
SearchNext(p) == header[p].next
Search ==
  /\ pc = "search" /\ ptr \in Blocks
  /\ IF Fits(ptr, want)
       THEN Split(ptr)
       ELSE /\ ptr' = SearchNext(ptr)
            /\ UNCHANGED <<header, free_ptr, pc, want, reply>>

\* The end of the list: the heap is full.
GiveUp ==
  /\ pc = "search" /\ ptr = Null
  /\ reply' = Null
  /\ pc' = "idle"
  /\ want' = 0
  /\ UNCHANGED <<header, free_ptr, ptr>>

\* A caller fills the bytes it asked for, eight to a word.
PayloadEnd(a) == a + HeaderWords + (header[a].size + 7) \div 8
Write(a) ==
  /\ pc = "idle"
  /\ header' = Overwritten(header, a + HeaderWords, PayloadEnd(a))
  /\ UNCHANGED <<free_ptr, pc, want, ptr, reply>>

Next ==
  \/ \E n \in Requests : Call(n)
  \/ TakeFree
  \/ StartSearch
  \/ Search
  \/ GiveUp
  \/ \E a \in UsedBlocks : Write(a)

Spec == Init /\ [][Next]_vars

\* kalloc keeps running until it returns.
Fairness == WF_vars(TakeFree \/ StartSearch \/ Search \/ GiveUp)

FairSpec == Spec /\ Fairness

------------------------------------------------------------------------------
\* Types of the state.
TypeOK ==
  /\ Blocks \subseteq Addresses
  /\ header \in [Blocks -> Header]
  /\ free_ptr \in Addresses
  /\ pc \in {"idle", "check", "search"}
  /\ want \in Requests \cup {0}
  /\ ptr \in Addresses \cup {Null}
  /\ reply \in Nat

\* The blocks tile the heap: every block ends where the next one in the list
\* begins, the last one at the end of the heap, and every pointer kalloc may
\* follow leads to an intact header, whatever callers write into their memory.
Tiling ==
  /\ {HeapStart, free_ptr} \subseteq Blocks
  /\ \A a \in Blocks :
       LET end == a + header[a].size
       IN  IF header[a].next = Null
             THEN end = HeapEnd
             ELSE header[a].next = end /\ end \in Blocks

\* The search of kalloc never finds a block: as nothing is freed, the block at
\* free_ptr, which was just found too small, is the only free one.
SearchIsFutile == pc = "search" /\ ptr \in Blocks => ~Fits(ptr, want)

\* The comment in kalloc: a block is taken when it is "large enough".  Then the
\* header split_block writes behind the split lies in the block that was split.
HeadersInsideHeap == \A a \in Blocks : a + HeaderWords <= HeapEnd

\* Every call returns; the list has no cycle.
KallocReturns == (pc # "idle") ~> (pc = "idle")

\* The inductive invariant.
OnlyFreeBlock ==
  /\ \A a \in Blocks : header[a].status = BLOCK_FREE <=> a = free_ptr
  /\ header[free_ptr].next = Null

BlocksApart ==
  /\ \A a \in Blocks : a <= free_ptr
  /\ \A a, b \in Blocks : a < b => a + header[a].size <= b
  /\ \A a \in UsedBlocks : header[a].size \in Requests

NoHoles ==
  \A w \in HeapStart .. free_ptr - 1 :
    \E a \in UsedBlocks : a <= w /\ w < a + header[a].size

IInv ==
  /\ TypeOK
  /\ Tiling
  /\ OnlyFreeBlock
  /\ BlocksApart
  /\ NoHoles
  /\ pc = "idle" <=> want = 0
  /\ pc = "search" => ptr \in Blocks \cup {Null} /\ ~Fits(free_ptr, want)

------------------------------------------------------------------------------
Grants == {[start |-> a, size |-> header[a].size] : a \in UsedBlocks}

Abstract == INSTANCE Allocator WITH grants <- Grants

\* kalloc hands out disjoint extents of the heap and refuses a request only when
\* the heap has no room for it.
ImplementsAllocator == Abstract!Spec
=============================================================================
