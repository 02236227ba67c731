----------------------------- MODULE HeapProofs -----------------------------
(***************************************************************************)
(* For every heap and every set of requests above the size of a header:    *)
(* IInv is an invariant of the heap, and the heap implements Allocator.    *)
(***************************************************************************)
EXTENDS Heap, TLAPS

\* What the invariant says of any two blocks, in one place.
LEMMA BlockFacts ==
  ASSUME IInv
  PROVE  /\ HeapStart \in Nat \ {0} /\ HeapEnd \in Nat
         /\ free_ptr \in Blocks
         /\ \A a \in Blocks : /\ a \in Nat /\ HeapStart <= a /\ a < HeapEnd
                              /\ a <= free_ptr
                              /\ header[a] \in Header
                              /\ header[a].size \in Nat \ {0}
                              /\ header[a].status \in {BLOCK_FREE, BLOCK_USED}
                              /\ header[a].status = BLOCK_FREE <=> a = free_ptr
                              /\ a \in UsedBlocks <=> a # free_ptr
         /\ \A a \in UsedBlocks : header[a].size > HeaderWords
         /\ free_ptr + header[free_ptr].size = HeapEnd
  BY HeapAssumption DEF IInv, TypeOK, Tiling, OnlyFreeBlock, BlocksApart, Blocks,
     UsedBlocks, Header, Addresses, HeapEnd, BLOCK_FREE, BLOCK_USED, Null

LEMMA RequestFacts ==
  ASSUME IInv, pc # "idle"
  PROVE  want \in Requests /\ want \in Nat /\ want > HeaderWords
  BY HeapAssumption DEF IInv, TypeOK, HeaderWords

\* Only the block at free_ptr can satisfy a request.
LEMMA FitsOnlyFree ==
  ASSUME IInv, NEW p \in Blocks, Fits(p, want)
  PROVE  p = free_ptr
  BY BlockFacts DEF Fits

\* A split adds one header, behind the block that was free, and disturbs none.
LEMMA SplitFacts ==
  ASSUME IInv, pc # "idle", Fits(free_ptr, want), Split(free_ptr)
  PROVE  LET rest == free_ptr + want
         IN  /\ rest \notin Blocks /\ rest \in Addresses
             /\ Blocks' = Blocks \cup {rest}
             /\ header' \in [Blocks' -> Header]
             /\ header'[rest] = [size |-> header[free_ptr].size - want,
                                 status |-> BLOCK_FREE, next |-> Null]
             /\ header'[free_ptr] = [size |-> want, status |-> BLOCK_USED,
                                     next |-> rest]
             /\ \A b \in Blocks \ {free_ptr} : header'[b] = header[b]
             /\ free_ptr' = rest
<1> DEFINE p == free_ptr
           rest == p + want
           behind == [size |-> header[p].size - want, status |-> BLOCK_FREE,
                      next |-> Null]
           front == [size |-> want, status |-> BLOCK_USED, next |-> rest]
<1>1. want \in Requests /\ want \in Nat /\ want > HeaderWords
  BY RequestFacts
<1>2. p \in Blocks /\ p \in Nat /\ header[p].size \in Nat /\ header[p].size > want
      /\ p + header[p].size = HeapEnd /\ HeapStart <= p /\ HeapEnd \in Nat
  BY BlockFacts DEF Fits
<1>3. Remainder(header[p], want) = behind
  BY DEF Remainder, IInv, OnlyFreeBlock
<1>4. header' = WithHeader(WithHeader(header, rest, behind), p, front)
      /\ free_ptr' = rest
  BY <1>3 DEF Split, SplitPoint, FreeAfterSplit
<1>5. rest \notin Blocks /\ rest \in Addresses /\ rest \in Nat
  <2>1. p < rest /\ rest < HeapEnd
    BY <1>1, <1>2 DEF HeaderWords
  <2> QED
    BY <2>1, <1>1, <1>2, BlockFacts DEF Addresses
<1>6. \A b \in Blocks : b + HeaderWords <= rest
  BY <1>1, <1>2, BlockFacts DEF HeaderWords
<1>7. \A b \in Blocks \ {p} : b + HeaderWords <= p
  <2> SUFFICES ASSUME NEW b \in Blocks \ {p} PROVE b + HeaderWords <= p
    OBVIOUS
  <2>1. b \in UsedBlocks /\ b \in Nat /\ b < p /\ header[b].size \in Nat
        /\ header[b].size > HeaderWords
    BY BlockFacts
  <2>2. b + header[b].size <= p
    BY <2>1, <1>2 DEF IInv, BlocksApart
  <2> QED
    BY <2>1, <2>2, <1>2 DEF HeaderWords
<1>8. Overwritten(header, rest, rest + HeaderWords) = [a \in Blocks |-> header[a]]
  BY <1>6 DEF Overwritten, Blocks
<1> DEFINE h1 == [b \in Blocks \cup {rest} |-> IF b = rest THEN behind ELSE header[b]]
<1>9. WithHeader(header, rest, behind) = h1
  BY <1>8, <1>5 DEF WithHeader
<1>10. {b \in DOMAIN h1 : b + HeaderWords <= p \/ p + HeaderWords <= b}
         = (Blocks \cup {rest}) \ {p}
  <2>1. ~(p + HeaderWords <= p) /\ p + HeaderWords <= rest
    BY <1>1, <1>2 DEF HeaderWords
  <2> QED
    BY <2>1, <1>7, <1>5, <1>2
<1> DEFINE h2 == [a \in (Blocks \cup {rest}) \ {p} |-> h1[a]]
<1>11. Overwritten(h1, p, p + HeaderWords) = h2
  BY <1>10 DEF Overwritten
<1>12. header' = [b \in Blocks \cup {rest} |->
                    IF b = p THEN front ELSE IF b = rest THEN behind ELSE header[b]]
  <2>1. header' = WithHeader(h1, p, front)
    BY <1>4, <1>9
  <2>2. header' = [b \in DOMAIN h2 \cup {p} |-> IF b = p THEN front ELSE h2[b]]
    BY <2>1, <1>11 DEF WithHeader
  <2>3. DOMAIN h2 \cup {p} = Blocks \cup {rest}
    BY <1>2
  <2> QED
    BY <2>2, <2>3, <1>5
<1>13. Blocks' = Blocks \cup {rest}
  BY <1>12 DEF Blocks
<1>14. behind \in Header /\ front \in Header
  <2>1. header[p].size - want \in 1 .. HeapSize /\ want \in 1 .. HeapSize
    <3>1. header[p].size \in 1 .. HeapSize
      BY BlockFacts DEF Header
    <3> QED
      BY <3>1, <1>1, <1>2, HeapAssumption DEF HeaderWords
  <2> QED
    BY <2>1, <1>5 DEF Header, BLOCK_FREE, BLOCK_USED
<1>15. header' \in [Blocks' -> Header]
  BY <1>12, <1>13, <1>14, BlockFacts
<1>16. p # rest
  BY <1>2, <1>5
<1> QED
  BY <1>2, <1>4, <1>5, <1>12, <1>13, <1>15, <1>16

\* A payload ends inside its block, so no caller reaches a header.
LEMMA WriteFacts ==
  ASSUME IInv, NEW a \in UsedBlocks, Write(a)
  PROVE  header' = header
<1>1. a \in Blocks /\ a \in Nat /\ header[a].size \in Nat /\ header[a].size > HeaderWords
  BY BlockFacts DEF UsedBlocks
<1>2. PayloadEnd(a) <= a + header[a].size /\ PayloadEnd(a) \in Nat
  BY <1>1 DEF PayloadEnd, HeaderWords
<1>3. ASSUME NEW b \in Blocks
      PROVE  b + HeaderWords <= a + HeaderWords \/ PayloadEnd(a) <= b
  <2>1. b \in Nat /\ (a < b => a + header[a].size <= b)
    BY <1>1, BlockFacts DEF IInv, BlocksApart
  <2> QED
    BY <2>1, <1>1, <1>2 DEF HeaderWords
<1>4. Overwritten(header, a + HeaderWords, PayloadEnd(a)) = [b \in Blocks |-> header[b]]
  BY <1>3 DEF Overwritten, Blocks
<1>5. header = [b \in Blocks |-> header[b]]
  BY DEF IInv, TypeOK
<1> QED
  BY <1>4, <1>5 DEF Write

LEMMA InitInv == Init => IInv
<1> SUFFICES ASSUME Init PROVE IInv
  OBVIOUS
<1>1. /\ Blocks = {HeapStart} /\ header[HeapStart].size = HeapSize
      /\ header[HeapStart].status = BLOCK_FREE /\ header[HeapStart].next = Null
      /\ free_ptr = HeapStart /\ pc = "idle" /\ want = 0 /\ ptr = Null /\ reply = Null
  BY DEF Init, Blocks
<1>2. UsedBlocks = {}
  BY <1>1 DEF UsedBlocks, BLOCK_FREE, BLOCK_USED
<1>3. HeapStart \in Addresses
  BY HeapAssumption DEF Addresses, HeapEnd
<1>4. header \in [Blocks -> Header]
  <2>1. HeapSize \in 1 .. HeapSize
    BY HeapAssumption
  <2>2. [size |-> HeapSize, status |-> BLOCK_FREE, next |-> Null] \in Header
    BY <2>1 DEF Header, BLOCK_FREE, Null
  <2> QED
    BY <2>2 DEF Init, Blocks
<1>5. TypeOK
  BY <1>1, <1>3, <1>4 DEF TypeOK, Null
<1>6. Tiling /\ OnlyFreeBlock /\ BlocksApart
  BY <1>1, <1>2, HeapAssumption DEF Tiling, OnlyFreeBlock, BlocksApart, HeapEnd
<1>7. NoHoles
  BY <1>1, HeapAssumption DEF NoHoles
<1> QED
  BY <1>1, <1>5, <1>6, <1>7 DEF IInv

\* The invariant survives a split of the free block.
LEMMA SplitInv ==
  ASSUME IInv, pc # "idle", Fits(free_ptr, want), Split(free_ptr)
  PROVE  IInv'
<1> DEFINE p == free_ptr
           rest == p + want
<1>1. want \in Requests /\ want \in Nat /\ want > HeaderWords
  BY RequestFacts
<1>2. /\ rest \notin Blocks /\ rest \in Addresses /\ Blocks' = Blocks \cup {rest}
      /\ header' \in [Blocks' -> Header]
      /\ header'[rest].size = header[p].size - want
      /\ header'[rest].status = BLOCK_FREE /\ header'[rest].next = Null
      /\ header'[p].size = want
      /\ header'[p].status = BLOCK_USED /\ header'[p].next = rest
      /\ \A b \in Blocks \ {p} : header'[b] = header[b]
      /\ free_ptr' = rest
  BY SplitFacts
<1>3. pc' = "idle" /\ want' = 0 /\ ptr' = Null /\ reply' = p + HeaderWords
  BY DEF Split
<1>4. p \in Blocks /\ p \in Nat /\ rest \in Nat /\ p < rest
      /\ header[p].size \in Nat /\ p + header[p].size = HeapEnd
      /\ p # Null /\ rest # Null /\ HeapStart \in Nat /\ HeapStart <= p /\ HeapEnd \in Nat
  BY <1>1, BlockFacts DEF HeaderWords, Null
<1>5. \A b \in Blocks : b \in Nat /\ b <= p /\ header[b].size \in Nat
  BY BlockFacts
<1>6. UsedBlocks' = UsedBlocks \cup {p}
  <2>1. UsedBlocks' = {a \in Blocks \cup {rest} : header'[a].status = BLOCK_USED}
    BY <1>2 DEF UsedBlocks
  <2>2. BLOCK_FREE # BLOCK_USED
    BY DEF BLOCK_FREE, BLOCK_USED
  <2>3. ASSUME NEW a \in Blocks \cup {rest}
        PROVE  header'[a].status = BLOCK_USED <=> a \in UsedBlocks \cup {p}
    <3>1. CASE a = rest
      BY <3>1, <2>2, <1>2, <1>4 DEF UsedBlocks
    <3>2. CASE a = p
      BY <3>2, <1>2
    <3>3. CASE a \in Blocks \ {p}
      BY <3>3, <1>2 DEF UsedBlocks
    <3> QED
      BY <3>1, <3>2, <3>3
  <2> QED
    BY <2>1, <2>3, <1>4 DEF UsedBlocks
<1>7. TypeOK'
  <2>1. Blocks' \subseteq Addresses'
    BY <1>2 DEF IInv, TypeOK, Addresses, HeapEnd
  <2>2. (p + HeaderWords) \in Nat
    BY <1>4 DEF HeaderWords
  <2> QED
    BY <2>1, <2>2, <1>2, <1>3 DEF TypeOK, Null, Addresses, HeapEnd, Header
<1>8. Tiling'
  <2>1. {HeapStart, rest} \subseteq Blocks'
    BY <1>2 DEF IInv, Tiling
  <2>2. ASSUME NEW a \in Blocks'
        PROVE  IF header'[a].next = Null
                 THEN a + header'[a].size = HeapEnd
                 ELSE header'[a].next = a + header'[a].size
                      /\ a + header'[a].size \in Blocks'
    <3>1. CASE a = rest
      BY <3>1, <1>1, <1>2, <1>4
    <3>2. CASE a = p
      BY <3>2, <1>1, <1>2, <1>4
    <3>3. CASE a \in Blocks \ {p}
      BY <3>3, <1>2 DEF IInv, Tiling
    <3> QED
      BY <3>1, <3>2, <3>3, <1>2
  <2> QED
    BY <2>1, <2>2, <1>2 DEF Tiling, HeapEnd
<1>9. OnlyFreeBlock'
  <2>1. ASSUME NEW a \in Blocks'
        PROVE  header'[a].status = BLOCK_FREE <=> a = rest
    <3>1. CASE a = rest
      BY <3>1, <1>2
    <3>2. CASE a = p
      BY <3>2, <1>2, <1>4 DEF BLOCK_FREE, BLOCK_USED
    <3>3. CASE a \in Blocks \ {p}
      BY <3>3, <1>2 DEF IInv, OnlyFreeBlock
    <3> QED
      BY <3>1, <3>2, <3>3, <1>2
  <2> QED
    BY <2>1, <1>2 DEF OnlyFreeBlock
<1>10. BlocksApart'
  <2>1. \A a \in Blocks' : a <= rest
    BY <1>2, <1>4, <1>5
  <2>2. ASSUME NEW a \in Blocks', NEW b \in Blocks', a < b
        PROVE  a + header'[a].size <= b
    <3>0. b \in Nat /\ (b <= p \/ b = rest)
      BY <1>2, <1>4, <1>5
    <3>1. CASE a = rest
      BY <3>0, <3>1, <2>2, <1>4
    <3>2. CASE a = p
      <4>1. b = rest
        BY <3>0, <3>2, <2>2, <1>4
      <4> QED
        BY <4>1, <3>2, <1>1, <1>2, <1>4
    <3>3. CASE a \in Blocks \ {p}
      <4>1. a + header[a].size <= p
        BY <3>3, <1>4, <1>5 DEF IInv, BlocksApart
      <4>2. b \in Blocks => a + header[a].size <= b
        BY <3>3, <2>2 DEF IInv, BlocksApart
      <4> QED
        BY <3>3, <4>1, <4>2, <1>2, <1>4, <1>5
    <3> QED
      BY <3>1, <3>2, <3>3, <1>2
  <2>3. \A a \in UsedBlocks' : header'[a].size \in Requests
    <3>1. \A a \in UsedBlocks : a \in Blocks /\ a # p
      BY BlockFacts DEF UsedBlocks
    <3> QED
      BY <3>1, <1>1, <1>2, <1>6 DEF IInv, BlocksApart
  <2> QED
    BY <2>1, <2>2, <2>3, <1>2 DEF BlocksApart
<1>11. NoHoles'
  <2>1. ASSUME NEW w \in HeapStart .. rest - 1
        PROVE  \E a \in UsedBlocks' : a <= w /\ w < a + header'[a].size
    <3>1. CASE w < p
      <4>1. PICK a \in UsedBlocks : a <= w /\ w < a + header[a].size
        BY <3>1, <1>4 DEF IInv, NoHoles
      <4>2. a \in Blocks /\ a # p
        BY BlockFacts DEF UsedBlocks
      <4> QED
        BY <4>1, <4>2, <1>2, <1>6
    <3>2. CASE p <= w
      BY <3>2, <1>1, <1>2, <1>4, <1>6
    <3> QED
      BY <3>1, <3>2, <1>4
  <2> QED
    BY <2>1, <1>2 DEF NoHoles
<1> QED
  BY <1>3, <1>7, <1>8, <1>9, <1>10, <1>11 DEF IInv

LEMMA StepInv ==
  ASSUME IInv, [Next]_vars
  PROVE  IInv'
<1>1. ASSUME NEW n \in Requests, Call(n) PROVE IInv'
  <2>1. n \in Nat /\ n # 0
    BY HeapAssumption DEF HeaderWords
  <2> QED
    BY <1>1, <2>1 DEF Call, IInv, TypeOK, Tiling, OnlyFreeBlock, BlocksApart, NoHoles,
       Blocks, UsedBlocks, Addresses, HeapEnd, Header
<1>2. CASE TakeFree
  BY <1>2, SplitInv DEF TakeFree
<1>3. CASE StartSearch
  <2>1. HeapStart \in Blocks /\ HeapStart \in Addresses
    BY DEF IInv, Tiling, TypeOK
  <2>2. want # 0 /\ pc = "check" /\ pc' = "search" /\ ptr' = HeapStart
        /\ ~Fits(free_ptr, want)
        /\ UNCHANGED <<header, free_ptr, want, reply>>
    BY <1>3 DEF StartSearch, IInv
  <2> QED
    BY <2>1, <2>2 DEF IInv, TypeOK, Tiling, OnlyFreeBlock, BlocksApart,
       NoHoles, Blocks, UsedBlocks, Addresses, HeapEnd, Header, Fits
<1>4. CASE Search
  <2>1. ~Fits(ptr, want)
    BY <1>4, FitsOnlyFree DEF Search, IInv
  <2>2. ptr' = header[ptr].next /\ UNCHANGED <<header, free_ptr, pc, want, reply>>
        /\ pc = "search" /\ ptr \in Blocks
    BY <1>4, <2>1 DEF Search, SearchNext
  <2>3. ptr' \in Blocks \cup {Null} /\ ptr' \in Addresses \cup {Null}
    BY <2>2 DEF IInv, Tiling, TypeOK
  <2> QED
    BY <2>2, <2>3 DEF IInv, TypeOK, Tiling, OnlyFreeBlock, BlocksApart,
       NoHoles, Blocks, UsedBlocks, Addresses, HeapEnd, Header, Fits
<1>5. CASE GiveUp
  BY <1>5 DEF GiveUp, IInv, TypeOK, Tiling, OnlyFreeBlock, BlocksApart,
     NoHoles, Blocks, UsedBlocks, Addresses, HeapEnd, Header, Null
<1>6. ASSUME NEW a \in UsedBlocks, Write(a) PROVE IInv'
  <2>1. UNCHANGED vars
    BY <1>6, WriteFacts DEF Write, vars
  <2> QED
    BY <2>1 DEF vars, IInv, TypeOK, Tiling, OnlyFreeBlock, BlocksApart,
       NoHoles, Blocks, UsedBlocks, Addresses, HeapEnd, Header, Fits
<1>7. CASE UNCHANGED vars
  BY <1>7 DEF vars, IInv, TypeOK, Tiling, OnlyFreeBlock, BlocksApart,
     NoHoles, Blocks, UsedBlocks, Addresses, HeapEnd, Header, Fits
<1> QED
  BY <1>1, <1>2, <1>3, <1>4, <1>5, <1>6, <1>7 DEF Next

\* Whatever is asked of it and whatever callers write into their blocks, the
\* list of kalloc tiles the heap and its only free block is the one at free_ptr.
THEOREM HeapInvariant == Spec => []IInv
<1>1. IInv /\ [Next]_vars => IInv'
  BY StepInv
<1> QED
  BY InitInv, <1>1, PTL DEF Spec

\* Every pointer kalloc may follow leads to an intact header, and every block ends
\* where the next one begins.
THEOREM TilingHolds == Spec => []Tiling
<1>1. IInv => Tiling
  BY DEF IInv
<1> QED
  BY <1>1, HeapInvariant, PTL

\* The search loop of kalloc runs over the whole list and never takes a block: it
\* starts when the only free block is too small.
THEOREM SearchIsFutileHolds == Spec => []SearchIsFutile
<1>1. IInv => SearchIsFutile
  <2> SUFFICES ASSUME IInv, pc = "search", ptr \in Blocks, Fits(ptr, want)
               PROVE  FALSE
    BY DEF SearchIsFutile
  <2>1. ptr = free_ptr
    BY FitsOnlyFree
  <2> QED
    BY <2>1 DEF IInv
<1> QED
  BY <1>1, HeapInvariant, PTL

------------------------------------------------------------------------------
\* Adding a grant: the extents in use after a split.
LEMMA SplitGrants ==
  ASSUME IInv, pc # "idle", Fits(free_ptr, want), Split(free_ptr)
  PROVE  Grants' = Grants \cup {[start |-> free_ptr, size |-> want]}
<1> DEFINE p == free_ptr
           rest == p + want
<1>1. /\ rest \notin Blocks /\ Blocks' = Blocks \cup {rest}
      /\ header'[rest].status = BLOCK_FREE
      /\ header'[p].size = want /\ header'[p].status = BLOCK_USED
      /\ \A b \in Blocks \ {p} : header'[b] = header[b]
  BY SplitFacts
<1>2. p \in Blocks /\ p \notin UsedBlocks
  BY BlockFacts
<1>3. \A a : a \in UsedBlocks' <=> a \in UsedBlocks \cup {p}
  <2>1. BLOCK_FREE # BLOCK_USED
    BY DEF BLOCK_FREE, BLOCK_USED
  <2>2. \A a : a \in UsedBlocks' <=> a \in Blocks' /\ header'[a].status = BLOCK_USED
    BY DEF UsedBlocks
  <2>3. \A a : a \in UsedBlocks <=> a \in Blocks /\ header[a].status = BLOCK_USED
    BY DEF UsedBlocks
  <2>4. ASSUME NEW a PROVE a \in UsedBlocks' <=> a \in UsedBlocks \cup {p}
    <3>1. CASE a = rest
      BY <3>1, <2>1, <2>2, <2>3, <1>1, <1>2
    <3>2. CASE a = p
      BY <3>2, <2>2, <1>1, <1>2
    <3>3. CASE a # rest /\ a # p
      BY <3>3, <2>2, <2>3, <1>1
    <3> QED
      BY <3>1, <3>2, <3>3
  <2> QED
    BY <2>4
<1>4. \A a \in UsedBlocks : header'[a].size = header[a].size
  BY <1>1, <1>2 DEF UsedBlocks
<1>5. ASSUME NEW g
      PROVE  g \in Grants' <=> g \in Grants \cup {[start |-> p, size |-> want]}
  <2>1. g \in Grants' <=> \E a \in UsedBlocks' : g = [start |-> a, size |-> header'[a].size]
    BY DEF Grants
  <2>2. g \in Grants <=> \E a \in UsedBlocks : g = [start |-> a, size |-> header[a].size]
    BY DEF Grants
  <2> QED
    BY <2>1, <2>2, <1>1, <1>3, <1>4
<1> QED
  BY <1>5

\* A free extent of the abstract heap that does not reach its end starts at
\* free_ptr or behind it, and ends in the free block.
LEMMA NoRoom ==
  ASSUME IInv, pc # "idle", ~Fits(free_ptr, want),
         NEW a \in Addresses, a + want < HeapEnd
  PROVE  ~Abstract!Vacant(a, want)
<1>1. want \in Nat /\ want > 0
  BY RequestFacts DEF HeaderWords
<1>2. /\ a \in Nat /\ HeapStart <= a /\ HeapStart \in Nat
      /\ free_ptr \in Nat /\ header[free_ptr].size \in Nat
      /\ free_ptr + header[free_ptr].size = HeapEnd
      /\ header[free_ptr].status = BLOCK_FREE /\ free_ptr \in Blocks
  BY BlockFacts DEF Addresses
<1>3. header[free_ptr].size <= want
  BY <1>1, <1>2 DEF Fits
<1>4. a < free_ptr
  BY <1>1, <1>2, <1>3
<1>5. PICK b \in UsedBlocks : b <= a /\ a < b + header[b].size
  BY <1>2, <1>4 DEF IInv, NoHoles
<1>6. b \in Nat /\ header[b].size \in Nat
  BY BlockFacts DEF UsedBlocks
<1>7. [start |-> b, size |-> header[b].size] \in Grants
  BY DEF Grants
<1>8. ~(a + want <= b) /\ ~(b + header[b].size <= a)
  BY <1>1, <1>2, <1>5, <1>6
<1> QED
  BY <1>7, <1>8 DEF Abstract!Vacant

LEMMA InitRefines == Init => Abstract!Init
<1> SUFFICES ASSUME Init PROVE Abstract!Init
  OBVIOUS
<1>1. UsedBlocks = {}
  BY DEF Init, UsedBlocks, Blocks, BLOCK_FREE, BLOCK_USED
<1> QED
  BY <1>1 DEF Init, Abstract!Init, Grants

LEMMA StepRefines ==
  ASSUME IInv, [Next]_vars
  PROVE  [Abstract!Next]_Abstract!vars
<1> USE DEF Abstract!vars
<1>1. ASSUME NEW n \in Requests, Call(n) PROVE Abstract!Next
  <2>1. want = 0 /\ want' = n /\ reply' = reply
    BY <1>1 DEF Call, IInv
  <2>2. Grants' = Grants
    BY <1>1 DEF Call, Grants, UsedBlocks, Blocks
  <2> QED
    BY <2>1, <2>2 DEF Abstract!Next, Abstract!Ask
<1>2. CASE TakeFree
  <2>1. pc # "idle" /\ Fits(free_ptr, want) /\ Split(free_ptr)
    BY <1>2 DEF TakeFree
  <2>2. want # 0
    BY <2>1 DEF IInv
  <2>3. Grants' = Grants \cup {[start |-> free_ptr, size |-> want]}
    BY <2>1, SplitGrants
  <2>4. reply' = free_ptr + HeaderWords /\ want' = 0
    BY <2>1 DEF Split
  <2>5. free_ptr + want <= Abstract!HeapEnd /\ free_ptr \in HeapStart .. Abstract!HeapEnd - 1
    <3>1. free_ptr \in Blocks /\ header[free_ptr].size > want
          /\ free_ptr + header[free_ptr].size = HeapEnd
          /\ free_ptr \in Nat /\ header[free_ptr].size \in Nat
      BY <2>1, BlockFacts DEF Fits
    <3>2. want \in Nat
      BY <2>1, RequestFacts
    <3> QED
      BY <3>1, <3>2, BlockFacts, HeapAssumption DEF HeapEnd, Abstract!HeapEnd
  <2>6. Abstract!Vacant(free_ptr, want)
    <3> SUFFICES ASSUME NEW a \in UsedBlocks
                 PROVE  a + header[a].size <= free_ptr
      BY DEF Abstract!Vacant, Grants
    <3>1. a \in Blocks /\ a \in Nat /\ a <= free_ptr /\ a # free_ptr
          /\ free_ptr \in Blocks /\ free_ptr \in Nat
      BY BlockFacts DEF UsedBlocks
    <3> QED
      BY <3>1 DEF IInv, BlocksApart
  <2>7. Abstract!Grant(free_ptr)
    BY <2>2, <2>3, <2>4, <2>5, <2>6 DEF Abstract!Grant
  <2> QED
    BY <2>5, <2>7 DEF Abstract!Next
<1>3. CASE StartSearch
  BY <1>3 DEF StartSearch, Grants, UsedBlocks, Blocks
<1>4. CASE Search
  <2>1. ~Fits(ptr, want)
    BY <1>4, FitsOnlyFree DEF Search, IInv
  <2> QED
    BY <1>4, <2>1 DEF Search, Grants, UsedBlocks, Blocks
<1>5. CASE GiveUp
  <2>1. want # 0 /\ pc # "idle" /\ ~Fits(free_ptr, want)
    BY <1>5 DEF GiveUp, IInv
  <2>2. want' = 0 /\ reply' = Null /\ Grants' = Grants
    BY <1>5 DEF GiveUp, Grants, UsedBlocks, Blocks
  <2>3. \A a \in HeapStart .. Abstract!HeapEnd - 1 :
           a + want < Abstract!HeapEnd => ~Abstract!Vacant(a, want)
    BY <2>1, NoRoom DEF Addresses, HeapEnd, Abstract!HeapEnd
  <2> QED
    BY <2>1, <2>2, <2>3 DEF Abstract!Next, Abstract!Refuse
<1>6. ASSUME NEW a \in UsedBlocks, Write(a) PROVE UNCHANGED Abstract!vars
  BY <1>6, WriteFacts DEF Write, Grants, UsedBlocks, Blocks
<1>7. CASE UNCHANGED vars
  BY <1>7 DEF vars, Grants, UsedBlocks, Blocks
<1> QED
  BY <1>1, <1>2, <1>3, <1>4, <1>5, <1>6, <1>7 DEF Next

\* kalloc grants disjoint extents inside the heap and refuses a request only when
\* no free extent is larger, for every heap size and mix of requests.
THEOREM HeapImplementsAllocator == Spec => ImplementsAllocator
<1>1. IInv /\ [Next]_vars => [Abstract!Next]_Abstract!vars
  BY StepRefines
<1>2. Spec => []IInv
  BY HeapInvariant
<1> QED
  BY InitRefines, <1>1, <1>2, PTL DEF Spec, ImplementsAllocator, Abstract!Spec
=============================================================================
