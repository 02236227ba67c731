----------------------------- MODULE Allocator -----------------------------
(***************************************************************************)
(* What callers of kalloc rely on, without any list of blocks: a granted   *)
(* extent lies inside the heap and overlaps no extent granted before, and  *)
(* a request is refused only when no free extent is larger than it.        *)
(* Nothing is ever given back.                                             *)
(***************************************************************************)
EXTENDS Integers

CONSTANTS
  HeapStart,      \* address of the first word of the heap
  HeapSize,       \* words in the heap
  Requests,       \* sizes callers ask for
  HeaderWords,    \* words in front of the payload of an extent
  Null            \* the answer to a refused request

VARIABLES
  want,           \* the request being served, 0 when there is none
  grants,         \* the extents in use, [start, size]
  reply           \* the answer to the last request

vars == <<want, grants, reply>>

HeapEnd == HeapStart + HeapSize

Vacant(a, n) == \A g \in grants : a + n <= g.start \/ g.start + g.size <= a

Init == want = 0 /\ grants = {} /\ reply = Null

Ask(n) ==
  /\ want = 0
  /\ want' = n
  /\ UNCHANGED <<grants, reply>>

Grant(a) ==
  /\ want # 0
  /\ a + want <= HeapEnd
  /\ Vacant(a, want)
  /\ grants' = grants \cup {[start |-> a, size |-> want]}
  /\ reply' = a + HeaderWords
  /\ want' = 0

Refuse ==
  /\ want # 0
  /\ \A a \in HeapStart .. HeapEnd - 1 : a + want < HeapEnd => ~Vacant(a, want)
  /\ reply' = Null
  /\ want' = 0
  /\ UNCHANGED grants

Next ==
  \/ \E n \in Requests : Ask(n)
  \/ \E a \in HeapStart .. HeapEnd - 1 : Grant(a)
  \/ Refuse

Spec == Init /\ [][Next]_vars
=============================================================================
