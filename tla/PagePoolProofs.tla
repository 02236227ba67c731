--------------------------- MODULE PagePoolProofs ----------------------------
(***************************************************************************)
(* Facts about the search of pmm_allocate, for bitmaps of every length.    *)
(***************************************************************************)
EXTENDS PagePool, WellFoundedInduction, TLAPS

\* A set of numbers that is not empty has a least one.
LEMMA LeastNumber ==
  ASSUME NEW S \in SUBSET Nat, S # {}
  PROVE  \E m \in S : \A n \in S : m <= n
<1> DEFINE R == OpToRel(<, Nat)
<1>1. IsWellFoundedOn(R, Nat)
  BY NatLessThanWellFounded
<1>2. \A m, n \in Nat : m < n => <<m, n>> \in R
  BY DEF OpToRel
<1> HIDE DEF R
<1>3. PICK m \in S : \A n \in S : ~ (<<n, m>> \in R)
  BY <1>1, WFMin, Zenon
<1>4. \A n \in S : m <= n
  <2> TAKE n \in S
  <2>1. m \in Nat /\ n \in Nat /\ ~ (n < m)
    BY <1>2, <1>3
  <2> QED
    BY <2>1
<1> QED
  BY <1>4

\* What holds of the first number of a range, and of each next one, holds of all:
\* induction for the members of a given set.
LEMMA StepByStep ==
  ASSUME NEW a \in Nat, NEW b \in Nat, NEW S,
         a \in S, \A n \in a .. b - 1 : n \in S => n + 1 \in S
  PROVE  \A n \in a .. b : n \in S
<1> DEFINE Bad == {n \in a .. b : n \notin S}
<1>1. SUFFICES ASSUME Bad # {} PROVE FALSE
  OBVIOUS
<1>2. PICK m \in Bad : \A n \in Bad : m <= n
  <2>1. Bad \in SUBSET Nat
    OBVIOUS
  <2> QED
    BY <1>1, <2>1, LeastNumber
<1>3. m \in a .. b /\ m # a
  BY <1>2
<1>4. m - 1 \in a .. b - 1 /\ (m - 1) + 1 = m /\ m - 1 \notin Bad
  BY <1>2, <1>3
<1> QED
  BY <1>2, <1>4

\* The loop stops at a free page, and no page before it is free.
LEMMA FirstFreeIsFree ==
  ASSUME NEW bitmap, DOMAIN bitmap \subseteq Nat, FreePages(bitmap) # {}
  PROVE  /\ FirstFree(bitmap) \in DOMAIN bitmap
         /\ bitmap[FirstFree(bitmap)] = 0
         /\ \A i \in FreePages(bitmap) : FirstFree(bitmap) <= i
<1>1. FreePages(bitmap) \in SUBSET Nat
  BY DEF FreePages
<1>2. \E i \in FreePages(bitmap) : \A j \in FreePages(bitmap) : i <= j
  BY <1>1, LeastNumber
<1>3. /\ FirstFree(bitmap) \in FreePages(bitmap)
      /\ \A j \in FreePages(bitmap) : FirstFree(bitmap) <= j
  BY <1>2 DEF FirstFree
<1> QED
  BY <1>3 DEF FreePages

\* The call marks that page and no other one.
LEMMA TakenMarks ==
  ASSUME NEW bitmap, DOMAIN bitmap \subseteq Nat, FreePages(bitmap) # {}
  PROVE  /\ DOMAIN Taken(bitmap) = DOMAIN bitmap
         /\ \A i \in DOMAIN bitmap :
              Taken(bitmap)[i] = IF i = FirstFree(bitmap) THEN 1 ELSE bitmap[i]
BY FirstFreeIsFree DEF Taken
=============================================================================
