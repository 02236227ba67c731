------------------------------ MODULE PagePool ------------------------------
(***************************************************************************)
(* The search of pmm_allocate over pool.bitmap, for all its callers.       *)
(***************************************************************************)
EXTENDS Naturals

FreePages(bitmap) == {i \in DOMAIN bitmap : bitmap[i] = 0}

\* The page the loop stops at.
FirstFree(bitmap) ==
  CHOOSE i \in FreePages(bitmap) : \A j \in FreePages(bitmap) : i <= j

Taken_Unmarked(bitmap) == bitmap            \* mutant: the bit is not set
Taken(bitmap) == [bitmap EXCEPT ![FirstFree(bitmap)] = 1]
=============================================================================
