---------------------------- MODULE AddressSpace ----------------------------
(***************************************************************************)
(* What callers of map_page rely on: an address space is a partial map     *)
(* from pages to physical addresses; mapping a page that has a mapping     *)
(* changes nothing, mapping another one changes that page only.  Once the  *)
(* pool of page frames has run dry nothing is promised any more.           *)
(***************************************************************************)
EXTENDS Naturals

CONSTANTS Pages, Addresses, None

VARIABLES
  space,          \* the mapped pages and where they lead
  request,        \* [v, p] being mapped, None between two calls
  dry             \* a frame was needed when none was left

vars == <<space, request, dry>>

Nothing == [v \in {} |-> None]

Init == space = Nothing /\ request = None /\ dry = FALSE

Call(v, p) ==
  /\ ~dry /\ request = None
  /\ request' = [v |-> v, p |-> p]
  /\ UNCHANGED <<space, dry>>

Enter ==
  /\ ~dry /\ request # None
  /\ space' = IF request.v \in DOMAIN space THEN space
              ELSE [v \in DOMAIN space \cup {request.v} |->
                      IF v = request.v THEN request.p ELSE space[v]]
  /\ request' = None
  /\ UNCHANGED dry

RunDry == ~dry /\ dry' = TRUE /\ space' = Nothing /\ request' = None

Next ==
  \/ \E v \in Pages, p \in Addresses : Call(v, p)
  \/ Enter
  \/ RunDry

Spec == Init /\ [][Next]_vars
=============================================================================
