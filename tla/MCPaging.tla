------------------------------ MODULE MCPaging ------------------------------
(***************************************************************************)
(* Instances of Paging for TLC: four levels of tables with two entries     *)
(* each, pages that share all, some or none of their tables, and a pool    *)
(* that lasts for them but not for the other callers too.                  *)
(***************************************************************************)
EXTENDS Paging

MCIndices == {0, 1}
MCPages == {<<0, 0, 0, 0>>, <<0, 0, 0, 1>>, <<0, 0, 1, 0>>, <<1, 0, 0, 0>>}
MCAddresses == {0, 9}
=============================================================================
