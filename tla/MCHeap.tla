------------------------------- MODULE MCHeap -------------------------------
(* Instances of Heap for TLC.                                              *)
EXTENDS Heap

(* Cache 1: slabs of a page; cache 2: slabs of two pages, so that slabs    *)
(* have tail pages and a stale prev_slab; cache 3: a custom cache.         *)
MCSlabOrder == <<0, 1, 0>>
MCObjCount  == <<2, 2, 2>>

=============================================================================
