------------------------------ MODULE MCEngine ------------------------------
(* A small instance of Engine for TLC: heaps of up to MaxOpps items, so that
   both children of a node and a third level of the heap occur. *)
EXTENDS Engine
=============================================================================
