--------------------------- MODULE MCImplicitHeap ---------------------------
(* A small instance of ImplicitHeap for TLC.                               *)
EXTENDS ImplicitHeap


=============================================================================
