--------------------------- MODULE MCControlLoop ---------------------------
(***************************************************************************)
(* Instances of ControlLoop for TLC.                                       *)
(***************************************************************************)
EXTENDS ControlLoop

\* An empty pool, two other sizes, and one the handler refuses.
MCSizes == {-1, 0, 2}
=============================================================================
