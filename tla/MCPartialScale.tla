--------------------------- MODULE MCPartialScale ---------------------------
(* Model-checking instances of PartialScale.                               *)
EXTENDS PartialScale

MCOrderIds == SellIds

=============================================================================
