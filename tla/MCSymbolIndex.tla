--------------------------- MODULE MCSymbolIndex ---------------------------
(* Instances of SymbolIndex for TLC. *)
EXTENDS SymbolIndex, TLC

CONSTANTS f1, f2, a, b, blank, w1, w2, i1, i2, i3, none
=============================================================================
