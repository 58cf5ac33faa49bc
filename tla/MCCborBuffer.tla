---------------------------- MODULE MCCborBuffer ----------------------------
(* Model checking of CborItem and CborBuffer: Item objects are              *)
(* interchangeable, and so are the addresses of items.                      *)
EXTENDS CborBuffer, TLC

ItemSymmetry == Permutations(Objects) \cup Permutations(Cells)
=============================================================================
