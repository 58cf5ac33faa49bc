----------------------------- MODULE MCIoUring -----------------------------
(* Model checking of IoUring: addresses are interchangeable. *)
EXTENDS IoUring, TLC

SessionSymmetry == Permutations(Sessions)
=============================================================================
