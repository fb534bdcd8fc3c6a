------------------------------ MODULE MCBuddy ------------------------------
(* A small instance of Buddy for TLC, a heap of eight leaves of two bytes: less *)
(* than a leaf, a block of each level, exact or rounded up, and one byte more   *)
(* than the heap, whose rounded size reaches the sign bit.                      *)
EXTENDS Buddy

MCSizes == {1, 2, 3, 8, 16, 17}
=============================================================================
