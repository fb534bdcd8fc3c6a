-------------------------------- MODULE MCIrq --------------------------------
(***************************************************************************)
(* A small instance of Irq for TLC: the main thread and two user programs, *)
(* which try the system call, the vectors of a page fault and of a device, *)
(* and one that has no gate; exceptions with and without an error code.    *)
(***************************************************************************)
EXTENDS Irq
=============================================================================
