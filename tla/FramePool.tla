----------------------------- MODULE FramePool -----------------------------
(***************************************************************************)
(* What the physical frame allocator of kernel/mm/frame.c promises to the  *)
(* code that calls get_frame() and free_frame(): a frame of usable memory  *)
(* has at most one owner, and get_frame() answers 0 only when every usable *)
(* frame has one.  The promise ends with the free_frame() call that breaks *)
(* the free list.  FrameAlloc is shown to implement this module.           *)
(***************************************************************************)
EXTENDS Naturals

CONSTANT Pool    \* the frames of usable memory above the kernel image

VARIABLES owned, \* frames handed out and not yet returned
          ret,   \* the last answer of get_frame(), 0 for "no frame"
          sound  \* the promise still stands

poolVars == <<owned, ret, sound>>

PoolInit == owned = {} /\ ret = 0 /\ sound = TRUE

Get == \E f \in Pool \ owned : owned' = owned \cup {f} /\ ret' = f

GetFails == Pool \subseteq owned /\ ret' = 0 /\ UNCHANGED owned

Put == \E f \in owned : owned' = owned \ {f} /\ UNCHANGED ret

\* Only a return can end the promise, and that call itself still keeps it.
PoolNext == \/ sound /\ sound' /\ (Get \/ GetFails \/ Put)
            \/ sound /\ ~sound' /\ Put
            \/ ~sound /\ ~sound'

PoolSpec == PoolInit /\ [][PoolNext]_poolVars
============================================================================
