------------------------------ MODULE HeapPool ------------------------------
(***************************************************************************)
(* What the kernel heap of kernel/mm/buddy.c promises to the callers of    *)
(* kalloc(), krealloc() and kfree(): a block is of the smallest size that  *)
(* holds the request and aligned to it, two blocks in use never overlap,   *)
(* and a request is refused only when no aligned block of its size is      *)
(* free.  Buddy is shown to implement this module.                         *)
(***************************************************************************)
EXTENDS Integers

CONSTANTS MaxLevel, \* the level of the smallest blocks; level 0 is the heap
          NULL

VARIABLES live,     \* blocks in use
          asked,    \* the level of the last request, -1 for more than the heap
          ret       \* its answer

poolVars == <<live, asked, ret>>

Width(l)   == 2 ^ (MaxLevel - l)
Units(b)   == b.addr .. (b.addr + Width(b.level) - 1)
Blocks(l)  == {[addr |-> i * Width(l), level |-> l] : i \in 0 .. (2 ^ l - 1)}
Free(l)    == {b \in Blocks(l) : \A c \in live : Units(b) \cap Units(c) = {}}

PoolInit == live = {} /\ asked = -1 /\ ret = NULL

Allocate(l) == \E b \in Free(l) : live' = live \cup {b} /\ ret' = b.addr

Refuse(l) == Free(l) = {} /\ ret' = NULL /\ UNCHANGED live

\* krealloc() of a block: a new one is taken before the old one is released,
\* unless the old one has the right size.
Exchange(l) == \E b \in Free(l), c \in live :
                  live' = (live \cup {b}) \ {c} /\ ret' = b.addr

Keep(l) == \E b \in live : b.level = l /\ ret' = b.addr /\ UNCHANGED live

TooLarge == asked' = -1 /\ ret' = NULL /\ UNCHANGED live

Release == \E b \in live : live' = live \ {b} /\ UNCHANGED <<asked, ret>>

PoolNext == \/ \E l \in 0 .. MaxLevel : /\ asked' = l
                                       /\ (Allocate(l) \/ Refuse(l) \/ Exchange(l) \/ Keep(l))
            \/ TooLarge \/ Release

PoolSpec == PoolInit /\ [][PoolNext]_poolVars
=============================================================================
