---------------------------- MODULE MCFrameAlloc ----------------------------
(* A small instance of FrameAlloc for TLC. *)
EXTENDS FrameAlloc

\* The first area lies below the kernel, which ends in the hole behind it; the
\* two areas above it have a hole between them.
MCAreas == <<[begin |-> 0, end |-> 1], [begin |-> 3, end |-> 5],
             [begin |-> 6, end |-> 8]>>
=============================================================================
