------------------------------ MODULE MCPages ------------------------------
(* A small instance of Pages for TLC. *)
EXTENDS Pages, TLC

CONSTANTS task1, task2

MCSpaces == {task1, task2}

\* As in create_usermode_task() the two pages need a page table each.
MCUserPages == {<<0, 0, 0, 0>>, <<0, 0, 1, 0>>}

\* One page each for the bitmaps and the blocks of the heap.
MCBitmapPages == << <<5, 4, 1, 0>> >>
MCHeapPages == << <<5, 4, 1, 1>> >>

\* User code and data, read-only data, and kernel pages in a task's space.
MCFlags == {[rw |-> TRUE, exe |-> TRUE, user |-> TRUE, immediate |-> FALSE],
            [rw |-> FALSE, exe |-> FALSE, user |-> TRUE, immediate |-> FALSE],
            [rw |-> TRUE, exe |-> FALSE, user |-> FALSE, immediate |-> TRUE]}

SpaceSymmetry == Permutations(MCSpaces)
=============================================================================
