-------------------------------- MODULE Buddy --------------------------------
(***************************************************************************)
(* The kernel heap: the buddy allocator of kernel/mm/buddy.c and its       *)
(* clients kalloc(), krealloc() and kfree() of kernel/mm/alloc.c.          *)
(*                                                                         *)
(* Addresses are counted in leaves from the begin of the heap, sizes in    *)
(* bytes.  The bitmaps are sets of bit numbers, the free lists run through *)
(* the nodes that live at the begin of each free block; memory in use, or  *)
(* inside a larger free block, holds Junk, which must never be read as a   *)
(* node.                                                                   *)
(*                                                                         *)
(* `broken' names a step after which the heap's own data no longer means   *)
(* anything; the model stops there.                                        *)
(***************************************************************************)
EXTENDS Integers, Sequences, FiniteSets, FiniteSetsExt, SequencesExt

CONSTANTS MaxLevel, \* alloc->max_level
          LeafBits, \* a leaf has 2^LeafBits bytes (64)
          IntBits,  \* width of an int (32)
          Sizes,    \* the sizes callers ask for
          NULL,     \* ALLOCATOR_EMPTY
          Junk      \* contents of memory that holds no node

ASSUME LevelAssumption ==
    /\ MaxLevel \in Nat /\ LeafBits \in Nat /\ IntBits \in Nat
    /\ MaxLevel + LeafBits < IntBits - 1
    /\ Sizes \subseteq 1 .. 2 ^ (IntBits - 1)
    /\ NULL \notin Int /\ Junk \notin Int \cup {NULL}

VARIABLES heap,   \* struct allocator, with the nodes stored in the free blocks
          ret,    \* the last value kalloc() or krealloc() returned
          asked,  \* ghost: the level the last request called for
          live,   \* ghost: the blocks clients hold, with the level they asked for
          broken  \* "no", or what went wrong

vars == <<heap, ret, asked, live, broken>>

Levels    == 0 .. MaxLevel
Addresses == 0 .. (2 ^ MaxLevel - 1)

\* In leaves.
size_from_level(l) == 2 ^ (MaxLevel - l)

Bytes(leaves) == leaves * 2 ^ LeafBits

\* log2(): the number of trailing zeros, which is the logarithm of a power of
\* two only.
log2(n) == CHOOSE k \in 0 .. IntBits : n % 2 ^ (k + 1) = 2 ^ k

FloorLog(n) == CHOOSE k \in 0 .. IntBits : n \in 2 ^ k .. (2 ^ (k + 1) - 1)

\* ceil_to_power_of_two(): 1 << b is an int, so the sign bit is the largest
\* result; of a negative number the highest bit is 63, and the shift by 64
\* that follows leaves 1, as the processor takes shift counts modulo 32.  A number
\* above 2^(IntBits - 1), whose 1 << b wraps to a small power, is outside Sizes.
ceil_to_power_of_two(number) ==
    IF number < 0 THEN 1
    ELSE LET b == IF log2(number) = FloorLog(number) THEN FloorLog(number)
                                                     ELSE FloorLog(number) + 1
         IN  IF b = IntBits - 1 THEN -(2 ^ b) ELSE 2 ^ b

\* level_from_size(); sizes below a leaf get a level beyond MaxLevel.
level_from_size(size) == MaxLevel + LeafBits - log2(size)

\* The level a size calls for: that of the smallest blocks that hold it, -1
\* for more than the whole heap.
Fitting(size) == Max({-1} \cup {l \in Levels : Bytes(size_from_level(l)) >= size})

\* Mutant of unique_index: off by one.
UniqueIndexFromOne(level, index) == 2 ^ level + index

unique_index(level, index) == 2 ^ level + index - 1

index_in_level(block, level) == block \div size_from_level(level)

split_bit_index(block, level) == unique_index(level, index_in_level(block, level))

\* Two buddies share one bit, that of their parent.
allocation_bit_index(block, level) ==
    unique_index(level - 1, index_in_level(block, level) \div 2)

\* block ^ size: the other half of the parent.
calculate_buddy_address(block, level) ==
    IF index_in_level(block, level) % 2 = 0 THEN block + size_from_level(level)
                                            ELSE block - size_from_level(level)

\* util/bitmap.h
flip_bit(buffer, bit)  == SymDiff(buffer, {bit})
get_bit(buffer, bit)   == bit \in buffer
set_bit(buffer, bit)   == buffer \cup {bit}
reset_bit(buffer, bit) == buffer \ {bit}

flip_allocation_bit(h, block, level) ==
    IF level = 0 THEN h
    ELSE [h EXCEPT !.allocation = flip_bit(@, allocation_bit_index(block, level))]

get_allocation_bit(h, block, level) ==
    get_bit(h.allocation, allocation_bit_index(block, level))

JunkNode == [prev |-> Junk, next |-> Junk]

\* allocator_init(): one free block of level 0.  Its node is not written; the
\* lazily mapped heap reads as zeros there.
Init ==
    /\ heap = [free_blocks |-> [l \in Levels |-> IF l = 0 THEN 0 ELSE NULL],
               free_count  |-> [l \in Levels |-> IF l = 0 THEN 1 ELSE 0],
               free_size   |-> 2 ^ MaxLevel,
               node        |-> [a \in Addresses |-> IF a = 0 THEN [prev |-> NULL, next |-> NULL]
                                                   ELSE JunkNode],
               allocation  |-> {},
               split       |-> {}]
    /\ ret = NULL
    /\ asked = -1
    /\ live = {}
    /\ broken = "no"
-----------------------------------------------------------------------------
\* block->prev = p, when there is a block.
SetPrev(node, block, p) ==
    IF block = NULL THEN node ELSE [node EXCEPT ![block].prev = p]

\* The block that the free list of a level starts with leaves it.
\* allocator_allocate() unlinks its successor, create_block() does not.
TakeFirst(h, level) ==
    [h EXCEPT !.free_blocks[level] = h.node[h.free_blocks[level]].next,
              !.free_count[level] = @ - 1]

Unlink(h, level) ==
    [h EXCEPT !.node = SetPrev(@, h.node[h.free_blocks[level]].next, NULL)]

\* Mutant of AddFirst: the old first block is not linked back.
AddFirstForward(h, block, level) ==
    [h EXCEPT !.node[block] = [prev |-> NULL, next |-> h.free_blocks[level]],
              !.free_blocks[level] = block,
              !.free_count[level] = @ + 1]

\* A block becomes the first of the free list of its level.
AddFirst(h, block, level) ==
    LET first == h.free_blocks[level]
    IN  [h EXCEPT !.node = SetPrev([@ EXCEPT ![block] = [prev |-> NULL, next |-> first]],
                                   first, block),
                  !.free_blocks[level] = block,
                  !.free_count[level] = @ + 1]

\* split(): mark the block as split and its lower half as allocated, put the
\* upper half on the list.
split(h, block, level) ==
    LET marked == [h EXCEPT !.split = set_bit(@, split_bit_index(block, level))]
        new_block == block + size_from_level(level) \div 2
    IN  AddFirst(flip_allocation_bit(marked, block, level), new_block, level + 1)

\* Mutant of Sources: the next larger level is skipped.
SourcesAbove(h, level) == {s \in 0 .. (level - 2) : h.free_blocks[s] # NULL}

\* create_block(): the smallest larger block that is free is split until one
\* of the wanted level is left.
Sources(h, level) == {s \in 0 .. (level - 1) : h.free_blocks[s] # NULL}

create_block(h, level) ==
    LET source == Max(Sources(h, level))
        block  == h.free_blocks[source]
        after[i \in 0 .. (level - source)] ==
            IF i = 0 THEN TakeFirst(h, source) ELSE split(after[i - 1], block, source + i - 1)
    IN  after[level - source]

\* What allocator_allocate() does to the heap when there is a block to return.
HasBlock(h, level) == h.free_blocks[level] # NULL \/ Sources(h, level) # {}

BlockOf(h, level) ==
    IF h.free_blocks[level] # NULL THEN h.free_blocks[level]
    ELSE h.free_blocks[Max(Sources(h, level))]

\* Mutant of allocator_allocate: the allocation bit is not flipped.
AllocateUnmarked(h, level) ==
    LET taken == IF h.free_blocks[level] # NULL
                 THEN TakeFirst(Unlink(h, level), level)
                 ELSE create_block(h, level)
        mine == BlockOf(h, level) .. (BlockOf(h, level) + size_from_level(level) - 1)
    IN  [taken EXCEPT !.free_size = @ - size_from_level(level),
                      !.node = [a \in Addresses |-> IF a \in mine THEN JunkNode ELSE @[a]]]

allocator_allocate(h, level) ==
    LET taken == IF h.free_blocks[level] # NULL
                 THEN TakeFirst(Unlink(h, level), level)
                 ELSE create_block(h, level)
        marked == flip_allocation_bit(taken, BlockOf(h, level), level)
        mine == BlockOf(h, level) .. (BlockOf(h, level) + size_from_level(level) - 1)
    IN  [marked EXCEPT !.free_size = @ - size_from_level(level),
                       !.node = [a \in Addresses |-> IF a \in mine THEN JunkNode ELSE @[a]]]

\* remove_from_list(): a block with an empty prev is taken for the first one.
remove_from_list(h, block, level) ==
    LET n == h.node[block].next
        p == h.node[block].prev
        node == SetPrev(h.node, n, p)
    IN  [h EXCEPT !.node = IF p = NULL THEN node ELSE [node EXCEPT ![p].next = n],
                  !.free_blocks[level] = IF p = NULL THEN n ELSE @,
                  !.free_count[level] = @ - 1]

\* Mutant of MergeStep: the merged block keeps the address of the block that was
\* freed.
MergeStepInPlace(m) ==
    LET h == flip_allocation_bit(m.heap, m.block, m.level)
        buddy == calculate_buddy_address(m.block, m.level)
        bit == split_bit_index(m.block, m.level - 1)
        merged == [remove_from_list(h, buddy, m.level)
                      EXCEPT !.split = reset_bit(@, bit), !.node[Max({m.block, buddy})] = JunkNode]
    IN  CASE m.end -> m
          [] ~m.end /\ get_allocation_bit(h, m.block, m.level) ->
                [m EXCEPT !.heap = h, !.end = TRUE]
          [] OTHER -> [m EXCEPT !.heap = merged, !.level = @ - 1]

\* One turn of the loop of allocator_deallocate_level(): m carries the heap, the
\* block and the level reached; m.end is the goto.
MergeStep(m) ==
    LET h == flip_allocation_bit(m.heap, m.block, m.level)
        buddy == calculate_buddy_address(m.block, m.level)
        bit == split_bit_index(m.block, m.level - 1)
        merged == [remove_from_list(h, buddy, m.level)
                      EXCEPT !.split = reset_bit(@, bit), !.node[Max({m.block, buddy})] = JunkNode]
    IN  CASE m.end -> m
          [] ~m.end /\ get_allocation_bit(h, m.block, m.level) ->
                [m EXCEPT !.heap = h, !.end = TRUE]
          [] OTHER ->
                [heap |-> merged, block |-> Min({m.block, buddy}), level |-> m.level - 1,
                 end |-> FALSE,
                 stray |-> m.stray \/ (h.free_blocks[m.level] = buddy
                                       /\ h.node[buddy].prev # NULL)]

\* The freed block counts as free from the begin of the loop.
Merge(h, block, level) ==
    LET after[i \in 0 .. level] ==
            IF i = 0
            THEN [heap |-> [h EXCEPT !.free_size = @ + size_from_level(level)],
                  block |-> block, level |-> level, end |-> FALSE, stray |-> FALSE]
            ELSE MergeStep(after[i - 1])
    IN  after[level]

allocator_deallocate_level(h, block, level) ==
    LET m == Merge(h, block, level) IN AddFirst(m.heap, m.block, m.level)

\* The first block of a list that is removed although its prev is not empty:
\* the write goes into memory that is not a free block any more and the list
\* keeps the block.
StrayRemoval(h, block, level) == Merge(h, block, level).stray

\* allocation_level(): the lowest level whose parent block is split.
allocation_level(h, block) ==
    Max({0} \cup {l \in 1 .. MaxLevel : get_bit(h.split, split_bit_index(block, l - 1))})

allocator_allocation_size(h, block) == Bytes(size_from_level(allocation_level(h, block)))

allocator_deallocate_fast(h, block, size) ==
    allocator_deallocate_level(h, block, level_from_size(ceil_to_power_of_two(size)))
-----------------------------------------------------------------------------
\* The test against free_size compares as unsigned: a negative size is huge.
Affordable(size) == 0 < size /\ size <= Bytes(heap.free_size)

\* The level of the block allocator_allocate() looks for, and whether there is
\* one.
LevelFor(size) == level_from_size(ceil_to_power_of_two(size))

BeyondBitmaps(size) == Affordable(ceil_to_power_of_two(size)) /\ LevelFor(size) > MaxLevel

Found(size) == /\ Affordable(ceil_to_power_of_two(size))
               /\ LevelFor(size) <= MaxLevel
               /\ HasBlock(heap, LevelFor(size))

\* kalloc() that succeeds.
Allocate(size) ==
    /\ broken = "no"
    /\ Found(size)
    /\ heap' = allocator_allocate(heap, LevelFor(size))
    /\ ret' = BlockOf(heap, LevelFor(size))
    /\ asked' = Fitting(size)
    /\ live' = live \cup {[addr |-> ret', level |-> asked']}
    /\ UNCHANGED broken

\* kalloc() with more than is free in total.
Exhausted(size) ==
    /\ broken = "no"
    /\ ~Affordable(ceil_to_power_of_two(size))
    /\ ret' = NULL
    /\ asked' = Fitting(size)
    /\ UNCHANGED <<heap, live, broken>>

\* kalloc() when enough is free but no block is large enough: the allocation
\* bit of "block" NULL is flipped: by level it lies beyond both bitmaps, among the
\* split bits, or is the allocation bit of a node the request has nothing to do with.
Fragmented(size) ==
    /\ broken = "no"
    /\ Affordable(ceil_to_power_of_two(size))
    /\ ~BeyondBitmaps(size)
    /\ ~Found(size)
    /\ ret' = NULL
    /\ asked' = Fitting(size)
    /\ broken' = IF LevelFor(size) = 0 THEN "no" ELSE "null_flip"
    /\ UNCHANGED <<heap, live>>

\* kalloc() of less than a leaf: the level lies beyond the bitmaps, whose bits
\* for it are bits of something else.
BelowLeaf(size) ==
    /\ broken = "no"
    /\ BeyondBitmaps(size)
    /\ broken' = "level"
    /\ UNCHANGED <<heap, ret, asked, live>>

kalloc(size) == Allocate(size) \/ Exhausted(size) \/ Fragmented(size) \/ BelowLeaf(size)

\* kzalloc(): what was allocated is cleared; the answer NULL is written to.
kzalloc(size) ==
    \/ Allocate(size)
    \/ BelowLeaf(size)
    \/ /\ broken = "no"
       /\ ~Found(size)
       /\ ~BeyondBitmaps(size)
       /\ broken' = "fault"
       /\ UNCHANGED <<heap, ret, asked, live>>

\* kfree() of a block in use.  At level 0 the bit that tells whether the buddy
\* is allocated does not exist: the read faults.
kfree(b) ==
    LET level == allocation_level(heap, b.addr) IN
    /\ broken = "no"
    /\ UNCHANGED <<ret, asked>>
    /\ \/ /\ level = 0
          /\ broken' = "fault"
          /\ UNCHANGED <<heap, live>>
       \/ /\ level > 0
          /\ heap' = allocator_deallocate_level(heap, b.addr, level)
          /\ live' = live \ {b}
          /\ broken' = IF StrayRemoval(heap, b.addr, level) THEN "stray" ELSE "no"

\* krealloc() to a size that is rounded to the one the block has.
ReallocSame(b, size) ==
    /\ broken = "no"
    /\ ceil_to_power_of_two(size) = allocator_allocation_size(heap, b.addr)
    /\ ret' = b.addr
    /\ asked' = Fitting(size)
    /\ UNCHANGED <<heap, live, broken>>

\* krealloc() to another size: kalloc(new_size), copy current_size bytes,
\* deallocate.  A copy into a smaller block overruns it, a copy to NULL faults.
ReallocMove(b, size) ==
    LET current_size == allocator_allocation_size(heap, b.addr)
        new_size == ceil_to_power_of_two(size)
        h == allocator_allocate(heap, LevelFor(new_size))
    IN  /\ broken = "no"
        /\ new_size # current_size
        /\ \/ /\ Found(new_size)
              /\ new_size > current_size
              /\ heap' = allocator_deallocate_fast(h, b.addr, current_size)
              /\ ret' = BlockOf(heap, LevelFor(new_size))
              /\ asked' = Fitting(size)
              /\ live' = (live \cup {[addr |-> ret', level |-> asked']}) \ {b}
              /\ broken' = IF StrayRemoval(h, b.addr, level_from_size(current_size))
                           THEN "stray" ELSE "no"
           \/ /\ Found(new_size)
              /\ new_size < current_size
              /\ broken' = "overrun"
              /\ UNCHANGED <<heap, ret, asked, live>>
           \/ /\ ~Found(new_size)
              /\ broken' = IF BeyondBitmaps(new_size) THEN "level" ELSE "fault"
              /\ UNCHANGED <<heap, ret, asked, live>>

krealloc(b, size) == ReallocSame(b, size) \/ ReallocMove(b, size)

Next == \/ \E size \in Sizes : kalloc(size) \/ kzalloc(size)
        \/ \E b \in live : kfree(b) \/ \E size \in Sizes : krealloc(b, size)

Spec == Init /\ [][Next]_vars
-----------------------------------------------------------------------------
AddrOrNull == Addresses \cup {NULL}
Words      == AddrOrNull \cup {Junk}
Bits       == 0 .. (2 ^ MaxLevel - 2)
Block      == [addr : Addresses, level : Levels]

TypeOK ==
    /\ heap \in [free_blocks : [Levels -> AddrOrNull], free_count : [Levels -> Nat],
                 free_size : Nat, node : [Addresses -> [prev : Words, next : Words]],
                 allocation : SUBSET Bits, split : SUBSET Bits]
    /\ ret \in AddrOrNull
    /\ asked \in Levels \cup {-1}
    /\ live \in SUBSET Block
    /\ broken \in {"no", "null_flip", "fault", "overrun", "stray", "level"}

Intact == broken = "no"

\* The i-th element of the free list of a level, counted from 0.
Nth(level, i) ==
    LET after(b) == IF b = NULL THEN NULL ELSE heap.node[b].next
        walk[k \in 0 .. i] == IF k = 0 THEN heap.free_blocks[level] ELSE after(walk[k - 1])
    IN  walk[i]

FreeBlocks == UNION {{[addr |-> Nth(level, i), level |-> level] :
                         i \in 0 .. (heap.free_count[level] - 1)} : level \in Levels}

Units(b) == b.addr .. (b.addr + size_from_level(b.level) - 1)

\* Each free list has as many blocks as free_count says, links them both ways
\* and ends after them.  The prev of the first block is not relied on: after
\* create_block() it may be a stale address.
ListsLinked ==
    Intact => \A level \in Levels :
        LET n == heap.free_count[level] IN
        /\ Nth(level, n) = NULL
        /\ \A i \in 0 .. (n - 1) : Nth(level, i) # NULL
        /\ \A i \in 1 .. (n - 1) : heap.node[Nth(level, i)].prev = Nth(level, i - 1)

\* The blocks in use and the free blocks tile the heap: nothing is handed out
\* twice, nothing is lost, and free_size is what the free blocks add up to.
\* kfree() and krealloc() are given an address only: the level that
\* allocation_level() finds in the split bitmap is that of the smallest blocks
\* that hold the size the caller asked for.
Tiling ==
    Intact =>
        LET free == FreeBlocks
            all == live \cup free
        IN
        /\ \A b \in all : b.addr % size_from_level(b.level) = 0
        /\ \A b, c \in all : b # c => Units(b) \cap Units(c) = {}
        /\ UNION {Units(b) : b \in all} = Addresses
        /\ live \cap free = {}
        /\ \A b \in live : allocation_level(heap, b.addr) = b.level
        /\ heap.free_size = Cardinality(UNION {Units(b) : b \in free})

\* The shared bit of two buddies is set exactly when one of them is free and
\* the other is not, which is what lets a free block merge at once; so two
\* buddies are never both free.
BuddyBitExact ==
    Intact =>
        LET free == FreeBlocks IN
        \A level \in 1 .. MaxLevel : \A i \in 0 .. (2 ^ level - 1) :
            LET b == [addr |-> i * size_from_level(level), level |-> level]
                c == [b EXCEPT !.addr = calculate_buddy_address(b.addr, level)]
            IN  /\ (allocation_bit_index(b.addr, level) \in heap.allocation)
                      <=> ((b \in free) # (c \in free))
                /\ ~(b \in free /\ c \in free)

\* create_block() says "remove block from list" where it drops the first block
\* of a list: no block that stays on the list may still point to it.
FirstHasNoPrev ==
    \A level \in Levels :
        heap.free_blocks[level] # NULL => heap.node[heap.free_blocks[level]].prev = NULL

\* allocator_allocate() is to "toggle allocation bit for parent block"; when it
\* finds no block there is no parent and no bit to toggle.
NoBlindToggle == broken # "null_flip"

\* Towards its clients the heap is a set of disjoint aligned blocks, and an
\* allocation fails only when no block of its size could be found.
Abs == INSTANCE HeapPool
ImplementsPool == Abs!PoolSpec
=============================================================================
