----------------------------- MODULE FrameAlloc -----------------------------
(***************************************************************************)
(* The physical frame allocator, kernel/mm/frame.c.                        *)
(*                                                                         *)
(* Addresses are counted in frames of PAGE_SIZE bytes.  Free frames that   *)
(* were used before are kept in a linked list of nodes which live inside   *)
(* free frames themselves: a node holds the address of the next node and   *)
(* up to NodeCap - 1 further free frames, and `count' is the number of     *)
(* frames that the top node provides, itself included.  Frames that were   *)
(* never used lie above `begin' and are taken one at a time by extend().   *)
(*                                                                         *)
(* The pointer alloc->current is NULL exactly when count = 0 (both are     *)
(* always assigned together), so it is not a variable of its own; the      *)
(* frame behind the one page window it points to is `pte', the address     *)
(* stored in *alloc->current_pte.                                          *)
(***************************************************************************)
EXTENDS Naturals, Sequences, FiniteSets, FiniteSetsExt, SequencesExt

CONSTANTS Areas,     \* mem_map.area[0 .. count-1] after mem_map_sanitize()
          KernelEnd, \* KERNEL_END: the first frame after the kernel image
          NodeCap,   \* frames one list node provides (512)
          Junk       \* what a client may have left in a frame it owned

LastArea == Len(Areas)
EndFrame == Areas[LastArea].end

\* The usable frames the allocator manages, whatever their state.
Usable == {f \in KernelEnd .. (EndFrame - 1) :
              \E i \in DOMAIN Areas : Areas[i].begin <= f /\ f < Areas[i].end}

\* intersection() of frame.c for [begin, end) and one area of the map.
intersection(area) ==
    LET lo == Max({KernelEnd, area.begin})
        hi == Min({EndFrame, area.end})
    IN  IF hi > lo THEN hi - lo ELSE 0

\* alloc->free as alloc_init() computes it.
Capacity == FoldLeft(LAMBDA sum, area : sum + intersection(area), 0, Areas)

\* The memory map is sorted, its areas are nonempty and do not touch
\* (mem_map_sanitize), and it reaches beyond the kernel (assert(end > begin)).
ASSUME AreasAssumption ==
    /\ Areas \in Seq([begin : Nat, end : Nat])
    /\ LastArea > 0
    /\ \A i \in 1 .. LastArea : Areas[i].begin < Areas[i].end
    /\ \A i, j \in 1 .. LastArea : i < j => Areas[i].end < Areas[j].begin
    /\ KernelEnd \in Nat \ {0}
    /\ KernelEnd < EndFrame

ASSUME NodeAssumption == NodeCap \in Nat /\ NodeCap > 1 /\ Junk \notin Nat

\* The memory the map grants above KERNEL_END, summed area by area.
ASSUME CapacityAssumption == Capacity = Cardinality(Usable)
-----------------------------------------------------------------------------
VARIABLES begin,    \* alloc->begin: lowest frame that was never used
          pos,      \* alloc->current_map_position, counted from 1
          free,     \* alloc->free, in frames
          pte,      \* frame mapped by *alloc->current_pte
          count,    \* alloc->count
          mem,      \* contents of each frame, read as a list node
          ret,      \* the last value alloc_frame() returned
          out,      \* ghost: frames in the hands of clients
          chain,    \* ghost: frames of the list nodes, the top node last
          relinked, \* ghost: a stale node address was linked into the list
          wild      \* client data was used as a frame address

vars == <<begin, pos, free, pte, count, mem, ret, out, chain, relinked, wild>>

Frames == 0 .. (EndFrame - 1)
Slots  == 1 .. (NodeCap - 1)   \* allocator_node.frames[], counted from 1
Words  == Frames \cup {Junk}
Node   == [next : Words, frames : [Slots -> Words]]

ZeroNode == [next |-> 0, frames |-> [s \in Slots |-> 0]]
JunkNode == [next |-> Junk, frames |-> [s \in Slots |-> Junk]]

\* Entry i is the first of the map that ends above KERNEL_END.
FirstRelevant(i) == /\ Areas[i].end > KernelEnd
                    /\ \A j \in 1 .. (i - 1) : Areas[j].end <= KernelEnd

\* mem_map.area[i]; the static array is zero beyond its last used entry.
AreaAt(i) == IF i \in DOMAIN Areas THEN Areas[i] ELSE [begin |-> 0, end |-> 0]

\* alloc_init()
Init ==
    /\ pos \in DOMAIN Areas /\ FirstRelevant(pos)
    /\ begin = IF KernelEnd < Areas[pos].begin THEN Areas[pos].begin ELSE KernelEnd
    /\ free = Capacity
    /\ pte = 0
    /\ count = 0
    /\ mem = [f \in Frames |-> JunkNode]
    /\ ret = 0
    /\ out = {}
    /\ chain = <<>>
    /\ relinked = FALSE
    /\ wild = FALSE
-----------------------------------------------------------------------------
\* Mutant of HandOut: the frame is not counted.
HandOutUncounted(frame) ==
    /\ UNCHANGED free
    /\ mem' = [mem EXCEPT ![frame] = ZeroNode]
    /\ ret' = frame
    /\ out' = out \cup {frame}

\* The common end of alloc_frame(): account for the frame, zero_frame() it
\* and return it.
HandOut(frame) ==
    /\ free' = free - 1
    /\ mem' = [mem EXCEPT ![frame] = ZeroNode]
    /\ ret' = frame
    /\ out' = out \cup {frame}

\* A word that never was a frame address is used as one: from here on the
\* kernel zeroes or maps memory it knows nothing about.
GoWild ==
    /\ wild' = TRUE
    /\ UNCHANGED <<begin, pos, free, pte, count, mem, ret, out, chain, relinked>>

\* alloc_frame() with free == 0: there is no frame to return.
AllocNone ==
    /\ ~wild
    /\ free = 0
    /\ ret' = 0
    /\ UNCHANGED <<begin, pos, free, pte, count, mem, out, chain, relinked, wild>>

\* Mutant of AllocSlot: alloc->count is not decremented.
AllocSlotKept ==
    /\ ~wild
    /\ free # 0
    /\ count > 1
    /\ LET frame == mem[pte].frames[count - 1]
       IN  \/ /\ frame \in Frames
              /\ HandOut(frame)
              /\ UNCHANGED <<begin, pos, pte, count, chain, relinked, wild>>
           \/ frame = Junk /\ GoWild

\* alloc_frame() with count > 1: take the last frame stored in the top node.
AllocSlot ==
    /\ ~wild
    /\ free # 0
    /\ count > 1
    /\ LET frame == mem[pte].frames[count - 1]
       IN  \/ /\ frame \in Frames
              /\ count' = count - 1
              /\ HandOut(frame)
              /\ UNCHANGED <<begin, pos, pte, chain, relinked, wild>>
           \/ frame = Junk /\ GoWild

\* map(): the window is moved to the node at addr; address 0 leaves it alone.
map(addr) == pte' = IF addr = 0 THEN pte ELSE addr

\* Mutant of AllocNode: the count becomes `after' whatever follows.
AllocNodeAs(after) ==
    /\ ~wild
    /\ free # 0
    /\ count = 1
    /\ LET next == mem[pte].next
       IN  \/ /\ next \in Frames
              /\ map(next)
              /\ count' = after
              /\ chain' = Front(chain)
              /\ HandOut(pte)
              /\ UNCHANGED <<begin, pos, relinked, wild>>
           \/ next = Junk /\ GoWild

\* Mutant of AllocNode: the next node is taken for an empty one.
AllocNodeEmpty == AllocNodeAs(IF mem[pte].next # 0 THEN 1 ELSE 0)

\* alloc_frame() with count == 1: take the top node itself, which must be
\* empty; the next node, if there is one, is full.
AllocNode ==
    /\ ~wild
    /\ free # 0
    /\ count = 1
    /\ LET next == mem[pte].next
       IN  \/ /\ next \in Frames
              /\ map(next)
              /\ count' = IF next # 0 THEN NodeCap ELSE 0
              /\ chain' = Front(chain)
              /\ HandOut(pte)
              /\ UNCHANGED <<begin, pos, relinked, wild>>
           \/ next = Junk /\ GoWild

\* Mutant of AllocExtend: the end of the current area is not noticed.
AllocExtendStraight ==
    /\ ~wild
    /\ free # 0
    /\ count = 0
    /\ begin' = begin + 1
    /\ HandOut(begin)
    /\ UNCHANGED <<pos, pte, count, chain, relinked, wild>>

\* alloc_frame() with count == 0: extend() into memory never used before,
\* jumping to the next area of the map at the end of the current one.
AllocExtend ==
    /\ ~wild
    /\ free # 0
    /\ count = 0
    /\ LET jump  == begin = AreaAt(pos).end
           frame == IF jump THEN AreaAt(pos + 1).begin ELSE begin
       IN  /\ pos' = IF jump THEN pos + 1 ELSE pos
           /\ begin' = frame + 1
           /\ HandOut(frame)
    /\ UNCHANGED <<pte, count, chain, relinked, wild>>

\* dealloc_frame() when there is no node or the top one is full: the frame
\* becomes a new node, linked to the frame that current() reads from the
\* page table entry of the window.
DeallocNewNode(f) ==
    /\ ~wild
    /\ f \in out
    /\ count \in {0, NodeCap}
    /\ mem' = [mem EXCEPT ![f].next = pte]
    /\ map(f)
    /\ count' = 1
    /\ free' = free + 1
    /\ out' = out \ {f}
    /\ chain' = Append(chain, f)
    /\ relinked' = (relinked \/ (count = 0 /\ pte # 0))
    /\ UNCHANGED <<begin, pos, ret, wild>>

\* dealloc_frame() otherwise: the frame is stored in the top node.
DeallocSlot(f) ==
    /\ ~wild
    /\ f \in out
    /\ count \notin {0, NodeCap}
    /\ mem' = [mem EXCEPT ![pte].frames[count] = f]
    /\ count' = count + 1
    /\ free' = free + 1
    /\ out' = out \ {f}
    /\ UNCHANGED <<begin, pos, pte, ret, chain, relinked, wild>>

\* A client writes to a frame it owns.
ClientWrite(f) ==
    /\ ~wild
    /\ f \in out
    /\ mem' = [mem EXCEPT ![f] = JunkNode]
    /\ UNCHANGED <<begin, pos, free, pte, count, ret, out, chain, relinked, wild>>

alloc_frame == AllocNone \/ AllocSlot \/ AllocNode \/ AllocExtend

dealloc_frame(f) == DeallocNewNode(f) \/ DeallocSlot(f)

Next == \/ alloc_frame
        \/ \E f \in out : dealloc_frame(f) \/ ClientWrite(f)

Spec == Init /\ [][Next]_vars
-----------------------------------------------------------------------------
Types ==
    /\ begin \in Nat /\ pos \in Nat /\ free \in Nat
    /\ pte \in Frames /\ count \in 0 .. NodeCap
    /\ mem \in [Frames -> Node]
    /\ ret \in Frames
    /\ out \in SUBSET Frames
    /\ chain \in Seq(Frames)
    /\ relinked \in BOOLEAN /\ wild \in BOOLEAN

\* Once a stale node address was linked, frames get lost from the list while
\* alloc->free still counts them, and extend() may pass the end of the map.
TypeOK == ~relinked => Types

\* The places of the list that hold a free frame: place 0 of node i is the
\* node itself, place s its entry frames[s]; only the top node may be partial.
Cells == {c \in (1 .. Len(chain)) \X (0 .. (NodeCap - 1)) :
             c[1] = Len(chain) => c[2] < count}

Val(c) == IF c[2] = 0 THEN chain[c[1]] ELSE mem[chain[c[1]]].frames[c[2]]

Listed == {Val(c) : c \in Cells}

\* The frames extend() has passed so far.
Used == {f \in Usable : f < begin}

\* The free list holds exactly the frames that were used and given back, and
\* each of them once, so alloc_frame() cannot hand out a frame that already
\* has an owner.  It holds until dealloc_frame() links a new node to the
\* stale address that map() left in the window's page table entry.
FreeListExact ==
    ~relinked => /\ Listed = Used \ out
                 /\ \A c, d \in Cells : Val(c) = Val(d) => c = d

\* alloc->free counts the usable frames nobody owns, so the test free == 0
\* in alloc_frame() stops extend() exactly at the end of the memory map.
FreeCountExact == ~relinked => free = Cardinality(Usable \ out)

\* Every frame alloc_frame() hands out is usable memory above the kernel: the
\* jump between areas in extend() never lands in a hole of the map, and client
\* data is never used as an address, whatever clients store in their frames.
OutUsable == ~relinked => out \subseteq Usable /\ ~wild

\* The comment on current() says it "gets physical address of currently
\* mapped node", and dealloc_frame() stores that address as the link of a new
\* node: the link must lead to a node of the free list, never into memory that
\* belongs to a client.
NextIsNode == count > 0 => mem[pte].next = 0 \/ mem[pte].next \notin out

\* Towards its clients the allocator is a pool in which get_frame() never gives
\* a frame two owners and answers 0 only when every frame has one, up to the
\* free_frame() call that links a stale node address, if there ever is one.
Abs == INSTANCE FramePool WITH Pool <- Usable, owned <- out, sound <- ~relinked
ImplementsPool == Abs!PoolSpec
=============================================================================
