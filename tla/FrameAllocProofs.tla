-------------------------- MODULE FrameAllocProofs --------------------------
(***************************************************************************)
(* The frame allocator hands out each usable frame to one owner at a time, *)
(* for every memory map and every size of the list nodes, as long as no    *)
(* stale node address was linked into the free list.                       *)
(***************************************************************************)
EXTENDS FrameAlloc, SequenceTheorems, FiniteSetTheorems, TLAPS

\* The list: count is 0 exactly when it has no node, the window shows the top
\* node, and each node leads to the one below it.
ListOK ==
    /\ (count = 0) <=> (Len(chain) = 0)
    /\ count > 0 => pte = chain[Len(chain)]
    /\ \A k \in 1 .. Len(chain) :
          mem[chain[k]].next = IF k = 1 THEN 0 ELSE chain[k - 1]

\* Each frame that was used and given back is in the list, once.
ExactOK ==
    /\ Listed = Used \ out
    /\ \A c, d \in Cells : Val(c) = Val(d) => c = d

\* extend() stands inside an area that reaches beyond the kernel.
ExtendOK ==
    /\ pos \in 1 .. LastArea
    /\ Areas[pos].begin <= begin /\ begin <= Areas[pos].end
    /\ KernelEnd <= begin

OwnersOK == out \subseteq Used /\ free = Cardinality(Usable \ out)

Inv == Types /\ ListOK /\ ExactOK /\ ExtendOK /\ OwnersOK /\ ~wild

\* The inductive invariant.
IInv == ~relinked => Inv
-----------------------------------------------------------------------------
\* The areas of the map, one by one.
LEMMA AreaFacts ==
    /\ LastArea \in Nat /\ LastArea > 0 /\ DOMAIN Areas = 1 .. LastArea
    /\ \A k \in 1 .. LastArea : Areas[k].begin \in Nat /\ Areas[k].end \in Nat
                                /\ Areas[k].begin < Areas[k].end
    /\ \A k, l \in 1 .. LastArea : k < l => Areas[k].end < Areas[l].begin
    /\ EndFrame \in Nat /\ KernelEnd \in Nat /\ KernelEnd > 0 /\ KernelEnd < EndFrame
    /\ \A k \in 1 .. LastArea : Areas[k].end <= EndFrame
<1> DEFINE A == [begin : Nat, end : Nat]
<1>1. Areas \in Seq(A)
  BY AreasAssumption
<1>2. \A x \in A : x.begin \in Nat /\ x.end \in Nat
  OBVIOUS
<1> HIDE DEF A
<1>3. LastArea \in Nat /\ DOMAIN Areas = 1 .. LastArea /\ \A k \in 1 .. LastArea : Areas[k] \in A
  BY <1>1, LenProperties, ElementOfSeq DEF LastArea
<1>4. \A k \in 1 .. LastArea : Areas[k].begin \in Nat /\ Areas[k].end \in Nat
  BY <1>2, <1>3
<1>5. /\ LastArea > 0
      /\ \A k \in 1 .. LastArea : Areas[k].begin < Areas[k].end
      /\ \A k, l \in 1 .. LastArea : k < l => Areas[k].end < Areas[l].begin
      /\ KernelEnd \in Nat /\ KernelEnd > 0 /\ KernelEnd < EndFrame
  BY AreasAssumption
<1>6. LastArea \in 1 .. LastArea
  BY <1>3, <1>5
<1>7. EndFrame \in Nat /\ EndFrame = Areas[LastArea].end
  BY <1>4, <1>6 DEF EndFrame
<1>8. \A k \in 1 .. LastArea : Areas[k].end <= EndFrame
  BY <1>3, <1>4, <1>5, <1>6, <1>7
<1> QED
  BY <1>3, <1>4, <1>5, <1>7, <1>8

\* The usable frames: a finite set that does not contain frame 0.
LEMMA UsableFacts ==
    /\ IsFiniteSet(Usable) /\ Usable \subseteq Frames /\ 0 \notin Usable
    /\ \A f \in Usable : f \in Nat /\ f < EndFrame /\ f >= KernelEnd
    /\ Frames \subseteq Nat /\ 0 \in Frames
<1>1. EndFrame \in Nat /\ KernelEnd \in Nat /\ KernelEnd > 0 /\ KernelEnd < EndFrame
  BY AreaFacts
<1>2. \A f \in Usable : f \in Nat /\ f < EndFrame /\ f >= KernelEnd
  BY <1>1 DEF Usable
<1>3. Frames \subseteq Nat /\ 0 \in Frames /\ Usable \subseteq Frames
  BY <1>1, <1>2 DEF Frames
<1>4. IsFiniteSet(0 .. (EndFrame - 1))
  BY <1>1, FS_Interval
<1>5. IsFiniteSet(Usable)
  BY <1>3, <1>4, FS_Subset DEF Frames
<1> QED
  BY <1>1, <1>2, <1>3, <1>5

\* Taking a frame leaves one usable frame less without an owner, returning it
\* one more.
LEMMA OwnerCount ==
    ASSUME NEW S, NEW f \in Usable
    PROVE  /\ Cardinality(Usable \ S) \in Nat
           /\ f \notin S => Cardinality(Usable \ (S \cup {f})) = Cardinality(Usable \ S) - 1
           /\ f \in S => Cardinality(Usable \ (S \ {f})) = Cardinality(Usable \ S) + 1
<1>1. IsFiniteSet(Usable \ S)
  BY UsableFacts, FS_Subset
<1>2. Cardinality(Usable \ S) \in Nat
  BY <1>1, FS_CardinalityType
<1>3. ASSUME f \notin S
      PROVE  Cardinality(Usable \ (S \cup {f})) = Cardinality(Usable \ S) - 1
  <2>1. Usable \ (S \cup {f}) = (Usable \ S) \ {f} /\ f \in Usable \ S
    BY <1>3
  <2> QED
    BY <1>1, <2>1, FS_RemoveElement
<1>4. ASSUME f \in S
      PROVE  Cardinality(Usable \ (S \ {f})) = Cardinality(Usable \ S) + 1
  <2>1. Usable \ (S \ {f}) = (Usable \ S) \cup {f} /\ f \notin Usable \ S
    BY <1>4
  <2> QED
    BY <1>1, <2>1, FS_AddElement
<1> QED
  BY <1>2, <1>3, <1>4

\* The cells of the list as index pairs.
LEMMA CellFacts ==
    /\ \A c : c \in Cells <=> \E k \in 1 .. Len(chain), s \in 0 .. (NodeCap - 1) :
                                 c = <<k, s>> /\ (k = Len(chain) => s < count)
    /\ \A k, s : Val(<<k, s>>) = IF s = 0 THEN chain[k] ELSE mem[chain[k]].frames[s]
<1>1. \A c : c \in (1 .. Len(chain)) \X (0 .. (NodeCap - 1)) <=>
               \E k \in 1 .. Len(chain), s \in 0 .. (NodeCap - 1) : c = <<k, s>>
  OBVIOUS
<1>2. \A k, s : <<k, s>>[1] = k /\ <<k, s>>[2] = s
  OBVIOUS
<1> QED
  BY <1>1, <1>2 DEF Cells, Val

\* Every cell holds a used frame without an owner; the nodes are cells.
LEMMA ListedFacts ==
    ASSUME Inv
    PROVE  /\ Len(chain) \in Nat
           /\ \A c \in Cells : Val(c) \in Used /\ Val(c) \notin out
           /\ Used \subseteq Usable
           /\ \A k \in 1 .. Len(chain) :
                 <<k, 0>> \in Cells /\ chain[k] \in Used /\ chain[k] \notin out
                 /\ chain[k] \in Frames /\ chain[k] # 0
           /\ \A k, l \in 1 .. Len(chain) : chain[k] = chain[l] => k = l
<1>1. Len(chain) \in Nat
  BY LenProperties DEF Inv, Types
<1>2. \A c \in Cells : Val(c) \in Used /\ Val(c) \notin out
  BY DEF Inv, ExactOK, Listed
<1>3. Used \subseteq Usable
  BY DEF Used
<1>4. ASSUME NEW k \in 1 .. Len(chain)
      PROVE  <<k, 0>> \in Cells
  <2>1. count > 0
    BY <1>1 DEF Inv, ListOK, Types
  <2>2. 0 \in 0 .. (NodeCap - 1)
    BY NodeAssumption
  <2> QED
    BY <2>1, <2>2, CellFacts
<1>5. \A k \in 1 .. Len(chain) : chain[k] = Val(<<k, 0>>)
  BY CellFacts
<1>6. \A k \in 1 .. Len(chain) : chain[k] \in Used /\ chain[k] \notin out
  BY <1>2, <1>4, <1>5
<1>7. \A k \in 1 .. Len(chain) : chain[k] \in Frames /\ chain[k] # 0
  BY <1>3, <1>6, UsableFacts
<1>8. ASSUME NEW k \in 1 .. Len(chain), NEW l \in 1 .. Len(chain), chain[k] = chain[l]
      PROVE  k = l
  <2>1. <<k, 0>> = <<l, 0>>
    BY <1>4, <1>5, <1>8 DEF Inv, ExactOK
  <2> QED
    BY <2>1
<1> QED
  BY <1>1, <1>2, <1>3, <1>4, <1>6, <1>7, <1>8

\* Removing one cell from the list and giving its frame to a client.
LEMMA ListRemove ==
    ASSUME Inv, NEW g \in Cells, Cells' = Cells \ {g},
           \A c \in Cells' : Val(c)' = Val(c),
           Used' = Used, out' = out \cup {Val(g)}
    PROVE  ExactOK'
<1>1. Listed' = {Val(c) : c \in Cells'}
  BY DEF Listed
<1>2. Listed' = Listed \ {Val(g)}
  BY <1>1 DEF Inv, ExactOK, Listed
<1> QED
  BY <1>2 DEF Inv, ExactOK

\* Adding a cell for a frame that a client returns.
LEMMA ListAdd ==
    ASSUME Inv, NEW g, NEW f \in out, g \notin Cells, Cells' = Cells \cup {g},
           \A c \in Cells : Val(c)' = Val(c), Val(g)' = f,
           Used' = Used, out' = out \ {f}
    PROVE  ExactOK'
<1>1. f \notin Listed /\ f \in Used
  BY DEF Inv, ExactOK, OwnersOK
<1>2. Listed' = Listed \cup {f}
  BY DEF Listed
<1> QED
  BY <1>1, <1>2 DEF Inv, ExactOK, Listed
-----------------------------------------------------------------------------
\* What a typed memory holds, and that clearing or filling one frame keeps it
\* typed.
LEMMA MemFacts ==
    ASSUME Types, NEW f \in Frames
    PROVE  /\ mem[f].next \in Words /\ \A s \in Slots : mem[f].frames[s] \in Words
           /\ [mem EXCEPT ![f] = ZeroNode] \in [Frames -> Node]
           /\ [mem EXCEPT ![f] = JunkNode] \in [Frames -> Node]
           /\ \A w \in Words : [mem EXCEPT ![f].next = w] \in [Frames -> Node]
           /\ \A w \in Words, s \in Slots :
                 [mem EXCEPT ![f].frames[s] = w] \in [Frames -> Node]
<1>1. mem \in [Frames -> Node] /\ mem[f] \in Node
  BY DEF Types
<1>2. mem[f].next \in Words /\ mem[f].frames \in [Slots -> Words]
  BY <1>1 DEF Node
<1>3. 0 \in Words /\ Junk \in Words
  BY UsableFacts DEF Words
<1>4. ZeroNode \in Node /\ JunkNode \in Node
  BY <1>3 DEF ZeroNode, JunkNode, Node
<1>5. \A w \in Words : [mem[f] EXCEPT !.next = w] \in Node
  BY <1>1 DEF Node
<1>6. \A w \in Words, s \in Slots : [mem[f] EXCEPT !.frames[s] = w] \in Node
  BY <1>1, <1>2 DEF Node
<1>7. \A w \in Words : [mem EXCEPT ![f].next = w] = [mem EXCEPT ![f] = [mem[f] EXCEPT !.next = w]]
  BY <1>1
<1>8. \A w \in Words, s \in Slots :
         [mem EXCEPT ![f].frames[s] = w] = [mem EXCEPT ![f] = [mem[f] EXCEPT !.frames[s] = w]]
  BY <1>1
<1> QED
  BY <1>1, <1>2, <1>4, <1>5, <1>6, <1>7, <1>8

\* alloc_frame() that answers 0.
LEMMA NoneStep ==
    ASSUME Inv, AllocNone
    PROVE  Inv'
<1>1. UNCHANGED <<begin, pos, free, pte, count, mem, out, chain, relinked, wild>> /\ ret' = 0
  BY DEF AllocNone
<1>2. 0 \in Frames
  BY UsableFacts
<1>3. Cells' = Cells /\ Used' = Used /\ Listed' = Listed /\ \A c : Val(c)' = Val(c)
  BY <1>1 DEF Cells, Used, Listed, Val
<1> QED
  BY <1>1, <1>2, <1>3 DEF Inv, Types, ListOK, ExactOK, ExtendOK, OwnersOK

\* A client that writes to its frame does not reach the list.
LEMMA WriteStep ==
    ASSUME Inv, NEW f \in out, ClientWrite(f)
    PROVE  Inv'
<1>1. /\ UNCHANGED <<begin, pos, free, pte, count, ret, out, chain, relinked, wild>>
      /\ mem' = [mem EXCEPT ![f] = JunkNode]
  BY DEF ClientWrite
<1>2. f \in Frames /\ mem' \in [Frames -> Node] /\ mem \in [Frames -> Node]
  BY <1>1, MemFacts DEF Inv, Types
<1>3. \A k \in 1 .. Len(chain) : mem'[chain[k]] = mem[chain[k]]
  BY <1>1, <1>2, ListedFacts
<1>4. Cells' = Cells /\ Used' = Used
  BY <1>1 DEF Cells, Used
<1>5. \A c \in Cells : Val(c)' = Val(c)
  BY <1>1, <1>3 DEF Cells, Val
<1>6. Listed' = Listed
  BY <1>4, <1>5 DEF Listed
<1> QED
  BY <1>1, <1>2, <1>3, <1>4, <1>5, <1>6 DEF Inv, Types, ListOK, ExactOK, ExtendOK, OwnersOK

\* Taking a frame from the top node.
LEMMA SlotStep ==
    ASSUME Inv, AllocSlot
    PROVE  Inv'
<1> DEFINE n == Len(chain)
           f == mem[pte].frames[count - 1]
           g == <<n, count - 1>>
<1>0. Types /\ ListOK /\ ExactOK /\ ExtendOK /\ OwnersOK /\ ~wild
  BY DEF Inv
<1>1. /\ count \in Nat /\ NodeCap \in Nat /\ count <= NodeCap /\ count > 1 /\ n \in Nat
      /\ n \in 1 .. n /\ pte = chain[n] /\ free # 0
  BY <1>0, NodeAssumption, ListedFacts DEF AllocSlot, Types, ListOK
<1>2. g \in Cells /\ Val(g) = f
  <2>1. count - 1 \in 0 .. (NodeCap - 1) /\ count - 1 < count /\ count - 1 # 0
    BY <1>1
  <2> QED
    BY <1>1, <2>1, CellFacts
<1>3. f \in Used /\ f \notin out /\ f \in Usable /\ f \in Frames /\ f # Junk
  BY <1>2, ListedFacts, UsableFacts, NodeAssumption
<1>4. /\ count' = count - 1 /\ free' = free - 1 /\ mem' = [mem EXCEPT ![f] = ZeroNode]
      /\ ret' = f /\ out' = out \cup {f}
      /\ UNCHANGED <<begin, pos, pte, chain, relinked, wild>>
  BY <1>3 DEF AllocSlot, HandOut
<1>5. \A k \in 1 .. n : chain[k] # f
  <2> SUFFICES ASSUME NEW k \in 1 .. n, chain[k] = f
               PROVE  FALSE
    OBVIOUS
  <2>1. <<k, 0>> \in Cells /\ Val(<<k, 0>>) = chain[k]
    BY ListedFacts, CellFacts
  <2>2. <<k, 0>> = g
    BY <1>0, <1>2, <2>1 DEF ExactOK
  <2> QED
    BY <1>1, <2>2
<1>6. mem' \in [Frames -> Node] /\ mem \in [Frames -> Node]
  BY <1>0, <1>3, <1>4, MemFacts DEF Types
<1>7. \A k \in 1 .. n : mem'[chain[k]] = mem[chain[k]]
  BY <1>4, <1>5, <1>6, ListedFacts
<1>8. Types'
  <2>1. count' \in 0 .. NodeCap /\ free' \in Nat
    BY <1>0, <1>1, <1>4 DEF Types
  <2> QED
    BY <1>0, <1>3, <1>4, <1>6, <2>1 DEF Types
<1>9. ListOK'
  BY <1>0, <1>1, <1>4, <1>7 DEF ListOK
<1>10. ExactOK'
  <2>1. Cells' = Cells \ {g}
    <3>1. \A c : c \in Cells' <=> \E k \in 1 .. n, s \in 0 .. (NodeCap - 1) :
                                     c = <<k, s>> /\ (k = n => s < count - 1)
      BY <1>4 DEF Cells
    <3>2. \A s \in 0 .. (NodeCap - 1) : s < count - 1 <=> (s < count /\ s # count - 1)
      BY <1>1
    <3> QED
      BY <3>1, <3>2, CellFacts
  <2>2. \A c \in Cells' : Val(c)' = Val(c)
    BY <1>4, <1>7 DEF Cells, Val
  <2>3. Used' = Used
    BY <1>4 DEF Used
  <2> QED
    BY <1>2, <1>4, <2>1, <2>2, <2>3, ListRemove
<1>11. OwnersOK'
  BY <1>0, <1>3, <1>4, OwnerCount DEF OwnersOK, Used
<1> QED
  BY <1>0, <1>4, <1>8, <1>9, <1>10, <1>11 DEF Inv, ExtendOK

\* Taking the top node itself, the last frame it provides; the node below it
\* is full.
LEMMA NodeStep ==
    ASSUME Inv, AllocNode
    PROVE  Inv'
<1> DEFINE n == Len(chain)
           g == <<n, 0>>
           next == IF n = 1 THEN 0 ELSE chain[n - 1]
<1>0. Types /\ ListOK /\ ExactOK /\ ExtendOK /\ OwnersOK /\ ~wild
  BY DEF Inv
<1>1. /\ NodeCap \in Nat /\ NodeCap > 1 /\ n \in Nat /\ n \in 1 .. n /\ count = 1
      /\ pte = chain[n] /\ free # 0
  BY <1>0, NodeAssumption, ListedFacts DEF AllocNode, Types, ListOK
<1>2. g \in Cells /\ Val(g) = pte
  BY <1>1, ListedFacts, CellFacts
<1>3. pte \in Used /\ pte \notin out /\ pte \in Usable /\ pte \in Frames
  BY <1>1, ListedFacts, UsableFacts
<1>4. mem[pte].next = next
  BY <1>0, <1>1 DEF ListOK
<1>5. n # 1 => n - 1 \in 1 .. n /\ n - 1 > 0
  BY <1>1
<1>6. next \in Frames /\ (next = 0 <=> n = 1) /\ next # Junk
  BY <1>5, ListedFacts, UsableFacts, NodeAssumption
<1>7. /\ count' = (IF n = 1 THEN 0 ELSE NodeCap) /\ free' = free - 1
      /\ mem' = [mem EXCEPT ![pte] = ZeroNode] /\ ret' = pte /\ out' = out \cup {pte}
      /\ chain' = Front(chain) /\ pte' = (IF n = 1 THEN pte ELSE chain[n - 1])
      /\ UNCHANGED <<begin, pos, relinked, wild>>
  BY <1>4, <1>6 DEF AllocNode, HandOut, map
<1>8. /\ chain' \in Seq(Frames) /\ Len(chain') = n - 1
      /\ \A k \in 1 .. (n - 1) : chain'[k] = chain[k]
  <2>0. \A k \in 1 .. (n - 1) : k \in 1 .. n
    BY <1>1
  <2>1. \A k \in 1 .. (n - 1) : chain[k] \in Frames
    BY <2>0, ListedFacts
  <2>2. 1 \in Int /\ n - 1 \in Int
    BY <1>1
  <2>3. chain' = SubSeq(chain, 1, n - 1)
    BY <1>7 DEF Front
  <2> HIDE DEF n
  <2>4. /\ chain' \in Seq(Frames) /\ Len(chain') = IF 1 <= n - 1 THEN (n - 1) - 1 + 1 ELSE 0
        /\ \A k \in 1 .. ((n - 1) - 1 + 1) : chain'[k] = chain[1 + k - 1]
    BY <2>1, <2>2, <2>3, SubSeqProperties
  <2> QED
    BY <1>1, <2>4
<1>9. \A k \in 1 .. (n - 1) : k \in 1 .. n /\ chain[k] # pte
  BY <1>1, ListedFacts
<1>10. mem' \in [Frames -> Node] /\ mem \in [Frames -> Node]
  BY <1>0, <1>3, <1>7, MemFacts DEF Types
<1>11. \A k \in 1 .. (n - 1) : mem'[chain'[k]] = mem[chain[k]]
  BY <1>7, <1>8, <1>9, <1>10, ListedFacts
<1>12. Types'
  <2>1. count' \in 0 .. NodeCap /\ free' \in Nat /\ pte' \in Frames
    BY <1>0, <1>1, <1>3, <1>5, <1>7, ListedFacts DEF Types
  <2> QED
    BY <1>0, <1>3, <1>7, <1>8, <1>10, <2>1 DEF Types
<1>13. ListOK'
  <2>1. (count' = 0) <=> (Len(chain') = 0)
    BY <1>1, <1>7, <1>8
  <2>2. count' > 0 => pte' = chain'[Len(chain')]
    BY <1>1, <1>7, <1>8
  <2>3. ASSUME NEW k \in 1 .. Len(chain')
        PROVE  mem'[chain'[k]].next = IF k = 1 THEN 0 ELSE chain'[k - 1]
    <3>1. k \in 1 .. (n - 1) /\ k \in 1 .. n
      BY <1>1, <1>8, <2>3
    <3>2. mem[chain[k]].next = IF k = 1 THEN 0 ELSE chain[k - 1]
      BY <1>0, <3>1 DEF ListOK
    <3>3. k # 1 => k - 1 \in 1 .. (n - 1)
      BY <1>1, <3>1
    <3> QED
      BY <1>8, <1>11, <3>1, <3>2, <3>3
  <2> QED
    BY <2>1, <2>2, <2>3 DEF ListOK
<1>14. ExactOK'
  <2>1. Cells' = Cells \ {g}
    <3>1. \A c : c \in Cells' <=> \E k \in 1 .. Len(chain'), s \in 0 .. (NodeCap - 1) :
                                     c = <<k, s>> /\ (k = Len(chain') => s < count')
      BY DEF Cells
    <3>2. \A c : c \in Cells' <=> \E k \in 1 .. (n - 1), s \in 0 .. (NodeCap - 1) : c = <<k, s>>
      <4>1. \A k \in 1 .. (n - 1), s \in 0 .. (NodeCap - 1) : s < count'
        BY <1>1, <1>7
      <4> HIDE DEF n
      <4> QED
        BY <1>8, <3>1, <4>1
    <3>3. \A k \in 1 .. n, s \in 0 .. (NodeCap - 1) :
             ((k = n => s < 1) /\ <<k, s>> # g) <=> k \in 1 .. (n - 1)
      BY <1>1
    <3>4. \A k \in 1 .. (n - 1) : k \in 1 .. n
      BY <1>1
    <3>5. \A c : c \in Cells <=> \E k \in 1 .. n, s \in 0 .. (NodeCap - 1) :
                                   c = <<k, s>> /\ (k = n => s < 1)
      BY <1>1, CellFacts
    <3> HIDE DEF n, g
    <3> QED
      BY <3>2, <3>3, <3>4, <3>5
  <2>2. ASSUME NEW c \in Cells'
        PROVE  Val(c)' = Val(c)
    <3>1. c[1] \in 1 .. (n - 1)
      BY <1>8 DEF Cells
    <3> QED
      BY <1>8, <1>11, <3>1 DEF Val
  <2>3. Used' = Used
    BY <1>7 DEF Used
  <2> QED
    BY <1>2, <1>7, <2>1, <2>2, <2>3, ListRemove
<1>15. OwnersOK'
  BY <1>0, <1>3, <1>7, OwnerCount DEF OwnersOK, Used
<1> QED
  BY <1>0, <1>7, <1>12, <1>13, <1>14, <1>15 DEF Inv, ExtendOK

\* Going on to memory never used before: the free count says that there is
\* some, so extend() finds it at `begin' or at the begin of the next area.
LEMMA ExtendStep ==
    ASSUME Inv, AllocExtend
    PROVE  Inv'
<1> DEFINE jump == begin = Areas[pos].end
           f == IF jump THEN Areas[pos + 1].begin ELSE begin
<1>0. Types /\ ListOK /\ ExactOK /\ ExtendOK /\ OwnersOK /\ ~wild
  BY DEF Inv
<1>1. /\ Len(chain) = 0 /\ Cells = {} /\ Listed = {} /\ out = Used /\ count = 0
  <2>1. count = 0 /\ Len(chain) = 0
    BY <1>0 DEF AllocExtend, ListOK
  <2>2. Cells = {}
    BY <2>1, CellFacts
  <2> QED
    BY <1>0, <2>1, <2>2 DEF Listed, ExactOK, OwnersOK
<1>2. PICK u \in Usable : u >= begin
  <2>1. Usable \ out # {}
    BY <1>0, FS_EmptySet DEF OwnersOK, AllocExtend
  <2>2. PICK u \in Usable : u \notin Used
    BY <1>1, <2>1
  <2>3. u \in Nat /\ begin \in Nat /\ ~(u < begin)
    BY <1>0, <2>2, UsableFacts DEF Used, Types
  <2> QED
    BY <2>2, <2>3
<1>3. PICK a \in 1 .. LastArea : Areas[a].begin <= u /\ u < Areas[a].end
  BY AreaFacts DEF Usable
<1>4. /\ pos \in 1 .. LastArea /\ begin \in Nat /\ KernelEnd <= begin
      /\ Areas[pos].begin <= begin /\ begin <= Areas[pos].end
  BY <1>0 DEF ExtendOK, Types
<1>5. a >= pos
  <2>1. /\ u \in Nat /\ pos \in Nat /\ a \in Nat
        /\ Areas[a].end \in Nat /\ Areas[pos].begin \in Nat
    BY <1>2, <1>3, <1>4, AreaFacts, UsableFacts
  <2>2. a < pos => Areas[a].end < Areas[pos].begin
    BY <1>3, <1>4, AreaFacts
  <2> QED
    BY <1>2, <1>3, <1>4, <2>1, <2>2
<1>6. jump => pos + 1 \in 1 .. LastArea
  BY <1>2, <1>3, <1>4, <1>5, AreaFacts, UsableFacts
<1>7. /\ pos' = (IF jump THEN pos + 1 ELSE pos) /\ begin' = f + 1
      /\ free' = free - 1 /\ mem' = [mem EXCEPT ![f] = ZeroNode]
      /\ ret' = f /\ out' = out \cup {f}
      /\ UNCHANGED <<pte, count, chain, relinked, wild>>
  BY <1>4, <1>6, AreaFacts DEF AllocExtend, HandOut, AreaAt
<1>8. /\ f \in Nat /\ begin <= f /\ KernelEnd <= f /\ pos' \in 1 .. LastArea
      /\ Areas[pos'].begin <= f /\ f < Areas[pos'].end
  BY <1>4, <1>6, <1>7, AreaFacts
<1>9. f \in Usable /\ f \in Frames
  <2>1. pos' \in DOMAIN Areas /\ Areas[pos'].end \in Nat /\ Areas[pos'].end <= EndFrame
        /\ EndFrame \in Nat /\ KernelEnd \in Nat
    BY <1>8, AreaFacts
  <2>2. f \in KernelEnd .. (EndFrame - 1)
    BY <1>8, <2>1
  <2>3. f \in Usable
    BY <1>8, <2>1, <2>2 DEF Usable
  <2> QED
    BY <2>3, UsableFacts
<1>10. \A x \in Usable : x < f + 1 <=> (x < begin \/ x = f)
  <2> SUFFICES ASSUME NEW x \in Usable, begin <= x, x < f
               PROVE  FALSE
    BY <1>4, <1>8, UsableFacts
  <2>1. PICK y \in 1 .. LastArea : Areas[y].begin <= x /\ x < Areas[y].end
    BY AreaFacts DEF Usable
  <2>2. jump /\ x \in Nat
    BY <1>4, <1>8, UsableFacts
  <2>3. y > pos
    <3>1. pos \in Nat /\ y \in Nat /\ x \in Nat /\ begin \in Nat /\ Areas[y].end \in Nat
          /\ begin = Areas[pos].end /\ begin <= x /\ x < Areas[y].end
      BY <1>4, <2>1, <2>2, AreaFacts
    <3>2. y # pos
      BY <3>1
    <3>3. y < pos => Areas[y].end < Areas[pos].begin
      BY <1>4, <2>1, AreaFacts
    <3>4. Areas[pos].begin \in Nat /\ Areas[pos].begin <= begin
      BY <1>4, AreaFacts
    <3> QED
      BY <3>1, <3>2, <3>3, <3>4
  <2>4. y >= pos + 1
    BY <1>4, <2>3, AreaFacts
  <2>5. pos + 1 \in 1 .. LastArea /\ f = Areas[pos + 1].begin
    BY <1>6, <2>2
  <2>6. Areas[pos + 1].begin <= Areas[y].begin
    <3>1. CASE y = pos + 1
      BY <2>5, <3>1, AreaFacts
    <3>2. CASE pos + 1 < y
      <4>1. Areas[pos + 1].end < Areas[y].begin
        BY <2>5, <3>2, AreaFacts
      <4> QED
        BY <2>5, <4>1, AreaFacts
    <3> QED
      BY <1>4, <2>4, <3>1, <3>2
  <2>7. Areas[pos + 1].begin \in Nat /\ Areas[y].begin \in Nat
    BY <2>5, AreaFacts
  <2> HIDE DEF f
  <2> QED
    BY <2>1, <2>2, <2>5, <2>6, <2>7
<1>11. Used' = Used \cup {f} /\ f \notin out
  <2>1. Used' = Used \cup {f}
    BY <1>7, <1>9, <1>10 DEF Used
  <2>2. f \notin Used
    BY <1>4, <1>8 DEF Used
  <2> QED
    BY <1>1, <2>1, <2>2
<1>12. Types'
  <2>1. mem' \in [Frames -> Node]
    BY <1>0, <1>7, <1>9, MemFacts
  <2>2. begin' \in Nat /\ pos' \in Nat /\ free' \in Nat
    BY <1>0, <1>7, <1>8 DEF AllocExtend, Types
  <2> QED
    BY <1>0, <1>7, <1>9, <2>1, <2>2 DEF Types
<1>13. ListOK'
  BY <1>1, <1>7 DEF ListOK
<1>14. ExactOK'
  <2>1. Cells' = {}
    BY <1>1, <1>7 DEF Cells
  <2> QED
    BY <1>1, <1>7, <1>11, <2>1 DEF ExactOK, Listed
<1>15. ExtendOK'
  BY <1>7, <1>8, AreaFacts DEF ExtendOK
<1>16. OwnersOK'
  BY <1>0, <1>7, <1>9, <1>11, OwnerCount DEF OwnersOK
<1> QED
  BY <1>0, <1>7, <1>12, <1>13, <1>14, <1>15, <1>16 DEF Inv

\* A returned frame becomes the new top node.  It is linked to the old one, or
\* to nothing when the window has never shown a node.
LEMMA NewNodeStep ==
    ASSUME Inv, NEW f \in out, DeallocNewNode(f), ~relinked'
    PROVE  Inv'
<1> DEFINE n == Len(chain)
<1>g. PICK g : g = <<n + 1, 0>>
  OBVIOUS
<1>0. Types /\ ListOK /\ ExactOK /\ ExtendOK /\ OwnersOK /\ ~wild
  BY DEF Inv
<1>1. f \in Usable /\ f \in Frames /\ f # 0 /\ \A k \in 1 .. n : chain[k] # f
  BY <1>0, UsableFacts, ListedFacts DEF OwnersOK
<1>2. /\ mem' = [mem EXCEPT ![f].next = pte] /\ pte' = f /\ count' = 1 /\ free' = free + 1
      /\ out' = out \ {f} /\ chain' = Append(chain, f)
      /\ UNCHANGED <<begin, pos, ret, wild>>
      /\ count = NodeCap \/ (count = 0 /\ pte = 0)
      /\ relinked' \in BOOLEAN
  BY <1>1 DEF DeallocNewNode, map
<1>3. /\ n \in Nat /\ NodeCap \in Nat /\ NodeCap > 1 /\ pte \in Frames /\ pte \in Words
      /\ mem \in [Frames -> Node] /\ chain \in Seq(Frames) /\ count \in Nat
  BY <1>0, NodeAssumption, ListedFacts DEF Types, Words
<1>4. /\ chain' \in Seq(Frames) /\ Len(chain') = n + 1 /\ chain'[n + 1] = f
      /\ \A k \in 1 .. n : chain'[k] = chain[k]
  BY <1>1, <1>2, <1>3, AppendProperties
<1>5. mem' \in [Frames -> Node] /\ mem'[f].next = pte /\ \A x \in Frames : x # f => mem'[x] = mem[x]
  <2>1. mem' \in [Frames -> Node]
    BY <1>0, <1>1, <1>2, <1>3, MemFacts
  <2>2. mem[f] \in Node
    BY <1>1, <1>3
  <2>3. mem'[f].next = pte
    BY <1>1, <1>2, <1>3, <2>2 DEF Node
  <2> QED
    BY <1>1, <1>2, <1>3, <2>1, <2>3
<1>6. \A k \in 1 .. n : mem'[chain'[k]] = mem[chain[k]]
  BY <1>1, <1>4, <1>5, ListedFacts
<1>7. n = 0 => pte = 0
  BY <1>0, <1>2, <1>3 DEF ListOK
<1>8. n > 0 => pte = chain[n] /\ count = NodeCap
  BY <1>0, <1>2, <1>3 DEF ListOK
<1>9. Types'
  <2>1. count' \in 0 .. NodeCap /\ free' \in Nat
    BY <1>0, <1>2, <1>3 DEF Types
  <2> QED
    BY <1>0, <1>1, <1>2, <1>4, <1>5, <2>1 DEF Types
<1>10. ListOK'
  <2>1. /\ (count' = 0) <=> (Len(chain') = 0)
        /\ count' > 0 => pte' = chain'[Len(chain')]
    BY <1>2, <1>3, <1>4
  <2>2. ASSUME NEW k \in 1 .. (n + 1)
        PROVE  mem'[chain'[k]].next = IF k = 1 THEN 0 ELSE chain'[k - 1]
    <3>1. CASE k \in 1 .. n
      <4>1. mem[chain[k]].next = IF k = 1 THEN 0 ELSE chain[k - 1]
        BY <1>0, <3>1 DEF ListOK
      <4>2. k # 1 => k - 1 \in 1 .. n
        BY <1>3, <3>1
      <4> QED
        BY <1>4, <1>6, <3>1, <4>1, <4>2
    <3>2. CASE k = n + 1
      <4>1. n > 0 => n \in 1 .. n
        BY <1>3
      <4> QED
        BY <1>3, <1>4, <1>5, <1>7, <1>8, <3>2, <4>1
    <3> QED
      BY <1>3, <2>2, <3>1, <3>2
  <2> QED
    BY <1>4, <2>1, <2>2 DEF ListOK
<1>11. ExactOK'
  <2>1. Cells' = Cells \cup {g}
    <3>1. \A c : c \in Cells' <=> \E k \in 1 .. (n + 1), s \in 0 .. (NodeCap - 1) :
                                     c = <<k, s>> /\ (k = n + 1 => s < 1)
      BY <1>2, <1>4 DEF Cells
    <3>2. \A c : c \in Cells <=> \E k \in 1 .. n, s \in 0 .. (NodeCap - 1) : c = <<k, s>>
      <4>1. \A k \in 1 .. n, s \in 0 .. (NodeCap - 1) : s < count
        BY <1>3, <1>8
      <4> HIDE DEF n
      <4> QED
        BY <4>1, CellFacts DEF n
    <3>3. \A k \in 1 .. (n + 1), s \in 0 .. (NodeCap - 1) :
             (k = n + 1 => s < 1) <=> (k \in 1 .. n \/ <<k, s>> = g)
      BY <1>g, <1>3
    <3>4. /\ \A k \in 1 .. n : k \in 1 .. (n + 1)
          /\ n + 1 \in 1 .. (n + 1) /\ 0 \in 0 .. (NodeCap - 1) /\ 0 < 1
      BY <1>3
    <3>5. ASSUME NEW c \in Cells'
          PROVE  c \in Cells \cup {g}
      <4>1. PICK k \in 1 .. (n + 1), s \in 0 .. (NodeCap - 1) :
                   c = <<k, s>> /\ (k = n + 1 => s < 1)
        BY <3>1
      <4> QED
        BY <3>2, <3>3, <4>1
    <3>6. ASSUME NEW c \in Cells \cup {g}
          PROVE  c \in Cells'
      <4>1. CASE c = g
        BY <1>g, <3>1, <3>4, <4>1
      <4>2. CASE c \in Cells
        <5>1. PICK k \in 1 .. n, s \in 0 .. (NodeCap - 1) : c = <<k, s>>
          BY <3>2, <4>2
        <5> QED
          BY <3>1, <3>3, <3>4, <5>1
      <4> QED
        BY <3>6, <4>1, <4>2
    <3> QED
      BY <3>5, <3>6
  <2>2. g \notin Cells
    BY <1>g, <1>3 DEF Cells
  <2>3. \A c \in Cells : Val(c)' = Val(c)
    BY <1>4, <1>6 DEF Cells, Val
  <2>4. Val(g)' = f
    BY <1>g, <1>4 DEF Val
  <2>5. Used' = Used
    BY <1>2 DEF Used
  <2> QED
    BY <1>2, <2>1, <2>2, <2>3, <2>4, <2>5, ListAdd
<1>12. OwnersOK'
  BY <1>0, <1>1, <1>2, OwnerCount DEF OwnersOK, Used
<1> QED
  BY <1>0, <1>2, <1>9, <1>10, <1>11, <1>12 DEF Inv, ExtendOK

\* A returned frame is stored in the top node.
LEMMA StoreStep ==
    ASSUME Inv, NEW f \in out, DeallocSlot(f)
    PROVE  Inv'
<1> DEFINE n == Len(chain)
<1>g. PICK g : g = <<n, count>>
  OBVIOUS
<1>0. Types /\ ListOK /\ ExactOK /\ ExtendOK /\ OwnersOK /\ ~wild
  BY DEF Inv
<1>1. /\ NodeCap \in Nat /\ NodeCap > 1 /\ n \in Nat /\ n \in 1 .. n
      /\ count \in Nat /\ count > 0 /\ count < NodeCap /\ count \in Slots
      /\ pte = chain[n] /\ pte \in Frames
  BY <1>0, NodeAssumption, ListedFacts DEF DeallocSlot, Types, ListOK, Slots
<1>2. /\ mem' = [mem EXCEPT ![pte].frames[count] = f] /\ count' = count + 1
      /\ free' = free + 1 /\ out' = out \ {f}
      /\ UNCHANGED <<begin, pos, pte, ret, chain, relinked, wild>>
  BY DEF DeallocSlot
<1>3. f \in Usable /\ f \in Frames /\ f \in Words /\ mem \in [Frames -> Node]
  BY <1>0, UsableFacts DEF OwnersOK, Used, Words, Types
<1>4. mem' \in [Frames -> Node]
  BY <1>0, <1>1, <1>2, <1>3, MemFacts
<1>5. /\ mem'[pte].next = mem[pte].next /\ mem'[pte].frames[count] = f
      /\ \A s \in Slots : s # count => mem'[pte].frames[s] = mem[pte].frames[s]
      /\ \A x \in Frames : x # pte => mem'[x] = mem[x]
  <2>1. mem[pte] \in Node /\ mem[pte].frames \in [Slots -> Words]
    BY <1>1, <1>3 DEF Node
  <2>2. mem'[pte] = [mem[pte] EXCEPT !.frames[count] = f]
    BY <1>1, <1>2, <1>3
  <2> QED
    BY <1>1, <1>2, <1>3, <2>1, <2>2 DEF Node
<1>6. \A k \in 1 .. n : /\ mem'[chain[k]].next = mem[chain[k]].next
                        /\ k # n => mem'[chain[k]] = mem[chain[k]]
  BY <1>1, <1>5, ListedFacts
<1>7. Types'
  <2>1. count' \in 0 .. NodeCap /\ free' \in Nat
    BY <1>0, <1>1, <1>2 DEF Types
  <2> QED
    BY <1>0, <1>2, <1>4, <2>1 DEF Types
<1>8. ListOK'
  BY <1>0, <1>1, <1>2, <1>6 DEF ListOK
<1>9. ExactOK'
  <2>1. Cells' = Cells \cup {g}
    <3>1. \A c : c \in Cells' <=> \E k \in 1 .. n, s \in 0 .. (NodeCap - 1) :
                                     c = <<k, s>> /\ (k = n => s < count + 1)
      BY <1>2 DEF Cells
    <3>2. \A s \in 0 .. (NodeCap - 1) : s < count + 1 <=> (s < count \/ s = count)
      BY <1>1
    <3>3. count \in 0 .. (NodeCap - 1)
      BY <1>1
    <3> QED
      BY <1>g, <1>1, <3>1, <3>2, <3>3, CellFacts
  <2>2. g \notin Cells
    BY <1>g, <1>1 DEF Cells
  <2>3. ASSUME NEW c \in Cells
        PROVE  Val(c)' = Val(c)
    <3>1. PICK k \in 1 .. n, s \in 0 .. (NodeCap - 1) : c = <<k, s>> /\ (k = n => s < count)
      BY CellFacts
    <3>2. CASE s = 0
      BY <1>2, <3>1, <3>2 DEF Val
    <3>3. CASE s # 0
      <4>1. s \in Slots
        BY <1>1, <3>3 DEF Slots
      <4>2. mem'[chain[k]].frames[s] = mem[chain[k]].frames[s]
        BY <1>1, <1>5, <1>6, <3>1, <4>1
      <4> QED
        BY <1>2, <3>1, <4>2 DEF Val
    <3> QED
      BY <3>2, <3>3
  <2>4. Val(g)' = f
    BY <1>g, <1>1, <1>2, <1>5 DEF Val
  <2>5. Used' = Used
    BY <1>2 DEF Used
  <2> QED
    BY <1>2, <2>1, <2>2, <2>3, <2>4, <2>5, ListAdd
<1>10. OwnersOK'
  BY <1>0, <1>2, <1>3, OwnerCount DEF OwnersOK, Used
<1> QED
  BY <1>0, <1>2, <1>7, <1>8, <1>9, <1>10 DEF Inv, ExtendOK
-----------------------------------------------------------------------------
\* alloc_init() establishes the invariant: nothing was used, nothing is listed.
LEMMA InitInv ==
    ASSUME Init
    PROVE  Inv
<1>1. /\ pos \in 1 .. LastArea /\ Areas[pos].end > KernelEnd
      /\ \A j \in 1 .. (pos - 1) : Areas[j].end <= KernelEnd
      /\ begin = IF KernelEnd < Areas[pos].begin THEN Areas[pos].begin ELSE KernelEnd
      /\ free = Capacity /\ pte = 0 /\ count = 0 /\ mem = [f \in Frames |-> JunkNode] /\ ret = 0
      /\ out = {} /\ chain = <<>> /\ relinked = FALSE /\ wild = FALSE
  BY AreaFacts DEF Init, FirstRelevant
<1>2. ExtendOK /\ begin \in Nat /\ pos \in Nat
  BY <1>1, AreaFacts DEF ExtendOK
<1>3. Used = {}
  <2> SUFFICES ASSUME NEW f \in Usable, f < begin
               PROVE  FALSE
    BY DEF Used
  <2>1. PICK a \in 1 .. LastArea : Areas[a].begin <= f /\ f < Areas[a].end
    BY AreaFacts DEF Usable
  <2>2. f \in Nat /\ f >= KernelEnd /\ KernelEnd \in Nat
    BY UsableFacts, AreaFacts
  <2>3. begin = Areas[pos].begin
    BY <1>1, <2>2
  <2>4. ~(a < pos)
    BY <1>1, <2>1, <2>2, AreaFacts
  <2>5. a # pos
    BY <1>2, <2>1, <2>2, <2>3, AreaFacts
  <2> QED
    BY <1>1, <1>2, <2>1, <2>2, <2>3, <2>4, <2>5, AreaFacts
<1>4. Len(chain) = 0 /\ chain \in Seq(Frames)
  BY <1>1, EmptySeq
<1>5. Cells = {}
  BY <1>4, CellFacts
<1>6. Listed = {}
  BY <1>5 DEF Listed
<1>7. Usable \ out = Usable /\ Cardinality(Usable) \in Nat
  BY <1>1, UsableFacts, FS_CardinalityType
<1>8. OwnersOK /\ free \in Nat
  BY <1>1, <1>7, CapacityAssumption DEF OwnersOK
<1>9. ListOK
  BY <1>1, <1>4 DEF ListOK
<1>10. ExactOK
  BY <1>1, <1>3, <1>5, <1>6 DEF ExactOK
<1>11. mem \in [Frames -> Node]
  BY <1>1 DEF JunkNode, Node, Words
<1>12. count \in 0 .. NodeCap /\ pte \in Frames /\ ret \in Frames
  BY <1>1, NodeAssumption, UsableFacts
<1>13. Types
  BY <1>1, <1>2, <1>4, <1>8, <1>11, <1>12 DEF Types
<1> QED
  BY <1>1, <1>2, <1>8, <1>9, <1>10, <1>13 DEF Inv

\* Every operation keeps the invariant, unless it links a stale node address.
LEMMA NextInv ==
    ASSUME Inv, [Next]_vars, ~relinked'
    PROVE  Inv'
<1>1. CASE AllocNone
  BY <1>1, NoneStep
<1>2. CASE AllocSlot
  BY <1>2, SlotStep
<1>3. CASE AllocNode
  BY <1>3, NodeStep
<1>4. CASE AllocExtend
  BY <1>4, ExtendStep
<1>5. ASSUME NEW f \in out, DeallocNewNode(f)
      PROVE  Inv'
  BY <1>5, NewNodeStep
<1>6. ASSUME NEW f \in out, DeallocSlot(f)
      PROVE  Inv'
  BY <1>6, StoreStep
<1>7. ASSUME NEW f \in out, ClientWrite(f)
      PROVE  Inv'
  BY <1>7, WriteStep
<1>8. CASE UNCHANGED vars
  <2>1. UNCHANGED <<begin, pos, free, pte, count, mem, ret, out, chain, relinked, wild>>
    BY <1>8 DEF vars
  <2>2. Cells' = Cells /\ Used' = Used /\ Listed' = Listed /\ \A c : Val(c)' = Val(c)
    BY <2>1 DEF Cells, Used, Listed, Val
  <2> QED
    BY <2>1, <2>2 DEF Inv, Types, ListOK, ExactOK, ExtendOK, OwnersOK
<1> QED
  BY <1>1, <1>2, <1>3, <1>4, <1>5, <1>6, <1>7, <1>8 DEF Next, alloc_frame, dealloc_frame

\* Once a stale address was linked it stays so.
LEMMA RelinkedStays ==
    ASSUME [Next]_vars, relinked
    PROVE  relinked'
BY DEF Next, vars, alloc_frame, dealloc_frame, AllocNone, AllocSlot, AllocNode, AllocExtend,
       DeallocNewNode, DeallocSlot, ClientWrite, GoWild

\* The invariant holds until dealloc_frame() links a stale node address.
THEOREM Invariance == Spec => []IInv
<1>1. Init => IInv
  BY InitInv DEF IInv
<1>2. IInv /\ [Next]_vars => IInv'
  BY NextInv, RelinkedStays DEF IInv
<1> QED
  BY <1>1, <1>2, PTL DEF Spec

\* Every variable keeps its type as long as no stale node address was linked: a
\* count stays within the node and the window shows a frame.
THEOREM TypeCorrect == Spec => []TypeOK
<1>1. IInv => TypeOK
  BY DEF IInv, Inv, TypeOK
<1> QED
  BY <1>1, Invariance, PTL

\* The free list holds each returned frame once, for every memory map and node
\* size: alloc_frame() cannot hand out a frame that has an owner.
THEOREM FreeListCorrect == Spec => []FreeListExact
<1>1. IInv => FreeListExact
  BY DEF IInv, Inv, ExactOK, FreeListExact
<1> QED
  BY <1>1, Invariance, PTL

\* alloc->free is exact, so extend() never runs past the memory map.
THEOREM FreeCountCorrect == Spec => []FreeCountExact
<1>1. IInv => FreeCountExact
  BY DEF IInv, Inv, OwnersOK, FreeCountExact
<1> QED
  BY <1>1, Invariance, PTL

\* Every frame handed out is usable memory above the kernel, and no data of
\* clients is ever taken for an address.
THEOREM OutUsableCorrect == Spec => []OutUsable
<1>1. IInv => OutUsable
  BY DEF IInv, Inv, OwnersOK, Used, OutUsable
<1> QED
  BY <1>1, Invariance, PTL

-----------------------------------------------------------------------------
\* A frame that is handed out was usable and had no owner: the free count,
\* which is exact before and after, went down.
LEMMA HandOutIsGet ==
    ASSUME Inv, Inv', NEW f, free' = free - 1, out' = out \cup {f}, ret' = f
    PROVE  Abs!Get
<1>1. f \in Usable
  BY DEF Inv, OwnersOK, Used
<1>2. free \in Nat /\ free = Cardinality(Usable \ out) /\ free' = Cardinality(Usable \ out')
  BY DEF Inv, OwnersOK, Types
<1>3. f \notin out
  <2> SUFFICES ASSUME f \in out
               PROVE  FALSE
    OBVIOUS
  <2>1. out' = out
    OBVIOUS
  <2> QED
    BY <1>2, <2>1
<1> QED
  BY <1>1, <1>3 DEF Abs!Get

\* Each operation is a step of the pool or changes nothing in it.
LEMMA StepRefines ==
    ASSUME Inv, Inv', [Next]_vars
    PROVE  Abs!Get \/ Abs!GetFails \/ Abs!Put \/ UNCHANGED <<out, ret>>
<1>0. ~wild'
  BY DEF Inv
<1>1. CASE AllocNone
  <2>1. free = 0 /\ ret' = 0 /\ out' = out
    BY <1>1 DEF AllocNone
  <2>2. Usable \ out = {}
    <3>1. Cardinality(Usable \ out) = 0 /\ IsFiniteSet(Usable \ out)
      BY <2>1, UsableFacts, FS_Subset DEF Inv, OwnersOK
    <3> QED
      BY <3>1, FS_EmptySet
  <2> QED
    BY <2>1, <2>2 DEF Abs!GetFails
<1>2. CASE AllocSlot
  <2>1. PICK f : HandOut(f)
    BY <1>0, <1>2 DEF AllocSlot, GoWild
  <2> QED
    BY <2>1, HandOutIsGet DEF HandOut
<1>3. CASE AllocNode
  <2>1. PICK f : HandOut(f)
    BY <1>0, <1>3 DEF AllocNode, GoWild
  <2> QED
    BY <2>1, HandOutIsGet DEF HandOut
<1>4. CASE AllocExtend
  <2>1. PICK f : HandOut(f)
    BY <1>4 DEF AllocExtend
  <2> QED
    BY <2>1, HandOutIsGet DEF HandOut
<1>5. ASSUME NEW f \in out, DeallocNewNode(f) \/ DeallocSlot(f)
      PROVE  Abs!Put
  BY <1>5 DEF DeallocNewNode, DeallocSlot, Abs!Put
<1>6. ASSUME NEW f \in out, ClientWrite(f)
      PROVE  UNCHANGED <<out, ret>>
  BY <1>6 DEF ClientWrite
<1>7. CASE UNCHANGED vars
  BY <1>7 DEF vars
<1> QED
  BY <1>1, <1>2, <1>3, <1>4, <1>5, <1>6, <1>7 DEF Next, alloc_frame, dealloc_frame

\* Only a returned frame that becomes a new node can link a stale address, and
\* its owner loses it like any other.
LEMMA OnlyPutRelinks ==
    ASSUME [Next]_vars, ~relinked, relinked'
    PROVE  Abs!Put
<1>1. PICK f \in out : DeallocNewNode(f)
  BY DEF Next, vars, alloc_frame, dealloc_frame, AllocNone, AllocSlot, AllocNode, AllocExtend,
         DeallocSlot, ClientWrite, GoWild
<1> QED
  BY <1>1 DEF DeallocNewNode, Abs!Put

\* The flags of a step without a stale link stay as they are.
LEMMA RelinkedBoolean ==
    ASSUME [Next]_vars, relinked \in BOOLEAN
    PROVE  relinked' \in BOOLEAN
BY DEF Next, vars, alloc_frame, dealloc_frame, AllocNone, AllocSlot, AllocNode, AllocExtend,
       DeallocNewNode, DeallocSlot, ClientWrite, GoWild

\* Up to the call that links a stale address, get_frame() and free_frame() are a
\* pool in which every usable frame has at most one owner and 0 is answered only
\* when all frames have one, for every memory map and node size.
THEOREM Refinement == Spec => ImplementsPool
<1>1. Init => IInv /\ relinked \in BOOLEAN /\ Abs!PoolInit
  <2>1. Init => relinked \in BOOLEAN /\ Abs!PoolInit
    BY DEF Init, Abs!PoolInit
  <2> QED
    BY <2>1, InitInv DEF IInv
<1>2. relinked \in BOOLEAN /\ [Next]_vars => (relinked \in BOOLEAN)'
  BY RelinkedBoolean
<1>3. IInv /\ IInv' /\ [Next]_vars /\ relinked \in BOOLEAN => [Abs!PoolNext]_Abs!poolVars
  <2> SUFFICES ASSUME IInv, IInv', [Next]_vars, relinked \in BOOLEAN
               PROVE  [Abs!PoolNext]_Abs!poolVars
    OBVIOUS
  <2>0. relinked' \in BOOLEAN
    BY RelinkedBoolean
  <2>1. CASE relinked
    BY <2>1, RelinkedStays DEF Abs!PoolNext
  <2>2. CASE ~relinked /\ relinked'
    BY <2>2, OnlyPutRelinks DEF Abs!PoolNext
  <2>3. CASE ~relinked /\ ~relinked'
    <3>1. Abs!Get \/ Abs!GetFails \/ Abs!Put \/ UNCHANGED <<out, ret>>
      BY <2>3, StepRefines DEF IInv
    <3>2. relinked' = relinked
      BY <2>0, <2>3
    <3> QED
      BY <2>3, <3>1, <3>2 DEF Abs!PoolNext, Abs!poolVars
  <2> QED
    BY <2>1, <2>2, <2>3
<1> QED
  BY <1>1, <1>2, <1>3, Invariance, PTL DEF Spec, ImplementsPool, Abs!PoolSpec
=============================================================================
