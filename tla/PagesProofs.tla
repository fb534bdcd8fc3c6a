----------------------------- MODULE PagesProofs -----------------------------
(***************************************************************************)
(* Proofs about Pages, for every number of tasks, every set of pages and   *)
(* every size of the tables: address spaces share no frame, pages keep     *)
(* their rights and the counts in the page table entries are exact.        *)
(***************************************************************************)
EXTENDS Pages, SequenceTheorems, FiniteSetTheorems, TLAPS

\* Those who own pages, and which.
Everyone == Spaces \cup {KERNEL}
PagesOf(s) == IF s = KERNEL THEN Range(KernelPages) ELSE UserPages

\* The entries of the walk to page v that begins with the top entry r.
Below(T, e, x) == IF e.present THEN T[e.addr][x] ELSE Empty

Walk(T, r, v, i) ==
    CASE i = 0 -> r
      [] i = 1 -> Below(T, r, v[2])
      [] i = 2 -> Below(T, Below(T, r, v[2]), v[3])
      [] i = 3 -> Below(T, Below(T, Below(T, r, v[2]), v[3]), v[4])

SamePath(v, w, i) == \A k \in 1 .. (i + 1) : v[k] = w[k]

\* All walks of the owners whose top entries R gives.
Walks(T, R) == [s \in DOMAIN R |-> [v \in PagesOf(s) |-> [i \in 0 .. 3 |-> Walk(T, R[s], v, i)]]]

\* Entry i of the walk of s to page v.
At(W, s, v, i) == W[s][v][i]

TableSet == [Tables -> [Idx -> EntryType]]

\* What the address of a present entry may be: the tables of the kernel half
\* begin in the image, everything else is a frame that was handed out.
Home(s, i, Free, zero) ==
    IF s = KERNEL /\ i = 0 THEN {PDPT}
    ELSE IF s = KERNEL /\ i = 1 THEN {KernelPD}
    ELSE IF i = 3 THEN Frames \ Free
    ELSE Frames \ (Free \cup {zero})

\* No frame is a table or a page at two places, except for the zero page.
Tree(W, S, Free, zero) ==
    /\ \A s \in S : \A v \in PagesOf(s) : \A i \in 0 .. 3 :
          At(W, s, v, i).present => At(W, s, v, i).addr \in Home(s, i, Free, zero)
    /\ \A s, t \in S : \A v \in PagesOf(s) : \A w \in PagesOf(t) : \A i, j \in 0 .. 3 :
          /\ At(W, s, v, i).present /\ At(W, t, w, j).present
          /\ At(W, s, v, i).addr = At(W, t, w, j).addr
          /\ At(W, s, v, i).addr # zero
          => s = t /\ i = j /\ SamePath(v, w, i)

\* And every frame that was handed out is somewhere.
NoLoss(W, S, Free, zero) ==
    \A f \in Frames \ (Free \cup {zero}) :
        \E s \in S : \E v \in PagesOf(s) : \E i \in 0 .. 3 :
            At(W, s, v, i).present /\ At(W, s, v, i).addr = f

Forest(W, S, Free, zero) == Tree(W, S, Free, zero) /\ NoLoss(W, S, Free, zero)

Count(t) == Cardinality({x \in Idx : t[x].present})

CountsOK(T, W, S) ==
    \A s \in S : \A v \in PagesOf(s) : \A i \in 0 .. 2 :
        At(W, s, v, i).present => At(W, s, v, i).cnt = Count(T[At(W, s, v, i).addr])

\* The entries above a page leave all rights to it, except that the kernel half
\* is closed to user mode at the top.
RightsOK(W, S) ==
    \A s \in S : \A v \in PagesOf(s) :
        /\ \A i \in 0 .. 2 : At(W, s, v, i).present =>
              At(W, s, v, i).rw /\ ~At(W, s, v, i).nx /\ ~At(W, s, v, i).lazy
        /\ s # KERNEL => \A i \in 0 .. 2 : At(W, s, v, i).present => At(W, s, v, i).user
        /\ s = KERNEL => At(W, s, v, 0).present /\ ~At(W, s, v, 0).user

\* Page p of the image, which pages 0 and 1 show only until they are windows.
ImageLeaf(e, p) ==
    /\ e.present /\ e.rw = (p < Text \/ p >= Data) /\ ~e.user
    /\ p > 1 => e.addr = p /\ e.nx = ~ (Text <= p /\ p < Rodata)

\* The kernel image in the tables.
Spine(e, a) == e.present /\ e.addr = a /\ e.rw /\ ~e.user /\ ~e.nx

ImageOK(T) ==
    /\ Spine(T[PML4][High], PDPT) /\ ~T[PML4][High].lazy
    /\ \A x \in Idx : T[PDPT][x].present <=> x = KernelIdx
    /\ Spine(T[PDPT][KernelIdx], KernelPD) /\ ~T[PDPT][KernelIdx].lazy
    /\ Spine(T[KernelPD][0], End)
    /\ \A p \in 0 .. (End - 1) : ImageLeaf(T[End][p], p)

\* A page that was asked for is there, and as it was asked for.
LeafOK(e, flags, zero) ==
    IF flags = NULL THEN e = Empty
    ELSE /\ e.present /\ e.user = flags.user /\ e.nx = ~flags.exe
         /\ \/ /\ flags.immediate
               /\ e.addr # zero /\ ~e.lazy /\ e.rw = flags.rw
            \/ /\ ~flags.immediate
               /\ e.addr = zero /\ ~e.rw /\ e.lazy = flags.rw
            \/ /\ ~flags.immediate /\ flags.rw
               /\ e.addr # zero /\ e.rw /\ ~e.lazy

LeavesOK(W, S, A, zero) ==
    \A s \in S : \A v \in PagesOf(s) : LeafOK(At(W, s, v, 3), A[s][v], zero)

\* Only the owner of a page has written to its frame.
DataOK(W, S, D, zero) ==
    /\ D[zero] = NULL
    /\ \A s \in S : \A v \in PagesOf(s) :
          At(W, s, v, 3).present => D[At(W, s, v, 3).addr] \in {NULL, s}

\* The pool holds no frame twice; `more' are frames taken and not yet mapped.
PoolOK(pool, more) ==
    /\ \A j, k \in 1 .. Len(pool) : pool[j] = pool[k] => j = k
    /\ Range(pool) \cap more = {}

Owners == Made \cup {KERNEL}
Tops(m) == [s \in Owners |-> IF s = KERNEL THEN m.table[PML4][High]
                             ELSE IF s = building THEN m.table[PML4][0] ELSE memory[s]]
Map(m) == Walks(m.table, Tops(m))

MmType == [table : TableSet, pool : Seq(Frames)]

\* The tables and the pool, also in the middle of a mapping.
Shape(m, more) ==
    /\ m \in MmType
    /\ more \subseteq Frames
    /\ zero_page \in Frames /\ zero_page \notin Range(m.pool) \cup more
    /\ PoolOK(m.pool, more)
    /\ Forest(Map(m), Owners, Range(m.pool) \cup more, zero_page)
    /\ RightsOK(Map(m), Owners)
    /\ ImageOK(m.table)

Sound(m, more) == Shape(m, more) /\ CountsOK(m.table, Map(m), Owners)

\* Whose address space is loaded: what PML4[0] holds is what that task keeps.
\* Only owners have asked for pages, for their own, and the kernel for none
\* that user mode may use.
LoadedOK ==
    /\ building # NULL => memory[building] = NULL
    /\ building = NULL /\ current # NULL =>
          memory[current] # NULL /\ memory[current] = mm.table[PML4][0]
    /\ \A s \in Spaces \ Made : \A v \in VPages : asked[s][v] = NULL
    /\ \A s \in Everyone : \A v \in VPages \ PagesOf(s) : asked[s][v] = NULL
    /\ \A v \in VPages : asked[KERNEL][v] # NULL => ~asked[KERNEL][v].user

Live ==
    /\ Sound(mm, {})
    /\ LeavesOK(Map(mm), Owners, asked, zero_page)
    /\ DataOK(Map(mm), Owners, data, zero_page)
    /\ LoadedOK

\* Before paging: nobody owns anything, every frame is in the pool.
Fresh ==
    /\ mm.pool = [k \in 1 .. NFrames |-> FirstFrame + k - 1]
    /\ memory = [s \in Spaces |-> NULL] /\ building = NULL /\ current = NULL
    /\ data = [f \in Frames |-> NULL]
    /\ asked = [s \in Everyone |-> [v \in VPages |-> NULL]]

\* Entries that the boot code writes: those of the kernel's tables with their
\* counts, those of the pages of the image, and those of the two windows.
Kernels(e, a, c) ==
    /\ e \in EntryType /\ e.present /\ e.addr = a /\ e.rw /\ ~e.user /\ ~e.nx /\ ~e.lazy /\ e.cnt = c

Section(e, p) ==
    /\ e \in EntryType /\ e.present /\ e.addr = p /\ e.rw = (p < Text \/ p >= Data)
    /\ ~e.user /\ e.nx = ~ (Text <= p /\ p < Rodata)

Opened(e) == e \in EntryType /\ e.present /\ e.rw /\ ~e.user

\* The tables after initialize_paging() and initialize_frame_allocation().
UpperRows(T) ==
    /\ Kernels(T[PML4][High], PDPT, 1) /\ Kernels(T[PML4][0], PDPT, 1)
    /\ Kernels(T[PDPT][KernelIdx], KernelPD, 1)
    /\ \A x \in Idx \ {0, KernelIdx} : T[PDPT][x] = Empty
    /\ Kernels(T[KernelPD][0], End, End)
    /\ \A x \in Idx \ {0} : T[KernelPD][x] = Empty

FirstRows(T) == UpperRows(T) /\ \A p \in 0 .. (End - 1) : Section(T[End][p], p)

FrameRows(T) ==
    /\ UpperRows(T) /\ Opened(T[End][0])
    /\ \A p \in 1 .. (End - 1) : Section(T[End][p], p)

IInv ==
    /\ TypeOK
    /\ phase = "start" => Fresh
    /\ phase = "paging" => Fresh /\ FirstRows(mm.table)
    /\ phase = "frames" => Fresh /\ FrameRows(mm.table)
    /\ phase = "memory" => building = NULL /\ current = NULL
    /\ phase \in {"memory", "up"} => Live
    /\ phase = "halt" => ImageOK(mm.table)
-----------------------------------------------------------------------------
\* The page tables of the image: one, since the kernel is smaller than a table.
LEMMA Sizes ==
    /\ Entries \in Nat /\ Entries > 4 /\ Entries < CountMax /\ End \in Nat /\ 1 < End /\ End < Entries
    /\ End % Entries = End /\ TablesFor(End) = 1 /\ FirstFrame = End + 1
    /\ Text \in Nat /\ 1 < Text
    /\ {0, 1, High, KernelIdx, PG_SELF} \subseteq Idx
    /\ High # 0 /\ KernelIdx # 0 /\ High # KernelIdx /\ Idx = 0 .. (Entries - 1)
    /\ \A p \in 0 .. (End - 1) : p \div Entries = 0 /\ p % Entries = p /\ p \in Idx
<1>1. /\ Entries \in Nat /\ Entries > 4 /\ Entries < CountMax /\ End \in Nat /\ 1 < End /\ End < Entries
      /\ Text \in Nat /\ 1 < Text
  BY PagesAssumption
<1>2. \A p \in 0 .. End : p \div Entries = 0 /\ p % Entries = p
  <2> TAKE p \in 0 .. End
  <2>1. p \in Nat /\ p < Entries
    BY <1>1
  <2> QED  BY <1>1, <2>1
<1>3. End \in 0 .. End
  BY <1>1
<1>4. End % Entries = End /\ TablesFor(End) = 1
  BY <1>1, <1>2, <1>3 DEF TablesFor
<1> QED  BY <1>1, <1>2, <1>4 DEF FirstFrame, Idx, High, KernelIdx, PG_SELF

LEMMA TableNames ==
    /\ Frames \subseteq Tables /\ Frames \subseteq Nat /\ End \in Tables \ Frames
    /\ \A f \in Frames : f > End
    /\ PML4 \in Tables \ Frames /\ PDPT \in Tables \ Frames /\ KernelPD \in Tables \ Frames
    /\ IdentityPD \in Tables \ Frames
    /\ PML4 # PDPT /\ PML4 # KernelPD /\ PDPT # KernelPD
    /\ IdentityPD \notin {PML4, PDPT, KernelPD, End} /\ End \notin {PML4, PDPT, KernelPD}
    /\ Tables = {PML4, PDPT, KernelPD, IdentityPD, End} \cup Frames
    /\ Frames = (End + 1) .. (End + NFrames) /\ NFrames \in Nat /\ NFrames > 0
<1>1. /\ PML4 = -1 /\ PDPT = -2 /\ KernelPD = -3 /\ IdentityPD = -4
      /\ End \in Nat /\ NFrames \in Nat /\ NFrames > 0 /\ FirstFrame = End + 1
  BY Sizes, PagesAssumption DEF PML4, PDPT, KernelPD, IdentityPD
<1>2. Frames = (End + 1) .. (End + NFrames)
  BY <1>1 DEF Frames
<1>3. \A f \in Frames : f \in Nat /\ f > End
  BY <1>1, <1>2
<1>4. \A x : x \in -4 .. -1 <=> x \in {-4, -3, -2, -1}
  OBVIOUS
<1>5. \A x : x \in End .. (FirstFrame - 1) <=> x = End
  BY <1>1
<1>6. Tables = {PML4, PDPT, KernelPD, IdentityPD, End} \cup Frames
  BY <1>1, <1>4, <1>5 DEF Tables
<1> QED  BY <1>1, <1>2, <1>3, <1>6

\* User pages lie in the lower half, those of the kernel behind its image.
LEMMA PageFacts ==
    /\ \A s \in Everyone : \A v \in PagesOf(s) :
          /\ v[1] \in Idx /\ v[2] \in Idx /\ v[3] \in Idx /\ v[4] \in Idx
          /\ v = <<v[1], v[2], v[3], v[4]>>
          /\ s = KERNEL => v[1] = High /\ v[2] = KernelIdx /\ v[3] # 0
          /\ s # KERNEL => v[1] = 0
          /\ v \in VPages
    /\ PagesOf(KERNEL) = VPages \ UserPages
    /\ KernelPages \in Seq(KernelHeap)
<1>1. KernelPages \in Seq(KernelHeap)
  BY PagesAssumption, ConcatProperties DEF KernelPages
<1>2. Range(KernelPages) \subseteq KernelHeap
  BY <1>1, ElementOfSeq, LenProperties DEF Range
<1>3. \A v \in KernelHeap : /\ v[1] = High /\ v[2] = KernelIdx /\ v[3] \in 1 .. (Entries - 1) /\ v[4] \in Idx
                            /\ v = <<v[1], v[2], v[3], v[4]>>
  BY Sizes DEF KernelHeap
<1>4. \A v \in UserPages : /\ v[1] = 0 /\ v[2] \in Idx /\ v[3] \in Idx /\ v[4] \in Idx
                           /\ v = <<v[1], v[2], v[3], v[4]>>
  BY PagesAssumption
<1>5. Range(KernelPages) \cap UserPages = {}
  BY <1>2, <1>3, <1>4, Sizes
<1>6. PagesOf(KERNEL) = VPages \ UserPages
  BY <1>5 DEF PagesOf, VPages
<1>7. \A v \in KernelHeap : v[3] # 0 /\ v[3] \in Idx
  <2>1. Idx = 0 .. (Entries - 1)
    BY Sizes
  <2>2. \A k : k \in 1 .. (Entries - 1) => k # 0 /\ k \in 0 .. (Entries - 1)
    OBVIOUS
  <2> QED  BY <1>3, <2>1, <2>2
<1> QED  BY <1>1, <1>2, <1>3, <1>4, <1>6, <1>7, Sizes DEF PagesOf, VPages

LEMMA WalkSteps ==
    ASSUME NEW T, NEW r, NEW v
    PROVE  /\ Walk(T, r, v, 0) = r
           /\ \A i \in 1 .. 3 : Walk(T, r, v, i) = Below(T, Walk(T, r, v, i - 1), v[i + 1])
<1>1. /\ Walk(T, r, v, 0) = r
      /\ Walk(T, r, v, 1) = Below(T, r, v[2])
      /\ Walk(T, r, v, 2) = Below(T, Below(T, r, v[2]), v[3])
      /\ Walk(T, r, v, 3) = Below(T, Below(T, Below(T, r, v[2]), v[3]), v[4])
  BY DEF Walk
<1>2. \A i \in 1 .. 3 : i = 1 \/ i = 2 \/ i = 3
  OBVIOUS
<1> QED  BY <1>1, <1>2

\* ptes() as a walk: the recursive function Entry has these values.
LEMMA EntryIsWalk ==
    ASSUME NEW m, NEW v, NEW i \in 0 .. 3
    PROVE  Entry(m, v, i) = Walk(m.table, m.table[PML4][v[1]], v, i)
<1> DEFINE r == m.table[PML4][v[1]]
           body(e) == [k \in 0 .. 3 |-> IF k = 0 THEN r
                                        ELSE IF e[k - 1].present THEN m.table[e[k - 1].addr][v[k + 1]]
                                        ELSE Empty]
           w == [k \in 0 .. 3 |-> Walk(m.table, r, v, k)]
           c == CHOOSE e : e = body(e)
<1>1. Entry(m, v, i) = c[i]
  BY DEF Entry
<1>2. \A k \in 1 .. 3 : k - 1 \in 0 .. 3
  OBVIOUS
<1>3. \A k \in 1 .. 3 : w[k] = IF w[k - 1].present THEN m.table[w[k - 1].addr][v[k + 1]] ELSE Empty
  <2> TAKE k \in 1 .. 3
  <2>1. w[k] = Walk(m.table, r, v, k) /\ w[k - 1] = Walk(m.table, r, v, k - 1)
    BY <1>2
  <2>2. Walk(m.table, r, v, k) = Below(m.table, Walk(m.table, r, v, k - 1), v[k + 1])
    BY WalkSteps
  <2> HIDE DEF w
  <2> QED  BY <2>1, <2>2 DEF Below
<1>4. w[0] = r
  BY WalkSteps
<1>5. w = body(w)
  <2>1. w = [k \in 0 .. 3 |-> w[k]]
    OBVIOUS
  <2> HIDE DEF w
  <2>2. \A k \in 0 .. 3 : k # 0 => k \in 1 .. 3
    OBVIOUS
  <2>3. \A k \in 0 .. 3 : w[k] = body(w)[k]
    BY <1>3, <1>4, <2>2
  <2> QED  BY <2>1, <2>3
<1> HIDE DEF w
<1>6. c = body(c)
  BY <1>5, Zenon
<1> HIDE DEF c
<1>7. c[0] = r
  BY <1>6
<1>8. \A k \in 1 .. 3 : c[k] = Below(m.table, c[k - 1], v[k + 1])
  <2> TAKE k \in 1 .. 3
  <2>1. k \in 0 .. 3 /\ k # 0
    OBVIOUS
  <2>2. c[k] = body(c)[k]
    BY <1>6
  <2> HIDE DEF c
  <2>3. body(c)[k] = IF c[k - 1].present THEN m.table[c[k - 1].addr][v[k + 1]] ELSE Empty
    BY <2>1
  <2> QED  BY <2>2, <2>3 DEF Below
<1>9. c[1] = Walk(m.table, r, v, 1) /\ c[2] = Walk(m.table, r, v, 2) /\ c[3] = Walk(m.table, r, v, 3)
  <2>1. c[1] = Below(m.table, c[0], v[2])
    BY <1>8
  <2>2. c[2] = Below(m.table, c[1], v[3])
    BY <1>8
  <2>3. c[3] = Below(m.table, c[2], v[4])
    BY <1>8
  <2> HIDE DEF r
  <2> QED  BY <1>7, <2>1, <2>2, <2>3 DEF Walk
<1>10. i = 0 \/ i = 1 \/ i = 2 \/ i = 3
  OBVIOUS
<1> QED  BY <1>1, <1>7, <1>9, <1>10, WalkSteps
-----------------------------------------------------------------------------
\* The entries of a walk, one from the other.
LEMMA WalksAre ==
    ASSUME NEW T, NEW S, NEW R, DOMAIN R = S, NEW s \in S, NEW v \in PagesOf(s)
    PROVE  /\ At(Walks(T, R), s, v, 0) = R[s]
           /\ \A i \in 1 .. 3 :
                 At(Walks(T, R), s, v, i) = Below(T, At(Walks(T, R), s, v, i - 1), v[i + 1])
<1>1. \A i \in 0 .. 3 : At(Walks(T, R), s, v, i) = Walk(T, R[s], v, i)
  BY DEF Walks, At
<1>2. \A i \in 1 .. 3 : i \in 0 .. 3 /\ i - 1 \in 0 .. 3
  OBVIOUS
<1> QED  BY <1>1, <1>2, WalkSteps

LEMMA PathFacts ==
    ASSUME NEW s \in Everyone, NEW v \in PagesOf(s), NEW w \in PagesOf(s)
    PROVE  /\ SamePath(v, w, 0)
           /\ \A i \in 1 .. 3 :
                 SamePath(v, w, i) <=> SamePath(v, w, i - 1) /\ v[i + 1] = w[i + 1]
<1>1. v[1] = w[1]
  BY PageFacts
<1>2. \A k \in 1 .. (0 + 1) : k = 1
  OBVIOUS
<1>3. ASSUME NEW i \in 1 .. 3
      PROVE  SamePath(v, w, i) <=> SamePath(v, w, i - 1) /\ v[i + 1] = w[i + 1]
  <2>1. \A k : k \in 1 .. (i + 1) <=> k \in 1 .. (i - 1 + 1) \/ k = i + 1
    OBVIOUS
  <2> QED  BY <2>1 DEF SamePath
<1> QED  BY <1>1, <1>2, <1>3 DEF SamePath

\* Pages that agree in the first indices have the same entries so far.
LEMMA PathWalk ==
    ASSUME NEW T, NEW S \in SUBSET Everyone, NEW R, DOMAIN R = S,
           NEW s \in S, NEW v \in PagesOf(s), NEW w \in PagesOf(s), NEW i \in 0 .. 3,
           SamePath(v, w, i)
    PROVE  At(Walks(T, R), s, v, i) = At(Walks(T, R), s, w, i)
<1> DEFINE W == Walks(T, R)
           P(k) == SamePath(v, w, k) => At(W, s, v, k) = At(W, s, w, k)
<1>1. P(0)
  BY WalksAre
<1>2. ASSUME NEW k \in 1 .. 3, P(k - 1)
      PROVE  P(k)
  <2>1. /\ At(W, s, v, k) = Below(T, At(W, s, v, k - 1), v[k + 1])
        /\ At(W, s, w, k) = Below(T, At(W, s, w, k - 1), w[k + 1])
    BY WalksAre
  <2> HIDE DEF W
  <2> QED  BY <1>2, <2>1, PathFacts
<1> HIDE DEF P
<1>3. P(1)
  <2>1. P(1 - 1)
    BY <1>1
  <2> QED  BY <2>1, <1>2
<1>4. P(2)
  <2>1. P(2 - 1)
    BY <1>3
  <2> QED  BY <2>1, <1>2
<1>5. P(3)
  <2>1. P(3 - 1)
    BY <1>4
  <2> QED  BY <2>1, <1>2
<1>6. i = 0 \/ i = 1 \/ i = 2 \/ i = 3
  OBVIOUS
<1> QED  BY <1>1, <1>3, <1>4, <1>5, <1>6 DEF P

\* What is above a page is a table, not the top one and not the zero page.
LEMMA TableAbove ==
    ASSUME NEW W, NEW S \in SUBSET Everyone, NEW Free, NEW zero \in Frames, Tree(W, S, Free, zero),
           NEW s \in S, NEW v \in PagesOf(s), NEW i \in 0 .. 3, At(W, s, v, i).present
    PROVE  /\ At(W, s, v, i).addr \in Tables \ {PML4}
           /\ i < 3 => At(W, s, v, i).addr # zero
           /\ At(W, s, v, i).addr \notin Free \cap Frames
<1>1. At(W, s, v, i).addr \in Home(s, i, Free, zero)
  BY DEF Tree
<1> QED  BY <1>1, TableNames DEF Home

\* The tree from one entry: nobody else's present entry points where it does.
LEMMA OnePlace ==
    ASSUME NEW W, NEW S, NEW Free, NEW zero, Tree(W, S, Free, zero),
           NEW s \in S, NEW v \in PagesOf(s), NEW i \in 0 .. 3,
           At(W, s, v, i).present, At(W, s, v, i).addr # zero
    PROVE  \A t \in S : \A w \in PagesOf(t) : \A j \in 0 .. 3 :
               At(W, t, w, j).present /\ At(W, t, w, j).addr = At(W, s, v, i).addr
               => t = s /\ j = i /\ SamePath(v, w, i)
  BY Zenon DEF Tree

\* W2 differs from W in entry i of page v, and of the pages that share it.
Point(W2, W, S, s, v, i, e) ==
    \A t \in S : \A w \in PagesOf(t) : \A j \in 0 .. 3 :
        At(W2, t, w, j) = IF t = s /\ j = i /\ SamePath(v, w, i) THEN e ELSE At(W, t, w, j)

\* Writing entry i of page v changes this entry of the walks that pass it and
\* nothing else, if what lies below it is the same as before.
LEMMA PointWrite ==
    ASSUME NEW S \in SUBSET Everyone, NEW T \in TableSet, NEW R, DOMAIN R = S,
           NEW T2, NEW R2, DOMAIN R2 = S,
           NEW Free, NEW zero \in Frames, Tree(Walks(T, R), S, Free, zero),
           NEW s \in S, NEW v \in PagesOf(s), NEW i \in 0 .. 3, NEW e,
           i = 0 => R2 = [R EXCEPT ![s] = e] /\ \A t \in Tables \ {PML4} : T2[t] = T[t],
           i > 0 => /\ R2 = R /\ At(Walks(T, R), s, v, i - 1).present
                    /\ T2 = [T EXCEPT ![At(Walks(T, R), s, v, i - 1).addr][v[i + 1]] = e],
           i < 3 => \A x \in Idx : Below(T2, e, x) = Below(T, At(Walks(T, R), s, v, i), x)
    PROVE  Point(Walks(T2, R2), Walks(T, R), S, s, v, i, e)
<1> SUFFICES ASSUME NEW t \in S, NEW w \in PagesOf(t)
             PROVE  \A j \in 0 .. 3 :
                       At(Walks(T2, R2), t, w, j) =
                          IF t = s /\ j = i /\ SamePath(v, w, i) THEN e ELSE At(Walks(T, R), t, w, j)
  BY DEF Point
<1> DEFINE W == Walks(T, R)
           W2 == Walks(T2, R2)
           hit(j) == t = s /\ j = i /\ SamePath(v, w, i)
           P(j) == At(W2, t, w, j) = IF hit(j) THEN e ELSE At(W, t, w, j)
<1>0. /\ \A k \in 1 .. 4 : v[k] \in Idx /\ w[k] \in Idx
      /\ \A j \in 1 .. 3 : j - 1 \in 0 .. 3 /\ j + 1 \in 1 .. 4 /\ j \in 0 .. 3
  <2>1. \A k \in 1 .. 4 : k = 1 \/ k = 2 \/ k = 3 \/ k = 4
    OBVIOUS
  <2> QED  BY <2>1, PageFacts
<1>1. /\ At(W, t, w, 0) = R[t] /\ \A j \in 1 .. 3 : At(W, t, w, j) = Below(T, At(W, t, w, j - 1), w[j + 1])
      /\ At(W2, t, w, 0) = R2[t] /\ \A j \in 1 .. 3 : At(W2, t, w, j) = Below(T2, At(W2, t, w, j - 1), w[j + 1])
  BY WalksAre
<1>2. \A u \in S : \A x \in PagesOf(u) : \A j \in 0 .. 3 :
         At(W, u, x, j).present =>
            At(W, u, x, j).addr \in Tables \ {PML4} /\ (j < 3 => At(W, u, x, j).addr # zero)
  <2>1. Tree(W, S, Free, zero)
    OBVIOUS
  <2> HIDE DEF W
  <2> TAKE u \in S
  <2> TAKE x \in PagesOf(u)
  <2> TAKE j \in 0 .. 3
  <2> HAVE At(W, u, x, j).present
  <2>2. /\ At(W, u, x, j).addr \in Tables \ {PML4}
        /\ j < 3 => At(W, u, x, j).addr # zero
    BY <2>1, TableAbove
  <2> QED  BY <2>2
<1>3. i > 0 => /\ At(W, s, v, i - 1).present
               /\ At(W, s, v, i - 1).addr \in Tables /\ At(W, s, v, i - 1).addr # zero
               /\ T2 = [T EXCEPT ![At(W, s, v, i - 1).addr][v[i + 1]] = e]
               /\ R2 = R
  <2> SUFFICES ASSUME i > 0  PROVE  At(W, s, v, i - 1).addr \in Tables /\ At(W, s, v, i - 1).addr # zero
    OBVIOUS
  <2>1. i - 1 \in 0 .. 3 /\ i - 1 < 3 /\ At(W, s, v, i - 1).present
    OBVIOUS
  <2> HIDE DEF W
  <2> QED  BY <1>2, <2>1
<1>4. \A k \in 0 .. 3 : t = s /\ SamePath(v, w, k) => At(W, s, v, k) = At(W, t, w, k)
  BY PathWalk
<1>5. \A a, b \in 0 .. 3 :
         At(W, s, v, a).present /\ At(W, t, w, b).present /\ At(W, s, v, a).addr = At(W, t, w, b).addr
         /\ At(W, s, v, a).addr # zero => s = t /\ a = b /\ SamePath(v, w, a)
  BY DEF Tree
<1>6. i < 3 => \A x \in Idx : Below(T2, e, x) = Below(T, At(W, s, v, i), x)
  OBVIOUS
<1>7. i = 0 => R2 = [R EXCEPT ![s] = e] /\ \A a \in Tables \ {PML4} : T2[a] = T[a]
  OBVIOUS
<1>8. /\ t = s => SamePath(v, w, 0)
      /\ t = s => \A j \in 1 .. 3 :
                    SamePath(v, w, j) <=> SamePath(v, w, j - 1) /\ v[j + 1] = w[j + 1]
  BY PathFacts
<1> HIDE DEF W, W2
<1>9. ASSUME NEW j \in 1 .. 3
      PROVE  Below(T2, At(W, t, w, j - 1), w[j + 1]) = IF hit(j) THEN e ELSE At(W, t, w, j)
  <2> DEFINE o == At(W, t, w, j - 1)
             p == At(W, s, v, i - 1)
  <2>1. At(W, t, w, j) = Below(T, o, w[j + 1]) /\ (o.present => o.addr \in Tables \ {PML4})
    BY <1>0, <1>1, <1>2
  <2>2. CASE i = 0
    BY <1>7, <2>1, <2>2 DEF Below
  <2>3. CASE i > 0 /\ hit(j)
    <3>1. i = j /\ t = s /\ SamePath(v, w, j - 1) /\ v[j + 1] = w[j + 1]
      BY <1>8, <2>3
    <3>2. o = p
      BY <1>0, <1>4, <3>1
    <3>3. o.present /\ T2[o.addr][w[j + 1]] = e
      <4>1. p.addr \in DOMAIN T /\ v[i + 1] \in DOMAIN T[p.addr]
        BY <1>0, <1>3, <2>3 DEF TableSet
      <4> QED  BY <1>3, <2>3, <3>1, <3>2, <4>1
    <3> QED  BY <2>3, <3>3 DEF Below
  <2>4. CASE i > 0 /\ ~hit(j)
    <3>1. CASE ~o.present
      BY <2>1, <2>4, <3>1 DEF Below
    <3>2. CASE o.present
      <4>1. ~(o.addr = p.addr /\ w[j + 1] = v[i + 1])
        <5> SUFFICES ASSUME o.addr = p.addr, w[j + 1] = v[i + 1]
                     PROVE  hit(j)
          BY <2>4
        <5>1. s = t /\ i - 1 = j - 1 /\ SamePath(v, w, i - 1)
          BY <1>0, <1>3, <1>5, <2>4, <3>2
        <5>2. i = j
          BY <5>1
        <5> QED  BY <1>8, <5>1, <5>2
      <4>2. T2[o.addr][w[j + 1]] = T[o.addr][w[j + 1]]
        <5>1. o.addr \in DOMAIN T /\ w[j + 1] \in DOMAIN T[o.addr]
          BY <1>0, <2>1, <3>2 DEF TableSet
        <5> HIDE DEF o, p
        <5>2. T2 = [T EXCEPT ![p.addr][v[i + 1]] = e]
          BY <1>3, <2>4 DEF p
        <5> QED  BY <4>1, <5>1, <5>2
      <4> QED  BY <2>1, <2>4, <3>2, <4>2 DEF Below
    <3> QED  BY <3>1, <3>2
  <2> QED  BY <2>2, <2>3, <2>4
<1>10. P(0)
  <2>1. CASE i = 0
    BY <1>1, <1>7, <1>8, <2>1
  <2>2. CASE i > 0
    BY <1>1, <1>3, <2>2
  <2> QED  BY <2>1, <2>2
<1>11. ASSUME NEW j \in 1 .. 3, P(j - 1)
       PROVE  P(j)
  <2>1. CASE ~hit(j - 1)
    <3>1. At(W2, t, w, j - 1) = At(W, t, w, j - 1)
      BY <1>11, <2>1
    <3> QED  BY <1>1, <1>9, <3>1
  <2>2. CASE hit(j - 1)
    <3>1. At(W2, t, w, j - 1) = e /\ i = j - 1 /\ i < 3 /\ t = s /\ ~hit(j)
      BY <1>11, <2>2
    <3>2. At(W, s, v, i) = At(W, t, w, j - 1)
      BY <1>4, <2>2, <3>1
    <3>3. At(W2, t, w, j) = Below(T, At(W, t, w, j - 1), w[j + 1])
      BY <1>0, <1>1, <1>6, <3>1, <3>2
    <3> QED  BY <1>1, <3>1, <3>3
  <2> QED  BY <2>1, <2>2
<1> HIDE DEF P
<1>12. P(1)
  <2>1. P(1 - 1)
    BY <1>10
  <2> QED  BY <2>1, <1>11
<1>13. P(2)
  <2>1. P(2 - 1)
    BY <1>12
  <2> QED  BY <2>1, <1>11
<1>14. P(3)
  <2>1. P(3 - 1)
    BY <1>13
  <2> QED  BY <2>1, <1>11
<1>15. \A j \in 0 .. 3 : j = 0 \/ j = 1 \/ j = 2 \/ j = 3
  OBVIOUS
<1>16. \A j \in 0 .. 3 : P(j)
  BY <1>10, <1>12, <1>13, <1>14, <1>15
<1> QED  BY <1>16 DEF P, W, W2
-----------------------------------------------------------------------------
\* The address space of owner s is the one that PML4 holds.
Top(m, s) == m.table[PML4][IF s = KERNEL THEN High ELSE 0]
Loaded(m, s) == s \in Owners /\ Tops(m)[s] = Top(m, s)

LEMMA OwnerFacts ==
    ASSUME TypeOK, NEW m
    PROVE  /\ Owners \subseteq Everyone /\ KERNEL \in Owners /\ NULL \notin Owners
           /\ DOMAIN Tops(m) = Owners
           /\ Loaded(m, KERNEL)
           /\ building # NULL => building \in Owners /\ building # KERNEL /\ Loaded(m, building)
           /\ \A s \in Owners : Tops(m)[s] \in {Top(m, s), memory[s]}
           /\ \A s \in Owners : s \notin {KERNEL, building} => memory[s] \in EntryType
<1>1. building \in Spaces \cup {NULL} /\ memory \in [Spaces -> EntryType \cup {NULL}]
  BY DEF TypeOK
<1>2. KERNEL \notin Spaces /\ NULL \notin Spaces \cup {KERNEL}
  BY PagesAssumption
<1> QED  BY <1>1, <1>2 DEF Owners, Made, Everyone, Tops, Top, Loaded

\* ptes() of a loaded address space.
LEMMA LoadedEntry ==
    ASSUME TypeOK, NEW m, NEW s, Loaded(m, s), NEW v \in PagesOf(s), NEW i \in 0 .. 3
    PROVE  Entry(m, v, i) = At(Map(m), s, v, i)
<1>1. s \in Owners /\ s \in Everyone
  BY OwnerFacts DEF Loaded
<1>2. v[1] = IF s = KERNEL THEN High ELSE 0
  BY <1>1, PageFacts
<1>3. Tops(m)[s] = m.table[PML4][v[1]]
  BY <1>2 DEF Loaded, Top
<1>4. At(Map(m), s, v, i) = Walk(m.table, Tops(m)[s], v, i)
  BY <1>1, OwnerFacts DEF Map, Walks, At
<1> QED  BY <1>3, <1>4, EntryIsWalk

LEMMA EmptyEntry == Empty \in EntryType /\ ~Empty.present
<1>1. 0 \in 0 .. (FirstFrame + NFrames - 1)
  BY Sizes, TableNames
<1> QED  BY <1>1 DEF Empty, EntryType, CountMax

\* The entries of new tables and pages.
LEMMA NewEntry ==
    ASSUME NEW f \in Frames, NEW e, e = [PresentRW(f) EXCEPT !.user = TRUE]
    PROVE  /\ e \in EntryType /\ e.present /\ e.addr = f /\ e.rw /\ e.user
           /\ ~e.nx /\ ~e.lazy /\ e.cnt = 0
<1>1. f \in 0 .. (FirstFrame + NFrames - 1)
  BY Sizes, TableNames
<1> DEFINE p == PresentRW(f)
<1>2. /\ p \in EntryType /\ p.present /\ p.addr = f /\ p.rw /\ ~p.nx /\ ~p.lazy /\ p.cnt = 0
  <2>1. /\ Empty \in EntryType /\ ~Empty.nx /\ ~Empty.lazy /\ Empty.cnt = 0
    BY EmptyEntry DEF Empty
  <2> QED  BY <1>1, <2>1 DEF PresentRW, EntryType
<1> HIDE DEF p
<1>3. e = [p EXCEPT !.user = TRUE]
  BY DEF p
<1> QED  BY <1>2, <1>3 DEF EntryType

\* The count of an entry is a number.
LEMMA EntryCount ==
    ASSUME NEW r \in EntryType
    PROVE  r.cnt \in Int
BY DEF EntryType, CountMax

LEMMA MapTypes ==
    ASSUME TypeOK, NEW m \in MmType, NEW Free, NEW zero \in Frames,
           Tree(Map(m), Owners, Free, zero)
    PROVE  \A s \in Owners : \A v \in PagesOf(s) : \A i \in 0 .. 3 : At(Map(m), s, v, i) \in EntryType
<1> TAKE s \in Owners
<1> TAKE v \in PagesOf(s)
<1> DEFINE W == Map(m)
           P(i) == At(W, s, v, i) \in EntryType
<1>1. m.table \in TableSet
  BY DEF MmType
<1>2. /\ s \in Everyone /\ v[2] \in Idx /\ v[3] \in Idx /\ v[4] \in Idx
      /\ 0 \in Idx /\ High \in Idx /\ PML4 \in Tables /\ Owners \subseteq Everyone
  BY OwnerFacts, PageFacts, Sizes, TableNames
<1>3. Empty \in EntryType
  BY EmptyEntry
<1>4. /\ At(W, s, v, 0) = Tops(m)[s]
      /\ \A i \in 1 .. 3 : At(W, s, v, i) = Below(m.table, At(W, s, v, i - 1), v[i + 1])
  BY WalksAre, OwnerFacts DEF Map
<1>5. P(0)
  <2>1. \A x \in Idx : m.table[PML4][x] \in EntryType
    BY <1>1, <1>2 DEF TableSet
  <2> QED  BY <1>2, <1>4, <2>1, OwnerFacts DEF Tops
<1>6. \A i \in 0 .. 3 : At(W, s, v, i).present => At(W, s, v, i).addr \in Tables
  BY <1>2, TableAbove
<1>7. ASSUME NEW i \in 1 .. 3
      PROVE  P(i)
  <2>1. i - 1 \in 0 .. 3 /\ v[i + 1] \in Idx
    <3>1. i = 1 \/ i = 2 \/ i = 3
      OBVIOUS
    <3> QED  BY <1>2, <3>1
  <2> HIDE DEF W
  <2>2. At(W, s, v, i - 1).present => At(W, s, v, i - 1).addr \in Tables
    BY <1>6, <2>1
  <2>3. \A t \in Tables : \A x \in Idx : m.table[t][x] \in EntryType
    BY <1>1 DEF TableSet
  <2> QED  BY <1>3, <1>4, <2>1, <2>2, <2>3 DEF Below
<1>8. \A i \in 0 .. 3 : i = 0 \/ i \in 1 .. 3
  OBVIOUS
<1> QED  BY <1>5, <1>7, <1>8

LEMMA MapAbove ==
    ASSUME TypeOK, NEW m, NEW Free, NEW zero \in Frames, Tree(Map(m), Owners, Free, zero)
    PROVE  \A s \in Owners : \A v \in PagesOf(s) : \A i \in 0 .. 3 :
              At(Map(m), s, v, i).present =>
                 /\ At(Map(m), s, v, i).addr \in Tables \ {PML4}
                 /\ i < 3 => At(Map(m), s, v, i).addr # zero
                 /\ At(Map(m), s, v, i).addr \notin Free \cap Frames
<1>1. Owners \in SUBSET Everyone
  BY OwnerFacts
<1> QED  BY <1>1, TableAbove

LEMMA MapWrite ==
    ASSUME TypeOK, NEW m, m.table \in TableSet, NEW n,
           NEW Free, NEW zero \in Frames, Tree(Map(m), Owners, Free, zero),
           NEW s \in Owners, NEW v \in PagesOf(s), NEW i \in 0 .. 3, NEW e,
           i = 0 => Tops(n) = [Tops(m) EXCEPT ![s] = e]
                    /\ \A t \in Tables \ {PML4} : n.table[t] = m.table[t],
           i > 0 => /\ Tops(n) = Tops(m) /\ At(Map(m), s, v, i - 1).present
                    /\ n.table = [m.table EXCEPT ![At(Map(m), s, v, i - 1).addr][v[i + 1]] = e],
           i < 3 => \A x \in Idx : Below(n.table, e, x) = Below(m.table, At(Map(m), s, v, i), x)
    PROVE  Point(Map(n), Map(m), Owners, s, v, i, e)
<1>1. Owners \in SUBSET Everyone /\ DOMAIN Tops(m) = Owners /\ DOMAIN Tops(n) = Owners
  BY OwnerFacts
<1> QED  BY <1>1, PointWrite DEF Map

\* Setting an entry changes it in the address space that is loaded and nothing
\* else there: the table behind it is the one that was there or a zeroed one.
Fits(m, old, e, Free) ==
    /\ e.present
    /\ \/ old.present /\ e.addr = old.addr
       \/ /\ ~old.present /\ e.addr \in Frames \cap Free
          /\ m.table[e.addr] = [x \in Idx |-> Empty]

\* Where entry i of page v lies.
Cell(m, s, v, i) == IF i = 0 THEN PML4 ELSE At(Map(m), s, v, i - 1).addr

OneCell(T2, T, a, x, e) ==
    \A t \in Tables : \A y \in Idx : T2[t][y] = IF t = a /\ y = x THEN e ELSE T[t][y]

Written(n, m, s, v, i, e) ==
    /\ n \in MmType /\ n.pool = m.pool /\ Loaded(n, s)
    /\ Point(Map(n), Map(m), Owners, s, v, i, e)
    /\ i > 0 => At(Map(m), s, v, i - 1).present
    /\ i < 3 => e.present /\ e.addr \in Tables \ {Cell(m, s, v, i)}
    /\ Cell(m, s, v, i) \in Tables /\ v[i + 1] \in Idx
    /\ OneCell(n.table, m.table, Cell(m, s, v, i), v[i + 1], e)

LEMMA SetEntryWrites ==
    ASSUME TypeOK, NEW m \in MmType, NEW Free, NEW zero \in Frames, Tree(Map(m), Owners, Free, zero),
           NEW s, Loaded(m, s), NEW v \in PagesOf(s), NEW i \in 0 .. 3, NEW e \in EntryType,
           i = 0 => s = building,
           i > 0 => At(Map(m), s, v, i - 1).present,
           i < 3 => Fits(m, At(Map(m), s, v, i), e, Free),
           NEW n, n = SetEntry(m, v, i, e)
    PROVE  Written(n, m, s, v, i, e)
<1> DEFINE W == Map(m)
           a == At(W, s, v, i - 1).addr
<1>1. /\ s \in Owners /\ s \in Everyone /\ Owners \in SUBSET Everyone
      /\ v[1] = (IF s = KERNEL THEN High ELSE 0) /\ v[i + 1] \in Idx
      /\ (s = building => s # KERNEL)
  <2>1. i = 0 \/ i = 1 \/ i = 2 \/ i = 3
    OBVIOUS
  <2>2. s \in Owners /\ Owners \subseteq Everyone
    BY OwnerFacts DEF Loaded
  <2>3. building \in Spaces \cup {NULL} /\ KERNEL \notin Spaces \cup {NULL}
    BY PagesAssumption DEF TypeOK
  <2> QED  BY <2>1, <2>2, <2>3, PageFacts
<1>2. /\ m.table \in TableSet /\ m.pool \in Seq(Frames)
      /\ m = [table |-> m.table, pool |-> m.pool]
      /\ PML4 \in Tables /\ 0 \in Idx /\ High \in Idx /\ High # 0
  BY Sizes, TableNames DEF MmType
<1>3. /\ \A j \in 0 .. 3 : At(W, s, v, j).present => At(W, s, v, j).addr \in Tables \ {PML4}
      /\ \A j \in 0 .. 3 : At(W, s, v, j).present /\ j < 3 => At(W, s, v, j).addr # zero
      /\ \A j \in 0 .. 3 : At(W, s, v, j).present => At(W, s, v, j).addr \notin Free \cap Frames
  BY <1>1, MapAbove
<1>4. i > 0 => /\ At(W, s, v, i - 1).present /\ a \in Tables \ {PML4} /\ a # zero
               /\ a \notin Free \cap Frames /\ Entry(m, v, i - 1) = At(W, s, v, i - 1)
  <2> SUFFICES ASSUME i > 0
               PROVE  /\ At(W, s, v, i - 1).present /\ a \in Tables \ {PML4} /\ a # zero
                      /\ a \notin Free \cap Frames /\ Entry(m, v, i - 1) = At(W, s, v, i - 1)
    OBVIOUS
  <2>1. i - 1 \in 0 .. 3 /\ i - 1 < 3 /\ At(W, s, v, i - 1).present
    OBVIOUS
  <2>2. Entry(m, v, i - 1) = At(W, s, v, i - 1)
    BY <2>1, LoadedEntry
  <2> HIDE DEF W
  <2> QED  BY <1>3, <2>1, <2>2
<1>5. CASE i = 0
  <2>1. n = [m EXCEPT !.table[PML4][v[1]] = e] /\ v[1] = 0 /\ s = building /\ s # KERNEL
    BY <1>1, <1>5 DEF SetEntry
  <2>2. n.table = [m.table EXCEPT ![PML4][0] = e] /\ n.pool = m.pool
    BY <1>2, <2>1
  <2>3. n.table \in TableSet
    BY <1>2, <2>2 DEF TableSet
  <2>4. n \in MmType
    BY <1>2, <2>1, <2>3 DEF MmType
  <2>5. /\ \A t \in Tables \ {PML4} : n.table[t] = m.table[t]
        /\ \A x \in Idx \ {0} : n.table[PML4][x] = m.table[PML4][x]
        /\ n.table[PML4][0] = e
    BY <1>2, <2>2 DEF TableSet
  <2>10. OneCell(n.table, m.table, PML4, v[1], e)
    BY <2>1, <2>5 DEF OneCell
  <2>6. Tops(n) = [Tops(m) EXCEPT ![s] = e]
    <3>1. Tops(n)[s] = e /\ \A t \in Owners \ {s} : Tops(n)[t] = Tops(m)[t]
      BY <1>1, <1>2, <2>1, <2>5 DEF Tops
    <3> DEFINE f == Tops(n)
               g == Tops(m)
    <3>2. f = [t \in Owners |-> f[t]] /\ g = [t \in Owners |-> g[t]]
      BY DEF Tops
    <3> HIDE DEF f, g
    <3>3. f = [g EXCEPT ![s] = e]
      BY <1>1, <3>1, <3>2 DEF f, g
    <3> QED  BY <3>3 DEF f, g
  <2>7. Loaded(n, s)
    BY <1>1, <2>1, <2>5 DEF Loaded, Tops, Top
  <2>11. Fits(m, At(W, s, v, i), e, Free) /\ e.present /\ e.addr \in Tables \ {PML4}
    <3>1. Fits(m, At(W, s, v, i), e, Free)
      BY <1>5
    <3> QED  BY <1>3, <3>1, TableNames DEF Fits
  <2>8. \A x \in Idx : Below(n.table, e, x) = Below(m.table, At(W, s, v, i), x)
    BY <2>5, <2>11 DEF Fits, Below
  <2>9. Point(Map(n), W, Owners, s, v, i, e)
    <3>1. /\ i = 0 => Tops(n) = [Tops(m) EXCEPT ![s] = e]
                      /\ \A t \in Tables \ {PML4} : n.table[t] = m.table[t]
          /\ i > 0 => /\ Tops(n) = Tops(m) /\ At(Map(m), s, v, i - 1).present
                      /\ n.table = [m.table EXCEPT ![At(Map(m), s, v, i - 1).addr][v[i + 1]] = e]
      BY <1>5, <2>5, <2>6
    <3>2. i < 3 => \A x \in Idx : Below(n.table, e, x) = Below(m.table, At(Map(m), s, v, i), x)
      BY <2>8
    <3>3. m.table \in TableSet /\ s \in Owners
      BY <1>1, <1>2
    <3> HIDE DEF W, a
    <3>4. Point(Map(n), Map(m), Owners, s, v, i, e)
      BY <3>1, <3>2, <3>3, MapWrite
    <3> QED  BY <3>4 DEF W
  <2> QED  BY <1>1, <1>2, <1>5, <2>2, <2>4, <2>7, <2>9, <2>10, <2>11 DEF Written, Cell
<1>6. CASE i > 0
  <2>1. n = [m EXCEPT !.table[a][v[i + 1]] = e]
    BY <1>4, <1>6 DEF SetEntry
  <2>2. n.table = [m.table EXCEPT ![a][v[i + 1]] = e] /\ n.pool = m.pool
    BY <1>2, <2>1
  <2> HIDE DEF a
  <2>3. n.table \in TableSet
    BY <1>1, <1>2, <1>4, <1>6, <2>2 DEF TableSet
  <2>4. n \in MmType
    BY <1>2, <2>1, <2>3 DEF MmType
  <2>5. \A t \in Tables \ {a} : n.table[t] = m.table[t]
    BY <1>2, <2>2 DEF TableSet
  <2>6. Tops(n) = Tops(m)
    <3>1. n.table[PML4] = m.table[PML4]
      BY <1>2, <1>4, <1>6, <2>5
    <3> QED  BY <3>1 DEF Tops
  <2>7. Loaded(n, s)
    <3>1. n.table[PML4] = m.table[PML4]
      BY <1>2, <1>4, <1>6, <2>5
    <3> QED  BY <2>6, <3>1 DEF Loaded, Top
  <2>12. ASSUME i < 3
         PROVE  Fits(m, At(W, s, v, i), e, Free) /\ e.addr \in Tables \ {a}
    <3>1. Fits(m, At(W, s, v, i), e, Free)
      BY <2>12
    <3>2. e.addr \in Tables \ {a}
      <4>1. CASE At(W, s, v, i).present /\ e.addr = At(W, s, v, i).addr
        <5>1. e.addr \in Tables /\ e.addr # zero
          BY <1>3, <2>12, <4>1
        <5>2. e.addr # a
          <6> SUFFICES ASSUME e.addr = a  PROVE FALSE
            OBVIOUS
          <6>1. /\ At(W, s, v, i).present /\ At(W, s, v, i - 1).present
                /\ At(W, s, v, i).addr = At(W, s, v, i - 1).addr /\ At(W, s, v, i).addr # zero
            BY <1>4, <1>6, <4>1, <5>1 DEF a
          <6>2. i - 1 \in 0 .. 3 /\ i # i - 1
            BY <1>6
          <6>3. Tree(W, Owners, Free, zero)
            OBVIOUS
          <6> HIDE DEF W, a
          <6>4. \A t \in Owners : \A w \in PagesOf(t) : \A j \in 0 .. 3 :
                   At(W, t, w, j).present /\ At(W, t, w, j).addr = At(W, s, v, i).addr
                   => t = s /\ j = i /\ SamePath(v, w, i)
            BY <1>1, <6>1, <6>3, OnePlace
          <6> QED  BY <1>1, <6>1, <6>2, <6>4
        <5> QED  BY <5>1, <5>2
      <4>2. CASE e.addr \in Frames \cap Free
        BY <1>4, <1>6, <4>2, TableNames
      <4> QED  BY <3>1, <4>1, <4>2 DEF Fits
    <3> QED  BY <3>1, <3>2
  <2>8. ASSUME i < 3, NEW x \in Idx
        PROVE  Below(n.table, e, x) = Below(m.table, At(W, s, v, i), x)
    BY <2>5, <2>8, <2>12 DEF Fits, Below
  <2>9. Point(Map(n), W, Owners, s, v, i, e)
    <3>1. /\ Tops(n) = Tops(m) /\ At(Map(m), s, v, i - 1).present
          /\ n.table = [m.table EXCEPT ![At(Map(m), s, v, i - 1).addr][v[i + 1]] = e]
      BY <1>4, <1>6, <2>2, <2>6 DEF a
    <3>2. i < 3 => \A x \in Idx : Below(n.table, e, x) = Below(m.table, At(Map(m), s, v, i), x)
      BY <2>8
    <3>3. ~(i = 0)
      BY <1>6
    <3>4. /\ i = 0 => Tops(n) = [Tops(m) EXCEPT ![s] = e]
                      /\ \A t \in Tables \ {PML4} : n.table[t] = m.table[t]
          /\ i > 0 => /\ Tops(n) = Tops(m) /\ At(Map(m), s, v, i - 1).present
                      /\ n.table = [m.table EXCEPT ![At(Map(m), s, v, i - 1).addr][v[i + 1]] = e]
      BY <3>1, <3>3, Zenon
    <3>5. m.table \in TableSet /\ s \in Owners
      BY <1>1, <1>2
    <3> HIDE DEF W, a
    <3>6. Point(Map(n), Map(m), Owners, s, v, i, e)
      BY <3>2, <3>4, <3>5, MapWrite
    <3> QED  BY <3>6 DEF W
  <2>10. OneCell(n.table, m.table, a, v[i + 1], e)
    BY <1>1, <1>2, <1>4, <1>6, <2>2 DEF OneCell, TableSet
  <2>11. a = Cell(m, s, v, i)
    BY <1>6 DEF a, Cell
  <2> QED  BY <1>1, <1>4, <1>6, <2>2, <2>4, <2>7, <2>9, <2>10, <2>11, <2>12 DEF Written, Fits
<1> QED  BY <1>5, <1>6
-----------------------------------------------------------------------------
\* What setting one entry does to the parts of the invariant.
LEMMA CountChange ==
    ASSUME NEW t \in [Idx -> EntryType], NEW x \in Idx, NEW e \in EntryType
    PROVE  /\ Count(t) \in 0 .. Entries
           /\ ~t[x].present => Count(t) < Entries
           /\ Count([t EXCEPT ![x] = e]) =
                 Count(t) + (IF e.present THEN 1 ELSE 0) - (IF t[x].present THEN 1 ELSE 0)
<1> DEFINE on == {y \in Idx : t[y].present}
           on2 == {y \in Idx : [t EXCEPT ![x] = e][y].present}
<1>1. IsFiniteSet(Idx) /\ Cardinality(Idx) = Entries
  <2>1. 0 \in Int /\ Entries - 1 \in Int /\ 0 <= Entries - 1 + 1 /\ Entries \in Nat
    BY Sizes
  <2>2. /\ IsFiniteSet(0 .. (Entries - 1))
        /\ Cardinality(0 .. (Entries - 1)) = IF 0 > Entries - 1 THEN 0 ELSE Entries - 1 - 0 + 1
    BY <2>1, FS_Interval
  <2> QED  BY <2>1, <2>2, Sizes
<1>2. on \subseteq Idx /\ on2 \subseteq Idx
  OBVIOUS
<1>3. IsFiniteSet(on) /\ IsFiniteSet(on2)
  BY <1>1, <1>2, FS_Subset
<1>4. Cardinality(on) \in Nat /\ Cardinality(on) <= Entries
  BY <1>1, <1>2, <1>3, FS_Subset, FS_CardinalityType
<1>5. ASSUME ~t[x].present  PROVE Cardinality(on) < Entries
  <2>1. x \in Idx /\ x \notin on
    BY <1>5
  <2>2. Cardinality(on) # Cardinality(Idx)
    BY <1>1, <1>2, <2>1, FS_Subset
  <2> DEFINE c == Cardinality(on)
  <2>3. c \in Nat /\ c <= Entries /\ c # Entries /\ Entries \in Nat
    BY <1>1, <1>4, <2>2, Sizes
  <2> HIDE DEF c
  <2>4. c < Entries
    BY <2>3
  <2> QED  BY <2>4 DEF c
<1>6. Cardinality(on2) = Cardinality(on) + (IF e.present THEN 1 ELSE 0) - (IF t[x].present THEN 1 ELSE 0)
  <2>1. CASE e.present /\ ~t[x].present
    <3>1. on2 = on \cup {x} /\ x \notin on
      BY <2>1
    <3>2. Cardinality(on2) = Cardinality(on) + 1
      BY <1>3, <3>1, FS_AddElement
    <3> QED  BY <1>4, <2>1, <3>2
  <2>2. CASE ~e.present /\ t[x].present
    <3>1. on2 = on \ {x} /\ x \in on
      BY <2>2
    <3>2. Cardinality(on2) = Cardinality(on) - 1
      BY <1>3, <3>1, FS_RemoveElement
    <3> QED  BY <1>4, <2>2, <3>2
  <2>3. CASE e.present <=> t[x].present
    <3>1. on2 = on
      BY <2>3
    <3>2. Cardinality(on) = Cardinality(on) + (IF e.present THEN 1 ELSE 0) - (IF t[x].present THEN 1 ELSE 0)
      <4>1. CASE e.present
        BY <1>4, <2>3, <4>1
      <4>2. CASE ~e.present
        BY <1>4, <2>3, <4>2
      <4> QED  BY <4>1, <4>2
    <3> QED  BY <3>1, <3>2
  <2>4. e.present \in BOOLEAN /\ t[x].present \in BOOLEAN
    BY DEF EntryType
  <2> QED  BY <2>1, <2>2, <2>3, <2>4
<1> QED  BY <1>4, <1>5, <1>6, Sizes DEF Count

\* The cells that the image leaves free, and the count of its own pdpt entry.
ImageSafe(T, a, x, e) ==
    \/ a = PML4 /\ x = 0
    \/ a \in Frames
    \/ a = KernelPD /\ x # 0
    \/ a = PDPT /\ x = KernelIdx /\ e = [T[a][x] EXCEPT !.cnt = e.cnt]

LEMMA ImageSet ==
    ASSUME NEW T \in TableSet, NEW T2, ImageOK(T), NEW a \in Tables, NEW x \in Idx, NEW e,
           OneCell(T2, T, a, x, e), ImageSafe(T, a, x, e)
    PROVE  ImageOK(T2)
<1>0. /\ \A t \in Tables : \A y \in Idx : ~(t = a /\ y = x) => T2[t][y] = T[t][y]
      /\ T2[a][x] = e
      /\ \/ a = PML4 /\ x = 0
         \/ a \in Frames
         \/ a = KernelPD /\ x # 0
         \/ a = PDPT /\ x = KernelIdx /\ e = [T[a][x] EXCEPT !.cnt = e.cnt]
  BY DEF OneCell, ImageSafe
<1>1. /\ High \in Idx /\ KernelIdx \in Idx /\ 0 \in Idx /\ High # 0
      /\ \A p \in 0 .. (End - 1) : p \in Idx
  BY Sizes
<1>2. T2[PML4][High] = T[PML4][High] /\ T2[KernelPD][0] = T[KernelPD][0]
  BY <1>0, <1>1, TableNames
<1>3. \A y \in Idx : T2[End][y] = T[End][y]
  BY <1>0, TableNames
<1>4. \A y \in Idx : y # KernelIdx => T2[PDPT][y] = T[PDPT][y]
  BY <1>0, TableNames
<1>5. T[PDPT][KernelIdx] \in EntryType
  BY <1>1, TableNames DEF TableSet
<1>6. /\ T2[PDPT][KernelIdx].present = T[PDPT][KernelIdx].present
      /\ T2[PDPT][KernelIdx].addr = T[PDPT][KernelIdx].addr
      /\ T2[PDPT][KernelIdx].rw = T[PDPT][KernelIdx].rw
      /\ T2[PDPT][KernelIdx].user = T[PDPT][KernelIdx].user
      /\ T2[PDPT][KernelIdx].nx = T[PDPT][KernelIdx].nx
      /\ T2[PDPT][KernelIdx].lazy = T[PDPT][KernelIdx].lazy
  <2>1. CASE a = PDPT /\ x = KernelIdx /\ e = [T[a][x] EXCEPT !.cnt = e.cnt]
    <3>1. T2[PDPT][KernelIdx] = [T[PDPT][KernelIdx] EXCEPT !.cnt = e.cnt]
      BY <1>0, <2>1
    <3> QED  BY <1>5, <3>1 DEF EntryType
  <2>2. CASE ~(a = PDPT /\ x = KernelIdx)
    BY <1>0, <1>1, <2>2, TableNames
  <2> QED  BY <1>0, <2>1, <2>2, TableNames
<1>7. \A p \in 0 .. (End - 1) : T2[End][p] = T[End][p]
  BY <1>1, <1>3
<1>8. \A y \in Idx : T2[PDPT][y].present <=> y = KernelIdx
  BY <1>4, <1>6 DEF ImageOK
<1> QED  BY <1>2, <1>6, <1>7, <1>8 DEF ImageOK, Spine

LEMMA MapPath ==
    ASSUME TypeOK, NEW m, NEW s \in Owners, NEW v \in PagesOf(s), NEW w \in PagesOf(s),
           NEW i \in 0 .. 3, SamePath(v, w, i)
    PROVE  At(Map(m), s, w, i) = At(Map(m), s, v, i)
<1>1. Owners \in SUBSET Everyone /\ DOMAIN Tops(m) = Owners
  BY OwnerFacts
<1> QED  BY <1>1, PathWalk DEF Map

\* Where entry e, set in place of old, points to: where old did, to the zero
\* page, or to the one frame that is taken for it.
Repoints(s, i, old, e, taken, zero) ==
    /\ e.present => \/ old.present /\ e.addr = old.addr
                    \/ i = 3 /\ e.addr = zero
                    \/ e.addr \in taken /\ (s = KERNEL => i \in {2, 3})
    /\ old.present => e.present /\ old.addr \in {e.addr, zero}
    /\ \A f \in taken : e.present /\ f = e.addr

LEMMA TreeSet ==
    ASSUME TypeOK, NEW m, NEW n, NEW Free, NEW Free2 \in SUBSET Free, NEW zero \in Frames \ Free,
           Free \subseteq Frames, Forest(Map(m), Owners, Free, zero),
           NEW s \in Owners, NEW v \in PagesOf(s), NEW i \in 0 .. 3, NEW e,
           Point(Map(n), Map(m), Owners, s, v, i, e),
           Repoints(s, i, At(Map(m), s, v, i), e, Free \ Free2, zero)
    PROVE  Forest(Map(n), Owners, Free2, zero)
<1> DEFINE W == Map(m)
           W2 == Map(n)
           old == At(W, s, v, i)
           hit(t, w, j) == t = s /\ j = i /\ SamePath(v, w, i)
<1>1. /\ Tree(W, Owners, Free, zero) /\ NoLoss(W, Owners, Free, zero)
      /\ e.present => \/ old.present /\ e.addr = old.addr
                      \/ i = 3 /\ e.addr = zero
                      \/ e.addr \in Free \ Free2 /\ (s = KERNEL => i \in {2, 3})
      /\ old.present => e.present /\ old.addr \in {e.addr, zero}
      /\ \A f \in Free \ Free2 : e.present /\ f = e.addr
  BY DEF Forest, Repoints
<1>2. \A w \in PagesOf(s) : SamePath(v, w, i) => At(W, s, w, i) = old
  BY MapPath
<1> HIDE DEF W, W2
<1>3. \A t \in Owners : \A w \in PagesOf(t) : \A j \in 0 .. 3 :
          /\ hit(t, w, j) => At(W2, t, w, j) = e /\ At(W, t, w, j) = old
          /\ ~hit(t, w, j) => At(W2, t, w, j) = At(W, t, w, j)
  BY <1>2 DEF Point, W, W2
<1>4. \A t \in Owners : \A w \in PagesOf(t) : \A j \in 0 .. 3 :
          At(W, t, w, j).present => At(W, t, w, j).addr \in Home(t, j, Free, zero)
  BY <1>1 DEF Tree
<1>5. \A t \in Owners : \A j \in 0 .. 3 : Home(t, j, Free, zero) \subseteq Home(t, j, Free2, zero)
  BY DEF Home
<1>6. e.present => e.addr \in Home(s, i, Free2, zero)
  <2>1. CASE old.present /\ e.addr = old.addr
    BY <1>4, <1>5, <2>1
  <2>2. CASE i = 3 /\ e.addr = zero
    BY <2>2 DEF Home
  <2>3. CASE e.addr \in Free \ Free2 /\ (s = KERNEL => i \in {2, 3})
    BY <2>3 DEF Home
  <2> QED  BY <1>1, <2>1, <2>2, <2>3
<1>7. \A t \in Owners : \A w \in PagesOf(t) : \A j \in 0 .. 3 :
          At(W2, t, w, j).present => At(W2, t, w, j).addr \in Home(t, j, Free2, zero)
  BY <1>3, <1>4, <1>5, <1>6
<1>8. ASSUME NEW t \in Owners, NEW w \in PagesOf(t), NEW j \in 0 .. 3, ~hit(t, w, j),
             e.present, e.addr # zero, At(W, t, w, j).present, At(W, t, w, j).addr = e.addr
      PROVE  FALSE
  <2>1. e.addr \notin Free
    <3>1. e.addr \in Home(t, j, Free, zero)
      BY <1>4, <1>8
    <3>2. PDPT \notin Frames /\ KernelPD \notin Frames
      BY TableNames
    <3> QED  BY <3>1, <3>2 DEF Home
  <2>2. old.present /\ e.addr = old.addr
    BY <1>1, <1>8, <2>1
  <2> HIDE DEF old
  <2>3. old = At(W, s, v, i)
    BY DEF old
  <2>4. At(W, t, w, j).addr = At(W, s, v, i).addr /\ At(W, s, v, i).present /\ At(W, s, v, i).addr # zero
    BY <1>8, <2>2, <2>3
  <2>5. t = s /\ j = i /\ SamePath(v, w, i)
    BY <1>1, <1>8, <2>4, OnePlace
  <2> QED  BY <1>8, <2>5
<1>9. \A t, u \in Owners : \A w \in PagesOf(t) : \A x \in PagesOf(u) : \A j, k \in 0 .. 3 :
         /\ At(W2, t, w, j).present /\ At(W2, u, x, k).present
         /\ At(W2, t, w, j).addr = At(W2, u, x, k).addr
         /\ At(W2, t, w, j).addr # zero
         => t = u /\ j = k /\ SamePath(w, x, j)
  <2> TAKE t, u \in Owners
  <2> TAKE w \in PagesOf(t)
  <2> TAKE x \in PagesOf(u)
  <2> TAKE j, k \in 0 .. 3
  <2> HAVE /\ At(W2, t, w, j).present /\ At(W2, u, x, k).present
           /\ At(W2, t, w, j).addr = At(W2, u, x, k).addr
           /\ At(W2, t, w, j).addr # zero
  <2>1. CASE hit(t, w, j) /\ hit(u, x, k)
    BY <2>1 DEF SamePath
  <2> HIDE DEF hit, old
  <2>2. CASE hit(t, w, j) /\ ~hit(u, x, k)
    <3>1. At(W2, t, w, j) = e /\ At(W2, u, x, k) = At(W, u, x, k)
      BY <1>3, <2>2
    <3> QED  BY <1>8, <2>2, <3>1
  <2>3. CASE ~hit(t, w, j) /\ hit(u, x, k)
    <3>1. At(W2, t, w, j) = At(W, t, w, j) /\ At(W2, u, x, k) = e
      BY <1>3, <2>3
    <3> QED  BY <1>8, <2>3, <3>1
  <2>4. CASE ~hit(t, w, j) /\ ~hit(u, x, k)
    <3>1. At(W2, t, w, j) = At(W, t, w, j) /\ At(W2, u, x, k) = At(W, u, x, k)
      BY <1>3, <2>4
    <3>2. /\ At(W, t, w, j).present /\ At(W, t, w, j).addr # zero
          /\ At(W, u, x, k).present /\ At(W, u, x, k).addr = At(W, t, w, j).addr
      BY <3>1
    <3>3. u = t /\ k = j /\ SamePath(w, x, j)
      BY <1>1, <3>2, OnePlace
    <3> QED  BY <3>3
  <2> QED  BY <2>1, <2>2, <2>3, <2>4
<1>10. Tree(W2, Owners, Free2, zero)
  BY <1>7, <1>9 DEF Tree
<1>11. ASSUME NEW f \in Frames \ (Free2 \cup {zero})
      PROVE  \E t \in Owners : \E w \in PagesOf(t) : \E j \in 0 .. 3 :
                 At(W2, t, w, j).present /\ At(W2, t, w, j).addr = f
  <2>1. CASE f \in Free
    <3>1. e.present /\ f = e.addr
      BY <1>1, <1>11, <2>1
    <3>2. hit(s, v, i)
      BY DEF SamePath
    <3> QED  BY <1>3, <3>1, <3>2
  <2>2. CASE f \notin Free
    <3>1. PICK t \in Owners : \E w \in PagesOf(t) : \E j \in 0 .. 3 :
             At(W, t, w, j).present /\ At(W, t, w, j).addr = f
      BY <1>1, <1>11, <2>2 DEF NoLoss
    <3>2. PICK w \in PagesOf(t), j \in 0 .. 3 : At(W, t, w, j).present /\ At(W, t, w, j).addr = f
      BY <3>1
    <3>3. At(W2, t, w, j).present /\ At(W2, t, w, j).addr = f
      <4>1. CASE hit(t, w, j)
        BY <1>1, <1>3, <1>11, <3>2, <4>1
      <4>2. CASE ~hit(t, w, j)
        BY <1>3, <3>2, <4>2
      <4> QED  BY <4>1, <4>2
    <3> QED  BY <3>3
  <2> QED  BY <2>1, <2>2
<1> QED  BY <1>10, <1>11 DEF NoLoss, Forest, W2

\* The rights that an entry gives, and where it may point.
Allowed(s, i, old, e, taken) ==
    /\ i < 3 => e.rw /\ ~e.nx /\ ~e.lazy /\ (s # KERNEL => e.user)
    /\ Repoints(s, i, old, e, taken, zero_page)
    /\ s = KERNEL => i # 0 /\ (i = 1 => e = [old EXCEPT !.cnt = e.cnt])

\* Where entry i of page v lies.
LEMMA EntryPlace ==
    ASSUME TypeOK, NEW m \in MmType, NEW Free, NEW zero \in Frames, Tree(Map(m), Owners, Free, zero),
           NEW s \in Owners, NEW v \in PagesOf(s), NEW i \in 1 .. 3, At(Map(m), s, v, i - 1).present,
           NEW a, a = At(Map(m), s, v, i - 1).addr
    PROVE  /\ a \in Tables \ {PML4}
           /\ v[i + 1] \in Idx
           /\ At(Map(m), s, v, i) = m.table[a][v[i + 1]]
           /\ a \notin Frames => s = KERNEL /\ i \in {1, 2}
           /\ s = KERNEL /\ i = 1 => a = PDPT /\ v[i + 1] = KernelIdx
           /\ s = KERNEL /\ i = 2 => a = KernelPD /\ v[i + 1] # 0
<1> DEFINE old == At(Map(m), s, v, i - 1)
<1>1. At(Map(m), s, v, i) = Below(m.table, old, v[i + 1]) /\ s \in Everyone
  BY WalksAre, OwnerFacts DEF Map
<1>2. i - 1 \in 0 .. 3
  OBVIOUS
<1>3. a \in Tables \ {PML4}
  BY <1>2, MapAbove
<1>4. a \in Home(s, i - 1, Free, zero)
  BY <1>2 DEF Tree
<1>5. i = 1 \/ i = 2 \/ i = 3
  OBVIOUS
<1>6. v[i + 1] \in Idx /\ (s = KERNEL => v[2] = KernelIdx /\ v[3] # 0)
  BY <1>1, <1>5, PageFacts
<1>7. CASE i = 1
  BY <1>1, <1>3, <1>4, <1>6, <1>7 DEF Below, Home
<1>8. CASE i = 2
  BY <1>1, <1>3, <1>4, <1>6, <1>8 DEF Below, Home
<1>9. CASE i = 3
  BY <1>1, <1>3, <1>4, <1>6, <1>9 DEF Below, Home
<1> QED  BY <1>5, <1>7, <1>8, <1>9

LEMMA SetKeeps ==
    ASSUME TypeOK, NEW m, NEW more, NEW more2, Shape(m, more), more2 \subseteq more,
           NEW s, Loaded(m, s), NEW v \in PagesOf(s), NEW i \in 0 .. 3, NEW e \in EntryType,
           Allowed(s, i, At(Map(m), s, v, i), e, more \ more2),
           NEW n, Written(n, m, s, v, i, e)
    PROVE  Shape(n, more2)
<1> DEFINE Free == Range(m.pool) \cup more
           Free2 == Range(m.pool) \cup more2
           old == At(Map(m), s, v, i)
           a == Cell(m, s, v, i)
           x == v[i + 1]
<1>1. /\ m \in MmType /\ more \subseteq Frames /\ zero_page \in Frames /\ zero_page \notin Free
      /\ PoolOK(m.pool, more) /\ Forest(Map(m), Owners, Free, zero_page)
      /\ RightsOK(Map(m), Owners) /\ ImageOK(m.table) /\ Free \subseteq Frames
  <2>1. Range(m.pool) \subseteq Frames
    <3>1. m.pool \in Seq(Frames)
      BY DEF Shape, MmType
    <3> QED  BY <3>1, ElementOfSeq, LenProperties DEF Range
  <2> QED  BY <2>1 DEF Shape
<1>2. s \in Owners /\ Owners \in SUBSET Everyone
  BY OwnerFacts DEF Loaded
<1>3. /\ n \in MmType /\ n.pool = m.pool /\ Point(Map(n), Map(m), Owners, s, v, i, e)
      /\ a \in Tables /\ x \in Idx /\ OneCell(n.table, m.table, a, x, e)
  BY DEF Written
<1>4. /\ i < 3 => e.rw /\ ~e.nx /\ ~e.lazy /\ (s # KERNEL => e.user)
      /\ Repoints(s, i, old, e, more \ more2, zero_page)
      /\ s = KERNEL => i # 0 /\ (i = 1 => e = [old EXCEPT !.cnt = e.cnt])
  BY DEF Allowed
<1>6. Forest(Map(n), Owners, Free2, zero_page)
  <2>1. more \ more2 = Free \ Free2
    BY <1>1 DEF PoolOK
  <2>2. zero_page \in Frames \ Free /\ Free2 \subseteq Free
    BY <1>1
  <2>3. Repoints(s, i, At(Map(m), s, v, i), e, Free \ Free2, zero_page)
    BY <1>4, <2>1
  <2> HIDE DEF Free, Free2
  <2> QED  BY <1>1, <1>2, <1>3, <2>2, <2>3, TreeSet
<1>7. RightsOK(Map(n), Owners)
  <2>1. \A t \in Owners : \A w \in PagesOf(t) : \A j \in 0 .. 3 :
            At(Map(n), t, w, j) = IF t = s /\ j = i /\ SamePath(v, w, i) THEN e ELSE At(Map(m), t, w, j)
    BY <1>3 DEF Point
  <2>2. \A j \in 0 .. 2 : j \in 0 .. 3 /\ j < 3
    OBVIOUS
  <2> QED  BY <1>1, <1>4, <2>1, <2>2 DEF RightsOK
<1>8. ImageSafe(m.table, a, x, e)
  <2>1. CASE i = 0
    <3>1. s # KERNEL /\ s \in Everyone
      BY <1>2, <1>4, <2>1
    <3> QED  BY <2>1, <3>1, PageFacts DEF ImageSafe, Cell
  <2>2. CASE i > 0
    <3>1. a = At(Map(m), s, v, i - 1).addr /\ i \in 1 .. 3
      BY <2>2 DEF Cell
    <3>2. At(Map(m), s, v, i - 1).present
      BY <2>2 DEF Written
    <3>3. Tree(Map(m), Owners, Free, zero_page)
      BY <1>1 DEF Forest
    <3>4. /\ old = m.table[a][x]
          /\ a \notin Frames => s = KERNEL /\ i \in {1, 2}
          /\ s = KERNEL /\ i = 1 => a = PDPT /\ x = KernelIdx
          /\ s = KERNEL /\ i = 2 => a = KernelPD /\ x # 0
      BY <1>1, <1>2, <3>1, <3>2, <3>3, EntryPlace
    <3> QED  BY <1>4, <3>4 DEF ImageSafe
  <2> QED  BY <2>1, <2>2
<1>9. ImageOK(n.table)
  <2>1. m.table \in TableSet
    BY <1>1 DEF MmType
  <2> HIDE DEF a, x
  <2> QED  BY <1>1, <1>3, <1>8, <2>1, ImageSet
<1>10. PoolOK(n.pool, more2)
  BY <1>1, <1>3 DEF PoolOK
<1> QED  BY <1>1, <1>3, <1>6, <1>7, <1>9, <1>10 DEF Shape

\* The counts, when those on the walk to v are short by d: the number of
\* entries of their tables that are present and not counted yet.
Owed(T, W, s, v, d) ==
    \A t \in Owners : \A w \in PagesOf(t) : \A j \in 0 .. 2 :
        At(W, t, w, j).present =>
           At(W, t, w, j).cnt + (IF t = s /\ SamePath(v, w, j) THEN d[j] ELSE 0)
              = Count(T[At(W, t, w, j).addr])

Bit(p) == IF p THEN 1 ELSE 0

\* What setting entry i to e does to that.
Passes(m, s, v, i, e, d, d2) ==
    /\ d \in [0 .. 2 -> Int] /\ d2 \in [0 .. 2 -> Int]
    /\ i < 3 => d2[i] = Count(m.table[e.addr]) - e.cnt
    /\ i > 0 => d2[i - 1] = d[i - 1] + Bit(e.present) - Bit(At(Map(m), s, v, i).present)
    /\ \A j \in 0 .. 2 : j # i /\ j # i - 1 => d2[j] = d[j]

LEMMA SetOwes ==
    ASSUME TypeOK, NEW m, NEW more, Shape(m, more),
           NEW s, Loaded(m, s), NEW v \in PagesOf(s), NEW i \in 0 .. 3, NEW e \in EntryType,
           NEW n, Written(n, m, s, v, i, e),
           NEW d, NEW d2, Owed(m.table, Map(m), s, v, d), Passes(m, s, v, i, e, d, d2)
    PROVE  Owed(n.table, Map(n), s, v, d2)
<1> DEFINE W == Map(m)
           W2 == Map(n)
           a == Cell(m, s, v, i)
           x == v[i + 1]
<1>1. /\ m \in MmType /\ zero_page \in Frames /\ s \in Owners /\ m.table \in TableSet
      /\ Tree(W, Owners, Range(m.pool) \cup more, zero_page)
  BY DEF Shape, Forest, Loaded, MmType
<1>2. /\ a \in Tables /\ x \in Idx /\ OneCell(n.table, m.table, a, x, e)
      /\ i > 0 => At(W, s, v, i - 1).present
      /\ i < 3 => e.present /\ e.addr \in Tables \ {a}
  BY DEF Written
<1>3. \A t \in Owners : \A w \in PagesOf(t) : \A j \in 0 .. 3 :
         At(W2, t, w, j) = IF t = s /\ j = i /\ SamePath(v, w, i) THEN e ELSE At(W, t, w, j)
  BY DEF Written, Point
<1>4. \A t \in Tables : m.table[t] \in [Idx -> EntryType] /\ Count(m.table[t]) \in Int
  <2> TAKE t \in Tables
  <2>1. m.table[t] \in [Idx -> EntryType]
    BY <1>1 DEF TableSet
  <2>2. Count(m.table[t]) \in 0 .. Entries
    BY <1>2, <2>1, CountChange
  <2> QED  BY <2>1, <2>2
<1>5. \A t \in Tables \ {a} : Count(n.table[t]) = Count(m.table[t])
  BY <1>2 DEF Count, OneCell
<1>6. At(W, s, v, i) \in EntryType
  BY <1>1, MapTypes
<1>7. i > 0 => /\ a \in Tables \ {PML4} /\ a # zero_page /\ a = At(W, s, v, i - 1).addr
               /\ Count(n.table[a]) = Count(m.table[a]) + Bit(e.present) - Bit(At(W, s, v, i).present)
  <2> SUFFICES ASSUME i > 0
               PROVE  /\ a \in Tables \ {PML4} /\ a # zero_page /\ a = At(W, s, v, i - 1).addr
                      /\ Count(n.table[a]) = Count(m.table[a]) + Bit(e.present) - Bit(At(W, s, v, i).present)
    OBVIOUS
  <2>1. a = At(W, s, v, i - 1).addr /\ i \in 1 .. 3 /\ i - 1 \in 0 .. 3 /\ i - 1 < 3
    BY DEF Cell
  <2>2. a \in Tables \ {PML4} /\ a # zero_page
    BY <1>1, <1>2, <2>1, MapAbove
  <2>3. At(W, s, v, i) = m.table[a][x]
    BY <1>1, <1>2, <2>1, EntryPlace
  <2>4. Count(n.table[a]) = Count([m.table[a] EXCEPT ![x] = e])
    <3>1. \A y \in Idx : n.table[a][y] = [m.table[a] EXCEPT ![x] = e][y]
      BY <1>2, <1>4 DEF OneCell
    <3> QED  BY <3>1 DEF Count
  <2>5. Count([m.table[a] EXCEPT ![x] = e]) =
           Count(m.table[a]) + (IF e.present THEN 1 ELSE 0) - (IF m.table[a][x].present THEN 1 ELSE 0)
    BY <1>2, <1>4, CountChange
  <2> QED  BY <2>1, <2>2, <2>3, <2>4, <2>5 DEF Bit
<1>8. \A t \in Owners : \A w \in PagesOf(t) : \A j \in 0 .. 3 :
         At(W, t, w, j).present => At(W, t, w, j).addr \in Tables \ {PML4} /\ At(W, t, w, j).cnt \in Int
  <2>1. \A t \in Owners : \A w \in PagesOf(t) : \A j \in 0 .. 3 : At(W, t, w, j).cnt \in Int
    <3>1. \A t \in Owners : \A w \in PagesOf(t) : \A j \in 0 .. 3 : At(W, t, w, j) \in EntryType
      BY <1>1, MapTypes
    <3>2. \A r \in EntryType : r.cnt \in Int
      BY DEF EntryType, CountMax
    <3> HIDE DEF W
    <3> QED  BY <3>1, <3>2
  <2> QED  BY <1>1, <2>1, MapAbove
<1>9. ASSUME NEW t \in Owners, NEW w \in PagesOf(t), NEW j \in 0 .. 2, At(W2, t, w, j).present
      PROVE  At(W2, t, w, j).cnt + (IF t = s /\ SamePath(v, w, j) THEN d2[j] ELSE 0)
                = Count(n.table[At(W2, t, w, j).addr])
  <2> DEFINE q == At(W, t, w, j)
  <2>0. j \in 0 .. 3 /\ e.cnt \in Int
    BY DEF EntryType, CountMax
  <2>1. CASE t = s /\ j = i /\ SamePath(v, w, i)
    <3>1. At(W2, t, w, j) = e /\ i < 3
      BY <1>3, <2>0, <2>1
    <3>2. Count(n.table[e.addr]) = Count(m.table[e.addr]) /\ Count(m.table[e.addr]) \in Int
      BY <1>2, <1>4, <1>5, <3>1
    <3>3. d2[i] = Count(m.table[e.addr]) - e.cnt
      BY <3>1 DEF Passes
    <3> QED  BY <2>0, <2>1, <3>1, <3>2, <3>3
  <2>2. CASE ~(t = s /\ j = i /\ SamePath(v, w, i))
    <3>1. At(W2, t, w, j) = q /\ q.present /\ q.addr \in Tables \ {PML4}
      BY <1>3, <1>8, <1>9, <2>0, <2>2
    <3>2. q.cnt + (IF t = s /\ SamePath(v, w, j) THEN d[j] ELSE 0) = Count(m.table[q.addr])
      BY <3>1 DEF Owed
    <3>3. CASE i > 0 /\ q.addr = a
      <4>1. t = s /\ j = i - 1 /\ SamePath(v, w, j)
        <5>1. /\ i - 1 \in 0 .. 3 /\ At(W, s, v, i - 1).present
              /\ At(W, s, v, i - 1).addr = q.addr /\ q.addr # zero_page
          BY <1>2, <1>7, <3>3
        <5> HIDE DEF W
        <5>2. s = t /\ i - 1 = j /\ SamePath(v, w, i - 1)
          BY <1>1, <2>0, <3>1, <5>1 DEF Tree
        <5> QED  BY <5>2
      <4>2. d2[j] = d[j] + Bit(e.present) - Bit(At(W, s, v, i).present) /\ d[j] \in Int
        BY <3>3, <4>1 DEF Passes
      <4>3. q.cnt \in Int /\ Bit(e.present) \in Int /\ Bit(At(W, s, v, i).present) \in Int
        BY <1>8, <2>0, <3>1 DEF Bit
      <4> HIDE DEF q
      <4> QED  BY <1>7, <3>1, <3>2, <3>3, <4>1, <4>2, <4>3
    <3>4. CASE ~(i > 0 /\ q.addr = a)
      <4>1. q.addr # a
        BY <3>1, <3>4 DEF Cell
      <4>2. Count(n.table[q.addr]) = Count(m.table[q.addr])
        BY <1>5, <3>1, <4>1
      <4>3. ASSUME t = s, SamePath(v, w, j)
            PROVE  d2[j] = d[j]
        <5>1. j # i
          BY <2>2, <4>3
        <5>2. j # i - 1
          <6> SUFFICES ASSUME j = i - 1  PROVE FALSE
            OBVIOUS
          <6>1. At(W, s, w, j) = At(W, s, v, j)
            BY <1>1, <2>0, <4>3, MapPath
          <6> QED  BY <4>1, <4>3, <6>1 DEF Cell
        <5> QED  BY <5>1, <5>2 DEF Passes
      <4> HIDE DEF q
      <4> QED  BY <3>1, <3>2, <4>2, <4>3
    <3> QED  BY <3>3, <3>4
  <2> QED  BY <2>1, <2>2
<1> QED  BY <1>9 DEF Owed
-----------------------------------------------------------------------------
\* Taking a frame from the pool: get_frame() points the window at it.
LEMMA NewWindow ==
    ASSUME NEW f \in Frames
    PROVE  PresentRW(f) \in EntryType /\ PresentRW(f).present /\ PresentRW(f).rw /\ ~PresentRW(f).user
<1>1. f \in 0 .. (FirstFrame + NFrames - 1)
  BY Sizes, TableNames
<1>2. Empty \in EntryType /\ ~Empty.user
  BY EmptyEntry DEF Empty
<1> QED  BY <1>1, <1>2 DEF PresentRW, EntryType

LEMMA GetFrameIs ==
    ASSUME NEW m \in MmType, NEW f \in Frames, f = Head(m.pool), Tail(m.pool) \in Seq(Frames),
           NEW n, n = get_frame(m)
    PROVE  /\ n \in MmType /\ n.pool = Tail(m.pool)
           /\ OneCell(n.table, m.table, End, 1, PresentRW(f))
           /\ \A t \in Tables \ {End} : n.table[t] = m.table[t]
<1> DEFINE e == PresentRW(f)
           T == [m.table EXCEPT ![End] = [m.table[End] EXCEPT ![1] = e]]
<1>1. n = [m EXCEPT !.pool = Tail(m.pool), !.table = T]
  BY DEF MmType, get_frame
<1>2. m.table \in TableSet /\ m.table[End] \in [Idx -> EntryType] /\ End \in Tables /\ 1 \in Idx
  BY TableNames, Sizes DEF MmType, TableSet
<1>3. e \in EntryType
  BY NewWindow
<1> HIDE DEF e
<1>4. T \in TableSet /\ OneCell(T, m.table, End, 1, e) /\ \A t \in Tables \ {End} : T[t] = m.table[t]
  BY <1>2, <1>3 DEF TableSet, OneCell
<1> HIDE DEF T
<1> QED  BY <1>1, <1>4 DEF MmType, e

\* A window may show any frame.
LEMMA OpenedLeaf ==
    ASSUME NEW e, Opened(e), NEW p \in {0, 1}
    PROVE  ImageLeaf(e, p)
<1>1. p < Text /\ ~(p > 1)
  <2>1. Text \in Nat /\ 1 < Text
    BY Sizes
  <2> QED  BY <2>1
<1>2. e.rw \in BOOLEAN /\ e.rw
  BY DEF Opened, EntryType
<1>3. e.rw = TRUE
  BY <1>2
<1>4. (p < Text \/ p >= Data) = TRUE
  BY <1>1
<1> QED  BY <1>1, <1>3, <1>4 DEF Opened, ImageLeaf

\* The image does not mind what its page 1 shows.
LEMMA ImageShows ==
    ASSUME NEW T, NEW T2, ImageOK(T), NEW f \in Frames,
           T2[PML4] = T[PML4], T2[PDPT] = T[PDPT], T2[KernelPD] = T[KernelPD],
           \A x \in Idx : T2[End][x] = IF x = 1 THEN PresentRW(f) ELSE T[End][x]
    PROVE  ImageOK(T2)
<1>1. ASSUME NEW p \in 0 .. (End - 1)  PROVE ImageLeaf(T2[End][p], p)
  <2>1. p \in Idx /\ 1 < Text
    BY Sizes
  <2>2. CASE p = 1
    <3>1. Opened(PresentRW(f))
      BY NewWindow DEF Opened
    <3> QED  BY <2>1, <2>2, <3>1, OpenedLeaf
  <2>3. CASE p # 1
    BY <2>1, <2>3 DEF ImageOK
  <2> QED  BY <2>2, <2>3
<1> QED  BY <1>1 DEF ImageOK

LEMMA HeadTail ==
    ASSUME NEW q \in Seq(Frames), q # <<>>, \A j, k \in 1 .. Len(q) : q[j] = q[k] => j = k
    PROVE  /\ Head(q) \in Frames /\ Head(q) \in Range(q) /\ Tail(q) \in Seq(Frames)
           /\ Len(Tail(q)) = Len(q) - 1 /\ Len(q) \in Nat /\ Len(q) > 0
           /\ Range(Tail(q)) = Range(q) \ {Head(q)}
           /\ \A j, k \in 1 .. Len(Tail(q)) : Tail(q)[j] = Tail(q)[k] => j = k
<1>1. /\ Head(q) = q[1] /\ Tail(q) \in Seq(Frames) /\ Len(Tail(q)) = Len(q) - 1
      /\ Len(q) \in Nat /\ Len(q) > 0 /\ q[1] \in Frames
      /\ \A k \in 1 .. (Len(q) - 1) : Tail(q)[k] = q[k + 1]
  BY HeadTailProperties, ElementOfSeq, LenProperties
<1>2. /\ DOMAIN q = 1 .. Len(q) /\ DOMAIN Tail(q) = 1 .. (Len(q) - 1)
  BY <1>1, LenProperties
<1> DEFINE r == Tail(q)
<1> HIDE DEF r
<1>3. \A j, k \in 1 .. (Len(q) - 1) : r[j] = r[k] => j = k
  BY <1>1 DEF r
<1>4. Range(r) = Range(q) \ {q[1]}
  <2>1. \A x : x \in Range(r) <=> \E k \in 1 .. (Len(q) - 1) : x = q[k + 1]
    <3>1. DOMAIN r = 1 .. (Len(q) - 1) /\ \A k \in 1 .. (Len(q) - 1) : r[k] = q[k + 1]
      BY <1>1, <1>2 DEF r
    <3>2. \A x : x \in Range(r) <=> \E k \in 1 .. (Len(q) - 1) : x = r[k]
      BY <3>1 DEF Range
    <3>3. \A k \in 1 .. (Len(q) - 1) : r[k] = q[k + 1]
      BY <3>1
    <3> TAKE x
    <3>4. (\E k \in 1 .. (Len(q) - 1) : x = r[k]) <=> \E k \in 1 .. (Len(q) - 1) : x = q[k + 1]
      BY <3>3, Zenon
    <3> QED  BY <3>2, <3>4
  <2>2. \A x : x \in Range(q) <=> \E k \in 1 .. Len(q) : x = q[k]
    BY <1>2 DEF Range
  <2>3. ASSUME NEW x \in Range(r)  PROVE x \in Range(q) \ {q[1]}
    <3>1. PICK k \in 1 .. (Len(q) - 1) : x = q[k + 1]
      BY <2>1
    <3>2. k + 1 \in 1 .. Len(q) /\ 1 \in 1 .. Len(q) /\ k + 1 # 1
      BY <1>1
    <3> QED  BY <2>2, <3>1, <3>2
  <2>4. ASSUME NEW x \in Range(q) \ {q[1]}  PROVE x \in Range(r)
    <3>1. PICK k \in 1 .. Len(q) : x = q[k]
      BY <2>2
    <3>2. k - 1 \in 1 .. (Len(q) - 1) /\ k = k - 1 + 1
      BY <1>1, <2>4, <3>1
    <3> QED  BY <2>1, <3>1, <3>2
  <2> QED  BY <2>3, <2>4
<1>5. q[1] \in Range(q)
  BY <1>1, <1>2 DEF Range
<1> QED  BY <1>1, <1>3, <1>4, <1>5 DEF r

Taken(n, m) ==
    /\ n \in MmType /\ m.pool # <<>> /\ n.pool = Tail(m.pool)
    /\ \A t \in Tables \ {Head(m.pool), End} : n.table[t] = m.table[t]
    /\ \A x \in Idx : n.table[End][x] = IF x = 1 THEN PresentRW(Head(m.pool)) ELSE m.table[End][x]

LEMMA TakenFrame ==
    ASSUME NEW m \in MmType, m.pool # <<>>, Head(m.pool) \in Frames, Tail(m.pool) \in Seq(Frames),
           NEW n, n = get_frame(m)
    PROVE  Taken(n, m)
<1> DEFINE f == Head(m.pool)
<1>1. /\ n \in MmType /\ n.pool = Tail(m.pool) /\ OneCell(n.table, m.table, End, 1, PresentRW(f))
      /\ \A t \in Tables \ {End} : n.table[t] = m.table[t]
  BY GetFrameIs
<1> HIDE DEF f
<1>2. \A x \in Idx : n.table[End][x] = IF x = 1 THEN PresentRW(f) ELSE m.table[End][x]
  BY <1>1, TableNames DEF OneCell
<1> QED  BY <1>1, <1>2 DEF Taken, f

\* The frame is in no table of an owner, and these tables are as before.
Kept(n, m, more) ==
    /\ Shape(n, more \cup {Head(m.pool)}) /\ Map(n) = Map(m)
    /\ Head(m.pool) \in Frames \ (Range(n.pool) \cup more \cup {zero_page})
    /\ Len(n.pool) = Len(m.pool) - 1
    /\ Range(n.pool) = Range(m.pool) \ {Head(m.pool)}
    /\ \A s : Loaded(m, s) => Loaded(n, s)
    /\ \A s, v, d : Owed(m.table, Map(m), s, v, d) => Owed(n.table, Map(n), s, v, d)

LEMMA TakeKeeps ==
    ASSUME TypeOK, NEW m, NEW more, Shape(m, more), NEW n, Taken(n, m)
    PROVE  Kept(n, m, more)
<1> DEFINE f == Head(m.pool)
           Free == Range(m.pool) \cup more
<1>1. /\ m \in MmType /\ more \subseteq Frames /\ zero_page \in Frames /\ zero_page \notin Free
      /\ PoolOK(m.pool, more) /\ Forest(Map(m), Owners, Free, zero_page)
      /\ RightsOK(Map(m), Owners) /\ ImageOK(m.table)
  BY DEF Shape
<1>2. /\ m.pool \in Seq(Frames) /\ m.pool # <<>> /\ n.pool = Tail(m.pool) /\ n \in MmType
      /\ \A j, k \in 1 .. Len(m.pool) : m.pool[j] = m.pool[k] => j = k
      /\ Range(m.pool) \cap more = {}
  BY <1>1 DEF MmType, Taken, PoolOK
<1>3. /\ f \in Frames /\ f \in Range(m.pool) /\ Len(n.pool) = Len(m.pool) - 1
      /\ Range(n.pool) = Range(m.pool) \ {f}
      /\ \A j, k \in 1 .. Len(n.pool) : n.pool[j] = n.pool[k] => j = k
  BY <1>2, HeadTail
<1>4. \A t \in Tables \ {f, End} : n.table[t] = m.table[t]
  BY DEF Taken
<1>5. PML4 \in Tables \ {f, End} /\ PDPT \in Tables \ {f, End} /\ KernelPD \in Tables \ {f, End}
  BY <1>3, TableNames
<1>6. Tops(n) = Tops(m) /\ \A s : Loaded(m, s) => Loaded(n, s)
  <2>1. n.table[PML4] = m.table[PML4]
    BY <1>4, <1>5
  <2>2. Tops(n) = Tops(m)
    BY <2>1 DEF Tops
  <2> QED  BY <2>1, <2>2 DEF Loaded, Top
<1>7. \A s \in Owners : \A v \in PagesOf(s) : \A i \in 0 .. 3 :
         At(Map(m), s, v, i).present => At(Map(m), s, v, i).addr \in Tables \ {f, End}
  <2>1. Tree(Map(m), Owners, Free, zero_page)
    BY <1>1 DEF Forest
  <2>3. \A s \in Owners : \A i \in 0 .. 3 : End \notin Home(s, i, Free, zero_page)
    BY TableNames DEF Home
  <2> HIDE DEF Free
  <2>2. \A s \in Owners : \A v \in PagesOf(s) : \A i \in 0 .. 3 :
           At(Map(m), s, v, i).present =>
              At(Map(m), s, v, i).addr \in Tables /\ At(Map(m), s, v, i).addr \notin Free \cap Frames
    BY <1>1, <2>1, MapAbove
  <2>4. \A s \in Owners : \A v \in PagesOf(s) : \A i \in 0 .. 3 :
           At(Map(m), s, v, i).present => At(Map(m), s, v, i).addr # End
    BY <2>1, <2>3 DEF Tree
  <2> QED  BY <1>3, <2>2, <2>4 DEF Free
<1>8. \A s \in Owners : \A v \in PagesOf(s) : \A i \in 0 .. 3 :
         Walk(n.table, Tops(m)[s], v, i) = Walk(m.table, Tops(m)[s], v, i)
  <2> TAKE s \in Owners
  <2> TAKE v \in PagesOf(s)
  <2> DEFINE w(i) == Walk(m.table, Tops(m)[s], v, i)
             w2(i) == Walk(n.table, Tops(m)[s], v, i)
  <2>1. \A i \in 0 .. 3 : w(i) = At(Map(m), s, v, i)
    BY OwnerFacts DEF Map, Walks, At
  <2>2. ASSUME NEW i \in 0 .. 3, NEW x
        PROVE  Below(n.table, w(i), x) = Below(m.table, w(i), x)
    BY <1>4, <1>7, <2>1 DEF Below
  <2>3. /\ w2(0) = w(0)
        /\ w(1) = Below(m.table, w(0), v[2]) /\ w2(1) = Below(n.table, w2(0), v[2])
        /\ w(2) = Below(m.table, w(1), v[3]) /\ w2(2) = Below(n.table, w2(1), v[3])
        /\ w(3) = Below(m.table, w(2), v[4]) /\ w2(3) = Below(n.table, w2(2), v[4])
    BY DEF Walk
  <2> HIDE DEF w, w2
  <2>4. w2(1) = w(1)
    BY <2>2, <2>3
  <2>5. w2(2) = w(2)
    BY <2>2, <2>3, <2>4
  <2>6. w2(3) = w(3)
    BY <2>2, <2>3, <2>5
  <2>7. \A i \in 0 .. 3 : i = 0 \/ i = 1 \/ i = 2 \/ i = 3
    OBVIOUS
  <2>8. \A i \in 0 .. 3 : w2(i) = w(i)
    BY <2>3, <2>4, <2>5, <2>6, <2>7
  <2> QED  BY <2>8 DEF w, w2
<1>9. Map(n) = Map(m)
  BY <1>6, <1>8, OwnerFacts DEF Map, Walks
<1>10. Shape(n, more \cup {f})
  <2>1. Range(n.pool) \cup (more \cup {f}) = Free
    BY <1>3
  <2>2. PoolOK(n.pool, more \cup {f})
    BY <1>2, <1>3 DEF PoolOK
  <2>3. ImageOK(n.table)
    <3>1. /\ n.table[PML4] = m.table[PML4] /\ n.table[PDPT] = m.table[PDPT]
          /\ n.table[KernelPD] = m.table[KernelPD]
      BY <1>4, <1>5
    <3>2. \A x \in Idx : n.table[End][x] = IF x = 1 THEN PresentRW(f) ELSE m.table[End][x]
      BY DEF Taken
    <3> HIDE DEF f
    <3> QED  BY <1>1, <1>3, <3>1, <3>2, ImageShows
  <2> HIDE DEF f, Free
  <2> QED  BY <1>1, <1>2, <1>3, <1>9, <2>1, <2>2, <2>3 DEF Shape
<1>11. ASSUME NEW s, NEW v, NEW d, Owed(m.table, Map(m), s, v, d)
       PROVE  Owed(n.table, Map(n), s, v, d)
  <2>1. \A j \in 0 .. 2 : j \in 0 .. 3
    OBVIOUS
  <2> HIDE DEF f
  <2> QED  BY <1>4, <1>7, <1>9, <1>11, <2>1 DEF Owed
<1>12. f \in Frames \ (Range(n.pool) \cup more \cup {zero_page})
  BY <1>1, <1>2, <1>3
<1> QED  BY <1>3, <1>6, <1>9, <1>10, <1>11, <1>12 DEF Kept
-----------------------------------------------------------------------------
\* Counting in an entry, and a new table below it.
LEMMA ParentPresent ==
    ASSUME TypeOK, NEW m, NEW s \in Owners, NEW v \in PagesOf(s), NEW i \in 1 .. 3,
           At(Map(m), s, v, i).present
    PROVE  At(Map(m), s, v, i - 1).present
<1>1. At(Map(m), s, v, i) = Below(m.table, At(Map(m), s, v, i - 1), v[i + 1])
  BY WalksAre, OwnerFacts DEF Map
<1>2. ~Empty.present
  BY DEF Empty
<1>3. Below(m.table, At(Map(m), s, v, i - 1), v[i + 1]) # Empty
  BY <1>1, <1>2
<1> QED  BY <1>3 DEF Below

\* One level is short by c, the others are exact.
Short(i, c) == [j \in 0 .. 2 |-> IF j = i THEN c ELSE 0]

\* n is m with one more in the count of entry i of page v.
Counts(n, m, more, s, v, i, c) ==
    /\ Shape(n, more) /\ n.pool = m.pool /\ Loaded(n, s)
    /\ Owed(n.table, Map(n), s, v, Short(i, c - 1))
    /\ Point(Map(n), Map(m), Owners, s, v, i, [At(Map(m), s, v, i) EXCEPT !.cnt = @ + 1])

\* A count below the number of entries has room for one more.
LEMMA CountRoom ==
    ASSUME NEW k \in 0 .. (CountMax - 1), k < Entries
    PROVE  k \in Nat /\ k + 1 \in 0 .. (CountMax - 1) /\ (k + 1) % CountMax = k + 1
<1>1. Entries \in Nat /\ Entries < 1024
  BY Sizes DEF CountMax
<1> QED  BY <1>1 DEF CountMax

LEMMA IncreaseKeeps ==
    ASSUME TypeOK, NEW m, NEW more, Shape(m, more), NEW s, Loaded(m, s), NEW v \in PagesOf(s),
           NEW i \in 0 .. 2, i = 0 => s = building, At(Map(m), s, v, i).present,
           At(Map(m), s, v, i).cnt < Entries, NEW c \in Int,
           Owed(m.table, Map(m), s, v, Short(i, c)),
           NEW n, n = increase_counter(m, v, i)
    PROVE  Counts(n, m, more, s, v, i, c)
<1> DEFINE old == At(Map(m), s, v, i)
           e == [old EXCEPT !.cnt = @ + 1]
           Free == Range(m.pool) \cup more
<1>1. /\ m \in MmType /\ zero_page \in Frames /\ Tree(Map(m), Owners, Free, zero_page)
      /\ RightsOK(Map(m), Owners) /\ s \in Owners
  BY DEF Shape, Forest, Loaded
<1>2. i \in 0 .. 3 /\ i < 3
  OBVIOUS
<1>3. old \in EntryType
  BY <1>1, <1>2, MapTypes
<1>4. /\ old.cnt \in Nat /\ old.cnt + 1 \in 0 .. (CountMax - 1)
      /\ (old.cnt + 1) % CountMax = old.cnt + 1
  <2>1. old.cnt \in 0 .. (CountMax - 1) /\ old.cnt < Entries
    BY <1>3 DEF EntryType
  <2> HIDE DEF old
  <2> QED  BY <2>1, CountRoom
<1>5. /\ e \in EntryType /\ e.present = old.present /\ e.addr = old.addr /\ e.rw = old.rw
      /\ e.user = old.user /\ e.nx = old.nx /\ e.lazy = old.lazy /\ e.cnt = old.cnt + 1
      /\ e = [old EXCEPT !.cnt = e.cnt]
  <2> HIDE DEF old
  <2> QED  BY <1>3, <1>4 DEF EntryType
<1>6. n = SetEntry(m, v, i, e)
  <2>1. Entry(m, v, i) = old
    BY <1>2, LoadedEntry
  <2> QED  BY <1>4, <2>1 DEF increase_counter
<1>7. i > 0 => At(Map(m), s, v, i - 1).present
  <2>1. ASSUME i > 0  PROVE i \in 1 .. 3
    BY <2>1
  <2> QED  BY <1>1, <2>1, ParentPresent
<1>8. Fits(m, At(Map(m), s, v, i), e, Free)
  BY <1>5 DEF Fits
<1>9. Written(n, m, s, v, i, e)
  <2> HIDE DEF e, old, Free
  <2> QED  BY <1>1, <1>2, <1>5, <1>6, <1>7, <1>8, SetEntryWrites
<1>10. Allowed(s, i, At(Map(m), s, v, i), e, more \ more)
  <2>1. /\ old.rw /\ ~old.nx /\ ~old.lazy /\ (s # KERNEL => old.user)
    BY <1>1, <1>2 DEF RightsOK
  <2>2. s = KERNEL => i # 0
    BY PagesAssumption DEF TypeOK
  <2>3. Repoints(s, i, old, e, more \ more, zero_page)
    BY <1>5 DEF Repoints
  <2> QED  BY <1>5, <2>1, <2>2, <2>3 DEF Allowed
<1>11. Shape(n, more)
  <2> HIDE DEF e
  <2> QED  BY <1>2, <1>5, <1>9, <1>10, SetKeeps
<1>12. Passes(m, s, v, i, e, Short(i, c), Short(i, c - 1))
  <2>1. Short(i, c) \in [0 .. 2 -> Int] /\ Short(i, c - 1) \in [0 .. 2 -> Int]
    BY DEF Short
  <2>2. old.cnt + c = Count(m.table[old.addr])
    <3>1. SamePath(v, v, i) /\ Short(i, c)[i] = c
      BY DEF SamePath, Short
    <3>2. old.cnt + (IF s = s /\ SamePath(v, v, i) THEN Short(i, c)[i] ELSE 0)
             = Count(m.table[old.addr])
      BY <1>1 DEF Owed
    <3> QED  BY <3>1, <3>2
  <2>3. Short(i, c - 1)[i] = Count(m.table[e.addr]) - e.cnt
    <3>1. Short(i, c - 1)[i] = c - 1
      BY DEF Short
    <3> HIDE DEF old, e
    <3> QED  BY <1>4, <1>5, <2>2, <3>1
  <2>4. i > 0 => Short(i, c - 1)[i - 1] = Short(i, c)[i - 1] + Bit(e.present) - Bit(old.present)
    <3>1. i > 0 => Short(i, c - 1)[i - 1] = 0 /\ Short(i, c)[i - 1] = 0
      BY DEF Short
    <3>2. Bit(e.present) = Bit(old.present) /\ Bit(e.present) \in Int
      BY <1>5 DEF Bit
    <3> HIDE DEF old, e
    <3> QED  BY <3>1, <3>2
  <2>5. \A j \in 0 .. 2 : j # i /\ j # i - 1 => Short(i, c - 1)[j] = Short(i, c)[j]
    BY DEF Short
  <2> QED  BY <2>1, <2>3, <2>4, <2>5 DEF Passes
<1>13. Owed(n.table, Map(n), s, v, Short(i, c - 1))
  <2> HIDE DEF e
  <2> QED  BY <1>2, <1>5, <1>9, <1>12, SetOwes
<1> QED  BY <1>9, <1>11, <1>13 DEF Counts, Written

LEMMA OwedNothing ==
    ASSUME TypeOK, NEW m, NEW more, Shape(m, more), NEW s, NEW v, NEW d, \A j \in 0 .. 2 : d[j] = 0
    PROVE  CountsOK(m.table, Map(m), Owners) <=> Owed(m.table, Map(m), s, v, d)
<1>1. \A t \in Owners : \A w \in PagesOf(t) : \A j \in 0 .. 2 : At(Map(m), t, w, j).cnt \in Int
  <2>1. Tree(Map(m), Owners, Range(m.pool) \cup more, zero_page) /\ zero_page \in Frames /\ m \in MmType
    BY DEF Shape, Forest
  <2>2. \A t \in Owners : \A w \in PagesOf(t) : \A j \in 0 .. 3 : At(Map(m), t, w, j) \in EntryType
    BY <2>1, MapTypes
  <2>3. \A j \in 0 .. 2 : j \in 0 .. 3
    OBVIOUS
  <2> QED  BY <2>2, <2>3, EntryCount
<1> QED  BY <1>1 DEF Owed, CountsOK

LEMMA TakeSound ==
    ASSUME TypeOK, NEW m, Sound(m, {}), NEW s, NEW v, NEW n, Taken(n, m)
    PROVE  /\ Sound(n, {Head(m.pool)}) /\ Map(n) = Map(m) /\ Len(n.pool) = Len(m.pool) - 1
           /\ Loaded(m, s) => Loaded(n, s)
<1> DEFINE f == Head(m.pool)
           d == Short(2, 0)
<1>1. Shape(m, {}) /\ CountsOK(m.table, Map(m), Owners) /\ \A j \in 0 .. 2 : d[j] = 0
  BY DEF Sound, Short
<1>2. Kept(n, m, {}) /\ {} \cup {f} = {f}
  BY <1>1, TakeKeeps
<1>3. /\ Shape(n, {f}) /\ Map(n) = Map(m) /\ Len(n.pool) = Len(m.pool) - 1
      /\ Loaded(m, s) => Loaded(n, s)
      /\ Owed(m.table, Map(m), s, v, d) => Owed(n.table, Map(n), s, v, d)
  BY <1>2 DEF Kept
<1> HIDE DEF d, f
<1>4. Owed(m.table, Map(m), s, v, d)
  BY <1>1, OwedNothing
<1>5. CountsOK(n.table, Map(n), Owners)
  BY <1>1, <1>3, <1>4, OwedNothing
<1> QED  BY <1>3, <1>5 DEF Sound, f

\* n is m with a table behind entry i of page v; no page is mapped differently.
Grown(n, m, more, s, v, i) ==
    /\ Sound(n, more) /\ n.pool = Tail(m.pool) /\ Len(n.pool) = Len(m.pool) - 1 /\ Loaded(n, s)
    /\ \A j \in 0 .. 3 : At(Map(n), s, v, j).present <=> j = i \/ At(Map(m), s, v, j).present
    /\ \A t \in Owners : \A w \in PagesOf(t) : At(Map(n), t, w, 3) = At(Map(m), t, w, 3)

\* The kernel half has its two upper tables from the start.
LEMMA KernelSpine ==
    ASSUME TypeOK, NEW m, ImageOK(m.table), NEW v \in PagesOf(KERNEL)
    PROVE  At(Map(m), KERNEL, v, 0).present /\ At(Map(m), KERNEL, v, 1).present
<1>1. /\ At(Map(m), KERNEL, v, 0) = Tops(m)[KERNEL]
      /\ At(Map(m), KERNEL, v, 1) = Below(m.table, At(Map(m), KERNEL, v, 1 - 1), v[1 + 1])
  BY WalksAre, OwnerFacts DEF Map
<1>2. Tops(m)[KERNEL] = m.table[PML4][High] /\ v[2] = KernelIdx /\ KernelIdx \in Idx
  BY OwnerFacts, PageFacts, Sizes DEF Loaded, Top, Everyone
<1>3. m.table[PML4][High].present /\ m.table[PML4][High].addr = PDPT
  BY DEF ImageOK, Spine
<1>4. m.table[PDPT][KernelIdx].present
  BY DEF ImageOK, Spine
<1>5. At(Map(m), KERNEL, v, 1) = Below(m.table, m.table[PML4][High], KernelIdx)
  BY <1>1, <1>2
<1> QED  BY <1>1, <1>2, <1>3, <1>4, <1>5 DEF Below

LEMMA NewTableKeeps ==
    ASSUME TypeOK, NEW m, NEW more, Sound(m, more),
           NEW s \in {building, KERNEL} \ {NULL}, NEW v \in PagesOf(s), NEW i \in 0 .. 2, Loaded(m, s),
           ~At(Map(m), s, v, i).present, i > 0 => At(Map(m), s, v, i - 1).present,
           m.pool # <<>>, NEW n, n = NewTable(m, v, i)
    PROVE  Grown(n, m, more, s, v, i)
<1> DEFINE f == Head(m.pool)
           taken == get_frame(m)
           z == [taken EXCEPT !.table[f] = [x \in Idx |-> Empty]]
           e == [PresentRW(f) EXCEPT !.user = TRUE]
           l == SetEntry(z, v, i, e)
           more1 == more \cup {f}
           d0 == Short(i - 1, 0)
           d1 == Short(i - 1, 1)
<1>1. /\ Shape(m, more) /\ m \in MmType /\ m.table \in TableSet /\ m.pool \in Seq(Frames)
      /\ s \in Owners /\ CountsOK(m.table, Map(m), Owners) /\ ImageOK(m.table)
      /\ \A j, k \in 1 .. Len(m.pool) : m.pool[j] = m.pool[k] => j = k
  BY DEF Sound, Shape, Loaded, MmType, PoolOK
<1>2. i \in 0 .. 3 /\ i < 3 /\ (s = KERNEL => i = 2) /\ (i = 0 => s = building)
  BY <1>1, KernelSpine
<1>3. f \in Frames /\ f \in Tables /\ Empty \in EntryType
  <2>1. f \in Frames
    BY <1>1, HeadTail
  <2> QED  BY <2>1, TableNames, EmptyEntry
<1>4. Taken(z, m) /\ z.table[f] = [x \in Idx |-> Empty] /\ Tail(m.pool) \in Seq(Frames)
  <2>1. Tail(m.pool) \in Seq(Frames)
    BY <1>1, HeadTail
  <2>2. /\ taken \in MmType /\ taken.pool = Tail(m.pool) /\ OneCell(taken.table, m.table, End, 1, PresentRW(f))
        /\ \A t \in Tables \ {End} : taken.table[t] = m.table[t]
    BY <1>1, <1>3, <2>1, GetFrameIs
  <2> HIDE DEF taken
  <2>3. z.table = [taken.table EXCEPT ![f] = [x \in Idx |-> Empty]] /\ z.pool = Tail(m.pool)
    BY <2>2 DEF MmType
  <2>4. z.table \in TableSet
    BY <1>3, <2>2, <2>3 DEF MmType, TableSet
  <2>5. z \in MmType
    BY <1>1, <2>2, <2>3, <2>4 DEF MmType
  <2> HIDE DEF z
  <2>6. /\ z.table[f] = [x \in Idx |-> Empty]
        /\ \A t \in Tables \ {f} : z.table[t] = taken.table[t]
    BY <1>3, <2>2, <2>3 DEF MmType, TableSet
  <2>7. End \in Tables \ {f}
    BY <1>3, TableNames
  <2> HIDE DEF f
  <2>8. \A x \in Idx : z.table[End][x] = IF x = 1 THEN PresentRW(f) ELSE m.table[End][x]
    BY <2>2, <2>6, <2>7 DEF OneCell
  <2> QED  BY <2>1, <2>2, <2>3, <2>5, <2>6, <2>8 DEF Taken, f
<1>5. /\ Shape(z, more1) /\ Map(z) = Map(m) /\ Loaded(z, s) /\ z.pool = Tail(m.pool)
      /\ f \in Frames \ (Range(z.pool) \cup more \cup {zero_page})
      /\ Len(z.pool) = Len(m.pool) - 1
      /\ \A d : Owed(m.table, Map(m), s, v, d) => Owed(z.table, Map(z), s, v, d)
  <2> HIDE DEF z
  <2>1. Kept(z, m, more)
    BY <1>1, <1>4, TakeKeeps
  <2>2. z.pool = Tail(m.pool)
    BY <1>4 DEF Taken
  <2> QED  BY <2>1, <2>2 DEF Kept
<1> HIDE DEF z
<1>6. Owed(z.table, Map(z), s, v, d0)
  <2>1. \A j \in 0 .. 2 : d0[j] = 0
    BY DEF Short
  <2> HIDE DEF d0
  <2>2. Owed(m.table, Map(m), s, v, d0)
    BY <1>1, <2>1, OwedNothing
  <2> QED  BY <1>5, <2>2
<1>7. /\ e \in EntryType /\ e.present /\ e.addr = f /\ e.rw /\ e.user
      /\ ~e.nx /\ ~e.lazy /\ e.cnt = 0
  BY <1>3, NewEntry
<1> HIDE DEF e
<1>8. Fits(z, At(Map(z), s, v, i), e, Range(z.pool) \cup more1)
  BY <1>3, <1>4, <1>5, <1>7 DEF Fits
<1>9. Written(l, z, s, v, i, e)
  <2>1. /\ z \in MmType /\ zero_page \in Frames
        /\ Tree(Map(z), Owners, Range(z.pool) \cup more1, zero_page)
    BY <1>5 DEF Shape, Forest
  <2>2. i > 0 => At(Map(z), s, v, i - 1).present
    BY <1>5
  <2> HIDE DEF more1, f
  <2> QED  BY <1>2, <1>5, <1>7, <1>8, <2>1, <2>2, SetEntryWrites
<1>10. Shape(l, more)
  <2>1. more1 \ more = {f} /\ more \subseteq more1
    BY <1>5
  <2>2. Repoints(s, i, At(Map(z), s, v, i), e, {f}, zero_page)
    BY <1>2, <1>5, <1>7 DEF Repoints
  <2>3. Allowed(s, i, At(Map(z), s, v, i), e, {f})
    BY <1>2, <1>7, <2>2 DEF Allowed
  <2>4. Allowed(s, i, At(Map(z), s, v, i), e, more1 \ more)
    BY <2>1, <2>3
  <2> HIDE DEF more1, l
  <2> QED  BY <1>2, <1>5, <1>7, <1>9, <2>1, <2>4, SetKeeps
<1>11. Owed(l.table, Map(l), s, v, d1)
  <2>1. Count(z.table[f]) = 0
    <3>1. {x \in Idx : z.table[f][x].present} = {}
      BY <1>4, EmptyEntry
    <3> QED  BY <3>1, FS_EmptySet DEF Count
  <2>2. Passes(z, s, v, i, e, d0, d1)
    <3>1. d0 \in [0 .. 2 -> Int] /\ d1 \in [0 .. 2 -> Int]
      BY DEF Short
    <3>2. d1[i] = Count(z.table[e.addr]) - e.cnt
      BY <1>7, <2>1 DEF Short
    <3>3. i > 0 => d1[i - 1] = d0[i - 1] + Bit(e.present) - Bit(At(Map(z), s, v, i).present)
      <4>1. i > 0 => d1[i - 1] = 1 /\ d0[i - 1] = 0
        BY DEF Short
      <4>2. Bit(e.present) = 1 /\ Bit(At(Map(z), s, v, i).present) = 0
        BY <1>5, <1>7 DEF Bit
      <4> QED  BY <4>1, <4>2
    <3>4. \A j \in 0 .. 2 : j # i /\ j # i - 1 => d1[j] = d0[j]
      BY DEF Short
    <3> QED  BY <3>1, <3>2, <3>3, <3>4 DEF Passes
  <2> HIDE DEF more1, l, d0, d1
  <2> QED  BY <1>2, <1>5, <1>6, <1>7, <1>9, <2>2, SetOwes
<1>12. /\ l.pool = Tail(m.pool) /\ Loaded(l, s)
       /\ \A t \in Owners : \A w \in PagesOf(t) : \A j \in 0 .. 3 :
             At(Map(l), t, w, j) = IF t = s /\ j = i /\ SamePath(v, w, i) THEN e ELSE At(Map(m), t, w, j)
  BY <1>5, <1>9 DEF Written, Point
<1>13. SamePath(v, v, i) /\ \A j \in 0 .. 3 : j # i => ~(s = s /\ j = i /\ SamePath(v, v, i))
  BY DEF SamePath
<1>14. \A j \in 0 .. 3 : At(Map(l), s, v, j).present <=> j = i \/ At(Map(m), s, v, j).present
  BY <1>1, <1>7, <1>12, <1>13
<1>15. \A t \in Owners : \A w \in PagesOf(t) : At(Map(l), t, w, 3) = At(Map(m), t, w, 3)
  BY <1>2, <1>12
<1> HIDE DEF l
<1>16. CASE i = 0
  <2>1. n = l
    BY <1>16 DEF NewTable, l, z, taken, e
  <2>2. \A j \in 0 .. 2 : d1[j] = 0
    BY <1>16 DEF Short
  <2> HIDE DEF d1
  <2>3. CountsOK(l.table, Map(l), Owners)
    BY <1>10, <1>11, <2>2, OwedNothing
  <2>4. Sound(n, more) /\ Len(n.pool) = Len(m.pool) - 1
    BY <1>5, <1>10, <1>12, <2>1, <2>3 DEF Sound
  <2> QED  BY <1>12, <1>14, <1>15, <2>1, <2>4 DEF Grown
<1>17. CASE i > 0
  <2> DEFINE k == i - 1
             g == At(Map(l), s, v, k)
  <2>1. k \in 0 .. 2 /\ k \in 0 .. 3 /\ k # i /\ (k = 0 => s = building)
    BY <1>2, <1>17
  <2>2. g.present
    BY <1>14, <1>17, <2>1
  <2>3. n = increase_counter(l, v, k)
    BY <1>17 DEF NewTable, l, z, taken, e
  <2>4. g.cnt < Entries
    <3>1. g.cnt + 1 = Count(l.table[g.addr])
      <4>1. SamePath(v, v, k) /\ d1[k] = 1
        BY <2>1 DEF SamePath, Short
      <4>2. g.cnt + (IF s = s /\ SamePath(v, v, k) THEN d1[k] ELSE 0) = Count(l.table[g.addr])
        BY <1>1, <1>11, <2>1, <2>2 DEF Owed
      <4> QED  BY <4>1, <4>2
    <3>2. /\ Tree(Map(l), Owners, Range(l.pool) \cup more, zero_page) /\ zero_page \in Frames
          /\ l \in MmType /\ l.table \in TableSet
      BY <1>10 DEF Shape, Forest, MmType
    <3>3. g.addr \in Tables /\ g \in EntryType
      BY <1>1, <2>1, <2>2, <3>2, MapAbove, MapTypes
    <3>4. Count(l.table[g.addr]) \in 0 .. Entries
      <4>1. l.table[g.addr] \in [Idx -> EntryType] /\ 0 \in Idx
        BY <3>2, <3>3, Sizes DEF TableSet
      <4> QED  BY <1>3, <4>1, CountChange
    <3> HIDE DEF g
    <3>5. g.cnt \in Int
      BY <3>3, EntryCount
    <3>6. Entries \in Int
      BY Sizes
    <3> QED  BY <3>1, <3>4, <3>5, <3>6
  <2>5. Owed(l.table, Map(l), s, v, Short(k, 1))
    BY <1>11
  <2>6. Counts(n, l, more, s, v, k, 1)
    <3>1. Loaded(l, s) /\ 1 \in Int
      BY <1>12
    <3> HIDE DEF k
    <3> QED  BY <1>10, <2>1, <2>2, <2>3, <2>4, <2>5, <3>1, IncreaseKeeps DEF g
  <2>7. CountsOK(n.table, Map(n), Owners)
    <3>1. Owed(n.table, Map(n), s, v, Short(k, 1 - 1)) /\ Shape(n, more)
      BY <2>6 DEF Counts
    <3>2. \A j \in 0 .. 2 : Short(k, 1 - 1)[j] = 0
      BY DEF Short
    <3> QED  BY <3>1, <3>2, OwedNothing
  <2>8. \A t \in Owners : \A w \in PagesOf(t) : \A j \in 0 .. 3 :
           At(Map(n), t, w, j) = IF t = s /\ j = k /\ SamePath(v, w, k) THEN [g EXCEPT !.cnt = @ + 1]
                             ELSE At(Map(l), t, w, j)
    BY <2>6 DEF Counts, Point
  <2>9. [g EXCEPT !.cnt = @ + 1].present = g.present
    <3>1. l \in MmType /\ zero_page \in Frames /\ Tree(Map(l), Owners, Range(l.pool) \cup more, zero_page)
      BY <1>10 DEF Shape, Forest
    <3>2. g \in EntryType
      BY <1>1, <2>1, <3>1, MapTypes
    <3> HIDE DEF g
    <3> QED  BY <3>2 DEF EntryType
  <2>10. \A j \in 0 .. 3 : At(Map(n), s, v, j).present <=> At(Map(l), s, v, j).present
    <3> TAKE j \in 0 .. 3
    <3>1. CASE j = k
      <4>1. SamePath(v, v, k)
        BY DEF SamePath
      <4>2. At(Map(n), s, v, j) = [g EXCEPT !.cnt = @ + 1]
        BY <1>1, <2>8, <3>1, <4>1
      <4> QED  BY <2>9, <3>1, <4>2
    <3>2. CASE j # k
      BY <1>1, <2>8, <3>2
    <3> QED  BY <3>1, <3>2
  <2>11. \A t \in Owners : \A w \in PagesOf(t) : At(Map(n), t, w, 3) = At(Map(l), t, w, 3)
    BY <2>1, <2>8
  <2>12. Sound(n, more) /\ n.pool = Tail(m.pool) /\ Len(n.pool) = Len(m.pool) - 1 /\ Loaded(n, s)
    BY <1>5, <1>12, <2>6, <2>7 DEF Sound, Counts
  <2> QED  BY <1>14, <1>15, <2>10, <2>11, <2>12 DEF Grown
<1> QED  BY <1>16, <1>17
-----------------------------------------------------------------------------
\* All tables of a page, and the page.
LEMMA OfThree ==
    ASSUME NEW X \in SUBSET (0 .. 2)
    PROVE  Cardinality(X) = Bit(0 \in X) + Bit(1 \in X) + Bit(2 \in X)
<1> DEFINE A == X \cap {0}
           B == X \cap {0, 1}
<1>1. IsFiniteSet(A) /\ Cardinality(A) = Bit(0 \in X)
  <2>1. CASE 0 \in X
    <3>1. A = {0}
      BY <2>1
    <3> QED  BY <2>1, <3>1, FS_Singleton DEF Bit
  <2>2. CASE 0 \notin X
    <3>1. A = {}
      BY <2>2
    <3> QED  BY <2>2, <3>1, FS_EmptySet DEF Bit
  <2> QED  BY <2>1, <2>2
<1>2. Bit(0 \in X) \in Nat /\ Bit(1 \in X) \in Nat
  BY DEF Bit
<1>3. IsFiniteSet(B) /\ Cardinality(B) = Bit(0 \in X) + Bit(1 \in X)
  <2>1. CASE 1 \in X
    <3>1. B = A \cup {1} /\ 1 \notin A
      BY <2>1
    <3>2. IsFiniteSet(B) /\ Cardinality(B) = Cardinality(A) + 1
      BY <1>1, <3>1, FS_AddElement
    <3>3. Bit(1 \in X) = 1
      BY <2>1 DEF Bit
    <3> QED  BY <1>1, <3>2, <3>3
  <2>2. CASE 1 \notin X
    <3>1. B = A
      BY <2>2
    <3>2. Bit(1 \in X) = 0
      BY <2>2 DEF Bit
    <3> QED  BY <1>1, <1>2, <3>1, <3>2
  <2> QED  BY <2>1, <2>2
<1>4. \A x \in X : x = 0 \/ x = 1 \/ x = 2
  OBVIOUS
<1>5. CASE 2 \in X
  <2>1. X = B \cup {2} /\ 2 \notin B
    <3>1. \A x : x \in X <=> x \in B \/ x = 2
      BY <1>5, <1>4
    <3> QED  BY <3>1
  <2>2. Cardinality(X) = Cardinality(B) + 1
    BY <1>3, <2>1, FS_AddElement
  <2>3. Bit(2 \in X) = 1
    BY <1>5 DEF Bit
  <2> QED  BY <1>3, <2>2, <2>3
<1>6. CASE 2 \notin X
  <2>1. X = B
    BY <1>6, <1>4
  <2>2. Bit(2 \in X) = 0
    BY <1>6 DEF Bit
  <2> HIDE DEF B
  <2> QED  BY <1>2, <1>3, <2>1, <2>2
<1> QED  BY <1>5, <1>6

\* How many of the first i tables of page v are missing.
Absent(m, s, v, i) == Bit(~At(Map(m), s, v, i).present)
Gone(m, s, v, i) == (IF i > 0 THEN Absent(m, s, v, 0) ELSE 0)
                    + (IF i > 1 THEN Absent(m, s, v, 1) ELSE 0)
                    + (IF i > 2 THEN Absent(m, s, v, 2) ELSE 0)

LEMMA MissingIs ==
    ASSUME TypeOK, NEW m, NEW s, Loaded(m, s), NEW v \in PagesOf(s)
    PROVE  Missing(m, v) = Gone(m, s, v, 3)
<1> DEFINE X == {i \in 0 .. 2 : ~Present(m, v, i)}
<1>1. \A i \in 0 .. 2 : Present(m, v, i) = At(Map(m), s, v, i).present
  BY LoadedEntry DEF Present
<1>2. /\ 0 \in X <=> ~At(Map(m), s, v, 0).present
      /\ 1 \in X <=> ~At(Map(m), s, v, 1).present
      /\ 2 \in X <=> ~At(Map(m), s, v, 2).present
  BY <1>1
<1>3. X \in SUBSET (0 .. 2)
  OBVIOUS
<1>4. Missing(m, v) = Cardinality(X)
  BY DEF Missing
<1> HIDE DEF X
<1>5. /\ Bit(0 \in X) = Absent(m, s, v, 0) /\ Bit(1 \in X) = Absent(m, s, v, 1)
      /\ Bit(2 \in X) = Absent(m, s, v, 2)
  BY <1>2 DEF Absent, Bit
<1> QED  BY <1>3, <1>4, <1>5, OfThree DEF Gone

\* n is m after the first i rounds of ensure_pt_exists().
Reached(n, m, more, s, v, i) ==
    /\ Sound(n, more) /\ Loaded(n, s)
    /\ Len(n.pool) = Len(m.pool) - Gone(m, s, v, i)
    /\ \A j \in 0 .. 3 : At(Map(n), s, v, j).present <=> j < i \/ At(Map(m), s, v, j).present
    /\ \A t \in Owners : \A w \in PagesOf(t) : At(Map(n), t, w, 3) = At(Map(m), t, w, 3)

LEMMA RoundKeeps ==
    ASSUME TypeOK, NEW m, NEW more, NEW s \in {building, KERNEL} \ {NULL}, NEW v \in PagesOf(s),
           m.pool \in Seq(Frames), Len(m.pool) >= Gone(m, s, v, 3),
           NEW i \in 0 .. 2, NEW n, Reached(n, m, more, s, v, i),
           NEW n2, n2 = EnsureTable(n, v, i)
    PROVE  Reached(n2, m, more, s, v, i + 1)
<1>1. /\ Sound(n, more) /\ Loaded(n, s) /\ Len(n.pool) = Len(m.pool) - Gone(m, s, v, i)
      /\ \A j \in 0 .. 3 : At(Map(n), s, v, j).present <=> j < i \/ At(Map(m), s, v, j).present
      /\ \A t \in Owners : \A w \in PagesOf(t) : At(Map(n), t, w, 3) = At(Map(m), t, w, 3)
  BY DEF Reached
<1>2. i \in 0 .. 3 /\ ~(i < i) /\ Len(m.pool) \in Nat
  BY LenProperties
<1>3. n2 = IF At(Map(n), s, v, i).present THEN n ELSE NewTable(n, v, i)
  BY <1>1, <1>2, LoadedEntry DEF Present, EnsureTable
<1>4. At(Map(n), s, v, i).present <=> At(Map(m), s, v, i).present
  BY <1>1, <1>2
<1>5. /\ Gone(m, s, v, i) \in Nat /\ Gone(m, s, v, 3) \in Nat
      /\ Gone(m, s, v, i + 1) = Gone(m, s, v, i) + Absent(m, s, v, i)
      /\ Gone(m, s, v, i + 1) <= Gone(m, s, v, 3)
  <2>1. Absent(m, s, v, 0) \in Nat /\ Absent(m, s, v, 1) \in Nat /\ Absent(m, s, v, 2) \in Nat
    BY DEF Absent, Bit
  <2>2. i = 0 \/ i = 1 \/ i = 2
    OBVIOUS
  <2>3. CASE i = 0
    BY <2>1, <2>3 DEF Gone
  <2>4. CASE i = 1
    BY <2>1, <2>4 DEF Gone
  <2>5. CASE i = 2
    BY <2>1, <2>5 DEF Gone
  <2> QED  BY <2>2, <2>3, <2>4, <2>5
<1>6. CASE At(Map(n), s, v, i).present
  <2>1. Absent(m, s, v, i) = 0
    BY <1>4, <1>6 DEF Absent, Bit
  <2>2. Gone(m, s, v, i + 1) = Gone(m, s, v, i) /\ n2 = n
    BY <1>3, <1>5, <1>6, <2>1
  <2>3. \A j \in 0 .. 3 : At(Map(n), s, v, j).present <=> j < i + 1 \/ At(Map(m), s, v, j).present
    <3>1. \A j \in 0 .. 3 : j < i + 1 <=> j < i \/ j = i
      OBVIOUS
    <3> QED  BY <1>1, <1>4, <1>6, <3>1
  <2> QED  BY <1>1, <2>2, <2>3 DEF Reached
<1>7. CASE ~At(Map(n), s, v, i).present
  <2>1. n2 = NewTable(n, v, i)
    BY <1>3, <1>7
  <2>2. Absent(m, s, v, i) = 1
    BY <1>4, <1>7 DEF Absent, Bit
  <2>3. n.pool # <<>>
    <3>1. Len(n.pool) > 0
      BY <1>1, <1>2, <1>5, <2>2
    <3>2. Len(<<>>) = 0
      OBVIOUS
    <3> QED  BY <3>1, <3>2
  <2>4. i > 0 => At(Map(n), s, v, i - 1).present
    <3>1. i > 0 => i - 1 \in 0 .. 3 /\ i - 1 < i
      OBVIOUS
    <3> QED  BY <1>1, <3>1
  <2>5. Grown(n2, n, more, s, v, i)
    BY <1>1, <1>7, <2>1, <2>3, <2>4, NewTableKeeps
  <2>6. /\ Sound(n2, more) /\ Loaded(n2, s) /\ Len(n2.pool) = Len(n.pool) - 1
        /\ \A j \in 0 .. 3 : At(Map(n2), s, v, j).present <=> j = i \/ At(Map(n), s, v, j).present
        /\ \A t \in Owners : \A w \in PagesOf(t) : At(Map(n2), t, w, 3) = At(Map(n), t, w, 3)
    BY <2>5 DEF Grown
  <2>7. Len(n2.pool) = Len(m.pool) - Gone(m, s, v, i + 1)
    <3>1. Len(n2.pool) = Len(n.pool) - 1 /\ Len(n.pool) = Len(m.pool) - Gone(m, s, v, i)
      BY <1>1, <2>6
    <3>2. Gone(m, s, v, i + 1) = Gone(m, s, v, i) + 1
      BY <1>5, <2>2
    <3>3. Len(m.pool) \in Int /\ Gone(m, s, v, i) \in Int
      BY <1>2, <1>5
    <3> QED  BY <3>1, <3>2, <3>3
  <2>8. \A j \in 0 .. 3 : At(Map(n2), s, v, j).present <=> j < i + 1 \/ At(Map(m), s, v, j).present
    <3>1. \A j \in 0 .. 3 : j < i + 1 <=> j < i \/ j = i
      OBVIOUS
    <3> QED  BY <1>1, <2>6, <3>1
  <2> QED  BY <1>1, <2>6, <2>7, <2>8 DEF Reached
<1> QED  BY <1>6, <1>7

LEMMA EnsureKeeps ==
    ASSUME TypeOK, NEW m, NEW more, Sound(m, more),
           NEW s \in {building, KERNEL} \ {NULL}, NEW v \in PagesOf(s), Loaded(m, s),
           Len(m.pool) >= Missing(m, v), NEW n, n = ensure_pt_exists(m, v)
    PROVE  Reached(n, m, more, s, v, 3)
<1> DEFINE m1 == EnsureTable(m, v, 0)
           m2 == EnsureTable(m1, v, 1)
           m3 == EnsureTable(m2, v, 2)
<1>1. n = m3
  BY DEF ensure_pt_exists
<1>2. m.pool \in Seq(Frames)
  BY DEF Sound, Shape, MmType
<1>3. Len(m.pool) >= Gone(m, s, v, 3)
  BY MissingIs
<1>4. Reached(m, m, more, s, v, 0)
  <2>1. Gone(m, s, v, 0) = 0 /\ Len(m.pool) \in Nat
    BY <1>2, LenProperties DEF Gone
  <2>2. \A j \in 0 .. 3 : ~(j < 0)
    OBVIOUS
  <2> QED  BY <2>1, <2>2 DEF Reached
<1>5. Reached(m1, m, more, s, v, 0 + 1)
  BY <1>2, <1>3, <1>4, RoundKeeps
<1> HIDE DEF m1
<1>6. Reached(m2, m, more, s, v, 1 + 1)
  BY <1>2, <1>3, <1>5, RoundKeeps
<1> HIDE DEF m2
<1>7. Reached(m3, m, more, s, v, 2 + 1)
  BY <1>2, <1>3, <1>6, RoundKeeps
<1> HIDE DEF m3
<1> QED  BY <1>1, <1>7

\* n is m with page v of s mapped by e, and no other page changed.
Mapped(n, m, more, s, v, e) ==
    /\ Sound(n, more) /\ Loaded(n, s)
    /\ \A t \in Owners : \A w \in PagesOf(t) :
          At(Map(n), t, w, 3) = IF t = s /\ SamePath(v, w, 3) THEN e ELSE At(Map(m), t, w, 3)

LEMMA MapKeeps ==
    ASSUME TypeOK, NEW m, NEW more, Sound(m, more),
           NEW s \in {building, KERNEL} \ {NULL}, NEW v \in PagesOf(s), Loaded(m, s),
           Len(m.pool) >= Missing(m, v), ~At(Map(m), s, v, 3).present,
           NEW e \in EntryType, e.present, NEW more2 \in SUBSET more,
           Repoints(s, 3, At(Map(m), s, v, 3), e, more \ more2, zero_page),
           NEW n, n = map_page(m, v, e)
    PROVE  Mapped(n, m, more2, s, v, e)
<1> DEFINE k == ensure_pt_exists(m, v)
           c == increase_counter(k, v, 2)
           old == At(Map(k), s, v, 3)
           g == At(Map(k), s, v, 2)
<1>1. Reached(k, m, more, s, v, 3)
  BY EnsureKeeps
<1> HIDE DEF k
<1>2. /\ Sound(k, more) /\ Shape(k, more) /\ CountsOK(k.table, Map(k), Owners) /\ Loaded(k, s)
      /\ g.present /\ old = At(Map(m), s, v, 3) /\ s \in Owners
      /\ \A t \in Owners : \A w \in PagesOf(t) : At(Map(k), t, w, 3) = At(Map(m), t, w, 3)
  BY <1>1 DEF Reached, Sound, Loaded
<1>3. n = SetEntry(c, v, 3, e)
  <2>1. ~Present(m, v, 3)
    BY LoadedEntry DEF Present
  <2> QED  BY <2>1 DEF map_page, k
<1>4. /\ k \in MmType /\ k.table \in TableSet /\ zero_page \in Frames
      /\ Tree(Map(k), Owners, Range(k.pool) \cup more, zero_page)
  BY <1>2 DEF Shape, Forest, MmType
<1>5. g.cnt < Entries
  <2>1. /\ g.addr \in Tables /\ v[3 + 1] \in Idx /\ old = k.table[g.addr][v[3 + 1]]
    <3>1. At(Map(k), s, v, 3 - 1).present /\ 3 \in 1 .. 3 /\ 3 - 1 = 2
      BY <1>2
    <3> QED  BY <1>2, <1>4, <3>1, EntryPlace
  <2>2. k.table[g.addr] \in [Idx -> EntryType]
    BY <1>4, <2>1 DEF TableSet
  <2>3. ~k.table[g.addr][v[3 + 1]].present
    BY <1>2, <2>1
  <2>4. Count(k.table[g.addr]) < Entries
    BY <2>1, <2>2, <2>3, CountChange
  <2>5. g.cnt = Count(k.table[g.addr])
    BY <1>2 DEF CountsOK
  <2> QED  BY <2>4, <2>5
<1>6. Counts(c, k, more, s, v, 2, 0)
  <2>1. \A j \in 0 .. 2 : Short(2, 0)[j] = 0
    BY DEF Short
  <2>2. Owed(k.table, Map(k), s, v, Short(2, 0))
    BY <1>2, <2>1, OwedNothing
  <2>3. 2 \in 0 .. 2 /\ 0 \in Int /\ 2 # 0
    OBVIOUS
  <2> QED  BY <1>2, <1>5, <2>2, <2>3, IncreaseKeeps
<1> HIDE DEF c
<1>7. /\ Shape(c, more) /\ Loaded(c, s) /\ Owed(c.table, Map(c), s, v, Short(2, -1))
      /\ At(Map(c), s, v, 2).present
      /\ \A t \in Owners : \A w \in PagesOf(t) : At(Map(c), t, w, 3) = At(Map(m), t, w, 3)
  <2>1. \A t \in Owners : \A w \in PagesOf(t) : \A j \in 0 .. 3 :
            At(Map(c), t, w, j) = IF t = s /\ j = 2 /\ SamePath(v, w, 2) THEN [g EXCEPT !.cnt = @ + 1]
                              ELSE At(Map(k), t, w, j)
    BY <1>6 DEF Counts, Point
  <2>2. [g EXCEPT !.cnt = @ + 1].present
    <3>1. g \in EntryType
      BY <1>2, <1>4, MapTypes
    <3> HIDE DEF g
    <3> QED  BY <1>2, <3>1 DEF EntryType
  <2>3. At(Map(c), s, v, 2).present
    <3>1. SamePath(v, v, 2) /\ 2 \in 0 .. 3
      BY DEF SamePath
    <3>2. At(Map(c), s, v, 2) = [g EXCEPT !.cnt = @ + 1]
      BY <1>2, <2>1, <3>1
    <3> QED  BY <2>2, <3>2
  <2>4. \A t \in Owners : \A w \in PagesOf(t) : At(Map(c), t, w, 3) = At(Map(k), t, w, 3)
    BY <2>1
  <2>5. 0 - 1 = -1
    OBVIOUS
  <2> QED  BY <1>2, <1>6, <2>3, <2>4, <2>5 DEF Counts
<1>8. Written(n, c, s, v, 3, e)
  <2>1. /\ c \in MmType /\ zero_page \in Frames
        /\ Tree(Map(c), Owners, Range(c.pool) \cup more, zero_page)
    BY <1>7 DEF Shape, Forest
  <2>2. 3 \in 0 .. 3 /\ ~(3 = 0) /\ ~(3 < 3) /\ At(Map(c), s, v, 3 - 1).present
    BY <1>7
  <2> QED  BY <1>3, <1>7, <2>1, <2>2, SetEntryWrites
<1>9. At(Map(c), s, v, 3) = At(Map(m), s, v, 3)
  BY <1>2, <1>7
<1>10. Shape(n, more2)
  <2>1. Allowed(s, 3, At(Map(c), s, v, 3), e, more \ more2)
    BY <1>9 DEF Allowed
  <2>2. 3 \in 0 .. 3 /\ more2 \subseteq more
    OBVIOUS
  <2> QED  BY <1>7, <1>8, <2>1, <2>2, SetKeeps
<1>11. CountsOK(n.table, Map(n), Owners)
  <2>1. Passes(c, s, v, 3, e, Short(2, -1), Short(2, 0))
    <3>1. /\ Short(2, -1) \in [0 .. 2 -> Int] /\ Short(2, 0) \in [0 .. 2 -> Int]
          /\ Short(2, -1)[2] = -1 /\ Short(2, 0)[2] = 0
          /\ \A j \in 0 .. 2 : j # 2 => Short(2, -1)[j] = Short(2, 0)[j]
      BY DEF Short
    <3>2. Bit(e.present) = 1 /\ Bit(At(Map(c), s, v, 3).present) = 0
      BY <1>9 DEF Bit
    <3>3. Short(2, 0)[2] = Short(2, -1)[2] + Bit(e.present) - Bit(At(Map(c), s, v, 3).present)
      <4>1. 0 = -1 + 1 - 0
        OBVIOUS
      <4>2. Short(2, 0)[2] = 0 /\ Short(2, -1)[2] = -1
        BY <3>1
      <4> QED  BY <3>2, <4>1, <4>2, Zenon
    <3>4. /\ 3 - 1 = 2 /\ ~(3 < 3) /\ 3 > 0
          /\ \A j \in 0 .. 2 : j # 3 /\ j # 2 => Short(2, 0)[j] = Short(2, -1)[j]
      BY <3>1
    <3> QED  BY <3>1, <3>3, <3>4, Zenon DEF Passes
  <2>2. Owed(n.table, Map(n), s, v, Short(2, 0))
    BY <1>7, <1>8, <2>1, SetOwes
  <2>3. \A j \in 0 .. 2 : Short(2, 0)[j] = 0
    BY DEF Short
  <2> QED  BY <1>10, <2>2, <2>3, OwedNothing
<1>12. \A t \in Owners : \A w \in PagesOf(t) :
          At(Map(n), t, w, 3) = IF t = s /\ SamePath(v, w, 3) THEN e ELSE At(Map(m), t, w, 3)
  BY <1>7, <1>8 DEF Written, Point
<1>13. Loaded(n, s)
  BY <1>8 DEF Written
<1> QED  BY <1>10, <1>11, <1>12, <1>13 DEF Mapped, Sound
-----------------------------------------------------------------------------
\* One page of a range.
AllFlags == Flags \cup {BitmapFlags, HeapFlags}

LEMMA ConvertFlags ==
    ASSUME NEW flags \in AllFlags, NEW a \in Frames, flags.immediate <=> a # zero_page,
           NEW e, e = [convert_flags(flags) EXCEPT !.addr = a]
    PROVE  e \in EntryType /\ e.present /\ e.addr = a /\ LeafOK(e, flags, zero_page) /\ flags # NULL
<1>1. flags \in [rw : BOOLEAN, exe : BOOLEAN, user : BOOLEAN, immediate : BOOLEAN] /\ flags # NULL
  <2>1. {BitmapFlags, HeapFlags} \subseteq [rw : BOOLEAN, exe : BOOLEAN, user : BOOLEAN, immediate : BOOLEAN]
    <3>1. BitmapFlags \in [rw : BOOLEAN, exe : BOOLEAN, user : BOOLEAN, immediate : BOOLEAN]
      BY DEF BitmapFlags
    <3>2. HeapFlags \in [rw : BOOLEAN, exe : BOOLEAN, user : BOOLEAN, immediate : BOOLEAN]
      BY <3>1 DEF HeapFlags
    <3> QED  BY <3>1, <3>2
  <2> QED  BY <2>1, PagesAssumption, NullAssumption DEF AllFlags
<1> DEFINE c == convert_flags(flags)
<1>2. /\ c \in EntryType /\ c.present /\ c.user = flags.user /\ c.nx = ~flags.exe
      /\ c.rw = (flags.rw /\ flags.immediate) /\ c.lazy = (flags.rw /\ ~flags.immediate)
  <2>1. flags.rw \in BOOLEAN /\ flags.exe \in BOOLEAN /\ flags.user \in BOOLEAN /\ flags.immediate \in BOOLEAN
    BY <1>1
  <2> DEFINE t == Empty
             rw == flags.rw /\ flags.immediate
             lazy == flags.rw /\ ~flags.immediate
             nx == ~flags.exe
  <2>2. t \in EntryType /\ rw \in BOOLEAN /\ lazy \in BOOLEAN /\ nx \in BOOLEAN
    BY <2>1, EmptyEntry
  <2>3. c = [t EXCEPT !.present = TRUE, !.user = flags.user, !.nx = nx, !.rw = rw, !.lazy = lazy]
    BY DEF convert_flags
  <2> HIDE DEF c, t, rw, lazy, nx
  <2>4. c.present /\ c.user = flags.user /\ c.nx = nx /\ c.rw = rw /\ c.lazy = lazy
    BY <2>2, <2>3 DEF EntryType
  <2>5. c \in EntryType
    <3> DEFINE d == [t EXCEPT !.present = TRUE, !.user = flags.user, !.nx = nx]
    <3>1. d \in EntryType
      BY <2>1, <2>2 DEF EntryType
    <3>2. c = [d EXCEPT !.rw = rw, !.lazy = lazy]
      BY <2>2, <2>3 DEF EntryType
    <3> HIDE DEF d
    <3> QED  BY <2>2, <3>1, <3>2 DEF EntryType
  <2> QED  BY <2>4, <2>5 DEF rw, lazy, nx
<1> HIDE DEF c
<1>3. a \in 0 .. (FirstFrame + NFrames - 1)
  BY Sizes, TableNames
<1>4. e = [c EXCEPT !.addr = a]
  BY DEF c
<1>5. /\ e \in EntryType /\ e.present /\ e.addr = a /\ e.user = flags.user /\ e.nx = ~flags.exe
      /\ e.rw = (flags.rw /\ flags.immediate) /\ e.lazy = (flags.rw /\ ~flags.immediate)
  BY <1>2, <1>3, <1>4 DEF EntryType
<1>6. LeafOK(e, flags, zero_page)
  <2>1. CASE flags.immediate
    BY <1>1, <1>5, <2>1 DEF LeafOK
  <2>2. CASE ~flags.immediate
    BY <1>1, <1>5, <2>2 DEF LeafOK
  <2> QED  BY <2>1, <2>2
<1> QED  BY <1>1, <1>5, <1>6

LEMMA MapRoundKeeps ==
    ASSUME TypeOK, NEW m, Sound(m, {}),
           NEW s \in {building, KERNEL} \ {NULL}, NEW v \in PagesOf(s), Loaded(m, s),
           NEW flags \in AllFlags, Len(m.pool) >= Needed(m, v, flags), ~At(Map(m), s, v, 3).present,
           NEW n, n = MapRound(m, v, flags)
    PROVE  \E e \in EntryType :
              /\ e.present /\ LeafOK(e, flags, zero_page) /\ Mapped(n, m, {}, s, v, e)
              /\ e.addr = IF flags.immediate THEN Head(m.pool) ELSE zero_page
<1>1. /\ Shape(m, {}) /\ CountsOK(m.table, Map(m), Owners) /\ m \in MmType /\ zero_page \in Frames
      /\ m.pool \in Seq(Frames) /\ zero_page \notin Range(m.pool)
      /\ \A j, k \in 1 .. Len(m.pool) : m.pool[j] = m.pool[k] => j = k
  BY DEF Sound, Shape, MmType, PoolOK
<1>2. Missing(m, v) \in Nat
  BY MissingIs DEF Gone, Absent, Bit
<1>3. CASE flags.immediate
  <2> DEFINE f == Head(m.pool)
             r == get_frame(m)
             e == [convert_flags(flags) EXCEPT !.addr = f]
  <2>1. Len(m.pool) >= Missing(m, v) + 1
    BY <1>3 DEF Needed
  <2>2. m.pool # <<>>
    <3>1. Len(<<>>) = 0
      OBVIOUS
    <3> QED  BY <1>2, <2>1, <3>1
  <2>3. f \in Frames /\ f \in Range(m.pool) /\ Tail(m.pool) \in Seq(Frames)
    BY <1>1, <2>2, HeadTail
  <2>4. Taken(r, m)
    BY <1>1, <2>2, <2>3, TakenFrame
  <2>5. n = map_page(r, v, e)
    BY <1>3 DEF MapRound
  <2> HIDE DEF r
  <2>7. /\ Sound(r, {f}) /\ Map(r) = Map(m) /\ Loaded(r, s) /\ Len(r.pool) = Len(m.pool) - 1
    BY <2>4, TakeSound
  <2>9. Len(r.pool) >= Missing(r, v)
    <3>1. Missing(r, v) = Missing(m, v)
      <4>1. Missing(r, v) = Gone(r, s, v, 3) /\ Missing(m, v) = Gone(m, s, v, 3)
        BY <2>7, MissingIs
      <4> QED  BY <2>7, <4>1 DEF Gone, Absent
    <3>2. Len(m.pool) \in Nat
      BY <1>1, LenProperties
    <3> QED  BY <1>2, <2>1, <2>7, <3>1, <3>2
  <2>10. e \in EntryType /\ e.present /\ e.addr = f /\ LeafOK(e, flags, zero_page)
    <3>1. f # zero_page
      BY <1>1, <2>3
    <3> HIDE DEF f
    <3> QED  BY <1>3, <2>3, <3>1, ConvertFlags
  <2> HIDE DEF e
  <2>11. Repoints(s, 3, At(Map(r), s, v, 3), e, {f} \ {}, zero_page)
    BY <2>7, <2>10 DEF Repoints
  <2>12. Mapped(n, r, {}, s, v, e)
    <3>1. ~At(Map(r), s, v, 3).present /\ {} \in SUBSET {f}
      BY <2>7
    <3> HIDE DEF f
    <3> QED  BY <2>5, <2>7, <2>9, <2>10, <2>11, <3>1, MapKeeps
  <2>13. Mapped(n, m, {}, s, v, e)
    BY <2>7, <2>12 DEF Mapped
  <2> QED  BY <1>3, <2>10, <2>13
<1>4. CASE ~flags.immediate
  <2> DEFINE e == [convert_flags(flags) EXCEPT !.addr = zero_page]
  <2>1. Len(m.pool) >= Missing(m, v)
    <3>1. Len(m.pool) >= Missing(m, v) + 0
      BY <1>4 DEF Needed
    <3> QED  BY <1>2, <3>1
  <2>2. n = map_page(m, v, e)
    BY <1>4 DEF MapRound
  <2>3. e \in EntryType /\ e.present /\ e.addr = zero_page /\ LeafOK(e, flags, zero_page)
    BY <1>1, <1>4, ConvertFlags
  <2> HIDE DEF e
  <2>4. Repoints(s, 3, At(Map(m), s, v, 3), e, {} \ {}, zero_page)
    BY <2>3 DEF Repoints
  <2>5. Mapped(n, m, {}, s, v, e)
    <3>1. {} \in SUBSET {}
      OBVIOUS
    <3> QED  BY <2>1, <2>2, <2>3, <2>4, <3>1, MapKeeps
  <2> QED  BY <1>4, <2>3, <2>5
<1> QED  BY <1>3, <1>4

LEMMA OnePage ==
    ASSUME NEW s \in Everyone, NEW v \in PagesOf(s), NEW w \in PagesOf(s), SamePath(v, w, 3)
    PROVE  v = w
<1>1. v[1] = w[1] /\ v[2] = w[2] /\ v[3] = w[3] /\ v[4] = w[4]
  BY DEF SamePath
<1>2. v = <<v[1], v[2], v[3], v[4]>> /\ w = <<w[1], w[2], w[3], w[4]>>
  BY PageFacts
<1> QED  BY <1>1, <1>2

\* The invariant after a step that changes only the tables and the pool.
LEMMA Transfer ==
    ASSUME zero_page' = zero_page, memory' = memory, building' = building
    PROVE  /\ Owners' = Owners /\ Made' = Made /\ Map(mm)' = Map(mm')
           /\ Sound(mm', {}) => Sound(mm, {})'
<1>1. Made' = Made /\ Owners' = Owners
  BY DEF Made, Owners
<1>2. Tops(mm)' = Tops(mm')
  BY <1>1 DEF Tops
<1>3. Map(mm)' = Map(mm')
  BY <1>2 DEF Map
<1>4. Sound(mm', {}) => Sound(mm, {})'
  BY <1>1, <1>3 DEF Sound, Shape
<1> QED  BY <1>1, <1>3, <1>4

\* After a step that maps one page, to the zero page or a new frame, or gives a
\* page another frame.
LEMMA LeafStep ==
    ASSUME TypeOK, Live, NEW s \in Owners, NEW v \in PagesOf(s), NEW flags \in AllFlags,
           NEW e \in EntryType, e.present, LeafOK(e, flags, zero_page),
           Mapped(mm', mm, {}, s, v, e), asked' = [asked EXCEPT ![s][v] = flags],
           NEW own \in BOOLEAN, NEW f, e.addr = IF own THEN f ELSE zero_page,
           data' = IF own THEN [data EXCEPT ![f] = NULL] ELSE data,
           zero_page' = zero_page, memory' = memory, building' = building, current' = current,
           s = KERNEL => ~flags.user,
           building = NULL /\ current # NULL => mm'.table[PML4][0] = mm.table[PML4][0],
           phase' \in {"memory", "up"}
    PROVE  TypeOK' /\ Live'
<1>1. /\ mm \in MmType /\ Sound(mm, {}) /\ s \in Everyone /\ s \in Spaces \cup {KERNEL} /\ v \in VPages
  <2>1. s \in Everyone
    BY OwnerFacts
  <2>2. Sound(mm, {}) /\ mm \in MmType
    BY DEF Live, Sound, Shape
  <2> QED  BY <2>1, <2>2, PageFacts DEF Everyone
<1>2. /\ Owners' = Owners /\ Made' = Made /\ Map(mm)' = Map(mm') /\ Sound(mm, {})'
      /\ mm' \in MmType
      /\ \A t \in Owners : \A w \in PagesOf(t) :
            At(Map(mm'), t, w, 3) = IF t = s /\ w = v THEN e ELSE At(Map(mm), t, w, 3)
  <2>1. Sound(mm', {})
    BY DEF Mapped
  <2>2. \A t \in Owners : \A w \in PagesOf(t) :
           At(Map(mm'), t, w, 3) = IF t = s /\ SamePath(v, w, 3) THEN e ELSE At(Map(mm), t, w, 3)
    BY DEF Mapped
  <2>3. \A w \in PagesOf(s) : SamePath(v, w, 3) <=> w = v
    <3>1. SamePath(v, v, 3)
      BY DEF SamePath
    <3> QED  BY <1>1, <3>1, OnePage
  <2> QED  BY <2>1, <2>2, <2>3, Transfer DEF Sound, Shape
<1>3. /\ data \in [Frames -> Spaces \cup {KERNEL, NULL}]
      /\ asked \in [Everyone -> [VPages -> AllFlags \cup {NULL}]]
      /\ zero_page \in Frames
  BY <1>1 DEF TypeOK, Everyone, AllFlags, Sound, Shape
<1>4. asked' \in [Everyone -> [VPages -> AllFlags \cup {NULL}]]
  BY <1>1, <1>3 DEF Everyone
<1>5. \A t \in Everyone : \A w \in VPages :
         asked'[t][w] = IF t = s /\ w = v THEN flags ELSE asked[t][w]
  BY <1>1, <1>3
<1>6. LeavesOK(Map(mm), Owners, asked, zero_page)'
  <2>1. LeavesOK(Map(mm), Owners, asked, zero_page) /\ zero_page' = zero_page
    BY DEF Live
  <2>2. \A t \in Owners : \A w \in PagesOf(t) : t \in Everyone /\ w \in VPages
    BY PageFacts, OwnerFacts
  <2>3. \A t \in Owners : \A w \in PagesOf(t) : LeafOK(At(Map(mm'), t, w, 3), asked'[t][w], zero_page)
    BY <1>2, <1>5, <2>1, <2>2 DEF LeavesOK
  <2> QED  BY <1>2, <2>1, <2>3 DEF LeavesOK
<1>7. /\ data' \in [Frames -> Spaces \cup {KERNEL, NULL}]
      /\ \A g \in Frames : data'[g] = IF own /\ g = f THEN NULL ELSE data[g]
  BY <1>3
<1>8. DataOK(Map(mm), Owners, data, zero_page)'
  <2>1. DataOK(Map(mm), Owners, data, zero_page) /\ zero_page' = zero_page
    BY DEF Live
  <2>2. At(Map(mm'), s, v, 3) = e /\ e.addr \in Frames
    <3>1. Tree(Map(mm'), Owners, Range(mm'.pool) \cup {}, zero_page)
      BY DEF Mapped, Sound, Shape, Forest
    <3>2. At(Map(mm'), s, v, 3) = e
      BY <1>1, <1>2
    <3>3. e.addr \in Home(s, 3, Range(mm'.pool) \cup {}, zero_page)
      BY <1>1, <3>1, <3>2 DEF Tree
    <3> QED  BY <3>2, <3>3 DEF Home
  <2>3. data'[e.addr] = NULL
    BY <1>3, <1>7, <2>1, <2>2 DEF DataOK
  <2>4. ASSUME NEW t \in Owners, NEW w \in PagesOf(t), At(Map(mm'), t, w, 3).present
        PROVE  data'[At(Map(mm'), t, w, 3).addr] \in {NULL, t}
    <3>1. CASE t = s /\ w = v
      BY <2>2, <2>3, <3>1
    <3>2. CASE ~(t = s /\ w = v)
      <4>1. At(Map(mm'), t, w, 3) = At(Map(mm), t, w, 3)
        BY <1>2, <3>2
      <4>2. At(Map(mm), t, w, 3).addr \in Frames
        <5>1. Tree(Map(mm), Owners, Range(mm.pool) \cup {}, zero_page)
          BY <1>1 DEF Sound, Shape, Forest
        <5>2. At(Map(mm), t, w, 3).addr \in Home(t, 3, Range(mm.pool) \cup {}, zero_page)
          BY <2>4, <4>1, <5>1 DEF Tree
        <5> QED  BY <5>2 DEF Home
      <4>3. data[At(Map(mm), t, w, 3).addr] \in {NULL, t}
        BY <2>1, <2>4, <4>1 DEF DataOK
      <4> QED  BY <1>7, <4>1, <4>2, <4>3
    <3> QED  BY <3>1, <3>2
  <2>5. data'[zero_page] = NULL
    BY <1>3, <1>7, <2>1 DEF DataOK
  <2> QED  BY <1>2, <2>1, <2>4, <2>5 DEF DataOK
<1>9. LoadedOK'
  <2>1. LoadedOK
    BY DEF Live
  <2>2. building' = NULL /\ current' # NULL =>
           memory'[current'] # NULL /\ memory'[current'] = mm'.table[PML4][0]
    BY <2>1 DEF LoadedOK
  <2>3. building' # NULL => memory'[building'] = NULL
    BY <2>1 DEF LoadedOK
  <2>4. \A t \in Spaces \ Made' : \A w \in VPages : asked'[t][w] = NULL
    <3>1. \A t \in Spaces \ Made : t # s /\ t \in Everyone
      BY <1>1, PagesAssumption DEF Owners, Everyone
    <3> QED  BY <1>2, <1>5, <2>1, <3>1 DEF LoadedOK
  <2>5. \A t \in Everyone : \A w \in VPages \ PagesOf(t) : asked'[t][w] = NULL
    BY <1>5, <2>1 DEF LoadedOK
  <2>6. \A w \in VPages : asked'[KERNEL][w] # NULL => ~asked'[KERNEL][w].user
    <3>1. KERNEL \in Everyone
      BY DEF Everyone
    <3> QED  BY <1>5, <2>1, <3>1 DEF LoadedOK
  <2> QED  BY <2>2, <2>3, <2>4, <2>5, <2>6 DEF LoadedOK
<1>10. Live'
  BY <1>2, <1>6, <1>8, <1>9 DEF Live
<1>11. TypeOK'
  <2>1. mm' \in [table : [Tables -> [Idx -> EntryType]], pool : Seq(Frames)]
    BY <1>2 DEF MmType, TableSet
  <2>2. asked' \in [Spaces \cup {KERNEL} -> [VPages -> Flags \cup {BitmapFlags, HeapFlags, NULL}]]
    <3>1. AllFlags \cup {NULL} = Flags \cup {BitmapFlags, HeapFlags, NULL}
      BY DEF AllFlags
    <3> QED  BY <1>4, <3>1 DEF Everyone
  <2> QED  BY <1>7, <2>1, <2>2, <2>2 DEF TypeOK
<1> QED  BY <1>10, <1>11

LEMMA MapOneKeeps ==
    ASSUME TypeOK, Live, NEW s \in {building, KERNEL} \ {NULL}, NEW v \in PagesOf(s),
           NEW flags \in AllFlags, ~At(Map(mm), s, v, 3).present,
           building = NULL => current = NULL, s = KERNEL => ~flags.user,
           NEW next \in {"memory", "up"}, MapOne(s, v, flags, next)
    PROVE  /\ TypeOK'
           /\ \/ phase' = next /\ Live'
              \/ phase' = "halt" /\ mm' = mm
<1>1. /\ mm \in MmType /\ Sound(mm, {}) /\ Loaded(mm, s) /\ s \in Owners /\ s \in Everyone
      /\ s \in Spaces \cup {KERNEL} /\ v \in VPages
  <2>1. Loaded(mm, s) /\ Owners \subseteq Everyone
    BY OwnerFacts
  <2>2. s \in Owners /\ s \in Everyone
    BY <2>1 DEF Loaded
  <2>3. Sound(mm, {}) /\ mm \in MmType
    BY DEF Live, Sound, Shape
  <2>4. v \in VPages
    BY <2>2, PageFacts
  <2> QED  BY <2>1, <2>2, <2>3, <2>4 DEF Everyone
<1>2. CASE Len(mm.pool) < Needed(mm, v, flags) /\ Stop
  BY <1>2 DEF Stop, TypeOK
<1>3. CASE /\ Len(mm.pool) >= Needed(mm, v, flags)
           /\ mm' = MapRound(mm, v, flags)
           /\ data' = IF flags.immediate THEN [data EXCEPT ![Head(mm.pool)] = NULL] ELSE data
           /\ asked' = [asked EXCEPT ![s][v] = flags]
           /\ phase' = next
           /\ UNCHANGED <<zero_page, memory, building, current>>
  <2> DEFINE n == MapRound(mm, v, flags)
             f == Head(mm.pool)
  <2>1. PICK e \in EntryType :
           /\ e.present /\ LeafOK(e, flags, zero_page) /\ Mapped(n, mm, {}, s, v, e)
           /\ e.addr = IF flags.immediate THEN f ELSE zero_page
    BY <1>1, <1>3, MapRoundKeeps
  <2>2. mm' = n
    BY <1>3
  <2> HIDE DEF n, f
  <2>3. /\ Mapped(mm', mm, {}, s, v, e) /\ flags.immediate \in BOOLEAN
        /\ phase' \in {"memory", "up"}
    <3>1. flags.immediate \in BOOLEAN
      <4>1. BitmapFlags.immediate = TRUE /\ HeapFlags.immediate = FALSE
        BY DEF BitmapFlags, HeapFlags
      <4>2. \A g \in Flags : g.immediate \in BOOLEAN
        BY PagesAssumption
      <4> QED  BY <4>1, <4>2 DEF AllFlags
    <3> QED  BY <1>3, <2>1, <2>2, <3>1
  <2>4. /\ data' = IF flags.immediate THEN [data EXCEPT ![f] = NULL] ELSE data
        /\ zero_page' = zero_page /\ memory' = memory /\ building' = building /\ current' = current
        /\ building = NULL /\ current # NULL => mm'.table[PML4][0] = mm.table[PML4][0]
    BY <1>3 DEF f
  <2>5. TypeOK' /\ Live'
    BY <1>1, <1>3, <2>1, <2>3, <2>4, LeafStep
  <2> QED  BY <1>3, <2>5
<1> QED  BY <1>2, <1>3 DEF MapOne
-----------------------------------------------------------------------------
\* The steps of the kernel, one by one.
LEMMA MapRangeKeeps ==
    ASSUME IInv, NEW v \in UserPages, NEW flags \in Flags, map_range(v, flags)
    PROVE  IInv'
<1>1. phase = "up" /\ building # NULL /\ TypeOK /\ Live /\ MapOne(building, v, flags, "up")
  BY DEF IInv, map_range, Running
<1>2. building \in {building, KERNEL} \ {NULL} /\ v \in PagesOf(building) /\ flags \in AllFlags
  <2>1. building # KERNEL
    BY <1>1, OwnerFacts
  <2> QED  BY <1>1, <2>1 DEF PagesOf, AllFlags
<1>3. ~At(Map(mm), building, v, 3).present
  <2>1. ~Entry(mm, v, 3).present
    BY DEF map_range, Present
  <2>2. Loaded(mm, building)
    BY <1>1, OwnerFacts
  <2> QED  BY <1>1, <1>2, <2>1, <2>2, LoadedEntry
<1>4. /\ TypeOK'
      /\ \/ phase' = "up" /\ Live'
         \/ phase' = "halt" /\ mm' = mm
  <2>1. building = NULL => current = NULL
    BY <1>1
  <2>2. "up" \in {"memory", "up"} /\ (building = KERNEL => ~flags.user)
    BY <1>1, OwnerFacts
  <2> QED  BY <1>1, <1>2, <1>3, <2>1, <2>2, MapOneKeeps
<1>5. ImageOK(mm.table)
  BY <1>1 DEF Live, Sound, Shape
<1> QED  BY <1>4, <1>5 DEF IInv

LEMMA KernelHeapKeeps ==
    ASSUME IInv, initialize_kernel_heap
    PROVE  IInv'
<1>1. phase = "memory" /\ building = NULL /\ current = NULL /\ TypeOK /\ Live
  BY DEF IInv, initialize_kernel_heap
<1>2. PICK k \in DOMAIN KernelPages :
         /\ \A j \in DOMAIN KernelPages : asked[KERNEL][KernelPages[j]] = NULL <=> j >= k
         /\ MapOne(KERNEL, KernelPages[k],
                   IF k <= Len(BitmapPages) THEN BitmapFlags ELSE HeapFlags,
                   IF k = Len(KernelPages) THEN "up" ELSE "memory")
  BY DEF initialize_kernel_heap
<1> DEFINE v == KernelPages[k]
           flags == IF k <= Len(BitmapPages) THEN BitmapFlags ELSE HeapFlags
           next == IF k = Len(KernelPages) THEN "up" ELSE "memory"
<1>3. /\ KERNEL \in {building, KERNEL} \ {NULL} /\ v \in PagesOf(KERNEL) /\ flags \in AllFlags
      /\ next \in {"memory", "up"} /\ MapOne(KERNEL, v, flags, next)
  <2>1. KERNEL # NULL
    BY PagesAssumption
  <2>2. v \in Range(KernelPages)
    BY DEF Range
  <2> QED  BY <1>2, <2>1, <2>2 DEF PagesOf, AllFlags
<1>4. ~At(Map(mm), KERNEL, v, 3).present
  <2>1. k \in Nat
    BY PageFacts, LenProperties
  <2>2. asked[KERNEL][v] = NULL
    BY <1>2, <2>1
  <2> HIDE DEF v
  <2> QED  BY <1>1, <1>3, <2>2, OwnerFacts, EmptyEntry DEF Live, LeavesOK, LeafOK
<1> HIDE DEF v, flags, next
<1>5. /\ TypeOK'
      /\ \/ phase' = next /\ Live'
         \/ phase' = "halt" /\ mm' = mm
  <2>1. building = NULL => current = NULL
    BY <1>1
  <2>2. KERNEL = KERNEL => ~flags.user
    <3>1. ~BitmapFlags.user /\ ~HeapFlags.user
      BY DEF BitmapFlags, HeapFlags
    <3> QED  BY <3>1 DEF flags
  <2> QED  BY <1>1, <1>3, <1>4, <2>1, <2>2, MapOneKeeps
<1>6. ImageOK(mm.table)
  BY <1>1 DEF Live, Sound, Shape
<1>7. building' = NULL /\ current' = NULL
  BY <1>1, <1>3 DEF MapOne, Stop
<1> QED  BY <1>3, <1>5, <1>6, <1>7 DEF IInv
-----------------------------------------------------------------------------
\* Walks do not read PML4 below the top entry.
LEMMA SwitchWalks ==
    ASSUME TypeOK, NEW m, NEW Free, NEW zero \in Frames, Tree(Map(m), Owners, Free, zero),
           NEW T2, \A t \in Tables \ {PML4} : T2[t] = m.table[t],
           NEW R2, NEW s \in Owners, s \in DOMAIN R2, R2[s] = Tops(m)[s]
    PROVE  \A v \in PagesOf(s) : \A i \in 0 .. 3 : At(Walks(T2, R2), s, v, i) = At(Map(m), s, v, i)
<1> TAKE v \in PagesOf(s)
<1> DEFINE W(i) == At(Map(m), s, v, i)
           W2(i) == At(Walks(T2, R2), s, v, i)
<1>1. /\ W(0) = Tops(m)[s]
      /\ \A i \in 1 .. 3 : W(i) = Below(m.table, W(i - 1), v[i + 1])
  BY OwnerFacts, WalksAre DEF Map
<1>2. /\ W2(0) = R2[s]
      /\ \A i \in 1 .. 3 : W2(i) = Below(T2, W2(i - 1), v[i + 1])
  BY WalksAre
<1>3. \A i \in 0 .. 3 : W(i).present => W(i).addr \in Tables \ {PML4}
  BY MapAbove
<1> HIDE DEF W, W2
<1>4. ASSUME NEW i \in 1 .. 3, W2(i - 1) = W(i - 1)
      PROVE  W2(i) = W(i)
  <2>1. i - 1 \in 0 .. 3
    OBVIOUS
  <2>2. W(i - 1).present => T2[W(i - 1).addr] = m.table[W(i - 1).addr]
    BY <1>3, <2>1
  <2> QED  BY <1>1, <1>2, <1>4, <2>2 DEF Below
<1>5. W2(0) = W(0)
  BY <1>1, <1>2
<1>6. 1 - 1 = 0 /\ 2 - 1 = 1 /\ 3 - 1 = 2 /\ 1 \in 1 .. 3 /\ 2 \in 1 .. 3 /\ 3 \in 1 .. 3
  OBVIOUS
<1>7. W2(1) = W(1)
  BY <1>4, <1>5, <1>6
<1>8. W2(2) = W(2)
  BY <1>4, <1>6, <1>7
<1>9. W2(3) = W(3)
  BY <1>4, <1>6, <1>8
<1>10. \A i \in 0 .. 3 : i = 0 \/ i = 1 \/ i = 2 \/ i = 3
  OBVIOUS
<1>11. \A i \in 0 .. 3 : W2(i) = W(i)
  BY <1>5, <1>7, <1>8, <1>9, <1>10
<1> QED  BY <1>11 DEF W, W2

\* Another address space is loaded or kept: the tables below PML4 and the user
\* entry are as before, those who join have no pages yet.
Switched(m, W2, O2) ==
    /\ mm' \in MmType /\ mm'.pool = m.pool
    /\ \A t \in Tables \ {PML4} : mm'.table[t] = m.table[t]
    /\ mm'.table[PML4][High] = m.table[PML4][High]
    /\ Owners \subseteq O2 /\ O2 \subseteq Everyone
    /\ \A s \in O2 : \A v \in PagesOf(s) : \A i \in 0 .. 3 :
          At(W2, s, v, i) = IF s \in Owners THEN At(Map(m), s, v, i) ELSE Empty

LEMMA SwitchKeeps ==
    ASSUME TypeOK, Live, Switched(mm, Map(mm)', Owners'),
           zero_page' = zero_page, data' = data, asked' = asked
    PROVE  (/\ Sound(mm, {})
            /\ LeavesOK(Map(mm), Owners, asked, zero_page)
            /\ DataOK(Map(mm), Owners, data, zero_page))'
<1> DEFINE W2 == Map(mm)'
           O2 == Owners'
           W == Map(mm)
           F == Range(mm.pool) \cup {}
<1>1. /\ Shape(mm, {}) /\ CountsOK(mm.table, W, Owners)
      /\ LeavesOK(W, Owners, asked, zero_page) /\ DataOK(W, Owners, data, zero_page) /\ LoadedOK
  BY DEF Live, Sound
<1>2. /\ mm \in MmType /\ zero_page \in Frames /\ zero_page \notin Range(mm.pool) \cup {}
      /\ PoolOK(mm.pool, {}) /\ Tree(W, Owners, F, zero_page) /\ NoLoss(W, Owners, F, zero_page)
      /\ RightsOK(W, Owners) /\ ImageOK(mm.table)
  BY <1>1 DEF Shape, Forest
<1>3. /\ mm' \in MmType /\ mm'.pool = mm.pool
      /\ \A t \in Tables \ {PML4} : mm'.table[t] = mm.table[t]
      /\ mm'.table[PML4][High] = mm.table[PML4][High]
      /\ Owners \subseteq O2 /\ O2 \subseteq Everyone
      /\ \A s \in Owners : \A v \in PagesOf(s) : \A i \in 0 .. 3 : At(W2, s, v, i) = At(W, s, v, i)
      /\ \A s \in O2 : \A v \in PagesOf(s) : \A i \in 0 .. 3 :
            /\ At(W2, s, v, i).present => s \in Owners /\ At(W2, s, v, i) = At(W, s, v, i)
  BY EmptyEntry DEF Switched
<1>4. KERNEL \in Owners
  BY OwnerFacts
<1>5. \A s \in Owners : \A v \in PagesOf(s) : \A i \in 0 .. 3 :
         At(W, s, v, i).present => At(W, s, v, i).addr \in Tables \ {PML4}
  BY <1>2, MapAbove
<1> HIDE DEF W, W2, O2
<1> HIDE DEF F
<1>6. Tree(W2, O2, F, zero_page)
  <2>1. ASSUME NEW s \in O2, NEW v \in PagesOf(s), NEW i \in 0 .. 3, At(W2, s, v, i).present
        PROVE  At(W2, s, v, i).addr \in Home(s, i, F, zero_page)
    BY <1>2, <1>3, <2>1 DEF Tree
  <2>2. ASSUME NEW s \in O2, NEW t \in O2, NEW v \in PagesOf(s), NEW w \in PagesOf(t),
               NEW i \in 0 .. 3, NEW j \in 0 .. 3,
               At(W2, s, v, i).present, At(W2, t, w, j).present,
               At(W2, s, v, i).addr = At(W2, t, w, j).addr, At(W2, s, v, i).addr # zero_page
        PROVE  s = t /\ i = j /\ SamePath(v, w, i)
    <3>1. /\ s \in Owners /\ At(W2, s, v, i) = At(W, s, v, i)
          /\ t \in Owners /\ At(W2, t, w, j) = At(W, t, w, j)
      BY <1>3, <2>2
    <3> QED  BY <1>2, <2>2, <3>1 DEF Tree
  <2>3. \A s \in O2 : \A v \in PagesOf(s) : \A i \in 0 .. 3 :
           At(W2, s, v, i).present => At(W2, s, v, i).addr \in Home(s, i, F, zero_page)
    BY <2>1
  <2>4. \A s, t \in O2 : \A v \in PagesOf(s) : \A w \in PagesOf(t) : \A i, j \in 0 .. 3 :
           /\ At(W2, s, v, i).present /\ At(W2, t, w, j).present
           /\ At(W2, s, v, i).addr = At(W2, t, w, j).addr
           /\ At(W2, s, v, i).addr # zero_page
           => s = t /\ i = j /\ SamePath(v, w, i)
    BY <2>2
  <2> QED  BY <2>3, <2>4 DEF Tree
<1>7. NoLoss(W2, O2, F, zero_page)
  BY <1>2, <1>3 DEF NoLoss
<1>8. RightsOK(W2, O2)
  <2>1. 0 \in 0 .. 3 /\ \A i \in 0 .. 2 : i \in 0 .. 3
    OBVIOUS
  <2>2. \A s \in O2 : s = KERNEL => s \in Owners
    BY <1>4
  <2> QED  BY <1>2, <1>3, <2>1, <2>2 DEF RightsOK
<1>9. CountsOK(mm'.table, W2, O2)
  <2>1. \A i \in 0 .. 2 : i \in 0 .. 3
    OBVIOUS
  <2> QED  BY <1>1, <1>3, <1>5, <2>1 DEF CountsOK
<1>10. ImageOK(mm'.table)
  <2>1. PDPT \in Tables \ {PML4} /\ KernelPD \in Tables \ {PML4} /\ End \in Tables \ {PML4}
    BY TableNames
  <2> QED  BY <1>2, <1>3, <2>1 DEF ImageOK
<1>11. \A s \in O2 : \A v \in PagesOf(s) : s \notin Owners => asked[s][v] = NULL
  <2>1. \A s \in O2 : \A v \in PagesOf(s) : v \in VPages
    BY <1>3, PageFacts
  <2>2. \A s \in O2 \ Owners : s \in Spaces \ Made
    BY <1>3 DEF Owners, Everyone
  <2> QED  BY <1>1, <2>1, <2>2 DEF LoadedOK
<1>12. 3 \in 0 .. 3
  OBVIOUS
<1>13. LeavesOK(W2, O2, asked, zero_page)
  <2> SUFFICES ASSUME NEW s \in O2, NEW v \in PagesOf(s)
               PROVE  LeafOK(At(W2, s, v, 3), asked[s][v], zero_page)
    BY DEF LeavesOK
  <2>1. CASE s \in Owners
    BY <1>1, <1>3, <1>12, <2>1 DEF LeavesOK
  <2>2. CASE s \notin Owners
    <3>1. At(W2, s, v, 3) = Empty
      BY <1>12, <2>2 DEF Switched, W2, O2
    <3> QED  BY <1>11, <2>2, <3>1 DEF LeafOK
  <2> QED  BY <2>1, <2>2
<1>14. DataOK(W2, O2, data, zero_page)
  BY <1>1, <1>3, <1>12 DEF DataOK
<1>15. Shape(mm, {})'
  BY <1>2, <1>3, <1>6, <1>7, <1>8, <1>10 DEF Shape, Forest, W2, O2, F
<1>16. Sound(mm, {})'
  BY <1>9, <1>15 DEF Sound, W2, O2
<1> QED  BY <1>13, <1>14, <1>16 DEF W2, O2

\* Only the user entry of PML4 changes.
UserSet(n, m, e) ==
    /\ n \in MmType /\ n.pool = m.pool
    /\ \A t \in Tables \ {PML4} : n.table[t] = m.table[t]
    /\ n.table[PML4][High] = m.table[PML4][High] /\ n.table[PML4][0] = e

LEMMA UserEntry ==
    ASSUME NEW m \in MmType, NEW e \in EntryType, NEW n, n = [m EXCEPT !.table[PML4][0] = e]
    PROVE  UserSet(n, m, e)
<1>1. /\ PML4 \in Tables /\ 0 \in Idx /\ High \in Idx /\ High # 0
  BY TableNames, Sizes
<1> DEFINE T == [m.table EXCEPT ![PML4] = [m.table[PML4] EXCEPT ![0] = e]]
<1>2. n = [m EXCEPT !.table = T]
  BY DEF MmType
<1>3. m.table \in TableSet /\ m.table[PML4] \in [Idx -> EntryType]
  BY <1>1 DEF MmType, TableSet
<1>4. /\ T \in TableSet /\ \A t \in Tables \ {PML4} : T[t] = m.table[t]
      /\ T[PML4] = [m.table[PML4] EXCEPT ![0] = e]
  BY <1>1, <1>3 DEF TableSet
<1> HIDE DEF T
<1>5. n \in MmType /\ n.table = T /\ n.pool = m.pool
  BY <1>2, <1>4 DEF MmType
<1>6. T[PML4][High] = m.table[PML4][High] /\ T[PML4][0] = e
  BY <1>1, <1>3, <1>4
<1> QED  BY <1>4, <1>5, <1>6 DEF UserSet

LEMMA AddressSpaceFacts ==
    ASSUME IInv, phase = "up"
    PROVE  /\ TypeOK /\ Live /\ LoadedOK /\ mm \in MmType /\ zero_page \in Frames
           /\ Tree(Map(mm), Owners, Range(mm.pool) \cup {}, zero_page)
           /\ ImageOK(mm.table)
  BY DEF IInv, Live, Sound, Shape, Forest

LEMMA NewSpaceKeeps ==
    ASSUME IInv, NEW s \in Spaces, new_address_space(s)
    PROVE  IInv'
<1>1. /\ phase = "up" /\ building = NULL /\ memory[s] = NULL
      /\ mm' = [mm EXCEPT !.table[PML4][0] = Empty] /\ building' = s
      /\ UNCHANGED <<phase, zero_page, memory, current, data, asked>>
  BY DEF new_address_space, Running
<1>2. /\ TypeOK /\ Live /\ LoadedOK /\ mm \in MmType /\ zero_page \in Frames
      /\ Tree(Map(mm), Owners, Range(mm.pool) \cup {}, zero_page)
  BY <1>1, AddressSpaceFacts
<1>3. /\ mm' \in MmType /\ mm'.pool = mm.pool
      /\ \A t \in Tables \ {PML4} : mm'.table[t] = mm.table[t]
      /\ mm'.table[PML4][High] = mm.table[PML4][High] /\ mm'.table[PML4][0] = Empty
  <2>1. UserSet(mm', mm, Empty)
    BY <1>1, <1>2, EmptyEntry, UserEntry
  <2> QED  BY <2>1 DEF UserSet
<1>4. s # KERNEL /\ \A t \in Spaces : t # NULL
  BY PagesAssumption
<1>5. Made' = Made \cup {s} /\ Owners' = Owners \cup {s} /\ s \notin Owners
  BY <1>1, <1>4 DEF Made, Owners
<1>6. /\ \A t \in Owners : Tops(mm)'[t] = Tops(mm)[t]
      /\ Tops(mm)'[s] = Empty /\ DOMAIN Tops(mm)' = Owners'
  BY <1>1, <1>2, <1>3, <1>4, <1>5, OwnerFacts DEF Tops
<1>7. Switched(mm, Map(mm)', Owners')
  <2>1. Owners \subseteq Owners' /\ Owners' \subseteq Everyone
    BY <1>2, <1>5, OwnerFacts DEF Everyone
  <2>2. Map(mm)' = Walks(mm'.table, Tops(mm)')
    BY DEF Map
  <2>3. ASSUME NEW t \in Owners
        PROVE  \A v \in PagesOf(t) : \A i \in 0 .. 3 : At(Map(mm)', t, v, i) = At(Map(mm), t, v, i)
    BY <1>2, <1>3, <1>5, <1>6, <2>2, SwitchWalks
  <2>4. ASSUME NEW v \in PagesOf(s)
        PROVE  \A i \in 0 .. 3 : At(Map(mm)', s, v, i) = Empty
    <3>1. \A i \in 0 .. 3 : At(Map(mm)', s, v, i) = Walk(mm'.table, Empty, v, i)
      BY <1>5, <1>6, <2>2 DEF Walks, At
    <3>2. \A x : Below(mm'.table, Empty, x) = Empty
      BY EmptyEntry DEF Below
    <3>3. \A i \in 0 .. 3 : i = 0 \/ i = 1 \/ i = 2 \/ i = 3
      OBVIOUS
    <3>4. \A i \in 0 .. 3 : Walk(mm'.table, Empty, v, i) = Empty
      BY <3>2, <3>3 DEF Walk
    <3> QED  BY <3>1, <3>4
  <2> QED  BY <1>3, <1>5, <2>1, <2>3, <2>4 DEF Switched
<1>8. (/\ Sound(mm, {})
       /\ LeavesOK(Map(mm), Owners, asked, zero_page)
       /\ DataOK(Map(mm), Owners, data, zero_page))'
  BY <1>1, <1>2, <1>7, SwitchKeeps
<1>9. LoadedOK'
  BY <1>1, <1>2, <1>4, <1>5 DEF LoadedOK
<1>10. TypeOK'
  BY <1>1, <1>2, <1>3 DEF TypeOK, MmType, TableSet
<1> QED  BY <1>1, <1>8, <1>9, <1>10 DEF IInv, Live

LEMMA SetSpaceKeeps ==
    ASSUME IInv, NEW s \in Spaces, set_address_space(s)
    PROVE  IInv'
<1>1. /\ phase = "up" /\ building = NULL /\ memory[s] # NULL
      /\ mm' = [mm EXCEPT !.table[PML4][0] = memory[s]] /\ current' = s
      /\ UNCHANGED <<phase, zero_page, memory, building, data, asked>>
  BY DEF set_address_space, Running
<1>2. /\ TypeOK /\ Live /\ LoadedOK /\ mm \in MmType /\ zero_page \in Frames
      /\ Tree(Map(mm), Owners, Range(mm.pool) \cup {}, zero_page)
  BY <1>1, AddressSpaceFacts
<1>3. memory[s] \in EntryType
  BY <1>1, <1>2 DEF TypeOK
<1>4. /\ mm' \in MmType /\ mm'.pool = mm.pool
      /\ \A t \in Tables \ {PML4} : mm'.table[t] = mm.table[t]
      /\ mm'.table[PML4][High] = mm.table[PML4][High] /\ mm'.table[PML4][0] = memory[s]
  <2>1. UserSet(mm', mm, memory[s])
    BY <1>1, <1>2, <1>3, UserEntry
  <2> QED  BY <2>1 DEF UserSet
<1>5. Made' = Made /\ Owners' = Owners
  BY <1>1 DEF Made, Owners
<1>6. \A t \in Owners : Tops(mm)'[t] = Tops(mm)[t] /\ t \in DOMAIN Tops(mm)'
  BY <1>1, <1>2, <1>4, <1>5, OwnerFacts DEF Tops
<1>7. Switched(mm, Map(mm)', Owners')
  <2>1. Owners \subseteq Everyone
    BY <1>2, OwnerFacts
  <2>2. Map(mm)' = Walks(mm'.table, Tops(mm)')
    BY DEF Map
  <2>3. ASSUME NEW t \in Owners
        PROVE  \A v \in PagesOf(t) : \A i \in 0 .. 3 : At(Map(mm)', t, v, i) = At(Map(mm), t, v, i)
    BY <1>2, <1>4, <1>6, <2>2, SwitchWalks
  <2> QED  BY <1>4, <1>5, <2>1, <2>3 DEF Switched
<1>8. (/\ Sound(mm, {})
       /\ LeavesOK(Map(mm), Owners, asked, zero_page)
       /\ DataOK(Map(mm), Owners, data, zero_page))'
  BY <1>1, <1>2, <1>7, SwitchKeeps
<1>9. LoadedOK'
  BY <1>1, <1>2, <1>4, <1>5 DEF LoadedOK
<1>10. TypeOK'
  BY <1>1, <1>2, <1>4 DEF TypeOK, MmType, TableSet
<1> QED  BY <1>1, <1>8, <1>9, <1>10 DEF IInv, Live

LEMMA KeepMemoryKeeps ==
    ASSUME IInv, KeepMemory
    PROVE  IInv'
<1> DEFINE s == building
           top == mm.table[PML4][0]
<1>1. /\ phase = "up" /\ s # NULL
      /\ memory' = [memory EXCEPT ![s] = top] /\ current' = s /\ building' = NULL
      /\ UNCHANGED <<mm, phase, zero_page, data, asked>>
  BY DEF KeepMemory, Running
<1>2. /\ TypeOK /\ Live /\ LoadedOK /\ mm \in MmType /\ zero_page \in Frames
      /\ Tree(Map(mm), Owners, Range(mm.pool) \cup {}, zero_page)
  BY <1>1, AddressSpaceFacts
<1>3. top \in EntryType /\ top # NULL /\ s \in Spaces /\ memory \in [Spaces -> EntryType \cup {NULL}]
  <2>1. top \in EntryType
    BY <1>2, TableNames, Sizes DEF MmType, TableSet
  <2> QED  BY <1>1, <1>2, <2>1, NullAssumption DEF TypeOK
<1>4. /\ memory' \in [Spaces -> EntryType \cup {NULL}]
      /\ \A t \in Spaces : memory'[t] = IF t = s THEN top ELSE memory[t]
  BY <1>1, <1>3
<1>5. Made' = Made /\ Owners' = Owners
  <2>1. \A t \in Spaces : t # NULL
    BY PagesAssumption
  <2> QED  BY <1>1, <1>3, <1>4, <2>1 DEF Made, Owners
<1>6. \A t \in Owners : Tops(mm)'[t] = Tops(mm)[t] /\ t \in DOMAIN Tops(mm)'
  <2>1. \A t \in Owners : t = KERNEL \/ t \in Spaces \ {NULL}
    BY PagesAssumption DEF Owners, Made
  <2> HIDE DEF top
  <2>2. \A t \in Owners : t # KERNEL => Tops(mm)[t] = IF t = s THEN top ELSE memory[t]
    BY DEF Tops, top
  <2>3. \A t \in Owners : t # KERNEL => Tops(mm)'[t] = memory'[t]
    BY <1>1, <1>5, <2>1 DEF Tops
  <2>4. Tops(mm)'[KERNEL] = Tops(mm)[KERNEL]
    BY <1>1, <1>2, <1>5, OwnerFacts DEF Tops
  <2>5. \A t \in Owners : t \in DOMAIN Tops(mm)'
    BY <1>5 DEF Tops
  <2> QED  BY <1>4, <2>1, <2>2, <2>3, <2>4, <2>5
<1>7. Switched(mm, Map(mm)', Owners')
  <2>1. Owners \subseteq Everyone
    BY <1>2, OwnerFacts
  <2>2. Map(mm)' = Walks(mm'.table, Tops(mm)')
    BY DEF Map
  <2>3. \A t \in Tables \ {PML4} : mm'.table[t] = mm.table[t]
    BY <1>1
  <2>4. ASSUME NEW t \in Owners
        PROVE  \A v \in PagesOf(t) : \A i \in 0 .. 3 : At(Map(mm)', t, v, i) = At(Map(mm), t, v, i)
    BY <1>2, <1>6, <2>2, <2>3, SwitchWalks
  <2> QED  BY <1>1, <1>2, <1>5, <2>1, <2>4 DEF Switched
<1>8. (/\ Sound(mm, {})
       /\ LeavesOK(Map(mm), Owners, asked, zero_page)
       /\ DataOK(Map(mm), Owners, data, zero_page))'
  BY <1>1, <1>2, <1>7, SwitchKeeps
<1>9. LoadedOK'
  <2>1. memory'[s] = top
    BY <1>3, <1>4
  <2> QED  BY <1>1, <1>2, <1>3, <1>5, <2>1 DEF LoadedOK
<1>10. TypeOK'
  BY <1>1, <1>2, <1>3, <1>4 DEF TypeOK
<1> QED  BY <1>1, <1>8, <1>9, <1>10 DEF IInv, Live

\* The page fault handler gives page v of s a frame of its own.
Replaced(n, m, s, v, e) == Mapped(n, m, {}, s, v, e) /\ n.table[PML4][0] = m.table[PML4][0]

LEMMA LazyKeeps ==
    ASSUME TypeOK, NEW m, Sound(m, {}), NEW s, Loaded(m, s), NEW v \in PagesOf(s),
           At(Map(m), s, v, 3).present, At(Map(m), s, v, 3).addr = zero_page, m.pool # <<>>,
           NEW e \in EntryType, e.present, e.addr = Head(m.pool),
           NEW n, n = SetEntry(get_frame(m), v, 3, e)
    PROVE  Replaced(n, m, s, v, e)
<1> DEFINE f == Head(m.pool)
           r == get_frame(m)
           old == At(Map(m), s, v, 3)
<1>1. /\ Shape(m, {}) /\ CountsOK(m.table, Map(m), Owners) /\ m \in MmType /\ zero_page \in Frames
      /\ m.pool \in Seq(Frames) /\ s \in Owners
      /\ \A j, k \in 1 .. Len(m.pool) : m.pool[j] = m.pool[k] => j = k
  BY DEF Sound, Shape, MmType, PoolOK, Loaded
<1>2. f \in Frames /\ Tail(m.pool) \in Seq(Frames)
  BY <1>1, HeadTail
<1>3. Taken(r, m)
  BY <1>1, <1>2, TakenFrame
<1> HIDE DEF r
<1>4. Sound(r, {f}) /\ Map(r) = Map(m) /\ Loaded(r, s)
  BY <1>3, TakeSound
<1>5. /\ Shape(r, {f}) /\ Map(r) = Map(m) /\ Loaded(r, s) /\ r \in MmType
      /\ Tree(Map(r), Owners, Range(r.pool) \cup {f}, zero_page)
  BY <1>4 DEF Sound, Shape, Forest
<1>6. At(Map(r), s, v, 2).present
  <2>1. 3 \in 1 .. 3 /\ 3 - 1 = 2
    OBVIOUS
  <2> QED  BY <1>1, <1>5, <2>1, ParentPresent
<1>7. n = SetEntry(r, v, 3, e)
  BY DEF r
<1>8. Written(n, r, s, v, 3, e)
  <2>1. 3 \in 0 .. 3 /\ ~(3 = 0) /\ ~(3 < 3) /\ At(Map(r), s, v, 3 - 1).present
    BY <1>6
  <2> QED  BY <1>1, <1>5, <1>7, <2>1, SetEntryWrites
<1>9. Shape(n, {})
  <2>1. Allowed(s, 3, At(Map(r), s, v, 3), e, {f} \ {})
    BY <1>5 DEF Allowed, Repoints
  <2>2. 3 \in 0 .. 3 /\ {} \subseteq {f}
    OBVIOUS
  <2> QED  BY <1>5, <1>8, <2>1, <2>2, SetKeeps
<1>10. CountsOK(n.table, Map(n), Owners)
  <2> DEFINE d == Short(2, 0)
  <2>1. d \in [0 .. 2 -> Int] /\ \A j \in 0 .. 2 : d[j] = 0
    BY DEF Short
  <2> HIDE DEF d
  <2>2. Owed(r.table, Map(r), s, v, d)
    <3>1. CountsOK(r.table, Map(r), Owners)
      BY <1>4 DEF Sound
    <3> QED  BY <1>5, <2>1, <3>1, OwedNothing
  <2>3. Passes(r, s, v, 3, e, d, d)
    <3>1. Bit(e.present) = 1 /\ Bit(At(Map(r), s, v, 3).present) = 1
      BY <1>5 DEF Bit
    <3>2. d[2] = d[2] + Bit(e.present) - Bit(At(Map(r), s, v, 3).present)
      <4>1. d[2] = 0
        BY <2>1
      <4>2. 0 = 0 + 1 - 1
        OBVIOUS
      <4> QED  BY <3>1, <4>1, <4>2, Zenon
    <3>3. 3 - 1 = 2 /\ ~(3 < 3) /\ 3 > 0
      OBVIOUS
    <3> QED  BY <2>1, <3>2, <3>3, Zenon DEF Passes
  <2>4. Owed(n.table, Map(n), s, v, d)
    BY <1>5, <1>8, <2>2, <2>3, SetOwes
  <2> QED  BY <1>9, <2>1, <2>4, OwedNothing
<1>11. \A t \in Owners : \A w \in PagesOf(t) :
          At(Map(n), t, w, 3) = IF t = s /\ SamePath(v, w, 3) THEN e ELSE At(Map(m), t, w, 3)
  <2>1. Point(Map(n), Map(m), Owners, s, v, 3, e)
    BY <1>5, <1>8 DEF Written
  <2>2. 3 \in 0 .. 3
    OBVIOUS
  <2> QED  BY <2>1, <2>2, Zenon DEF Point
<1>12. n.table[PML4][0] = m.table[PML4][0]
  <2>1. Cell(r, s, v, 3) # PML4
    <3>1. At(Map(r), s, v, 2).addr \in Tables \ {PML4}
      BY <1>1, <1>5, <1>6, MapAbove
    <3>2. 3 - 1 = 2 /\ 3 # 0
      OBVIOUS
    <3> QED  BY <3>1, <3>2 DEF Cell
  <2>2. PML4 \in Tables /\ 0 \in Idx
    BY TableNames, Sizes
  <2>3. OneCell(n.table, r.table, Cell(r, s, v, 3), v[3 + 1], e)
    BY <1>8 DEF Written
  <2>4. n.table[PML4][0] = r.table[PML4][0]
    BY <2>1, <2>2, <2>3 DEF OneCell
  <2>5. PML4 \in Tables \ {f, End}
    BY <1>2, TableNames
  <2>6. r.table[PML4] = m.table[PML4]
    BY <1>3, <2>5 DEF Taken
  <2> QED  BY <2>4, <2>6
<1>13. Loaded(n, s)
  BY <1>8 DEF Written
<1> QED  BY <1>9, <1>10, <1>11, <1>12, <1>13 DEF Replaced, Mapped, Sound

\* Who writes to a page owns it; or it is the kernel's and user mode tries.
LEMMA PageOwner ==
    ASSUME IInv, phase = "up", NEW v \in VPages, NEW w \in Writers(v) \ {NULL}
    PROVE  \E s \in Owners :
              /\ Loaded(mm, s) /\ v \in PagesOf(s)
              /\ s = w \/ (s = KERNEL /\ w = current /\ building = NULL)
<1>1. TypeOK /\ LoadedOK
  BY AddressSpaceFacts
<1>2. CASE v \in UserPages /\ w = building
  BY <1>1, <1>2, OwnerFacts DEF PagesOf
<1>3. CASE v \in UserPages /\ w = current /\ building = NULL
  <2>1. w \in Spaces /\ memory[w] # NULL /\ memory[w] = mm.table[PML4][0] /\ w # KERNEL
    BY <1>1, <1>3, PagesAssumption DEF LoadedOK, TypeOK
  <2>2. w \in Owners
    BY <2>1 DEF Owners, Made
  <2>3. Loaded(mm, w)
    BY <1>3, <2>1, <2>2 DEF Loaded, Tops, Top
  <2> QED  BY <1>3, <2>1, <2>2, <2>3 DEF PagesOf
<1>4. CASE v \notin UserPages
  BY <1>1, <1>4, OwnerFacts, PageFacts DEF Writers
<1> QED  BY <1>2, <1>3, <1>4 DEF Writers

LEMMA WriteKeeps ==
    ASSUME IInv, NEW v \in VPages, Write(v)
    PROVE  IInv'
<1>1. /\ phase = "up" /\ UNCHANGED <<mm, phase, zero_page, memory, building, current, asked>>
      /\ TypeOK /\ Live /\ LoadedOK /\ mm \in MmType /\ zero_page \in Frames
      /\ Tree(Map(mm), Owners, Range(mm.pool) \cup {}, zero_page)
  BY AddressSpaceFacts DEF Write, Running
<1>2. PICK w \in Writers(v) \ {NULL} :
         MayWrite(w, v) /\ data' = [data EXCEPT ![Entry(mm, v, 3).addr] = w]
  BY DEF Write
<1>3. PICK s \in Owners : /\ Loaded(mm, s) /\ v \in PagesOf(s)
                          /\ s = w \/ (s = KERNEL /\ w = current /\ building = NULL)
  BY <1>1, PageOwner
<1> DEFINE W == Map(mm)
           e == At(W, s, v, 3)
           f == e.addr
<1>4. \A i \in 0 .. 3 : Entry(mm, v, i) = At(W, s, v, i)
  BY <1>1, <1>3, LoadedEntry
<1>5. 0 \in 0 .. 3 /\ 3 \in 0 .. 3
  OBVIOUS
<1>6. /\ e.present /\ e.rw /\ (w = current /\ building = NULL => At(W, s, v, 0).user)
  BY <1>2, <1>4, <1>5 DEF MayWrite, Present, Rights
<1>7. s = w
  <2>1. RightsOK(W, Owners)
    BY <1>1 DEF Live, Sound, Shape
  <2> QED  BY <1>3, <1>6, <2>1 DEF RightsOK
<1>8. LeavesOK(W, Owners, asked, zero_page) /\ DataOK(W, Owners, data, zero_page)
  BY <1>1 DEF Live
<1>9. f \in Frames \ {zero_page}
  <2>1. LeafOK(e, asked[s][v], zero_page)
    BY <1>3, <1>8 DEF LeavesOK
  <2>2. f # zero_page
    BY <1>6, <2>1, EmptyEntry DEF LeafOK
  <2>3. f \in Home(s, 3, Range(mm.pool) \cup {}, zero_page)
    BY <1>1, <1>3, <1>5, <1>6 DEF Tree
  <2> QED  BY <2>2, <2>3 DEF Home
<1>10. /\ data' \in [Frames -> Spaces \cup {KERNEL, NULL}]
       /\ \A g \in Frames : data'[g] = IF g = f THEN s ELSE data[g]
  <2>1. data' = [data EXCEPT ![f] = s]
    BY <1>2, <1>4, <1>5, <1>7
  <2>2. data \in [Frames -> Spaces \cup {KERNEL, NULL}] /\ s \in Spaces \cup {KERNEL}
    BY <1>1, <1>3, OwnerFacts DEF TypeOK, Everyone
  <2> HIDE DEF f
  <2> QED  BY <1>9, <2>1, <2>2
<1>11. /\ Owners' = Owners /\ Map(mm)' = Map(mm') /\ Sound(mm, {})'
       /\ mm' = mm /\ zero_page' = zero_page /\ asked' = asked
  BY <1>1, Transfer DEF Live
<1>12. DataOK(W, Owners, data', zero_page)
  <2>1. data'[zero_page] = NULL
    BY <1>1, <1>8, <1>9, <1>10 DEF DataOK
  <2>2. ASSUME NEW t \in Owners, NEW u \in PagesOf(t), At(W, t, u, 3).present
        PROVE  data'[At(W, t, u, 3).addr] \in {NULL, t}
    <3>1. At(W, t, u, 3).addr \in Frames
      <4>1. At(W, t, u, 3).addr \in Home(t, 3, Range(mm.pool) \cup {}, zero_page)
        BY <1>1, <1>5, <2>2 DEF Tree
      <4> QED  BY <4>1 DEF Home
    <3>2. CASE At(W, t, u, 3).addr = f
      <4>1. s = t
        BY <1>1, <1>3, <1>5, <1>6, <1>9, <2>2, <3>2 DEF Tree
      <4> QED  BY <1>10, <3>1, <3>2, <4>1
    <3>3. CASE At(W, t, u, 3).addr # f
      <4>1. data[At(W, t, u, 3).addr] \in {NULL, t}
        BY <1>8, <2>2 DEF DataOK
      <4> QED  BY <1>10, <3>1, <3>3, <4>1
    <3> QED  BY <3>2, <3>3
  <2> QED  BY <2>1, <2>2 DEF DataOK
<1>13. (LeavesOK(Map(mm), Owners, asked, zero_page) /\ DataOK(Map(mm), Owners, data, zero_page))'
  BY <1>8, <1>11, <1>12
<1>14. LoadedOK'
  BY <1>1, <1>11 DEF LoadedOK, Made
<1>15. TypeOK'
  BY <1>1, <1>10 DEF TypeOK
<1> QED  BY <1>1, <1>11, <1>13, <1>14, <1>15 DEF IInv, Live

LEMMA PageFaultKeeps ==
    ASSUME IInv, NEW v \in VPages, page_fault_handler(v)
    PROVE  IInv'
<1>1. /\ phase = "up" /\ TypeOK /\ Live /\ mm \in MmType /\ ImageOK(mm.table) /\ Sound(mm, {})
      /\ LeavesOK(Map(mm), Owners, asked, zero_page)
  BY AddressSpaceFacts DEF page_fault_handler, Running, Live
<1>2. CASE Stop
  BY <1>1, <1>2 DEF Stop, IInv, TypeOK
<1>3. CASE /\ Entry(mm, v, 3).lazy /\ mm.pool # <<>>
           /\ mm' = LazyWrite(mm, v)
           /\ data' = [data EXCEPT ![Head(mm.pool)] = NULL]
           /\ UNCHANGED <<phase, zero_page, memory, building, current, asked>>
  <2>1. PICK s \in Owners : Loaded(mm, s) /\ v \in PagesOf(s)
    BY <1>1, PageOwner DEF page_fault_handler
  <2> DEFINE old == At(Map(mm), s, v, 3)
             f == Head(mm.pool)
             e == [old EXCEPT !.addr = f, !.rw = TRUE, !.lazy = FALSE]
             flags == asked[s][v]
  <2>2. Entry(mm, v, 3) = old
    BY <1>1, <2>1, LoadedEntry
  <2>3. /\ LeafOK(old, flags, zero_page) /\ old.lazy /\ old \in EntryType
        /\ f \in Frames /\ f # zero_page
    <3>1. LeafOK(old, flags, zero_page) /\ old.lazy
      BY <1>1, <1>3, <2>1, <2>2 DEF LeavesOK
    <3>2. /\ Tree(Map(mm), Owners, Range(mm.pool) \cup {}, zero_page) /\ mm.pool \in Seq(Frames)
          /\ zero_page \in Frames /\ zero_page \notin Range(mm.pool)
          /\ \A j, k \in 1 .. Len(mm.pool) : mm.pool[j] = mm.pool[k] => j = k
      BY <1>1 DEF Sound, Shape, Forest, PoolOK, MmType
    <3>3. old \in EntryType
      BY <1>1, <2>1, <3>2, MapTypes
    <3> QED  BY <1>3, <3>1, <3>2, <3>3, HeadTail
  <2>4. flags # NULL /\ old.present /\ old.addr = zero_page /\ ~flags.immediate /\ flags.rw
        /\ old.user = flags.user /\ old.nx = ~flags.exe
    <3> HIDE DEF old, flags
    <3>1. ~Empty.lazy
      BY DEF Empty
    <3> QED  BY <2>3, <3>1 DEF LeafOK
  <2>5. flags \in AllFlags
    <3>1. asked \in [Everyone -> [VPages -> AllFlags \cup {NULL}]]
      BY <1>1 DEF TypeOK, Everyone, AllFlags
    <3>2. s \in Everyone /\ v \in VPages
      BY <1>1, <2>1, OwnerFacts
    <3>3. flags \in AllFlags \cup {NULL}
      BY <3>1, <3>2
    <3> QED  BY <2>4, <3>3
  <2>6. /\ e \in EntryType /\ e.present /\ e.addr = f /\ e.rw /\ ~e.lazy
        /\ e.user = old.user /\ e.nx = old.nx
    <3> HIDE DEF f, old
    <3>1. f \in 0 .. (FirstFrame + NFrames - 1)
      BY <2>3, Sizes, TableNames
    <3> QED  BY <2>3, <2>4, <3>1 DEF EntryType
  <2>7. mm' = SetEntry(get_frame(mm), v, 3, e)
    BY <1>3, <2>2 DEF LazyWrite
  <2> HIDE DEF e, f
  <2>8. LeafOK(e, flags, zero_page)
    BY <2>3, <2>4, <2>6 DEF LeafOK
  <2>9. Replaced(mm', mm, s, v, e)
    BY <1>1, <1>3, <2>1, <2>4, <2>6, <2>7, LazyKeeps DEF f
  <2>10. asked' = [asked EXCEPT ![s][v] = flags]
    <3>1. asked \in [Everyone -> [VPages -> AllFlags \cup {NULL}]]
      BY <1>1 DEF TypeOK, Everyone, AllFlags
    <3>2. s \in Everyone /\ v \in VPages
      BY <1>1, <2>1, OwnerFacts
    <3>3. [asked EXCEPT ![s][v] = asked[s][v]] = asked
      BY <3>1, <3>2
    <3> QED  BY <1>3, <3>3
  <2>11. TypeOK' /\ Live'
    <3>1. TRUE \in BOOLEAN /\ e.addr = (IF TRUE THEN f ELSE zero_page)
          /\ data' = IF TRUE THEN [data EXCEPT ![f] = NULL] ELSE data
      BY <1>3, <2>6 DEF f
    <3>2. /\ zero_page' = zero_page /\ memory' = memory /\ building' = building /\ current' = current
          /\ building = NULL /\ current # NULL => mm'.table[PML4][0] = mm.table[PML4][0]
          /\ phase' \in {"memory", "up"} /\ Mapped(mm', mm, {}, s, v, e)
      BY <1>1, <1>3, <2>9 DEF Replaced
    <3>3. s = KERNEL => ~flags.user
      <4>1. v \in VPages /\ LoadedOK
        BY <1>1 DEF Live
      <4> QED  BY <2>4, <4>1 DEF LoadedOK
    <3> HIDE DEF flags
    <3> QED  BY <1>1, <2>1, <2>5, <2>6, <2>8, <2>10, <3>1, <3>2, <3>3, LeafStep
  <2> QED  BY <1>1, <1>3, <2>11 DEF IInv
<1> QED  BY <1>2, <1>3 DEF page_fault_handler
-----------------------------------------------------------------------------
\* Booting: the entries of the image, the tables of initialize_paging() and
\* what the first two pages of the image show later.
Addresses == (-4 .. -1) \cup (0 .. (FirstFrame + NFrames - 1))

LEMMA PresentIs ==
    ASSUME NEW a \in Addresses, NEW c \in 0 .. (CountMax - 1)
    PROVE  /\ Kernels(PresentRW(a), a, 0)
           /\ Kernels([PresentRW(a) EXCEPT !.cnt = c], a, c)
<1>1. Kernels(PresentRW(a), a, 0)
  <2>1. Empty \in EntryType /\ ~Empty.user /\ ~Empty.nx /\ ~Empty.lazy /\ Empty.cnt = 0
    BY EmptyEntry DEF Empty
  <2> QED  BY <2>1 DEF PresentRW, EntryType, Addresses, Kernels
<1> DEFINE p == PresentRW(a)
<1>2. Kernels(p, a, 0)
  BY <1>1
<1> HIDE DEF p
<1>3. Kernels([p EXCEPT !.cnt = c], a, c)
  BY <1>2 DEF EntryType, Kernels
<1> QED  BY <1>2, <1>3 DEF p

LEMMA SectionIs ==
    ASSUME NEW p \in 0 .. (End - 1)
    PROVE  Section(SectionFlags(p), p)
<1>1. p \in Addresses /\ 0 \in 0 .. (CountMax - 1)
  BY Sizes, TableNames DEF Addresses, CountMax
<1> DEFINE e == PresentRW(p)
           rw == p < Text \/ p >= Data
           nx == ~ (Text <= p /\ p < Rodata)
<1>2. Kernels(e, p, 0)
  BY <1>1, PresentIs
<1>3. rw \in BOOLEAN /\ nx \in BOOLEAN
  OBVIOUS
<1>4. SectionFlags(p) = [e EXCEPT !.rw = rw, !.nx = nx]
  BY DEF SectionFlags
<1> HIDE DEF e, rw, nx
<1>5. /\ SectionFlags(p) \in EntryType /\ SectionFlags(p).present /\ SectionFlags(p).addr = p
      /\ SectionFlags(p).rw = rw /\ ~SectionFlags(p).user /\ SectionFlags(p).nx = nx
  BY <1>2, <1>3, <1>4 DEF EntryType, Kernels
<1> QED  BY <1>5 DEF Section, rw, nx

LEMMA FirstTablesAre ==
    ASSUME TypeOK
    PROVE  /\ FirstTables \in TableSet
           /\ FirstRows(FirstTables)
           /\ \A t \in Frames \cup {IdentityPD} : FirstTables[t] = mm.table[t]
<1> DEFINE e(a, c) == [PresentRW(a) EXCEPT !.cnt = c]
           T == FirstTables
<1>1. /\ End \in Addresses /\ PML4 \in Addresses /\ PDPT \in Addresses /\ KernelPD \in Addresses
      /\ IdentityPD \in Addresses /\ 1 \in 0 .. (CountMax - 1) /\ End \in 0 .. (CountMax - 1)
      /\ End \in Nat
  BY Sizes, TableNames DEF Addresses, CountMax, PML4, PDPT, KernelPD, IdentityPD
<1>2. /\ Kernels(e(PDPT, 1), PDPT, 1) /\ Kernels(e(KernelPD, 1), KernelPD, 1)
      /\ Kernels(e(End, End), End, End) /\ Kernels(PresentRW(PML4), PML4, 0)
      /\ Kernels(PresentRW(IdentityPD), IdentityPD, 0)
  BY <1>1, PresentIs
<1>3. /\ T[PML4] = [x \in Idx |-> IF x \in {0, High} THEN e(PDPT, 1)
                                  ELSE IF x = PG_SELF THEN PresentRW(PML4) ELSE Empty]
      /\ T[PDPT] = [x \in Idx |-> IF x = 0 THEN PresentRW(IdentityPD)
                                  ELSE IF x = KernelIdx THEN e(KernelPD, 1) ELSE Empty]
      /\ T[KernelPD] = [x \in Idx |-> IF x = 0 THEN e(End, End) ELSE Empty]
      /\ T[End] = [x \in Idx |-> IF x < End THEN SectionFlags(x) ELSE Empty]
      /\ \A t \in Frames \cup {IdentityPD} : T[t] = mm.table[t]
      /\ DOMAIN T = Tables
  <2>1. 1 - 1 = 0 /\ End - End = 0 /\ End + 0 = End /\ 0 * Entries = 0
    BY Sizes
  <2>2. \A x \in Idx : ~(x < 0) /\ 0 + x = x
    BY Sizes
  <2>3. End .. (FirstFrame - 1) = {End}
    BY Sizes
  <2> DEFINE n == TablesFor(End)
             row1 == [x \in Idx |-> IF x \in {0, High} THEN e(PDPT, 1)
                                    ELSE IF x = PG_SELF THEN PresentRW(PML4) ELSE Empty]
             row2 == [x \in Idx |-> IF x = 0 THEN PresentRW(IdentityPD)
                                    ELSE IF x = KernelIdx THEN e(KernelPD, n) ELSE Empty]
             row3 == [x \in Idx |-> IF x < n - 1 THEN PresentRW(End + x)
                                    ELSE IF x = n - 1 THEN e(End + x, End % Entries) ELSE Empty]
             row4(k) == [x \in Idx |-> IF k * Entries + x < End THEN SectionFlags(k * Entries + x)
                                       ELSE Empty]
  <2>4. T = [t \in Tables |-> CASE t = PML4 -> row1 [] t = PDPT -> row2 [] t = KernelPD -> row3
                                [] t \in End .. (FirstFrame - 1) -> row4(t - End)
                                [] OTHER -> mm.table[t]]
    BY DEF FirstTables
  <2>5. /\ T[PML4] = row1 /\ T[PDPT] = row2 /\ T[KernelPD] = row3 /\ T[End] = row4(End - End)
        /\ \A t \in Frames \cup {IdentityPD} : T[t] = mm.table[t]
        /\ DOMAIN T = Tables
    <3> HIDE DEF row1, row2, row3, row4, T
    <3> QED  BY <2>3, <2>4, TableNames
  <2>6. n = 1 /\ End % Entries = End
    BY Sizes
  <2>7. T[KernelPD] = [x \in Idx |-> IF x = 0 THEN e(End, End) ELSE Empty]
    <3>1. \A x \in Idx : (IF x < n - 1 THEN PresentRW(End + x)
                          ELSE IF x = n - 1 THEN e(End + x, End % Entries) ELSE Empty)
                         = IF x = 0 THEN e(End, End) ELSE Empty
      <4> HIDE DEF n, e
      <4>1. ASSUME NEW x \in Idx
            PROVE  ~(x < n - 1) /\ (x = n - 1 <=> x = 0)
        BY <2>1, <2>2, <2>6
      <4> QED  BY <2>1, <2>6, <4>1
    <3> HIDE DEF e, T
    <3> QED  BY <2>5, <3>1
  <2>8. T[End] = [x \in Idx |-> IF x < End THEN SectionFlags(x) ELSE Empty]
    <3>1. \A x \in Idx : (End - End) * Entries + x = x
      BY <2>1, <2>2
    <3> HIDE DEF T
    <3> QED  BY <2>5, <3>1
  <2>9. T[PDPT] = [x \in Idx |-> IF x = 0 THEN PresentRW(IdentityPD)
                                  ELSE IF x = KernelIdx THEN e(KernelPD, 1) ELSE Empty]
    <3> HIDE DEF T, e, n
    <3> QED  BY <2>5, <2>6
  <2> HIDE DEF T
  <2> QED  BY <2>5, <2>7, <2>8, <2>9
<1> HIDE DEF T, e
<1>4. \A p \in 0 .. (End - 1) : Section(SectionFlags(p), p)
  BY SectionIs
<1>5. FirstRows(T)
  <2>1. /\ Kernels(T[PML4][High], PDPT, 1) /\ Kernels(T[PML4][0], PDPT, 1)
        /\ Kernels(T[PDPT][KernelIdx], KernelPD, 1)
        /\ \A x \in Idx \ {0, KernelIdx} : T[PDPT][x] = Empty
    BY <1>2, <1>3, Sizes
  <2>2. Kernels(T[KernelPD][0], End, End) /\ \A x \in Idx \ {0} : T[KernelPD][x] = Empty
    BY <1>2, <1>3, Sizes
  <2>3. ASSUME NEW p \in 0 .. (End - 1)
        PROVE  Section(T[End][p], p)
    <3>1. p \in Idx /\ p < End
      BY Sizes
    <3> QED  BY <1>3, <1>4, <3>1
  <2> QED  BY <2>1, <2>2, <2>3 DEF FirstRows, UpperRows
<1>6. T \in TableSet
  <2>1. /\ e(PDPT, 1) \in EntryType /\ e(KernelPD, 1) \in EntryType /\ e(End, End) \in EntryType
        /\ PresentRW(PML4) \in EntryType /\ PresentRW(IdentityPD) \in EntryType /\ Empty \in EntryType
    BY <1>2, EmptyEntry DEF Kernels
  <2>2. \A x \in Idx : x < End => SectionFlags(x) \in EntryType
    <3>1. \A x \in Idx : x < End => x \in 0 .. (End - 1)
      BY Sizes
    <3> QED  BY <1>4, <3>1 DEF Section
  <2>3. /\ T[PML4] \in [Idx -> EntryType] /\ T[PDPT] \in [Idx -> EntryType]
        /\ T[KernelPD] \in [Idx -> EntryType] /\ T[End] \in [Idx -> EntryType]
    BY <1>3, <2>1, <2>2
  <2>4. \A t \in Frames \cup {IdentityPD} : T[t] \in [Idx -> EntryType]
    BY <1>3, TableNames DEF TypeOK
  <2>5. \A t \in Tables : T[t] \in [Idx -> EntryType]
    BY <2>3, <2>4, TableNames
  <2>6. T = [t \in Tables |-> T[t]]
    BY DEF T, FirstTables
  <2> QED  BY <2>5, <2>6 DEF TableSet
<1> QED  BY <1>3, <1>5, <1>6 DEF T

LEMMA PagingKeeps ==
    ASSUME IInv, initialize_paging
    PROVE  IInv'
<1>1. /\ TypeOK /\ Fresh /\ mm' = [mm EXCEPT !.table = FirstTables] /\ phase' = "paging"
      /\ UNCHANGED <<zero_page, memory, building, current, data, asked>>
  BY DEF IInv, initialize_paging
<1>2. mm \in [table : [Tables -> [Idx -> EntryType]], pool : Seq(Frames)]
  BY <1>1 DEF TypeOK
<1>3. FirstTables \in TableSet
  BY <1>1, FirstTablesAre
<1>4. mm'.table = FirstTables /\ mm'.pool = mm.pool
  BY <1>1, <1>2
<1>5. mm' \in [table : [Tables -> [Idx -> EntryType]], pool : Seq(Frames)]
  BY <1>1, <1>2, <1>3 DEF TableSet
<1>6. FirstRows(mm'.table)
  BY <1>1, <1>4, FirstTablesAre
<1>7. Fresh'
  BY <1>1, <1>4 DEF Fresh
<1> QED  BY <1>1, <1>5, <1>6, <1>7 DEF IInv, TypeOK

\* A cell of the tables is set.
CellWritten(n, m, a, x, e) ==
    /\ n \in MmType /\ n.pool = m.pool /\ OneCell(n.table, m.table, a, x, e)

LEMMA CellSet ==
    ASSUME NEW m \in MmType, NEW a \in Tables, NEW x \in Idx, NEW e \in EntryType,
           NEW n, n = [m EXCEPT !.table[a][x] = e]
    PROVE  CellWritten(n, m, a, x, e)
<1> DEFINE T == [m.table EXCEPT ![a] = [m.table[a] EXCEPT ![x] = e]]
<1>1. n = [m EXCEPT !.table = T]
  BY DEF MmType
<1>2. m.table \in TableSet /\ m.table[a] \in [Idx -> EntryType]
  BY DEF MmType, TableSet
<1>3. T \in TableSet /\ OneCell(T, m.table, a, x, e)
  BY <1>2 DEF TableSet, OneCell
<1> HIDE DEF T
<1> QED  BY <1>1, <1>3 DEF MmType, CellWritten

LEMMA FrameAllocationKeeps ==
    ASSUME IInv, initialize_frame_allocation
    PROVE  IInv'
<1> DEFINE e == PresentRW(0)
<1>1. /\ TypeOK /\ Fresh /\ FirstRows(mm.table) /\ mm' = [mm EXCEPT !.table[End][0] = e]
      /\ phase' = "frames" /\ UNCHANGED <<zero_page, memory, building, current, data, asked>>
  BY DEF IInv, initialize_frame_allocation
<1>2. mm \in MmType
  BY <1>1 DEF TypeOK, MmType, TableSet
<1>3. Opened(e)
  <2>1. 0 \in Addresses /\ 0 \in 0 .. (CountMax - 1)
    BY Sizes, TableNames DEF Addresses, CountMax
  <2> QED  BY <2>1, PresentIs DEF Kernels, Opened
<1>4. /\ End \in Tables /\ PML4 \in Tables /\ PDPT \in Tables /\ KernelPD \in Tables
      /\ End \notin {PML4, PDPT, KernelPD} /\ {0, High, KernelIdx} \subseteq Idx
      /\ \A p \in 1 .. (End - 1) : p \in Idx \ {0} /\ p \in 0 .. (End - 1)
  BY TableNames, Sizes
<1> HIDE DEF e
<1>5. CellWritten(mm', mm, End, 0, e)
  BY <1>1, <1>2, <1>3, <1>4, CellSet DEF Opened
<1>6. /\ mm' \in MmType /\ mm'.pool = mm.pool
      /\ \A t \in Tables : \A y \in Idx :
            mm'.table[t][y] = IF t = End /\ y = 0 THEN e ELSE mm.table[t][y]
  BY <1>5 DEF CellWritten, OneCell
<1>7. UpperRows(mm'.table)
  BY <1>1, <1>4, <1>6 DEF FirstRows, UpperRows
<1>8. FrameRows(mm'.table)
  <2>1. \A p \in 1 .. (End - 1) : Section(mm'.table[End][p], p)
    BY <1>1, <1>4, <1>6 DEF FirstRows
  <2> QED  BY <1>3, <1>4, <1>6, <1>7, <2>1 DEF FrameRows
<1>9. TypeOK'
  BY <1>1, <1>6 DEF TypeOK, MmType, TableSet
<1>10. Fresh'
  BY <1>1, <1>6 DEF Fresh
<1> QED  BY <1>1, <1>8, <1>9, <1>10 DEF IInv

\* The walk to the window.
WindowPath(m) ==
    /\ m \in MmType
    /\ m.table[PML4][High].present /\ m.table[PML4][High].addr = PDPT
    /\ m.table[PDPT][KernelIdx].present /\ m.table[PDPT][KernelIdx].addr = KernelPD
    /\ m.table[KernelPD][0].present /\ m.table[KernelPD][0].addr = End
    /\ m.table[End][1].present

LEMMA WindowEntries ==
    ASSUME NEW m, WindowPath(m)
    PROVE  /\ Entry(m, Window, 0) = m.table[PML4][High]
           /\ Entry(m, Window, 1) = m.table[PDPT][KernelIdx]
           /\ Entry(m, Window, 2) = m.table[KernelPD][0]
           /\ Entry(m, Window, 3) = m.table[End][1]
           /\ \A i \in 0 .. 3 : Present(m, Window, i)
<1> DEFINE r == m.table[PML4][Window[1]]
<1>1. Window[1] = High /\ Window[2] = KernelIdx /\ Window[3] = 0 /\ Window[4] = 1
  BY DEF Window
<1>2. \A i \in 0 .. 3 : Entry(m, Window, i) = Walk(m.table, r, Window, i)
  BY EntryIsWalk
<1>3. r = m.table[PML4][High]
  BY <1>1
<1> HIDE DEF r
<1>4. /\ Walk(m.table, r, Window, 0) = m.table[PML4][High]
      /\ Walk(m.table, r, Window, 1) = m.table[PDPT][KernelIdx]
      /\ Walk(m.table, r, Window, 2) = m.table[KernelPD][0]
      /\ Walk(m.table, r, Window, 3) = m.table[End][1]
  <2> DEFINE w1 == m.table[PDPT][KernelIdx]
             w2 == m.table[KernelPD][0]
  <2>1. Below(m.table, r, KernelIdx) = w1
    BY <1>3 DEF Below, WindowPath
  <2>2. Below(m.table, w1, 0) = w2
    BY DEF Below, WindowPath
  <2>3. Below(m.table, w2, 1) = m.table[End][1]
    BY DEF Below, WindowPath
  <2> HIDE DEF w1, w2
  <2>4. /\ Walk(m.table, r, Window, 0) = r
        /\ Walk(m.table, r, Window, 1) = w1
        /\ Walk(m.table, r, Window, 2) = w2
        /\ Walk(m.table, r, Window, 3) = m.table[End][1]
    BY <1>1, <2>1, <2>2, <2>3 DEF Walk
  <2> QED  BY <1>3, <2>4 DEF w1, w2
<1>5. \A i \in 0 .. 3 : i = 0 \/ i = 1 \/ i = 2 \/ i = 3
  OBVIOUS
<1>6. 0 \in 0 .. 3 /\ 1 \in 0 .. 3 /\ 2 \in 0 .. 3 /\ 3 \in 0 .. 3
  OBVIOUS
<1> QED  BY <1>2, <1>4, <1>5, <1>6 DEF Present, WindowPath

\* map_page() of the window writes its entry and nothing else.
LEMMA WindowMapped ==
    ASSUME NEW m, WindowPath(m), NEW e \in EntryType, e.present, NEW n, n = map_page(m, Window, e)
    PROVE  CellWritten(n, m, End, 1, e) /\ WindowPath(n)
<1>1. \A i \in 0 .. 3 : Present(m, Window, i)
  BY WindowEntries
<1>2. 0 \in 0 .. 3 /\ 1 \in 0 .. 3 /\ 2 \in 0 .. 3 /\ 3 \in 0 .. 3
  OBVIOUS
<1>3. ensure_pt_exists(m, Window) = m
  BY <1>1, <1>2 DEF ensure_pt_exists, EnsureTable
<1>4. n = SetEntry(m, Window, 3, e)
  BY <1>1, <1>2, <1>3 DEF map_page
<1>5. n = [m EXCEPT !.table[End][1] = e]
  <2>1. 3 - 1 = 2 /\ 3 + 1 = 4 /\ ~(3 = 0) /\ Window[4] = 1
    BY DEF Window
  <2>2. Entry(m, Window, 2).addr = End
    BY WindowEntries DEF WindowPath
  <2> QED  BY <1>4, <2>1, <2>2, Zenon DEF SetEntry
<1>6. CellWritten(n, m, End, 1, e)
  BY <1>5, TableNames, Sizes, CellSet DEF WindowPath
<1>7. WindowPath(n)
  <2>1. /\ PML4 \in Tables /\ PDPT \in Tables /\ KernelPD \in Tables /\ End \in Tables
        /\ End \notin {PML4, PDPT, KernelPD} /\ {0, 1, High, KernelIdx} \subseteq Idx
    BY TableNames, Sizes
  <2>2. /\ n \in MmType /\ n.table[PML4][High] = m.table[PML4][High]
        /\ n.table[PDPT][KernelIdx] = m.table[PDPT][KernelIdx]
        /\ n.table[KernelPD][0] = m.table[KernelPD][0]
        /\ n.table[End][1] = e
    BY <1>6, <2>1 DEF CellWritten, OneCell
  <2> QED  BY <2>2 DEF WindowPath
<1> QED  BY <1>6, <1>7

\* unmap_page() of the window only counts down: the table has other entries.
LEMMA WindowUnmapped ==
    ASSUME NEW m, WindowPath(m), NEW c \in 2 .. (CountMax - 1), m.table[KernelPD][0].cnt = c,
           NEW n, n = unmap_page(m, Window)
    PROVE  /\ CellWritten(n, m, KernelPD, 0, [m.table[KernelPD][0] EXCEPT !.cnt = c - 1])
           /\ WindowPath(n)
<1> DEFINE old == m.table[KernelPD][0]
           e == [old EXCEPT !.cnt = c - 1]
           d == decrease_counter(m, Window, 2)
<1>1. /\ PML4 \in Tables /\ PDPT \in Tables /\ KernelPD \in Tables /\ End \in Tables
      /\ KernelPD \notin {PML4, PDPT, End} /\ {0, 1, High, KernelIdx} \subseteq Idx
  BY TableNames, Sizes
<1>2. old \in EntryType /\ old.present /\ old.addr = End /\ old.cnt = c /\ c # 0
  BY <1>1 DEF WindowPath, MmType, TableSet
<1>3. (c + CountMax - 1) % CountMax = c - 1 /\ c - 1 \in 1 .. (CountMax - 1)
  <2>1. (c + 1024 - 1) % 1024 = c - 1 /\ c - 1 \in 1 .. 1023
    BY DEF CountMax
  <2> QED  BY <2>1 DEF CountMax
<1>4. e = [old EXCEPT !.cnt = (c + CountMax - 1) % CountMax,
                      !.nx = IF old.cnt = 0 THEN ~old.nx ELSE old.nx]
  <2> HIDE DEF old
  <2>1. e = [old EXCEPT !.cnt = c - 1, !.nx = old.nx]
    BY <1>2 DEF EntryType
  <2> QED  BY <1>2, <1>3, <2>1
<1>5. e \in EntryType /\ e.present /\ e.addr = End /\ e.cnt = c - 1
  <2> HIDE DEF old
  <2>1. c - 1 \in 0 .. (CountMax - 1)
    BY DEF CountMax
  <2> QED  BY <1>2, <2>1 DEF EntryType
<1>6. Entry(m, Window, 2) = old /\ Entry(m, Window, 1).addr = KernelPD
  BY WindowEntries DEF WindowPath
<1> HIDE DEF old
<1>7. d = SetEntry(m, Window, 2, e)
  BY <1>2, <1>4, <1>6, Zenon DEF decrease_counter
<1> HIDE DEF e
<1>8. d = [m EXCEPT !.table[KernelPD][0] = e]
  <2>1. 2 - 1 = 1 /\ 2 + 1 = 3 /\ ~(2 = 0) /\ Window[3] = 0
    BY DEF Window
  <2> QED  BY <1>6, <1>7, <2>1, Zenon DEF SetEntry
<1> HIDE DEF d
<1>9. CellWritten(d, m, KernelPD, 0, e)
  BY <1>1, <1>5, <1>8, CellSet DEF WindowPath
<1>10. WindowPath(d) /\ d.table[KernelPD][0] = e
  <2>1. /\ d \in MmType /\ d.table[PML4][High] = m.table[PML4][High]
        /\ d.table[PDPT][KernelIdx] = m.table[PDPT][KernelIdx]
        /\ d.table[KernelPD][0] = e
        /\ d.table[End][1] = m.table[End][1]
    BY <1>1, <1>9 DEF CellWritten, OneCell
  <2> QED  BY <1>5, <2>1 DEF WindowPath
<1>11. n = d
  <2>1. Entry(d, Window, 2).cnt # 0
    <3>1. Entry(d, Window, 2) = e
      BY <1>10, WindowEntries
    <3>2. c - 1 # 0
      BY <1>3
    <3> QED  BY <1>5, <3>1, <3>2
  <2> QED  BY <2>1 DEF unmap_page, clean_pts, d
<1> QED  BY <1>9, <1>10, <1>11 DEF e, old

\* disable_identity_paging() clears entry 0 of the pdpt, which both halves
\* share, and then of PML4.
Cleared(n, m) ==
    /\ n \in MmType /\ n.pool = m.pool
    /\ \A t \in Tables : \A y \in Idx :
          n.table[t][y] = IF t \in {PML4, PDPT} /\ y = 0 THEN Empty ELSE m.table[t][y]

LEMMA IdentityGone ==
    ASSUME NEW m \in MmType, m.table[PML4][0].present, m.table[PML4][0].addr = PDPT,
           NEW n, n = disable_identity_paging(m)
    PROVE  Cleared(n, m)
<1> DEFINE page == <<0, 0, 0, 0>>
           m1 == SetEntry(m, page, 1, Empty)
<1>1. /\ PML4 \in Tables /\ PDPT \in Tables /\ PML4 # PDPT /\ 0 \in Idx /\ Empty \in EntryType
  BY TableNames, Sizes, EmptyEntry
<1>2. Entry(m, page, 0) = m.table[PML4][0]
  <2>1. page[1] = 0 /\ 0 \in 0 .. 3
    OBVIOUS
  <2>2. Entry(m, page, 0) = Walk(m.table, m.table[PML4][page[1]], page, 0)
    BY <2>1, EntryIsWalk
  <2> QED  BY <2>1, <2>2, WalkSteps
<1>3. m1 = [m EXCEPT !.table[PDPT][0] = Empty]
  <2>1. 1 - 1 = 0 /\ ~(1 = 0) /\ page[1 + 1] = 0
    OBVIOUS
  <2> QED  BY <1>2, <2>1, Zenon DEF SetEntry
<1>4. n = [m1 EXCEPT !.table[PML4][0] = Empty]
  <2>1. page[1] = 0
    OBVIOUS
  <2> QED  BY <2>1 DEF disable_identity_paging, SetEntry
<1> HIDE DEF m1
<1>5. CellWritten(m1, m, PDPT, 0, Empty)
  BY <1>1, <1>3, CellSet
<1>6. CellWritten(n, m1, PML4, 0, Empty)
  <2>1. m1 \in MmType
    BY <1>5 DEF CellWritten
  <2> QED  BY <1>1, <1>4, <2>1, CellSet
<1> QED  BY <1>1, <1>5, <1>6 DEF CellWritten, OneCell, Cleared

\* The tables after initialize_virtual_memory().
BootRows(T) ==
    /\ Kernels(T[PML4][High], PDPT, 1) /\ Kernels(T[PDPT][KernelIdx], KernelPD, 1)
    /\ \A x \in Idx \ {KernelIdx} : T[PDPT][x] = Empty
    /\ Kernels(T[KernelPD][0], End, End - 1)
    /\ \A x \in Idx \ {0} : T[KernelPD][x] = Empty
    /\ Opened(T[End][0]) /\ Opened(T[End][1])
    /\ \A p \in 2 .. (End - 1) : Section(T[End][p], p)

LEMMA BootTables ==
    ASSUME TypeOK, Fresh, FrameRows(mm.table), initialize_virtual_memory
    PROVE  mm' \in MmType /\ mm'.pool = Tail(mm.pool) /\ BootRows(mm'.table)
<1> DEFINE f == Head(mm.pool)
           m0 == get_frame(mm)
           old == Entry(m0, Window, 3).addr
           m1 == unmap_page(m0, Window)
           m2 == map_page(m1, Window, PresentRW(f))
           m3 == map_page(m2, Window, PresentRW(old))
<1>1. mm' = disable_identity_paging(m3)
  BY DEF initialize_virtual_memory
<1>2. mm \in MmType /\ f \in Frames /\ Tail(mm.pool) \in Seq(Frames)
  <2>1. mm \in MmType /\ mm.pool \in Seq(Frames)
    BY DEF TypeOK, MmType, TableSet
  <2>2. mm.pool = [k \in 1 .. NFrames |-> FirstFrame + k - 1] /\ NFrames \in Nat /\ NFrames > 0
    BY TableNames DEF Fresh
  <2>3. DOMAIN mm.pool = 1 .. NFrames /\ 1 \in 1 .. NFrames
    BY <2>2
  <2>4. mm.pool # <<>>
    <3>1. DOMAIN <<>> = {}
      OBVIOUS
    <3> QED  BY <2>3, <3>1
  <2> QED  BY <2>1, <2>4, HeadTailProperties
<1> DEFINE w == PresentRW(f)
<1>3. /\ m0 \in MmType /\ m0.pool = Tail(mm.pool)
      /\ OneCell(m0.table, mm.table, End, 1, w)
  BY <1>2, GetFrameIs
<1>4. Kernels(w, f, 0) /\ Opened(w)
  <2>1. f \in Frames /\ Frames \subseteq Addresses
    <3>1. FirstFrame \in Nat
      BY Sizes
    <3>2. Frames \subseteq Addresses
      BY <3>1 DEF Frames, Addresses
    <3> QED  BY <1>2, <3>2
  <2> HIDE DEF f
  <2>2. f \in Addresses /\ 0 \in 0 .. (CountMax - 1)
    BY <2>1 DEF CountMax
  <2> QED  BY <2>2, PresentIs DEF Kernels, Opened
<1> HIDE DEF m0, f
<1>5. /\ PML4 \in Tables /\ PDPT \in Tables /\ KernelPD \in Tables /\ End \in Tables
      /\ PML4 # PDPT /\ PML4 # KernelPD /\ PDPT # KernelPD /\ End \notin {PML4, PDPT, KernelPD}
      /\ {0, 1, High, KernelIdx} \subseteq Idx /\ High # 0 /\ KernelIdx # 0
      /\ End \in 2 .. (CountMax - 1) /\ End - 1 \in 0 .. (CountMax - 1)
  <2>1. /\ PML4 \in Tables /\ PDPT \in Tables /\ KernelPD \in Tables /\ End \in Tables
        /\ PML4 # PDPT /\ PML4 # KernelPD /\ PDPT # KernelPD /\ End \notin {PML4, PDPT, KernelPD}
    BY TableNames
  <2>2. {0, 1, High, KernelIdx} \subseteq Idx /\ High # 0 /\ KernelIdx # 0
    BY Sizes
  <2>3. End \in Nat /\ 1 < End /\ End < Entries /\ Entries \in Nat /\ Entries < CountMax /\ CountMax \in Nat
    BY Sizes DEF CountMax
  <2>4. End \in 2 .. (CountMax - 1) /\ End - 1 \in 0 .. (CountMax - 1)
    BY <2>3
  <2> QED  BY <2>1, <2>2, <2>4
<1> HIDE DEF w
<1>6. /\ UpperRows(m0.table) /\ m0.table[End][1] = w
      /\ \A x \in Idx \ {1} : m0.table[End][x] = mm.table[End][x]
  <2>1. UpperRows(mm.table)
    BY DEF FrameRows
  <2>2. \A t \in {PML4, PDPT, KernelPD} : \A x \in Idx : m0.table[t][x] = mm.table[t][x]
    BY <1>3, <1>5 DEF OneCell
  <2> QED  BY <1>3, <1>5, <2>1, <2>2 DEF UpperRows, OneCell
<1>7. WindowPath(m0) /\ old = f
  <2>1. WindowPath(m0)
    BY <1>3, <1>4, <1>5, <1>6 DEF WindowPath, UpperRows, Kernels
  <2> QED  BY <1>4, <1>6, <2>1, WindowEntries DEF Kernels
<1>8. /\ CellWritten(m1, m0, KernelPD, 0, [m0.table[KernelPD][0] EXCEPT !.cnt = End - 1])
      /\ WindowPath(m1)
  <2>1. m0.table[KernelPD][0].cnt = End
    BY <1>6 DEF UpperRows, Kernels
  <2> QED  BY <1>5, <1>7, <2>1, WindowUnmapped
<1> HIDE DEF m1, old
<1>9. CellWritten(m2, m1, End, 1, w) /\ WindowPath(m2)
  BY <1>4, <1>8, WindowMapped DEF w, Opened
<1> HIDE DEF m2
<1>10. CellWritten(m3, m2, End, 1, w) /\ WindowPath(m3)
  BY <1>4, <1>7, <1>9, WindowMapped DEF w, Opened
<1> HIDE DEF m3
<1> DEFINE e == [m0.table[KernelPD][0] EXCEPT !.cnt = End - 1]
<1>11. Kernels(e, End, End - 1)
  BY <1>5, <1>6 DEF UpperRows, Kernels, EntryType
<1> HIDE DEF e
<1>12. /\ m3 \in MmType /\ m3.pool = Tail(mm.pool)
       /\ \A t \in Tables : \A y \in Idx :
             m3.table[t][y] = IF t = End /\ y = 1 THEN w
                              ELSE IF t = KernelPD /\ y = 0 THEN e ELSE m0.table[t][y]
  BY <1>3, <1>5, <1>8, <1>9, <1>10 DEF CellWritten, OneCell, e
<1>13. Cleared(mm', m3)
  <2>1. m3.table[PML4][0] = m0.table[PML4][0]
    BY <1>5, <1>12
  <2>2. m3.table[PML4][0].present /\ m3.table[PML4][0].addr = PDPT
    BY <1>6, <2>1 DEF UpperRows, Kernels
  <2> QED  BY <1>1, <1>12, <2>2, IdentityGone
<1>14. /\ mm' \in MmType /\ mm'.pool = Tail(mm.pool)
       /\ mm'.table[PML4][High] = m0.table[PML4][High]
       /\ mm'.table[PDPT][KernelIdx] = m0.table[PDPT][KernelIdx]
       /\ mm'.table[PDPT][0] = Empty
       /\ \A x \in Idx \ {0} : mm'.table[PDPT][x] = m0.table[PDPT][x]
       /\ mm'.table[KernelPD][0] = e
       /\ \A x \in Idx \ {0} : mm'.table[KernelPD][x] = m0.table[KernelPD][x]
       /\ mm'.table[End][1] = w
       /\ \A x \in Idx \ {1} : mm'.table[End][x] = m0.table[End][x]
  BY <1>5, <1>12, <1>13 DEF Cleared
<1>15. \A p \in 2 .. (End - 1) : p \in Idx \ {1} /\ p \in 1 .. (End - 1)
  BY Sizes
<1>16. /\ Opened(mm'.table[End][0])
       /\ \A p \in 2 .. (End - 1) : Section(mm'.table[End][p], p)
  <2>1. 0 \in Idx \ {1}
    BY <1>5
  <2> QED  BY <1>6, <1>14, <1>15, <2>1 DEF FrameRows
<1> QED  BY <1>4, <1>5, <1>6, <1>11, <1>14, <1>16 DEF UpperRows, BootRows

\* When initialize_virtual_memory() is done the kernel half is all there is.
Booted ==
    /\ TypeOK /\ BootRows(mm.table) /\ mm \in MmType
    /\ zero_page \in Frames /\ Range(mm.pool) = Frames \ {zero_page} /\ PoolOK(mm.pool, {})
    /\ memory = [s \in Spaces |-> NULL] /\ building = NULL /\ current = NULL
    /\ data = [f \in Frames |-> NULL]
    /\ asked = [s \in Everyone |-> [v \in VPages |-> NULL]]

LEMMA BootLive == Booted => Live
<1> SUFFICES ASSUME Booted PROVE Live
  OBVIOUS
<1> DEFINE T == mm.table
           W == Map(mm)
           F == Range(mm.pool) \cup {}
<1>1. /\ TypeOK /\ BootRows(T) /\ mm \in MmType
      /\ zero_page \in Frames /\ Range(mm.pool) = Frames \ {zero_page} /\ PoolOK(mm.pool, {})
      /\ memory = [s \in Spaces |-> NULL] /\ building = NULL /\ current = NULL
      /\ data = [f \in Frames |-> NULL]
      /\ asked = [s \in Everyone |-> [v \in VPages |-> NULL]]
  BY DEF Booted
<1>2. Owners = {KERNEL}
  <2>1. \A s \in Spaces : s # NULL
    BY PagesAssumption
  <2> QED  BY <1>1, <2>1 DEF Owners, Made
<1>3. KERNEL \in Everyone /\ \A s \in Everyone : s = KERNEL \/ s \in Spaces
  BY DEF Everyone
<1>4. ASSUME NEW v \in PagesOf(KERNEL)
      PROVE  /\ Kernels(At(W, KERNEL, v, 0), PDPT, 1) /\ Kernels(At(W, KERNEL, v, 1), KernelPD, 1)
             /\ At(W, KERNEL, v, 2) = Empty /\ At(W, KERNEL, v, 3) = Empty
             /\ v \in VPages
  <2>1. v[2] = KernelIdx /\ v[3] # 0 /\ v[3] \in Idx /\ v \in VPages
    BY <1>3, PageFacts
  <2>2. /\ At(W, KERNEL, v, 0) = T[PML4][High]
        /\ \A i \in 1 .. 3 : At(W, KERNEL, v, i) = Below(T, At(W, KERNEL, v, i - 1), v[i + 1])
    <3>1. Tops(mm)[KERNEL] = T[PML4][High] /\ KERNEL \in Owners /\ DOMAIN Tops(mm) = Owners
      BY <1>1, OwnerFacts DEF Tops
    <3> QED  BY <3>1, WalksAre DEF Map
  <2>3. 1 - 1 = 0 /\ 2 - 1 = 1 /\ 3 - 1 = 2 /\ 1 \in 1 .. 3 /\ 2 \in 1 .. 3 /\ 3 \in 1 .. 3
    OBVIOUS
  <2>4. /\ At(W, KERNEL, v, 1) = Below(T, At(W, KERNEL, v, 0), v[2])
        /\ At(W, KERNEL, v, 2) = Below(T, At(W, KERNEL, v, 1), v[3])
        /\ At(W, KERNEL, v, 3) = Below(T, At(W, KERNEL, v, 2), v[4])
    <3>1. 1 + 1 = 2 /\ 2 + 1 = 3 /\ 3 + 1 = 4
      OBVIOUS
    <3> QED  BY <2>2, <2>3, <3>1
  <2> HIDE DEF W, T
  <2>5. At(W, KERNEL, v, 1) = T[PDPT][KernelIdx]
    BY <1>1, <2>1, <2>2, <2>4 DEF Below, BootRows, Kernels
  <2>6. At(W, KERNEL, v, 2) = Empty
    <3>1. T[KernelPD][v[3]] = Empty
      BY <1>1, <2>1 DEF BootRows
    <3>2. At(W, KERNEL, v, 1).present /\ At(W, KERNEL, v, 1).addr = KernelPD
      BY <1>1, <2>5 DEF BootRows, Kernels
    <3> QED  BY <2>4, <3>1, <3>2 DEF Below
  <2>7. At(W, KERNEL, v, 3) = Empty
    BY <2>4, <2>6, EmptyEntry DEF Below
  <2> QED  BY <1>1, <2>1, <2>2, <2>5, <2>6, <2>7 DEF BootRows
<1> HIDE DEF W, T
<1>5. \A i \in 0 .. 3 : i = 0 \/ i = 1 \/ i = 2 \/ i = 3
  OBVIOUS
<1>6. ASSUME NEW v \in PagesOf(KERNEL), NEW i \in 0 .. 3, At(W, KERNEL, v, i).present
      PROVE  (i = 0 /\ At(W, KERNEL, v, i).addr = PDPT) \/ (i = 1 /\ At(W, KERNEL, v, i).addr = KernelPD)
  <2>1. CASE i = 0 \/ i = 1
    BY <1>4, <2>1 DEF Kernels
  <2>2. CASE i = 2 \/ i = 3
    BY <1>4, <1>6, <2>2, EmptyEntry
  <2> QED  BY <1>5, <2>1, <2>2
<1>7. Tree(W, Owners, F, zero_page)
  <2>1. ASSUME NEW v \in PagesOf(KERNEL), NEW i \in 0 .. 3, At(W, KERNEL, v, i).present
        PROVE  At(W, KERNEL, v, i).addr \in Home(KERNEL, i, F, zero_page)
    BY <1>6, <2>1 DEF Home
  <2>2. ASSUME NEW v \in PagesOf(KERNEL), NEW w \in PagesOf(KERNEL), NEW i \in 0 .. 3, NEW j \in 0 .. 3,
               At(W, KERNEL, v, i).present, At(W, KERNEL, w, j).present,
               At(W, KERNEL, v, i).addr = At(W, KERNEL, w, j).addr
        PROVE  i = j /\ SamePath(v, w, i)
    <3>1. i = j /\ i \in {0, 1}
      BY <1>6, <2>2, TableNames
    <3>2. SamePath(v, w, 0) /\ SamePath(v, w, 1)
      <4>1. 1 \in 1 .. 3 /\ 1 - 1 = 0 /\ 1 + 1 = 2
        OBVIOUS
      <4>2. v[2] = w[2]
        BY <1>3, PageFacts
      <4> QED  BY <1>3, <4>1, <4>2, PathFacts
    <3> QED  BY <3>1, <3>2
  <2> QED  BY <1>2, <2>1, <2>2 DEF Tree
<1>8. NoLoss(W, Owners, F, zero_page)
  BY <1>1 DEF NoLoss
<1>9. \A i \in 0 .. 2 : i \in 0 .. 3 /\ (i = 0 \/ i = 1 \/ i = 2)
  OBVIOUS
<1>10. RightsOK(W, Owners)
  BY <1>2, <1>4, <1>9, EmptyEntry DEF RightsOK, Kernels
<1>11. ImageOK(T)
  <2>1. \A x \in Idx : T[PDPT][x].present <=> x = KernelIdx
    BY <1>1, EmptyEntry DEF BootRows, Kernels
  <2>2. \A p \in 0 .. (End - 1) : ImageLeaf(T[End][p], p)
    <3> TAKE p \in 0 .. (End - 1)
    <3>1. CASE p = 0 \/ p = 1
      BY <1>1, <3>1, OpenedLeaf DEF BootRows
    <3>2. CASE p # 0 /\ p # 1
      <4>1. p \in 2 .. (End - 1)
        BY <3>2, Sizes
      <4> QED  BY <1>1, <4>1 DEF BootRows, Section, ImageLeaf
    <3> QED  BY <3>1, <3>2
  <2> QED  BY <1>1, <2>1, <2>2 DEF ImageOK, BootRows, Kernels, Spine
<1>12. CountsOK(T, W, Owners)
  <2>1. Count(T[PDPT]) = 1
    <3>1. {x \in Idx : T[PDPT][x].present} = {KernelIdx}
      BY <1>11, Sizes DEF ImageOK
    <3> QED  BY <3>1, FS_Singleton DEF Count
  <2>2. Count(T[KernelPD]) = 1
    <3>1. {x \in Idx : T[KernelPD][x].present} = {0}
      <4>1. T[KernelPD][0].present /\ \A x \in Idx \ {0} : ~T[KernelPD][x].present
        BY <1>1, EmptyEntry DEF BootRows, Kernels
      <4> QED  BY <4>1, Sizes
    <3> QED  BY <3>1, FS_Singleton DEF Count
  <2>3. ASSUME NEW v \in PagesOf(KERNEL), NEW i \in 0 .. 2, At(W, KERNEL, v, i).present
        PROVE  At(W, KERNEL, v, i).cnt = Count(T[At(W, KERNEL, v, i).addr])
    BY <1>4, <1>9, <2>1, <2>2, <2>3, EmptyEntry DEF Kernels
  <2> QED  BY <1>2, <2>3 DEF CountsOK
<1>13. Sound(mm, {})
  BY <1>1, <1>7, <1>8, <1>10, <1>11, <1>12 DEF Sound, Shape, Forest, T, W, F
<1>14. LeavesOK(W, Owners, asked, zero_page)
  BY <1>1, <1>2, <1>3, <1>4 DEF LeavesOK, LeafOK
<1>15. DataOK(W, Owners, data, zero_page)
  BY <1>1, <1>2, <1>4, EmptyEntry DEF DataOK
<1>16. LoadedOK
  BY <1>1 DEF LoadedOK, Everyone
<1> QED  BY <1>13, <1>14, <1>15, <1>16 DEF Live, W

LEMMA VirtualMemoryKeeps ==
    ASSUME IInv, initialize_virtual_memory
    PROVE  IInv'
<1>1. /\ TypeOK /\ Fresh /\ FrameRows(mm.table) /\ zero_page' = Head(mm.pool) /\ phase' = "memory"
      /\ UNCHANGED <<memory, building, current, data, asked>>
  BY DEF IInv, initialize_virtual_memory
<1>2. mm' \in MmType /\ mm'.pool = Tail(mm.pool) /\ BootRows(mm'.table)
  BY <1>1, BootTables
<1>3. /\ mm.pool = [k \in 1 .. NFrames |-> FirstFrame + k - 1] /\ mm.pool \in Seq(Frames)
      /\ NFrames \in Nat /\ NFrames > 0 /\ FirstFrame \in Nat
  BY <1>1, TableNames, Sizes DEF Fresh, TypeOK
<1>4. Len(mm.pool) = NFrames /\ mm.pool # <<>>
  <2>1. Len(mm.pool) = NFrames
    BY <1>3
  <2>2. Len(<<>>) = 0
    OBVIOUS
  <2> QED  BY <1>3, <2>1, <2>2
<1>5. \A j, k \in 1 .. Len(mm.pool) : mm.pool[j] = mm.pool[k] => j = k
  BY <1>3, <1>4
<1>6. Range(mm.pool) = Frames
  <2>1. \A f \in Frames : f - FirstFrame + 1 \in 1 .. NFrames /\ mm.pool[f - FirstFrame + 1] = f
    BY <1>3 DEF Frames
  <2>2. \A k \in 1 .. NFrames : mm.pool[k] \in Frames
    BY <1>3 DEF Frames
  <2>3. DOMAIN mm.pool = 1 .. NFrames
    BY <1>3
  <2> QED  BY <2>1, <2>2, <2>3 DEF Range
<1>7. /\ Head(mm.pool) \in Frames /\ Range(Tail(mm.pool)) = Frames \ {Head(mm.pool)}
      /\ PoolOK(Tail(mm.pool), {})
  BY <1>3, <1>4, <1>5, <1>6, HeadTail DEF PoolOK
<1>8. TypeOK'
  BY <1>1, <1>2, <1>7 DEF TypeOK, MmType, TableSet
<1>9. Booted'
  BY <1>1, <1>2, <1>7, <1>8 DEF Booted, Fresh
<1>10. Live'
  BY <1>9, BootLive, PTL
<1> QED  BY <1>1, <1>8, <1>10 DEF IInv, Fresh
-----------------------------------------------------------------------------
LEMMA StutterKeeps ==
    ASSUME IInv, UNCHANGED vars
    PROVE  IInv'
<1>1. /\ mm' = mm /\ phase' = phase /\ zero_page' = zero_page /\ memory' = memory
      /\ building' = building /\ current' = current /\ data' = data /\ asked' = asked
  BY DEF vars
<1>2. TypeOK'
  BY <1>1 DEF IInv, TypeOK
<1>3. Fresh => Fresh'
  BY <1>1 DEF Fresh
<1>5. Live => Live'
  <2> SUFFICES ASSUME Live PROVE Live'
    OBVIOUS
  <2>1. Owners' = Owners /\ Made' = Made /\ Map(mm)' = Map(mm) /\ Sound(mm, {})'
    BY <1>1, Transfer DEF Live
  <2>2. LeavesOK(Map(mm), Owners, asked, zero_page)' /\ DataOK(Map(mm), Owners, data, zero_page)'
    BY <1>1, <2>1 DEF Live
  <2>3. LoadedOK'
    BY <1>1, <2>1 DEF Live, LoadedOK
  <2> QED  BY <2>1, <2>2, <2>3 DEF Live
<1> QED  BY <1>1, <1>2, <1>3, <1>5 DEF IInv

LEMMA InitInvariant == Init => IInv
<1> SUFFICES ASSUME Init PROVE IInv
  OBVIOUS
<1>1. 0 \in Addresses /\ 0 \in 0 .. (CountMax - 1) /\ FirstFrame \in Nat /\ NFrames \in Nat
  BY Sizes, TableNames DEF Addresses, CountMax
<1>2. PresentRW(0) \in EntryType /\ Empty \in EntryType
  BY <1>1, PresentIs, EmptyEntry DEF Kernels
<1>3. mm \in [table : [Tables -> [Idx -> EntryType]], pool : Seq(Frames)]
  <2>1. [k \in 1 .. NFrames |-> FirstFrame + k - 1] \in Seq(Frames)
    BY <1>1 DEF Frames
  <2>2. [t \in Tables |-> [x \in Idx |-> IF t = IdentityPD THEN PresentRW(0) ELSE Empty]]
           \in [Tables -> [Idx -> EntryType]]
    BY <1>2
  <2> QED  BY <2>1, <2>2 DEF Init
<1>4. TypeOK
  BY <1>3 DEF Init, TypeOK
<1>5. Fresh
  BY DEF Init, Fresh, Everyone
<1> QED  BY <1>4, <1>5 DEF Init, IInv

\* The kernel half and all address spaces are sound from the start on, as long
\* as pages are mapped, written and faulted in; every step of the code keeps
\* them so.
THEOREM Soundness == MapSpec => []IInv
<1>1. IInv /\ [MapNext]_vars => IInv'
  <2> SUFFICES ASSUME IInv, [MapNext]_vars PROVE IInv'
    OBVIOUS
  <2>1. CASE initialize_paging
    BY <2>1, PagingKeeps
  <2>2. CASE initialize_virtual_memory
    BY <2>2, VirtualMemoryKeeps
  <2>3. CASE initialize_kernel_heap
    BY <2>3, KernelHeapKeeps
  <2>4. ASSUME NEW s \in Spaces, new_address_space(s)
        PROVE  IInv'
    BY <2>4, NewSpaceKeeps
  <2>5. ASSUME NEW s \in Spaces, set_address_space(s)
        PROVE  IInv'
    BY <2>5, SetSpaceKeeps
  <2>6. ASSUME NEW v \in UserPages, NEW flags \in Flags, map_range(v, flags)
        PROVE  IInv'
    BY <2>6, MapRangeKeeps
  <2>7. ASSUME NEW v \in VPages, Write(v)
        PROVE  IInv'
    BY <2>7, WriteKeeps
  <2>8. ASSUME NEW v \in VPages, page_fault_handler(v)
        PROVE  IInv'
    BY <2>8, PageFaultKeeps
  <2>9. CASE KeepMemory
    BY <2>9, KeepMemoryKeeps
  <2>10. CASE initialize_frame_allocation
    BY <2>10, FrameAllocationKeeps
  <2>11. CASE UNCHANGED vars
    BY <2>11, StutterKeeps
  <2> QED  BY <2>1, <2>2, <2>3, <2>4, <2>5, <2>6, <2>7, <2>8, <2>9, <2>10, <2>11 DEF MapNext
<1> QED  BY <1>1, InitInvariant, PTL DEF MapSpec

\* TypeOK in every run that maps: no entry outgrows its fields, the pool holds
\* frames only.
THEOREM TypeCorrect == MapSpec => []TypeOK
<1>1. IInv => TypeOK
  BY DEF IInv
<1> QED  BY <1>1, Soundness, PTL
-----------------------------------------------------------------------------
\* What the address spaces of the properties are: the walks of the invariant.
LEMMA SpaceEntry ==
    ASSUME IInv, phase = "up", NEW s \in Owners, NEW v \in PagesOf(s), NEW i \in 0 .. 3
    PROVE  Entry(Space(s), v, i) = At(Map(mm), s, v, i)
<1>1. /\ TypeOK /\ mm \in MmType /\ zero_page \in Frames
      /\ Tree(Map(mm), Owners, Range(mm.pool) \cup {}, zero_page)
  BY AddressSpaceFacts
<1>2. CASE s \in {building, KERNEL}
  <2>1. building # NULL \/ s = KERNEL
    BY <1>1, <1>2, OwnerFacts
  <2>2. Loaded(mm, s)
    BY <1>1, <1>2, <2>1, OwnerFacts
  <2> QED  BY <1>1, <1>2, <2>2, LoadedEntry DEF Space
<1>3. CASE s \notin {building, KERNEL}
  <2> DEFINE n == [mm EXCEPT !.table[PML4][0] = memory[s]]
  <2>1. memory[s] \in EntryType /\ s \in Everyone
    BY <1>1, <1>3, OwnerFacts
  <2>2. UserSet(n, mm, memory[s])
    BY <1>1, <2>1, UserEntry
  <2>3. Space(s) = n
    BY <1>3 DEF Space
  <2> HIDE DEF n
  <2>4. v[1] = 0 /\ n.table[PML4][v[1]] = memory[s]
    BY <1>3, <2>1, <2>2, PageFacts DEF UserSet
  <2>5. Entry(n, v, i) = Walk(n.table, memory[s], v, i)
    BY <2>4, EntryIsWalk
  <2> DEFINE R == [t \in {s} |-> memory[s]]
  <2>6. At(Walks(n.table, R), s, v, i) = Walk(n.table, memory[s], v, i)
    BY DEF Walks, At
  <2>7. R[s] = Tops(mm)[s] /\ s \in DOMAIN R
    BY <1>3 DEF Tops
  <2>8. \A t \in Tables \ {PML4} : n.table[t] = mm.table[t]
    BY <2>2 DEF UserSet
  <2> HIDE DEF R
  <2>9. At(Walks(n.table, R), s, v, i) = At(Map(mm), s, v, i)
    BY <1>1, <2>7, <2>8, SwitchWalks
  <2> QED  BY <2>3, <2>5, <2>6, <2>9
<1> QED  BY <1>2, <1>3

\* The present entries of all spaces, in the words of the properties.
Used(s, v, i) == [space |-> s, level |-> i, path |-> SubSeq(v, 1, i + 1), entry |-> At(Map(mm), s, v, i)]

LEMMA InUseIs ==
    ASSUME IInv, phase = "up"
    PROVE  /\ \A u \in InUse : \E s \in Owners : \E v \in PagesOf(s) : \E i \in 0 .. 3 :
                 u = Used(s, v, i) /\ At(Map(mm), s, v, i).present
           /\ \A s \in Owners : \A v \in PagesOf(s) : \A i \in 0 .. 3 :
                 At(Map(mm), s, v, i).present => Used(s, v, i) \in InUse
<1>1. \A s \in Owners : \A v \in PagesOf(s) : \A i \in 0 .. 3 : Entry(Space(s), v, i) = At(Map(mm), s, v, i)
  BY SpaceEntry
<1>2. /\ KERNEL \in Owners /\ PagesOf(KERNEL) = VPages \ UserPages
      /\ \A s \in Made : s \in Owners /\ PagesOf(s) = UserPages
      /\ \A s \in Owners : s = KERNEL \/ s \in Made
  <2>1. \A s \in Made : s # KERNEL
    BY PagesAssumption DEF Made
  <2> QED  BY <2>1, PageFacts DEF Owners, PagesOf
<1>3. \A s \in Owners : \A u : u \in Uses(s, PagesOf(s)) <=>
         \E v \in PagesOf(s) : \E i \in 0 .. 3 : u = Used(s, v, i)
  BY <1>1 DEF Uses, Used
<1>4. \A u : u \in InUse <=> u.entry.present /\ \E s \in Owners : u \in Uses(s, PagesOf(s))
  <2>1. \A u : u \in Uses(KERNEL, VPages \ UserPages) \cup UNION {Uses(s, UserPages) : s \in Made}
              <=> \E s \in Owners : u \in Uses(s, PagesOf(s))
    BY <1>2
  <2> QED  BY <2>1 DEF InUse
<1>5. \A s, v, i : Used(s, v, i).entry = At(Map(mm), s, v, i)
  BY DEF Used
<1>6. ASSUME NEW u \in InUse
      PROVE  \E s \in Owners : \E v \in PagesOf(s) : \E i \in 0 .. 3 :
                u = Used(s, v, i) /\ At(Map(mm), s, v, i).present
  <2>1. PICK s \in Owners : u \in Uses(s, PagesOf(s))
    BY <1>4
  <2>2. PICK v \in PagesOf(s), i \in 0 .. 3 : u = Used(s, v, i)
    BY <1>3, <2>1
  <2>3. u.entry.present /\ u.entry = At(Map(mm), s, v, i)
    BY <1>4, <1>5, <2>2
  <2> QED  BY <2>2, <2>3
<1>7. ASSUME NEW s \in Owners, NEW v \in PagesOf(s), NEW i \in 0 .. 3, At(Map(mm), s, v, i).present
      PROVE  Used(s, v, i) \in InUse
  <2>1. Used(s, v, i) \in Uses(s, PagesOf(s))
    BY <1>3
  <2> QED  BY <1>4, <1>5, <1>7, <2>1
<1> QED  BY <1>6, <1>7

\* Equal addresses come from the same entry.
LEMMA UsedOnce ==
    ASSUME IInv, phase = "up", NEW u \in InUse, NEW x \in InUse,
           u.entry.addr = x.entry.addr, u.entry.addr # zero_page
    PROVE  u = x
<1>1. PICK s \in Owners : \E v \in PagesOf(s) : \E i \in 0 .. 3 :
         u = Used(s, v, i) /\ At(Map(mm), s, v, i).present
  BY InUseIs
<1>2. PICK v \in PagesOf(s), i \in 0 .. 3 : u = Used(s, v, i) /\ At(Map(mm), s, v, i).present
  BY <1>1
<1>3. PICK t \in Owners : \E w \in PagesOf(t) : \E j \in 0 .. 3 :
         x = Used(t, w, j) /\ At(Map(mm), t, w, j).present
  BY InUseIs
<1>4. PICK w \in PagesOf(t), j \in 0 .. 3 : x = Used(t, w, j) /\ At(Map(mm), t, w, j).present
  BY <1>3
<1>5. /\ TypeOK /\ Tree(Map(mm), Owners, Range(mm.pool) \cup {}, zero_page)
  BY AddressSpaceFacts
<1>6. u.entry = At(Map(mm), s, v, i) /\ x.entry = At(Map(mm), t, w, j)
  BY <1>2, <1>4 DEF Used
<1>7. s = t /\ i = j /\ SamePath(v, w, i)
  <2>1. At(Map(mm), s, v, i).addr = At(Map(mm), t, w, j).addr /\ At(Map(mm), s, v, i).addr # zero_page
    BY <1>6
  <2> QED  BY <1>2, <1>4, <1>5, <2>1 DEF Tree
<1>8. At(Map(mm), s, w, i) = At(Map(mm), s, v, i)
  BY <1>5, <1>7, MapPath
<1>9. SubSeq(v, 1, i + 1) = SubSeq(w, 1, i + 1)
  <2>1. s \in Everyone
    BY <1>5, OwnerFacts
  <2>2. /\ \A k \in 1 .. (i + 1) : v[k] = w[k]
        /\ \A k \in 1 .. (i + 1) : v[k] \in Idx /\ w[k] \in Idx
    <3>1. \A k \in 1 .. (i + 1) : k = 1 \/ k = 2 \/ k = 3 \/ k = 4
      OBVIOUS
    <3> QED  BY <1>7, <2>1, <3>1, PageFacts DEF SamePath
  <2>3. 1 \in Int /\ i + 1 \in Int /\ 1 <= i + 1 /\ i + 1 - 1 + 1 = i + 1
    OBVIOUS
  <2> DEFINE p == SubSeq(v, 1, i + 1)
             q == SubSeq(w, 1, i + 1)
  <2>4. /\ p \in Seq(Idx) /\ Len(p) = i + 1 - 1 + 1
        /\ \A k \in 1 .. (i + 1 - 1 + 1) : p[k] = v[1 + k - 1]
    BY <2>2, <2>3, SubSeqProperties
  <2>5. /\ q \in Seq(Idx) /\ Len(q) = i + 1 - 1 + 1
        /\ \A k \in 1 .. (i + 1 - 1 + 1) : q[k] = w[1 + k - 1]
    BY <2>2, <2>3, SubSeqProperties
  <2>6. \A k \in 1 .. (i + 1) : 1 + k - 1 = k
    OBVIOUS
  <2> HIDE DEF p, q
  <2>7. Len(p) = i + 1 /\ Len(q) = i + 1 /\ \A k \in 1 .. (i + 1) : p[k] = q[k]
    BY <2>2, <2>3, <2>4, <2>5, <2>6
  <2>8. p = q
    BY <2>4, <2>5, <2>7, SeqEqual
  <2> QED  BY <2>8 DEF p, q
<1> QED  BY <1>2, <1>4, <1>7, <1>8, <1>9 DEF Used

LEMMA OneOwnerHolds == IInv => OneOwner
<1> SUFFICES ASSUME IInv, phase = "up" PROVE OneOwner
  BY DEF OneOwner
<1> DEFINE F == Range(mm.pool) \cup {}
           W == Map(mm)
           own == {u \in InUse : u.entry.addr \in Frames \ {zero_page}}
           A == {u.entry.addr : u \in own}
<1>1. /\ TypeOK /\ zero_page \in Frames /\ zero_page \notin Range(mm.pool)
      /\ Tree(W, Owners, F, zero_page) /\ NoLoss(W, Owners, F, zero_page)
  BY DEF IInv, Live, Sound, Shape, Forest
<1>2. ASSUME NEW u \in InUse
      PROVE  /\ u.entry.addr = zero_page => u.level = 3
             /\ u.entry.addr \in Frames => u.entry.addr \notin Range(mm.pool)
  <2>1. PICK s \in Owners : \E v \in PagesOf(s) : \E i \in 0 .. 3 :
           u = Used(s, v, i) /\ At(W, s, v, i).present
    BY InUseIs
  <2>2. PICK v \in PagesOf(s), i \in 0 .. 3 : u = Used(s, v, i) /\ At(W, s, v, i).present
    BY <2>1
  <2>3. u.entry = At(W, s, v, i) /\ u.level = i
    BY <2>2 DEF Used
  <2>4. /\ i < 3 => At(W, s, v, i).addr # zero_page
        /\ At(W, s, v, i).addr \notin F \cap Frames
    BY <1>1, <2>2, MapAbove
  <2>5. i < 3 \/ i = 3
    OBVIOUS
  <2> QED  BY <2>3, <2>4, <2>5
<1>3. \A u, x \in own : u.entry.addr = x.entry.addr => u = x
  BY UsedOnce
<1>4. Cardinality(A) = Cardinality(own)
  <2> DEFINE f == [u \in own |-> u.entry.addr]
  <2>1. f \in Injection(own, A)
    BY <1>3 DEF Injection, IsInjective
  <2>2. f \in Surjection(own, A)
    BY DEF Surjection
  <2>3. IsFiniteSet(A)
    <3>1. A \in SUBSET Frames
      OBVIOUS
    <3>2. IsFiniteSet(Frames)
      BY TableNames, Sizes, FS_Interval
    <3> HIDE DEF A
    <3> QED  BY <3>1, <3>2, FS_Subset
  <2> HIDE DEF f, A, own
  <2> QED  BY <2>1, <2>2, <2>3, FS_Injection
<1>5. A \cup {zero_page} = Frames \ Range(mm.pool)
  <2>1. A \cup {zero_page} \subseteq Frames \ Range(mm.pool)
    BY <1>1, <1>2
  <2>2. ASSUME NEW g \in Frames \ Range(mm.pool), g # zero_page
        PROVE  g \in A
    <3>1. PICK s \in Owners : \E v \in PagesOf(s) : \E i \in 0 .. 3 :
             At(W, s, v, i).present /\ At(W, s, v, i).addr = g
      BY <1>1, <2>2 DEF NoLoss
    <3>2. PICK v \in PagesOf(s), i \in 0 .. 3 : At(W, s, v, i).present /\ At(W, s, v, i).addr = g
      BY <3>1
    <3>3. Used(s, v, i) \in InUse /\ Used(s, v, i).entry = At(W, s, v, i)
      BY <3>2, InUseIs DEF Used
    <3> QED  BY <2>2, <3>2, <3>3
  <2> QED  BY <2>1, <2>2
<1> HIDE DEF A, own
<1> QED  BY <1>2, <1>4, <1>5 DEF OneOwner, A, own

\* OneOwner for every run: get_frame() and the page tables never give a frame
\* twice, no step of new_address_space(), map_range(), set_address_space() or
\* page_fault_handler() loses one.
THEOREM FramesHaveOneOwner == MapSpec => []OneOwner
  BY OneOwnerHolds, Soundness, PTL

LEMMA PrivateHolds == IInv => Private
<1> SUFFICES ASSUME IInv, phase = "up"
             PROVE  /\ data[zero_page] = NULL
                    /\ \A u \in InUse : u.level = 3 /\ u.entry.addr \in Frames =>
                          data[u.entry.addr] \in {NULL, u.space}
  BY DEF Private
<1>1. DataOK(Map(mm), Owners, data, zero_page)
  BY DEF IInv, Live
<1>2. ASSUME NEW u \in InUse, u.level = 3
      PROVE  data[u.entry.addr] \in {NULL, u.space}
  <2>1. PICK s \in Owners : \E v \in PagesOf(s) : \E i \in 0 .. 3 :
           u = Used(s, v, i) /\ At(Map(mm), s, v, i).present
    BY InUseIs
  <2>2. PICK v \in PagesOf(s), i \in 0 .. 3 : u = Used(s, v, i) /\ At(Map(mm), s, v, i).present
    BY <2>1
  <2>3. u.entry = At(Map(mm), s, v, i) /\ u.level = i /\ u.space = s
    BY <2>2 DEF Used
  <2> QED  BY <1>1, <1>2, <2>2, <2>3 DEF DataOK
<1> QED  BY <1>1, <1>2 DEF DataOK

\* Private for every run: copying lazily from the one zero page never lets a
\* task see what another one wrote.
THEOREM PagesArePrivate == MapSpec => []Private
  BY PrivateHolds, Soundness, PTL

LEMMA CountsHold == IInv => CountsExact
<1> SUFFICES ASSUME IInv, phase = "up", NEW u \in InUse, u.level < 3
             PROVE  Counted(u.entry)
  BY DEF CountsExact
<1>1. CountsOK(mm.table, Map(mm), Owners)
  BY DEF IInv, Live, Sound
<1>2. PICK s \in Owners : \E v \in PagesOf(s) : \E i \in 0 .. 3 :
         u = Used(s, v, i) /\ At(Map(mm), s, v, i).present
  BY InUseIs
<1>3. PICK v \in PagesOf(s), i \in 0 .. 3 : u = Used(s, v, i) /\ At(Map(mm), s, v, i).present
  BY <1>2
<1>4. u.entry = At(Map(mm), s, v, i) /\ u.level = i
  BY <1>3 DEF Used
<1>5. i \in 0 .. 2
  BY <1>4
<1>6. At(Map(mm), s, v, i).cnt = Count(mm.table[At(Map(mm), s, v, i).addr])
  BY <1>1, <1>3, <1>5 DEF CountsOK
<1> QED  BY <1>4, <1>6 DEF Counted, Count

\* CountsExact for every run: ensure_pt_exists(), map_page() and
\* increase_counter() leave in each entry the number of present entries below.
THEOREM CountsAreExact == MapSpec => []CountsExact
  BY CountsHold, Soundness, PTL

LEMMA RightsHold == IInv => RightsKept
<1> SUFFICES ASSUME IInv, phase = "up", NEW s \in Made \cup {KERNEL}, NEW v \in VPages,
                    asked[s][v] # NULL
             PROVE  LET flags == asked[s][v]
                        r == Rights(Space(s), v)
                        e == Entry(Space(s), v, 3)
                    IN  /\ e.present
                        /\ r.user = flags.user /\ r.nx = ~flags.exe
                        /\ (r.rw \/ e.lazy) = flags.rw
                        /\ flags.rw /\ ~flags.immediate => (e.lazy <=> e.addr = zero_page)
  BY DEF RightsKept
<1> DEFINE W == Map(mm)
           flags == asked[s][v]
           r == Rights(Space(s), v)
           e == At(W, s, v, 3)
<1>1. /\ TypeOK /\ LoadedOK /\ mm \in MmType /\ zero_page \in Frames
      /\ Tree(W, Owners, Range(mm.pool) \cup {}, zero_page)
  BY AddressSpaceFacts
<1>2. RightsOK(W, Owners) /\ LeavesOK(W, Owners, asked, zero_page)
  BY DEF IInv, Live, Sound, Shape
<1>3. s \in Owners /\ s \in Everyone /\ v \in PagesOf(s)
  <2>1. s \in Owners /\ s \in Everyone
    BY <1>1, OwnerFacts DEF Owners
  <2> QED  BY <1>1, <2>1 DEF LoadedOK
<1>4. \A i \in 0 .. 3 : Entry(Space(s), v, i) = At(W, s, v, i) /\ At(W, s, v, i) \in EntryType
  BY <1>1, <1>3, SpaceEntry, MapTypes
<1>5. flags \in [rw : BOOLEAN, exe : BOOLEAN, user : BOOLEAN, immediate : BOOLEAN]
  <2>1. asked \in [Everyone -> [VPages -> AllFlags \cup {NULL}]]
    BY <1>1 DEF TypeOK, Everyone, AllFlags
  <2>2. flags \in AllFlags
    BY <1>3, <2>1
  <2>3. BitmapFlags \in [rw : BOOLEAN, exe : BOOLEAN, user : BOOLEAN, immediate : BOOLEAN]
    BY DEF BitmapFlags
  <2>4. HeapFlags \in [rw : BOOLEAN, exe : BOOLEAN, user : BOOLEAN, immediate : BOOLEAN]
    BY <2>3 DEF HeapFlags
  <2> HIDE DEF flags
  <2> QED  BY <2>2, <2>3, <2>4, PagesAssumption DEF AllFlags
<1>6. flags # NULL /\ LeafOK(e, flags, zero_page) /\ e \in EntryType
  BY <1>2, <1>3, <1>4 DEF LeavesOK
<1>7. s = KERNEL => ~flags.user
  BY <1>1 DEF LoadedOK
<1> HIDE DEF flags, e
<1>8. e.present
  BY <1>6 DEF LeafOK
<1>9. \A i \in 0 .. 2 : At(W, s, v, i).present
  <2>1. 3 \in 1 .. 3 /\ 2 \in 1 .. 3 /\ 1 \in 1 .. 3 /\ 3 - 1 = 2 /\ 2 - 1 = 1 /\ 1 - 1 = 0
    OBVIOUS
  <2>2. At(W, s, v, 2).present
    BY <1>1, <1>3, <1>8, <2>1, ParentPresent DEF e
  <2>3. At(W, s, v, 1).present
    BY <1>1, <1>3, <2>1, <2>2, ParentPresent
  <2>4. At(W, s, v, 0).present
    BY <1>1, <1>3, <2>1, <2>3, ParentPresent
  <2>5. \A i \in 0 .. 2 : i = 0 \/ i = 1 \/ i = 2
    OBVIOUS
  <2> QED  BY <2>2, <2>3, <2>4, <2>5
<1>10. /\ \A i \in 0 .. 2 : At(W, s, v, i).rw /\ ~At(W, s, v, i).nx
       /\ s # KERNEL => \A i \in 0 .. 2 : At(W, s, v, i).user
       /\ s = KERNEL => ~At(W, s, v, 0).user
  BY <1>2, <1>3, <1>9 DEF RightsOK
<1>11. /\ \A i \in 0 .. 3 : i = 3 \/ i \in 0 .. 2
       /\ 3 \in 0 .. 3 /\ 0 \in 0 .. 3
  OBVIOUS
<1>12. r.rw = e.rw
  <2>1. r.rw = \A i \in 0 .. 3 : At(W, s, v, i).rw
    BY <1>4 DEF Rights
  <2>2. e.rw \in BOOLEAN
    BY <1>6 DEF EntryType
  <2>3. (\A i \in 0 .. 3 : At(W, s, v, i).rw) <=> e.rw
    BY <1>10, <1>11 DEF e
  <2> QED  BY <2>1, <2>2, <2>3
<1>13. r.nx = e.nx
  <2>1. r.nx = \E i \in 0 .. 3 : At(W, s, v, i).nx
    BY <1>4 DEF Rights
  <2>2. e.nx \in BOOLEAN
    BY <1>6 DEF EntryType
  <2>3. (\E i \in 0 .. 3 : At(W, s, v, i).nx) <=> e.nx
    BY <1>10, <1>11 DEF e
  <2> QED  BY <2>1, <2>2, <2>3
<1>14. r.user = flags.user
  <2>1. r.user = \A i \in 0 .. 3 : At(W, s, v, i).user
    BY <1>4 DEF Rights
  <2>2. flags.user \in BOOLEAN /\ e.user = flags.user
    BY <1>5, <1>6 DEF LeafOK
  <2>3. (\A i \in 0 .. 3 : At(W, s, v, i).user) <=> flags.user
    BY <1>7, <1>10, <1>11, <2>2 DEF e
  <2> QED  BY <2>1, <2>2, <2>3
<1>15. /\ e.nx = ~flags.exe /\ (e.rw \/ e.lazy) = flags.rw
       /\ flags.rw /\ ~flags.immediate => (e.lazy <=> e.addr = zero_page)
  <2>1. /\ flags.rw \in BOOLEAN /\ flags.immediate \in BOOLEAN /\ e.rw \in BOOLEAN
        /\ e.lazy \in BOOLEAN
    BY <1>5, <1>6 DEF EntryType
  <2> QED  BY <1>6, <2>1 DEF LeafOK
<1> HIDE DEF r
<1>16. (r.rw \/ e.lazy) = flags.rw /\ r.nx = ~flags.exe
  BY <1>12, <1>13, <1>15
<1>17. Entry(Space(s), v, 3) = e
  BY <1>4, <1>11 DEF e
<1> QED  BY <1>8, <1>14, <1>15, <1>16, <1>17 DEF r, flags

\* RightsKept for every run: convert_flags(), the flags of new tables and
\* page_fault_handler() together give each page what MAP_* asked for.
THEOREM RightsAreKept == MapSpec => []RightsKept
  BY RightsHold, Soundness, PTL

\* What the paging of the image needs, also before the identity mapping goes.
ImagePath(T) ==
    /\ Spine(T[PML4][High], PDPT) /\ Spine(T[PDPT][KernelIdx], KernelPD) /\ Spine(T[KernelPD][0], End)
    /\ \A p \in 0 .. (End - 1) : ImageLeaf(T[End][p], p)

LEMMA ImageEntries ==
    ASSUME NEW m, ImagePath(m.table), NEW p \in 0 .. (End - 1)
    PROVE  /\ Entry(m, Image(p), 3) = m.table[End][p]
           /\ \A i \in 0 .. 2 : Entry(m, Image(p), i).rw /\ ~Entry(m, Image(p), i).user
                                /\ ~Entry(m, Image(p), i).nx
<1> DEFINE v == Image(p)
           T == m.table
           r == T[PML4][v[1]]
           w1 == T[PDPT][KernelIdx]
           w2 == T[KernelPD][0]
<1>1. v[1] = High /\ v[2] = KernelIdx /\ v[3] = 0 /\ v[4] = p
  BY Sizes DEF Image
<1>2. r = T[PML4][High]
  BY <1>1
<1> HIDE DEF r, v
<1>3. Below(T, r, KernelIdx) = w1 /\ Below(T, w1, 0) = w2 /\ Below(T, w2, p) = T[End][p]
  <2>1. Below(T, r, KernelIdx) = w1
    BY <1>2 DEF Below, ImagePath, Spine
  <2>2. Below(T, w1, 0) = w2
    BY DEF Below, ImagePath, Spine
  <2>3. Below(T, w2, p) = T[End][p]
    BY DEF Below, ImagePath, Spine
  <2> QED  BY <2>1, <2>2, <2>3
<1> HIDE DEF w1, w2
<1>4. /\ Walk(T, r, v, 0) = r /\ Walk(T, r, v, 1) = w1 /\ Walk(T, r, v, 2) = w2
      /\ Walk(T, r, v, 3) = T[End][p]
  BY <1>1, <1>3 DEF Walk
<1>5. \A i \in 0 .. 3 : Entry(m, v, i) = Walk(T, r, v, i)
  BY EntryIsWalk DEF r
<1>6. /\ r.rw /\ ~r.user /\ ~r.nx /\ w1.rw /\ ~w1.user /\ ~w1.nx /\ w2.rw /\ ~w2.user /\ ~w2.nx
  BY <1>2 DEF ImagePath, Spine, w1, w2
<1>7. /\ \A i \in 0 .. 2 : i \in 0 .. 3 /\ (i = 0 \/ i = 1 \/ i = 2)
      /\ 3 \in 0 .. 3
  OBVIOUS
<1> QED  BY <1>4, <1>5, <1>6, <1>7 DEF v

LEMMA ImageHolds == IInv => ImageMapped
<1> SUFFICES ASSUME IInv PROVE ImageMapped
  OBVIOUS
<1>1. phase # "start" => ImagePath(mm.table)
  <2>1. CASE phase = "paging"
    <3>1. FirstRows(mm.table)
      BY <2>1 DEF IInv
    <3> QED  BY <3>1 DEF FirstRows, UpperRows, Kernels, Section, ImageLeaf, ImagePath, Spine
  <2>3. CASE phase = "frames"
    <3>1. FrameRows(mm.table)
      BY <2>3 DEF IInv
    <3>2. ASSUME NEW p \in 0 .. (End - 1)  PROVE ImageLeaf(mm.table[End][p], p)
      <4>1. CASE p = 0
        BY <3>1, <4>1, OpenedLeaf DEF FrameRows
      <4>2. CASE p # 0
        <5>1. p \in 1 .. (End - 1)
          BY <4>2, Sizes
        <5> QED  BY <3>1, <5>1 DEF FrameRows, Section, ImageLeaf
      <4> QED  BY <4>1, <4>2
    <3> QED  BY <3>1, <3>2 DEF FrameRows, UpperRows, Kernels, ImagePath, Spine
  <2>2. CASE phase \in {"memory", "up", "halt"}
    <3>1. ImageOK(mm.table)
      BY <2>2 DEF IInv, Live, Sound, Shape
    <3> QED  BY <3>1 DEF ImageOK, ImagePath
  <2> QED  BY <2>1, <2>2, <2>3 DEF IInv, TypeOK
<1>2. ASSUME phase # "start", NEW p \in 0 .. (End - 1)
      PROVE  LET r == Rights(mm, Image(p))
             IN  /\ Present(mm, Image(p), 3)
                 /\ r.rw = (p < Text \/ p >= Data) /\ ~r.user
                 /\ p > 1 => /\ Entry(mm, Image(p), 3).addr = p
                             /\ r.nx = ~ (Text <= p /\ p < Rodata)
  <2> DEFINE v == Image(p)
             e == mm.table[End][p]
             r == Rights(mm, v)
             rw == p < Text \/ p >= Data
             nx == ~ (Text <= p /\ p < Rodata)
  <2>1. /\ Entry(mm, v, 3) = e
        /\ \A i \in 0 .. 2 : Entry(mm, v, i).rw /\ ~Entry(mm, v, i).user /\ ~Entry(mm, v, i).nx
    BY <1>1, <1>2, ImageEntries
  <2>2. e.present /\ e.rw = rw /\ ~e.user /\ (p > 1 => e.addr = p /\ e.nx = nx)
    BY <1>1, <1>2 DEF ImagePath, ImageLeaf
  <2>4. rw \in BOOLEAN /\ nx \in BOOLEAN
    OBVIOUS
  <2> HIDE DEF v, e, rw, nx
  <2>5. /\ \A i \in 0 .. 3 : i = 3 \/ i \in 0 .. 2
        /\ 3 \in 0 .. 3 /\ 0 \in 0 .. 2 /\ 0 \in 0 .. 3
    OBVIOUS
  <2>6. r.rw = rw
    <3>1. (\A i \in 0 .. 3 : Entry(mm, v, i).rw) <=> rw
      BY <2>1, <2>2, <2>5
    <3> QED  BY <2>4, <3>1 DEF Rights
  <2>7. ~r.user
    BY <2>1, <2>5 DEF Rights
  <2>8. p > 1 => r.nx = nx
    <3>1. p > 1 => ((\E i \in 0 .. 3 : Entry(mm, v, i).nx) <=> nx)
      BY <2>1, <2>2, <2>5
    <3> QED  BY <2>4, <3>1 DEF Rights
  <2> QED  BY <2>1, <2>2, <2>6, <2>7, <2>8 DEF v, rw, nx, Present
<1>3. ASSUME phase = "up", NEW x \in Idx
      PROVE  Present(mm, <<High, x, 0, 0>>, 1) <=> x = KernelIdx
  <2> DEFINE v == <<High, x, 0, 0>>
  <2>1. ImageOK(mm.table)
    BY <1>3 DEF IInv, Live, Sound, Shape
  <2>2. Entry(mm, v, 1) = Walk(mm.table, mm.table[PML4][v[1]], v, 1)
    BY EntryIsWalk
  <2>3. Walk(mm.table, mm.table[PML4][v[1]], v, 1) = Below(mm.table, mm.table[PML4][High], x)
    BY DEF Walk
  <2>4. Below(mm.table, mm.table[PML4][High], x) = mm.table[PDPT][x]
    BY <2>1 DEF ImageOK, Spine, Below
  <2> QED  BY <2>1, <2>2, <2>3, <2>4 DEF Present, ImageOK
<1> QED  BY <1>2, <1>3 DEF ImageMapped

\* ImageMapped for every run: the sections keep the rights that
\* initialize_paging() gave them and the identity mapping stays gone.
THEOREM ImageStaysMapped == MapSpec => []ImageMapped
  BY ImageHolds, Soundness, PTL
=============================================================================
