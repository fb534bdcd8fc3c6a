-------------------------------- MODULE Pages --------------------------------
(***************************************************************************)
(* Virtual memory: the first page tables of arch/x64/paging_init32.c,      *)
(* mm/pages.c, and the address spaces of core/task.c.                      *)
(*                                                                         *)
(* A virtual page is given by its four table indices.  An entry of a table *)
(* keeps, besides address and flags, the reference count of the table it   *)
(* points to.  Physical pages are numbers: the kernel image comes first,   *)
(* then its page tables, then the frames of get_frame(); the tables that   *)
(* lie in the image are named by negative numbers.  `pool' is what         *)
(* FrameAlloc provides: frames returned last come first.                   *)
(*                                                                         *)
(* frame.c looks at frames through the first two pages of the image: page  *)
(* 1 shows the frame handed out last, page 0 the frame that heads the list *)
(* of free ones.  Where the latter points is FrameAlloc's `pte'; here its  *)
(* entry keeps the address that alloc_init() gave it.                      *)
(*                                                                         *)
(* get_frame() answers 0 when the pool is empty and pages.c goes on with   *)
(* frame 0; the model stops there.                                         *)
(***************************************************************************)
EXTENDS Integers, Sequences, FiniteSets, SequencesExt

CONSTANTS Entries,     \* entries of a table (PT_ENTRY_COUNT)
          Text, Rodata, Data, End,  \* first pages of the kernel's sections
          UserPages,   \* virtual pages of user tasks
          BitmapPages, HeapPages,   \* kernel virtual pages, in order
          Flags,       \* the flags tasks are mapped with
          Spaces,      \* user tasks
          KERNEL,      \* who uses the kernel half
          NFrames,     \* frames of the pool
          NULL

Idx == 0 .. (Entries - 1)
PG_SELF == Entries - 2
High == Entries - 1        \* index of the kernel half in the PML4
KernelIdx == Entries - 2   \* index of the kernel in its pdpt

CountMax == 1024           \* PG_REFCOUNT_MASK has ten bits

PML4 == -1
PDPT == -2
KernelPD == -3
IdentityPD == -4

\* Number of tables initialize_paging() needs for n pages.
TablesFor(n) == IF n % Entries # 0 THEN n \div Entries + 1 ELSE n \div Entries

FirstFrame == End + TablesFor(End)
Frames == FirstFrame .. (FirstFrame + NFrames - 1)
Tables == (-4 .. -1) \cup (End .. (FirstFrame - 1)) \cup Frames

\* Virtual pages of the kernel behind its image.
KernelHeap == {High} \X {KernelIdx} \X (TablesFor(End) .. (Entries - 1)) \X Idx
KernelPages == BitmapPages \o HeapPages
VPages == UserPages \cup Range(KernelPages)

\* The page through which frames are cleared (`frame' in zero_frame() and
\* zero_page_v), page 1 of the image.
Window == <<High, KernelIdx, 0, 1>>
Image(p) == <<High, KernelIdx, p \div Entries, p % Entries>>

\* The last conjunct: with a full page table, which kernels up to 2 MiB do not
\* have, the count of the table starts at 0 and boot goes wrong (README).
ASSUME PagesAssumption ==
    /\ Entries \in Nat /\ Entries > 4 /\ Entries < CountMax
    /\ UserPages \subseteq {0} \X Idx \X Idx \X Idx
    /\ BitmapPages \in Seq(KernelHeap) /\ HeapPages \in Seq(KernelHeap)
    /\ Flags \subseteq [rw : BOOLEAN, exe : BOOLEAN, user : BOOLEAN, immediate : BOOLEAN]
    /\ \A j, k \in DOMAIN KernelPages : KernelPages[j] = KernelPages[k] => j = k
    /\ NFrames \in Nat /\ NFrames > 0
    /\ KERNEL \notin Spaces /\ NULL \notin Spaces \cup {KERNEL}
    /\ Text \in Nat /\ Rodata \in Nat /\ Data \in Nat /\ End \in Nat
    /\ 1 < Text /\ Text <= Rodata /\ Rodata <= Data /\ Data <= End
    /\ End < Entries

VARIABLES mm,        \* table (contents of the tables), pool
          phase,     \* of boot: "start", "paging", "frames", "memory", then "up", or "halt"
          zero_page,
          memory,    \* task->memory: the value of PML4[0] kept for each task
          building,  \* the task create_usermode_task() is making, or NULL
          current,   \* the task whose address space is loaded, or NULL
          data,      \* who wrote to each frame, NULL while it is all zeros
          asked      \* ghost: the flags each page was mapped with

vars == <<mm, phase, zero_page, memory, building, current, data, asked>>

Empty == [addr |-> 0, present |-> FALSE, rw |-> FALSE, user |-> FALSE, nx |-> FALSE,
          lazy |-> FALSE, cnt |-> 0]
PresentRW(a) == [Empty EXCEPT !.addr = a, !.present = TRUE, !.rw = TRUE]

\* boot.asm: all tables are zero but identity_pd, whose huge pages are built
\* into the image.
Init ==
    /\ mm = [table |-> [t \in Tables |-> [x \in Idx |-> IF t = IdentityPD THEN PresentRW(0)
                                                      ELSE Empty]],
             pool  |-> [k \in 1 .. NFrames |-> FirstFrame + k - 1]]
    /\ phase = "start"
    /\ zero_page = NULL
    /\ memory = [s \in Spaces |-> NULL]
    /\ building = NULL /\ current = NULL
    /\ data = [f \in Frames |-> NULL]
    /\ asked = [s \in Spaces \cup {KERNEL} |-> [v \in VPages |-> NULL]]
-----------------------------------------------------------------------------
\* The flags initialize_paging() gives to page p of the image, section by
\* section: first 1 MiB, text, rodata, data and bss.
SectionFlags(p) ==
    [PresentRW(p) EXCEPT !.rw = p < Text \/ p >= Data,
                         !.nx = ~ (Text <= p /\ p < Rodata)]

\* initialize_paging(), before paging is on.  Only the last page table gets a
\* count in its entry, of what remains for it.
FirstTables ==
    LET n == TablesFor(End)
        counted(t, c) == [PresentRW(t) EXCEPT !.cnt = c]
        pt(k) == [x \in Idx |-> IF k * Entries + x < End THEN SectionFlags(k * Entries + x)
                                ELSE Empty]
    IN  [t \in Tables |->
            CASE t = PML4 -> [x \in Idx |-> IF x \in {0, High} THEN counted(PDPT, 1)
                                           ELSE IF x = PG_SELF THEN PresentRW(PML4) ELSE Empty]
              [] t = PDPT -> [x \in Idx |-> IF x = 0 THEN PresentRW(IdentityPD)
                                           ELSE IF x = KernelIdx THEN counted(KernelPD, n)
                                           ELSE Empty]
              [] t = KernelPD -> [x \in Idx |->
                                     IF x < n - 1 THEN PresentRW(End + x)
                                     ELSE IF x = n - 1 THEN counted(End + x, End % Entries)
                                     ELSE Empty]
              [] t \in End .. (FirstFrame - 1) -> pt(t - End)
              [] OTHER -> mm.table[t]]
-----------------------------------------------------------------------------
\* ptes(): entry i of the walk to page v.  Behind an entry that is not present
\* there is nothing to see.
Entry(m, v, i) ==
    LET e[k \in 0 .. 3] == IF k = 0 THEN m.table[PML4][v[1]]
                           ELSE IF e[k - 1].present THEN m.table[e[k - 1].addr][v[k + 1]]
                           ELSE Empty
    IN  e[i]

Present(m, v, i) == Entry(m, v, i).present

SetEntry(m, v, i, e) ==
    IF i = 0 THEN [m EXCEPT !.table[PML4][v[1]] = e]
    ELSE [m EXCEPT !.table[Entry(m, v, i - 1).addr][v[i + 1]] = e]

\* Mutant of increase_counter: one is added beyond the bits of the counter.
IncreaseBeyond(m, v, i) ==
    SetEntry(m, v, i, [Entry(m, v, i) EXCEPT !.cnt = @ + CountMax])

increase_counter(m, v, i) ==
    SetEntry(m, v, i, [Entry(m, v, i) EXCEPT !.cnt = (@ + 1) % CountMax])

\* The bits above the counter are PG_BIT5, which is never set, and PG_NX: a
\* count of 0 borrows through the first from the second.
decrease_counter(m, v, i) ==
    LET e == Entry(m, v, i)
    IN  SetEntry(m, v, i, [e EXCEPT !.cnt = (@ + CountMax - 1) % CountMax,
                                    !.nx = IF e.cnt = 0 THEN ~@ ELSE @])

\* get_frame() ends in zero_frame(), which points frame_pte, entry 1 of the
\* first page table of the image, at the frame and leaves it there.
get_frame(m) == [m EXCEPT !.pool = Tail(@), !.table[End][1] = PresentRW(Head(m.pool))]

\* A missing table is allocated, zeroed and counted in the entry above it.
NewTable(m, v, i) ==
    LET f == Head(m.pool)
        zeroed == [get_frame(m) EXCEPT !.table[f] = [x \in Idx |-> Empty]]
        linked == SetEntry(zeroed, v, i, [PresentRW(f) EXCEPT !.user = TRUE])
    IN  IF i > 0 THEN increase_counter(linked, v, i - 1) ELSE linked

EnsureTable(m, v, i) == IF Present(m, v, i) THEN m ELSE NewTable(m, v, i)
ensure_pt_exists(m, v) == EnsureTable(EnsureTable(EnsureTable(m, v, 0), v, 1), v, 2)

Missing(m, v) == Cardinality({i \in 0 .. 2 : ~Present(m, v, i)})

\* Mutant of map_page: the new page is not counted.
MapPageUncounted(m, v, e) == SetEntry(ensure_pt_exists(m, v), v, 3, e)

\* The entry e is the physical address with its flags.
map_page(m, v, e) ==
    LET n == ensure_pt_exists(m, v)
        counted == IF Present(m, v, 3) THEN n ELSE increase_counter(n, v, 2)
    IN  SetEntry(counted, v, 3, e)

free_frame(m, f) == [m EXCEPT !.pool = <<f>> \o @]

\* clean_pts(): from the lowest table up, a table without entries is freed.
clean_pts(m, v) ==
    LET Round(c, i) ==
            LET n == decrease_counter(c.m, v, i)
            IN  IF c.end THEN c
                ELSE IF Entry(n, v, i).cnt # 0 THEN [m |-> n, end |-> TRUE]
                ELSE [m |-> SetEntry(free_frame(n, Entry(n, v, i).addr), v, i, Empty),
                      end |-> FALSE]
    IN  Round(Round(Round([m |-> m, end |-> FALSE], 2), 1), 0).m

\* unmap_page(): the assignment to e.entries[3] clears the pointer to the
\* entry, not the entry; only the counters go down.
unmap_page(m, v) == clean_pts(m, v)

\* convert_flags(): MAP_USER, MAP_EXE, MAP_RW and MAP_IMMEDIATE to PG_USER,
\* PG_NX, PG_RW and PG_LAZY.
convert_flags(flags) == [Empty EXCEPT !.present = TRUE, !.user = flags.user, !.nx = ~flags.exe,
                                      !.rw = flags.rw /\ flags.immediate,
                                      !.lazy = flags.rw /\ ~flags.immediate]

\* One round of map_range(): an immediate page takes its frame first, then the
\* tables; all others point to the zero page.
MapRound(m, v, flags) ==
    LET physical == IF flags.immediate THEN Head(m.pool) ELSE zero_page
        rest == IF flags.immediate THEN get_frame(m) ELSE m
    IN  map_page(rest, v, [convert_flags(flags) EXCEPT !.addr = physical])

Needed(m, v, flags) == Missing(m, v) + IF flags.immediate THEN 1 ELSE 0

\* Nothing happens any more after a stop.
Running == phase = "up"
Stop ==
    /\ phase' = "halt"
    /\ UNCHANGED <<mm, zero_page, memory, building, current, data, asked>>

\* The round as a step, for a fresh page of owner s, where frames may run out.
MapOne(s, v, flags, next) ==
    \/ /\ Len(mm.pool) < Needed(mm, v, flags)
       /\ Stop
    \/ /\ Len(mm.pool) >= Needed(mm, v, flags)
       /\ mm' = MapRound(mm, v, flags)
       /\ data' = IF flags.immediate THEN [data EXCEPT ![Head(mm.pool)] = NULL] ELSE data
       /\ asked' = [asked EXCEPT ![s][v] = flags]
       /\ phase' = next
       /\ UNCHANGED <<zero_page, memory, building, current>>
-----------------------------------------------------------------------------
initialize_paging ==
    /\ phase = "start"
    /\ mm' = [mm EXCEPT !.table = FirstTables]
    /\ phase' = "paging"
    /\ UNCHANGED <<zero_page, memory, building, current, data, asked>>

\* initialize_frame_allocation(): alloc_init() overwrites the entry of page 0,
\* which becomes the window to the list of free frames.
initialize_frame_allocation ==
    /\ phase = "paging"
    /\ mm' = [mm EXCEPT !.table[End][0] = PresentRW(0)]
    /\ phase' = "frames"
    /\ UNCHANGED <<zero_page, memory, building, current, data, asked>>

\* Mutant of disable_identity_paging: the pdpt, which the kernel half shares,
\* keeps its entry.
IdentityKept(m) == SetEntry(m, <<0, 0, 0, 0>>, 0, Empty)

\* disable_identity_paging(): entry 1 is reached through entry 0, which is
\* cleared last.
disable_identity_paging(m) ==
    LET page == <<0, 0, 0, 0>>
    IN  SetEntry(SetEntry(m, page, 1, Empty), page, 0, Empty)

\* initialize_virtual_memory(): the zero page is cleared through the window.
\* get_frame() has pointed the window at it already, so `old' is the zero page.
initialize_virtual_memory ==
    /\ phase = "frames"
    /\ zero_page' = Head(mm.pool)
    /\ LET taken == get_frame(mm)
           old == Entry(taken, Window, 3).addr
           unmapped == unmap_page(taken, Window)
           cleared == map_page(unmapped, Window, PresentRW(Head(mm.pool)))
       IN  mm' = disable_identity_paging(map_page(cleared, Window, PresentRW(old)))
    /\ phase' = "memory"
    /\ UNCHANGED <<memory, building, current, data, asked>>

BitmapFlags == [rw |-> TRUE, exe |-> FALSE, user |-> FALSE, immediate |-> TRUE]
HeapFlags == [BitmapFlags EXCEPT !.immediate = FALSE]

\* initialize_kernel_heap(), page by page: the bitmaps, then the blocks.
initialize_kernel_heap ==
    /\ phase = "memory"
    /\ \E k \in DOMAIN KernelPages :
          /\ \A j \in DOMAIN KernelPages : asked[KERNEL][KernelPages[j]] = NULL <=> j >= k
          /\ MapOne(KERNEL, KernelPages[k],
                    IF k <= Len(BitmapPages) THEN BitmapFlags ELSE HeapFlags,
                    IF k = Len(KernelPages) THEN "up" ELSE "memory")
-----------------------------------------------------------------------------
\* Mutant of new_address_space: PML4[0] keeps the tables of the last task.
ReuseAddressSpace(s) ==
    /\ Running
    /\ building = NULL /\ memory[s] = NULL
    /\ building' = s
    /\ UNCHANGED <<mm, phase, zero_page, memory, current, data, asked>>

\* create_usermode_task() begins with new_address_space().
new_address_space(s) ==
    /\ Running
    /\ building = NULL /\ memory[s] = NULL
    /\ mm' = [mm EXCEPT !.table[PML4][0] = Empty]
    /\ building' = s
    /\ UNCHANGED <<phase, zero_page, memory, current, data, asked>>

\* map_range() of one fresh page for the task being made.
map_range(v, flags) ==
    /\ Running
    /\ building # NULL
    /\ ~Present(mm, v, 3)
    /\ MapOne(building, v, flags, phase)

\* unmap_range() of one page: a page that is not lazy has a frame of its own,
\* which is freed after the tables.
unmap_range(v) ==
    /\ Running
    /\ building # NULL
    /\ Present(mm, v, 3)
    /\ LET n == unmap_page(mm, v)
       IN  mm' = IF Entry(mm, v, 3).lazy THEN n ELSE free_frame(n, Entry(mm, v, 3).addr)
    /\ UNCHANGED <<phase, zero_page, memory, building, current, data, asked>>

\* create_usermode_task() ends by keeping PML4[0] as the memory of the task.
KeepMemory ==
    /\ Running
    /\ building # NULL
    /\ memory' = [memory EXCEPT ![building] = mm.table[PML4][0]]
    /\ current' = building
    /\ building' = NULL
    /\ UNCHANGED <<mm, phase, zero_page, data, asked>>

\* Mutant of set_address_space: PML4[0] is not written.
SkipAddressSpace(s) ==
    /\ Running
    /\ building = NULL /\ memory[s] # NULL
    /\ current' = s
    /\ UNCHANGED <<mm, phase, zero_page, memory, building, data, asked>>

\* set_address_space(): a switch to a thread of task s.
set_address_space(s) ==
    /\ Running
    /\ building = NULL /\ memory[s] # NULL
    /\ mm' = [mm EXCEPT !.table[PML4][0] = memory[s]]
    /\ current' = s
    /\ UNCHANGED <<phase, zero_page, memory, building, data, asked>>

\* What the processor makes of the flags of all four entries.
Rights(m, v) ==
    [rw   |-> \A i \in 0 .. 3 : Entry(m, v, i).rw,
     user |-> \A i \in 0 .. 3 : Entry(m, v, i).user,
     nx   |-> \E i \in 0 .. 3 : Entry(m, v, i).nx]

\* Who may be writing to page v: the kernel to its own pages and to those of
\* the task it prepares, in whose name it does; a task to any address.
Writers(v) == (IF v \in UserPages THEN {building} ELSE {KERNEL})
              \cup (IF building = NULL THEN {current} ELSE {})

MayWrite(w, v) ==
    LET r == Rights(mm, v)
    IN  Present(mm, v, 3) /\ r.rw /\ (w = current /\ building = NULL => r.user)

\* A write that the page tables allow.
Write(v) ==
    /\ Running
    /\ \E w \in Writers(v) \ {NULL} :
          /\ MayWrite(w, v)
          /\ data' = [data EXCEPT ![Entry(mm, v, 3).addr] = w]
    /\ UNCHANGED <<mm, phase, zero_page, memory, building, current, asked>>

\* Mutant of LazyWrite: the new frame is mapped for the kernel.
LazyWriteKernel(m, v) ==
    SetEntry(get_frame(m), v, 3, PresentRW(Head(m.pool)))

\* page_fault_handler(): the lazy page gets a frame of its own.
LazyWrite(m, v) ==
    SetEntry(get_frame(m), v, 3,
             [Entry(m, v, 3) EXCEPT !.addr = Head(m.pool), !.rw = TRUE, !.lazy = FALSE])

\* page_fault_handler() for a write the page tables refuse: any but that to a
\* lazy page ends in generic_exception_handler(), which halts.
page_fault_handler(v) ==
    /\ Running
    /\ \E w \in Writers(v) \ {NULL} : ~MayWrite(w, v)
    /\ LET lazy == Entry(mm, v, 3).lazy
       IN  \/ ~lazy /\ Stop
           \/ lazy /\ mm.pool = <<>> /\ Stop
           \/ /\ lazy /\ mm.pool # <<>>
              /\ mm' = LazyWrite(mm, v)
              /\ data' = [data EXCEPT ![Head(mm.pool)] = NULL]
              /\ UNCHANGED <<phase, zero_page, memory, building, current, asked>>

\* What the kernel does today: ranges are mapped and never unmapped again.
MapNext ==
    \/ initialize_paging \/ initialize_frame_allocation
    \/ initialize_virtual_memory \/ initialize_kernel_heap
    \/ \E s \in Spaces : new_address_space(s) \/ set_address_space(s)
    \/ \E v \in UserPages, flags \in Flags : map_range(v, flags)
    \/ \E v \in VPages : Write(v) \/ page_fault_handler(v)
    \/ KeepMemory

MapSpec == Init /\ [][MapNext]_vars

\* With unmap_range(), which pages.h offers as well.
Next == MapNext \/ \E v \in UserPages : unmap_range(v)
Spec == Init /\ [][Next]_vars
-----------------------------------------------------------------------------
EntryType == [addr : (-4 .. -1) \cup (0 .. (FirstFrame + NFrames - 1)), present : BOOLEAN,
              rw : BOOLEAN, user : BOOLEAN, nx : BOOLEAN, lazy : BOOLEAN,
              cnt : 0 .. (CountMax - 1)]

ASSUME NullAssumption == NULL \notin EntryType \cup Flags \cup {BitmapFlags, HeapFlags}

TypeOK ==
    /\ mm \in [table : [Tables -> [Idx -> EntryType]], pool : Seq(Frames)]
    /\ phase \in {"start", "paging", "frames", "memory", "up", "halt"}
    /\ zero_page \in Frames \cup {NULL}
    /\ memory \in [Spaces -> EntryType \cup {NULL}]
    /\ building \in Spaces \cup {NULL} /\ current \in Spaces \cup {NULL}
    /\ data \in [Frames -> Spaces \cup {KERNEL, NULL}]
    /\ asked \in [Spaces \cup {KERNEL} -> [VPages -> Flags \cup {BitmapFlags, HeapFlags, NULL}]]

\* The address spaces: the one being made or loaded and the ones kept.
Space(s) == IF s \in {building, KERNEL} THEN mm ELSE [mm EXCEPT !.table[PML4][0] = memory[s]]
Made == {s \in Spaces : s = building \/ memory[s] # NULL}

\* The entries on the walks to pages P as s sees them, and those of the kernel
\* and of all tasks that are present.
Uses(s, P) == {[space |-> s, level |-> i, path |-> SubSeq(v, 1, i + 1),
                entry |-> Entry(Space(s), v, i)] : i \in 0 .. 3, v \in P}
InUse == {u \in Uses(KERNEL, VPages \ UserPages) \cup UNION {Uses(s, UserPages) : s \in Made} :
             u.entry.present}

\* Besides the window of zero_frame(), every frame that was handed out is a
\* table or a page of exactly one entry of one address space, and none of them
\* is in the pool; the zero page alone is shared.  So no space can change what another one maps or how.
OneOwner ==
    LET own == {u \in InUse : u.entry.addr \in Frames \ {zero_page}}
    IN  phase = "up" =>
            /\ \A u \in InUse : u.entry.addr = zero_page => u.level = 3
            /\ Cardinality({u.entry.addr : u \in own}) = Cardinality(own)
            /\ {u.entry.addr : u \in own} \cup {zero_page} = Frames \ Range(mm.pool)

\* What a task finds in its pages was written by itself (or by the kernel that
\* prepared it), what the kernel finds in its heap by the kernel, or is zero.
\* The zero page, which they all share, stays zero: every write to it goes
\* through page_fault_handler() first, in whatever space the sharing began.
\* (The kernel writes zeros alone through the window of zero_frame().)
Private ==
    phase = "up" => data[zero_page] = NULL /\ \A u \in InUse : u.level = 3 /\ u.entry.addr \in Frames =>
        data[u.entry.addr] \in {NULL, u.space}

Counted(e) == e.cnt = Cardinality({x \in Idx : mm.table[e.addr][x].present})

\* pages.h calls them "bits storing reference count": the count in an entry is
\* the number of entries present in the table it points to, for the tables of
\* tasks and of the heap, also in the copy of PML4[0] that a task keeps while
\* other address spaces are loaded.
CountsExact == phase = "up" => \A u \in InUse : u.level < 3 => Counted(u.entry)

\* The same for the tables of the kernel image, whose first counts are
\* initialize_paging()'s.
ImageCounted ==
    phase \notin {"start", "paging", "frames"} => \A p \in 0 .. (End - 1) : Counted(Entry(mm, Image(p), 2))

\* A page of the image shows itself with the rights of its section, in every
\* address space: text cannot be written and alone is executable, nothing is
\* open to user mode.  The first two pages, which frame.c uses as windows to
\* other frames, stay writable for the kernel alone.  The identity mapping is
\* gone, also from the pdpt that it shared with the kernel half.
ImageMapped ==
    /\ phase # "start" =>
          \A p \in 0 .. (End - 1) :
             LET r == Rights(mm, Image(p))
             IN  /\ Present(mm, Image(p), 3)
                 /\ r.rw = (p < Text \/ p >= Data) /\ ~r.user
                 /\ p > 1 => /\ Entry(mm, Image(p), 3).addr = p
                             /\ r.nx = ~ (Text <= p /\ p < Rodata)
    /\ phase = "up" =>
          \A x \in Idx : Present(mm, <<High, x, 0, 0>>, 1) <=> x = KernelIdx

\* Through all sharing, faults and switches a page has the rights it was mapped
\* with: user mode reaches it only if asked for, code runs only if asked for,
\* and it is writable, or will be on the first write, only if asked for.
RightsKept ==
    phase = "up" => \A s \in Made \cup {KERNEL}, v \in VPages :
        asked[s][v] # NULL =>
            LET r == Rights(Space(s), v)
                e == Entry(Space(s), v, 3)
            IN  /\ e.present
                /\ r.user = asked[s][v].user /\ r.nx = ~asked[s][v].exe
                /\ (r.rw \/ e.lazy) = asked[s][v].rw
                /\ asked[s][v].rw /\ ~asked[s][v].immediate => (e.lazy <=> e.addr = zero_page)

\* "!MAP_RW - only point to zero page, no additional flags needed", says the
\* comment on convert_flags(): such pages share the zero page with all others,
\* so unmapping one must not return it to the pool.
ZeroPageKept == zero_page \notin Range(mm.pool)
=============================================================================
