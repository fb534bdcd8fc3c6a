# TLA+ models of the Lasagne kernel

Lasagne is a small amd64 kernel: a boot path that reads the multiboot memory
map and builds the first page tables, a physical frame allocator, page tables
with lazy pages, a buddy allocator for the kernel heap, tasks and threads that a
timer preempts, two ways into the kernel for system calls, and a text console.
This directory models the parts that keep state across calls, checks them with
TLC on small instances and proves their safety with TLAPS for all sizes.

## The system

| Part | State it keeps | Operations | Used by |
|---|---|---|---|
| Memory map (`mm/memory_map.c`, filled by `arch/x64/multiboot.c`) | array of at most `MAP_MAX` areas, count, `physical_end` | `mem_map_add_area`, `mem_map_sanitize` | frame allocator |
| Frame allocator (`mm/frame.c`) | `begin`, map position, free count, list of nodes inside free frames, one page window to the top node | `alloc_init`, `alloc_frame` / `get_frame`, `dealloc_frame` / `free_frame` | page tables |
| Virtual memory (`mm/pages.c`, first tables by `arch/x64/paging_init32.c`) | page tables with rights and reference counts in their entries, the shared zero page | `initialize_paging`, `initialize_virtual_memory`, `disable_identity_paging`, `map_page`, `unmap_page`, `map_range`, `unmap_range`, `page_fault_handler` | heap, tasks |
| Kernel heap (`mm/buddy.c`, `mm/alloc.c`) | free lists per level inside the free blocks, allocation and split bitmaps, counters | `kalloc`, `kzalloc`, `krealloc`, `kfree` | tasks |
| Tasks (`core/task.c`, `core/task_asm.asm`) | ring of tasks, ring of threads per task, current task and thread, saved stack pointers, GS base, `tss.rsp0`, `PML4[0]` | `create_thread`, `create_usermode_task`, `schedule`, `preempt_int`, `preempt_syscall` | timer, system calls |
| System calls (`core/syscall.c`, `core/syscall_asm.asm`) | `user_rsp` and `syscall_type` of each thread | `int 0x30` and `syscall` entries, `sys_yield`, `sys_printk` | user code |
| Timer (`arch/x64/io/pit.c`) | its handler, mask of IRQ 0 | `pit_initialize`, `pit_handler` | scheduler |
| Interrupts (`arch/x64/irq.c`, `irq_asm.asm`) | IDT, handler table with flags, PIC masks | `initialize_irq`, `set_irq_handler`, `pic_flip_irq`, common entry and exit, the exception report | all handlers |
| Console (`arch/x64/io/tty.c`) | row, column, ring of lines, screen | `tty_putchar` | everyone, through `printk` |
| Formatted output (`core/printk.c`) | none between calls | `printk` | everyone |
| Boot (`boot.asm`, `init.c`) | the order of the steps above | straight line code | - |
| Halting (`panic`, `assert`, `halt`) | interrupt flag | message, mask, message, stop | everyone |

Control flows through calls; concurrency comes from interrupts only. There is
one processor. Every gate is an interrupt gate and `IA32_FMASK` clears IF, so a
handler or a system call runs to its end or to a context switch; kernel threads
are preempted anywhere. The hard behaviours are therefore

* contexts saved by one kind of kernel entry and restored by another, and the
  per-processor places (GS base, `tss.rsp0`, `PML4[0]`) that a switch must set;
* words that the processor, the entry code and the exit code push and pop: an
  error code that only some vectors have, through nested faults and switches;
* data structures that live inside the memory they manage (frame list, heap
  lists): any stale address becomes a write into somebody else's memory;
* bits and counters shared by several blocks (buddy bits, reference counts),
  where a missing update shows many calls later;
* structures without a lock under preempted writers (the console);
* limits: the last area of the map, a full list node, a full array, a
  fragmented heap, the end of a line, the smallest integer.

`PROJECT.json` lists the hazards one by one under `hazards`, each at its line.

## Modules

| Module | Models | Notes |
|---|---|---|
| `MemoryMap` | `mem_map_add_area`, `mem_map_sanitize`, `fill_memory_map` | every round of the `goto` loop and of the sort is an action |
| `MemoryMapProofs` | | theorems about `MemoryMap` |
| `FramePool` | abstract: frames with one owner each | |
| `FrameAlloc` | `frame.c` | refines `FramePool` |
| `FrameAllocProofs` | | theorems about `FrameAlloc` |
| `HeapPool` | abstract: disjoint aligned blocks that hold what was asked for | |
| `Buddy` | `buddy.c`, `alloc.c`, the rounding of `util/math.h` | refines `HeapPool` |
| `BuddyProofs` | | theorems about `Buddy`, with the lemmas about powers of two, blocks, halves and buddies, bits, tilings |
| `Task` | `task.c`, both assembly switches, both system call paths, the interrupt entry as seen by a switch | |
| `TaskProofs` | | theorems about `Task` |
| `Irq` | `irq.c`, `irq_asm.asm`, `pit.c`, the order of `initialize()` | processor, interrupt controller and user programs are the environment |
| `IrqProofs` | | theorems about `Irq` |
| `Pages` | `pages.c`, `paging_init32.c`, the mappings of the heap, address spaces of `task.c` | frames come from the pool that `FramePool` describes |
| `PagesProofs` | | theorems about `Pages` |
| `Printk` | `printk.c`: formats to characters, with a reference definition (`Meaning`) | pure operators, extended by `Console` |
| `PrintkProofs` | | theorem about `Printk`, extended by `ConsoleProofs` |
| `Console` | `tty.c`, callers of `printk`, `panic` and `halt` | |
| `ConsoleProofs` | | theorems about `Console` |
| `MC*` | instances for TLC | |

Names follow the source. Definitions whose comment begins with "Mutant" are
faulty variants of the definition that follows them; they show that each
property can fail.

**MemoryMap.** `area` is `mem_map.area[0..count-1]`, `phase` the program
counter, `begin` / `end` the locals of `mem_map_add_area`. `halt` is a failed
assertion. The entries of the firmware are any intervals below `Top`, in any
order and number, none included: `mem_map_sanitize` then reads the word before
the array, the count 0, as the end of memory (`PhysicalEnd`). Addresses are plain
numbers: intervals that wrap around 2^64 do not occur in physical memory.

**FrameAlloc.** Addresses are frame numbers. `mem` gives the contents of every
frame read as `struct allocator_node`; clients overwrite the frames they own
(`ClientWrite`), and `pte` is what `*alloc->current_pte` maps. `chain`, `out`
and `relinked` are ghosts: the nodes of the list, the frames clients own, and
whether `dealloc_frame` linked the stale address that `map(0)` left behind
(finding 1). After such a link client data may be used as an address; then
`wild` is set and the model stops. The refinement of `FramePool` covers the
steps up to the link.

**Buddy.** Addresses are leaf numbers, bitmaps are sets of bit numbers, requests
are sizes in bytes: `ceil_to_power_of_two` and `log2` work on an `int` of
`IntBits` bits, whose sign bit a large request reaches. Memory in use holds
`Junk`. `broken` records the ways in which the code damages its own heap:
`null_flip` (finding 3), `stray` (a write through a stale `prev`, finding 2),
`fault` (the bit of level 0, and `krealloc` after a failed allocation),
`overrun` (`krealloc` to a smaller size) and `level` (a request for less than a
leaf). The model stops there and the invariants speak of the states before.

**Task.** A handler is one action. Registers are tokens: a pair of a thread and
an epoch, so that a value that ends up in the wrong thread, or an old value of
the right one, is visible. `frame[s]` is the context on the kernel stack of
thread `s`; `rsp[t]` the stack on which `t` left its own. The scratch registers
are `NULL` after a `syscall`, which may clobber them. Contexts of kernel
threads live on the stack that was interrupted, those of user threads on the
stack `tss.rsp0` or GS leads to. What lies inside a context is the matter of
`Irq`, which treats the switch between stacks as one step.

**Irq.** The kernel stack of a thread is a sequence of words: the frame for
`iretq`, perhaps an error code, the vector, the registers. `handler` is
`idt_handler`, `gate` the present and privilege bits of the IDT, `mask`, `irr`
and `isr` the controller. An entry (`Exception`, `SoftwareInt`, `Deliver`,
`Spurious`) pushes the words that the processor and `interrupt_wrapper` push;
`Exit` and `leave_interrupt_handler` pop what the flags of the vector tell them
to, right or wrong. `nest[t]` is the ghost of the interrupts thread `t` is really
inside of; `StackExact` compares the two. `boot` counts the steps of
`initialize()`, during which interrupts are already enabled. Which exceptions
push an error code is the processor's table (`HasErrorCode`). `Raisable` is
limited by `IrqAssumption` to vectors for which the code's table agrees with it
(see Observations). The page fault handler and the boot steps may themselves be
interrupted by faults up to `MaxDepth`; the page fault handler does not fault.

**Pages.** A virtual page is its four table indices. `mm.table` gives the
contents of the tables, with address, rights and the reference count that each
entry keeps of the table it points to; `mm.pool` is the frame allocator seen
from here, which returns the frame freed last first. `phase` follows
`initialize()`: `FirstTables` is what `initialize_paging` builds,
`initialize_frame_allocation` makes page 0 of the image the window to the frame list,
`initialize_virtual_memory` takes the zero page and clears it through page 1 (`Window`),
`disable_identity_paging` removes the identity entry from the shared pdpt,
`initialize_kernel_heap` maps bitmaps and blocks; then tasks are built, written to
and switched. `memory` is the copy of `PML4[0]` in each task, `asked` a ghost:
the flags each page was mapped with. A range is a sequence of pages and `MapOne`
the round of `map_range` for one of them. `get_frame` includes its `zero_frame`: each
frame handed out stays in the entry of `Window`. `MapSpec` is
what the kernel does today; `Spec` adds `unmap_range`, which is offered by
`pages.h` and has no caller yet. The model stops when the pool is empty (the
code goes on with frame 0) and when a fault reaches
`generic_exception_handler`, which halts.

**Printk.** A format is a sequence of characters and conversions, an argument a
machine word of which a conversion reads `IntBits` or `LongBits` bits, both
multiples of four as `%x` prints whole digits (`WidthAssumption`). `printk` follows
the loop over the format; `Meaning` says what each item ought to print. The requests are
those a caller may write (`Proper`): no percent sign inside literal text, where it
would begin a conversion, and `l` only in front of a conversion. The loops are
recursive functions, so that they can be reasoned about.

**Console.** A step is one access to the shared `tty` structure, to the ring or
to video memory, in the order of the compiled code; `pc` and `reg` are each
writer's place and registers. A `Masked` writer runs undisturbed, a `Panicking`
one prints, masks interrupts, prints `HaltText` and stops. `sound` is a ghost:
no character has been begun inside another one so far. Characters above 0xff
and control characters other than newline, return and tab are printed as nothing (`Ignored`). While it holds, `log` is
what went to the debug port, and `Typed` the sheet of lines that this text makes.

## Runs

| Run | Configuration | Shows |
|---|---|---|
| `memory_map` | `MAP_MAX` 3, pages of 2 bytes, addresses 0..9 | areas stay apart (`AreasApart`), nothing lost or invented (`NothingLost`), inside the array (`WithinArray`), sorted (`Ascending`), exactly the full pages (`PagesExact`), the loop ends (`MergeEnds`) |
| `frame_alloc` | three areas with holes, kernel end in a hole, nodes of 3 | free list (`FreeListExact`) and free count (`FreeCountExact`) exact, only usable frames handed out and no client data used as address (`OutUsable`), refinement of `FramePool` |
| `frame_stale_link` | the same | finding 1 |
| `buddy` | 8 leaves of 2 bytes, 4 levels, sizes 1, 2, 3, 8, 16, 17, `int` of 6 bits | lists (`ListsLinked`), tiling of the heap by blocks whose size `kfree` recovers (`Tiling`), buddy bits (`BuddyBitExact`), refinement of `HeapPool` |
| `buddy_stale_prev`, `buddy_blind_toggle` | the same | findings 2 and 3 |
| `task_switch` | two user tasks, main, idle, one worker, two epochs | rings, environment, registers, stacks, no self switch, fair turns (`FairTurns`), every runnable thread runs again and again (`EveryoneRuns`) |
| `irq` | main and two user programs; exceptions 0, 8, 13, 14; `int` 14, 15, 33, 48; depth 3 | stacks hold exactly what was pushed (`StackExact`), registers come back (`RegistersExact`), only exceptions are reported and the report names the right words (`ReportExact`), the timer is acknowledged and served (`TimerServed`) |
| `pages` | kernel of five pages, two tasks of two pages, one page each for bitmaps and blocks, 12 frames, tables of 6, `MapSpec` | frames have one owner (`OneOwner`), everyone sees only own writes and the shared zero page stays zero (`Private`), counts exact (`CountsExact`), the image keeps its rights and, but for the two windows, its mappings (`ImageMapped`), pages keep theirs (`RightsKept`) |
| `pages_unmap_count` | the same | finding 4 |
| `pages_zero_freed` | the same with `Spec` | finding 5 |
| `console` | a kernel thread, a system call, a panic, one call each; screen 3 x 2, ring of 3, tab 2; `int` of 4 bits, `long` of 8 | the row stays on the screen (`RowOnScreen`), formats print their meaning (`Formatted`), the screen shows the last lines printed (`ScreenShowsLog`) |

*Bounds.* `MAP_MAX` 3 lets an entry meet an empty, partly filled and full array
and merge with two areas at once; 2-byte pages and 10 addresses give borders
inside and on pages. Nodes of 3 frames with four usable frames give empty,
partial and full nodes and chains of two nodes. A heap of three split levels has
merges that stop at once, in the middle and at the top; the sizes lie below,
at and above powers of two and one is a byte more than the heap. Two user pages
in two page tables of one page directory give tables with one and two entries;
12 frames are enough for tables, heap and both tasks and few enough to run out. The three
flags are those of user code and data, of read-only data and of a kernel page in
a task's space. Two epochs distinguish a thread's current values from its older
ones, and two user tasks with a kernel task of three threads exercise both
rings. Interrupts nest three deep: a handler, a fault inside it, and an interrupt
or a fault inside that one; with three threads a new one starts while the old one
is inside a handler. A screen of two lines over a ring
of three is, as 25 over 30 in the source, a ring slightly longer than the screen,
and both wrap; a width of 3 has lines that wrap, tabs that fold and
numbers longer than a line; `int` of 4 and `long` of 8 bits have every sign
and width of argument. The two tasks of `pages` are interchangeable (symmetry).

`CHECK_DEADLOCK FALSE` is set where the system may stop: the allocators after
they damaged themselves, the pages when memory is exhausted or a fault halts
the machine, the memory map when it is complete or halted, interrupts after an
exception was reported and halted, the console when every writer has made its
calls or one has halted. The kernel of `task_switch` with its timer never stops,
and deadlock is checked there.

*Fairness.* `task_switch` assumes weak fairness of the boot code, which is
straight line code, and of `pit_handler`: the timer fires periodically and every
thread runs with IF set (`RFLAGS_IF` in `create_thread`), so an enabled timer
interrupt is taken. `irq` looks inside handlers, where page faults interrupt the
boot code and the handlers, so a step is enabled again and again and not
continuously: strong fairness says that the code goes on after the faults it
takes, and that a request met with interrupts enabled is taken at last.
`memory_map` assumes weak fairness of the loops of the boot code. No fairness is
assumed of user code.

## Proofs

Each `*Proofs` module but `PrintkProofs`, whose subject has no state, states an
inductive invariant `IInv` (in `MemoryMapProofs` and `ConsoleProofs` a chain of
them), one lemma per action that keeps it, and theorems that draw the
properties of the runs from it. Every safety property of every passing run, action
property and refinement included, is stated by a theorem.

**`MemoryMapProofs`**, for every `MAP_MAX`, page size, top address and list of
entries: `TypeCorrect`, `ArrayBound` (no write beyond the array), `Separation`
(areas nonempty and apart), `SanitizeOrders` (the sorted, gapped, bounded map the
frame allocator needs), `Coverage` (no byte lost or invented) and `WholePages`
(the finished map has exactly the full pages). The invariants
build on each other: types first, then the array bound, then separation, which
needs that the interval being added is nonempty; the sort is proved with "the
entries before `i` are in their final place", which needs separation to make
begins distinct. For the pages it matters that areas do not touch: a page that
ends in one area cannot go on in the next, so rounding each area by itself loses
no full page. The empty map is covered: there the end of memory is the count.

**`FrameAllocProofs`**, for every memory map, kernel end and node size: `Invariance`
of an inductive invariant and from it `TypeCorrect`, `FreeListCorrect`,
`FreeCountCorrect`, `OutUsableCorrect` and `Refinement` (the allocator
implements `FramePool` until a stale address is linked, whatever its clients
do). None of the invariants is inductive alone: that a slot holds a frame nobody
owns needs that the list and the clients share no frame, that nodes link to the
node below them, that every node below the top is full, and where `extend()`
stands in the map; the invariant states all of this while no stale address has
been linked. After the link the list may have lost frames that `free` still
counts, and then `extend()` passes the end of the memory map, so the types too are
stated up to it only. The
constants' assumptions are what `SanitizeOrders` provides, plus
`CapacityAssumption`: the sum that `alloc_init` folds over the areas is the
number of usable frames. That sum is an induction over the map and out of the
prover's reach; TLC evaluates it for the map of the run.

**`IrqProofs`**, for every set of threads, exceptions and software interrupts that
`IrqAssumption` admits, and every depth of nesting: `TypeCorrect`,
`StackCorrect`, `RegistersCorrect` and `ReportCorrect`. `StackExact` only speaks of the
kind of each word and is not inductive: that the exit pops the error code when
there is one needs that the handler table agrees with the processor for each
vector that can arrive at this step of boot (`TablesOK`, `EntriesOK`); that the
registers come back needs their contents in the saved words (`Saved`), also of
the threads that do not run; and that no line of the controller is served before
it has a handler needs the masks of each step (`PicOK`). The height of a stack is
the number of words below its last entry (`Below`, a cardinality), so pushing and
popping become lemmas about one entry more or less.

**`TaskProofs`**, for every set of user tasks and kernel threads:
`TypeCorrect`, `RingsCorrect`, `EnvironmentCorrect`, `RegistersCorrect`,
`StacksCorrect`, `SelfSwitchNever` and the action property `TurnsFair`. The rings
come first: a circle is a set that `next` maps into itself, with no smaller
part closed under `next`, and `CLIST_ADD` is proved to insert into a circle
(`AddToNone` and the lemmas after it). The walk of `schedule()` is a recursive
function over a count; the lemmas show what it returns from the ring and from the
fact that only the idle thread ever waits (`Phase`), not by induction. Contexts
need the whole invariant at once: what a switch restores is what `StacksKept`
says of the thread that it switches to, and what it leaves behind is what
`RegistersKept` says of the running one. That a switch never goes to itself, and
that turns are fair, rests on `AtHead` (the scheduler's place on both rings) and
`ServedInOrder` (the tasks that had their turn follow one another up to the
current one). `NamesAssumption` asks for one thread besides main and idle: the
code creates one before it starts the timer, and without one the main thread
would switch to itself.

**`PagesProofs`**, for every number of tasks, user pages, heap pages and frames,
every size of tables and every layout of the image in one page table:
`Soundness` of the inductive invariant and from it `TypeCorrect`,
`FramesHaveOneOwner`, `PagesArePrivate`, `CountsAreExact`, `RightsAreKept` and
`ImageStaysMapped`, all of `MapSpec`; with `unmap_range` findings 4 and 5
break them. A table entry is written at the end of a walk through other entries,
so the first question of each step is which walks of which address spaces pass
through the entry written. `Walk` is the walk of `ptes` from the value of `PML4[0]` that
an owner has in the tables or keeps in its task (`EntryIsWalk` shows that the recursive
`Entry` of the model returns it, level by level, without induction). That the walks
form a tree, no frame appearing at two places (`Tree`), makes a write to an entry
of one owner invisible to all others (`PointWrite`, `SetEntryWrites`); that no
frame is lost (`NoLoss`) and that counts agree with the tables (`CountsOK`) is
inductive only together with it. Within `map_page` the counts do not agree, since
an entry is set in one step and counted in another: `Owed` says by how much the
entries on the way to the page are short. The rights need that every upper entry
is as permissive as `ensure_pt_exists` makes it (`RightsOK`) and what the last entry
says of the flags asked for (`LeafOK`), which also keeps writable entries of owners
off the zero page; each `get_frame` rewrites the entry of `Window`, which is on no
walk of an owner, so nothing but the image's page 1 changes (`TakeKeeps`); `Private` needs in addition whose data each frame holds (`DataOK`).
Boot is computed: `FirstRows`, `FrameRows`, `BootTables` and `BootLive` follow the entries of
`initialize_paging`, `initialize_frame_allocation` and `initialize_virtual_memory` one by one, and `LoadedOK` says which address space
is in `PML4[0]` afterwards. `PagesAssumption` asks for an image that fills less than
one page table (see Observations) and begins with two writable pages, the windows, for heap pages that are distinct and outside
the image's own table, and for at least one frame, the zero page.

**`BuddyProofs`**, for every number of levels, size of leaf, width of `int` and set of
request sizes that `LevelAssumption` admits (an `int` holds the size of the heap):
`TypeCorrect`, `ListsCorrect`, `TilingCorrect`, `BuddyBitCorrect` and
`Refinement` (the heap implements `HeapPool`). The invariant says that there is a set
of free blocks `V` which with the blocks in use tiles the heap, and ties the five
representations of it together: the split bits are those of the nodes that
properly contain a block, the allocation bits those of the nodes of which exactly
one half is in `V`, no two buddies are both in `V`, the list of each level runs
through the blocks of `V` of this level as often as `free_count` says, and
`free_size` is what they cover. None of these is inductive alone: that a merge may
take the buddy out of its list needs the allocation bits, these need the split
bits, since a bit says nothing of a block that is itself split, and those need the
tiling. The first part of the module is the arithmetic: a node of the binary tree is an aligned
block, two nodes are nested or disjoint (`Nesting`), index, parent and buddy of a
block, and distinct bits for distinct nodes. Inside an allocation one block has left its list
while its bit is not yet flipped (`Taken`), which the splitting loop of `create_block`
keeps from level to level; inside a free `Loop` describes each round
of the merge, also after the removal of a block with a stale `prev`, when lists may be
damaged but the tiling is not. The loops, the walk of a list and `2 ^ n` are recursive functions of
a number; the lemma `NatSetInduction` states induction for a set of numbers,
which needs no operator as parameter. The refinement has one deep step: that a refused
request really finds no room in `HeapPool`. If an aligned block of the size were
free there, the smallest block of `V` inside it would have a free buddy, against
`Merged`.

**`ConsoleProofs`**, for every set of writers, every text and every size of screen and
ring: `RowCorrect`, the row stays on the screen however the writers interleave.
The row alone is not inductive, because a preempted writer still carries the row
or the line it is about to store; `Carried` says that what it carries is fit to be
stored whatever the others stored meanwhile. And `ScreenCorrect`: while characters come
one at a time, from whatever writers, the screen shows the last lines of everything
printed. `SheetInv` relates ring and screen to the sheet that the log types: the line `j`
above the current one in the ring is the sheet's line `j` from its end, as far as the
screen reaches, since the next scroll copies them from there. Inside a character one
writer is alone, and `At` says for each of its places how much of the character has
arrived: `Putting` between screen, ring and column, `Lifted` while a line is begun and
the screen copied (`Copied`: the rows copied so far), `Returning` before the column goes to
0. Nothing is assumed of the characters; the invariant carries a set that has them all.
`Typed` is a recursive function of the length of the text, and `SetInduction` states
induction for a set of numbers.

`FormattedCorrect`: what a call has printed and has still to print is what its request
means, for every set of requests that `RequestsAssumption` admits. `TextInv` says it of
each place of a writer: one inside `tty_putchar` has text left, one without text is
between two calls and nothing printed counts. Only `Call` and `Return` change the text, so
what remains is that `printk` turns the request into its meaning, `FormatPrinted` below.
`TypeCorrect`: `Apt` says for each place of a writer which character it can hold there,
any before the switch in `tty_putchar`, only visible ones where one is stored, so only
those reach ring and screen; that copying a line reads the ring inside its
bounds is the invariant of the row again.

**`PrintkProofs`**, for every request, every number and every width of `int` and `long`:
`FormatPrinted`, `printk` prints what its format and arguments mean. The numbers come
first. The digits of a number are determined by how many there are (`Fits`), and
those that `print_ulong` stores, last one first, are shown to be these by an induction
over the numbers, again with a set in place of a predicate. `print_long` is right for the
smallest number too (`LongIs`): its negation does not fit in a word but is read as
unsigned. `HexIs` relates the fixed number of digits of `print_hex` to the numeral
padded with zeros. The format is a concatenation: `Joins` and `PieceAt` say where each item
stands in it, and `ItemScanned` what the loop makes of an item, from whatever it
printed before and with the arguments that are left.

Only model checked is liveness (`MergeEnds`, `EveryoneRuns`, `TimerServed`): the prover
treats neither fairness nor ENABLED. Beyond that, the theorems speak of the states their
properties speak of: up to the link of a stale address in `FrameAlloc`, up to the
damage in `Buddy`, of `MapSpec` in `Pages`.

## Findings

1. `frame.c:107`: `map(0)` keeps the address of the node just handed out in the
   window's page table entry, and the next `dealloc_frame` links it
   (`frame_stale_link`).
2. `buddy.c:144`: `create_block` leaves a stale `prev` behind
   (`buddy_stale_prev`); `ListsLinked` therefore does not speak of the first
   block's `prev`.
3. `buddy.c:94`: a failed allocation toggles the bit of a block that does not
   exist (`buddy_blind_toggle`): by level, one beyond both bitmaps, a split bit or
   the allocation bit of a node the request has nothing to do with.
4. `pages.c:152`: `unmap_page` clears a pointer instead of the page table entry.
   Boot itself unmaps page 1 of the image, whose entry `get_frame` has by then
   pointed at the zero page, and maps the zero page there twice. The entry never went
   away, so nothing is counted back: on every start the first page table of the image
   counts one entry less than it has (`pages_unmap_count`).
5. `pages.c:176`: `unmap_range` frees the zero page when it unmaps a read-only
   page (`pages_zero_freed`).

## Observations

Places met while modelling where the code does something surprising, but nothing
in the repository says otherwise, or no state of the running kernel reaches it:

* `krealloc` overruns a smaller block and does not test for a failed allocation
  (`alloc.c:36`); freeing the block of level 0 reads beyond the bitmap
  (`buddy.c:213`); a request below a leaf uses a level that does not exist.
  `Buddy` stops there.
* Pages 0 and 1 of the image are windows of the frame allocator and never show
  the image again. `alloc_init` maps page 0 to frame 0 (`frame.c:83`); later
  the entry follows the top of the frame list, which `FrameAlloc` models (`pte`) and
  `Pages` leaves out. `zero_frame` maps page 1 to each frame that `get_frame` hands
  out and leaves it there (`frame.c:43`), so `unmap_page` at `pages.c:24` returns
  the zero page and line 27 maps the zero page, not the page that was there before.
  From then on page 1 shows the last frame handed out, whoever owns it, writable for
  the kernel, executable and not global. Nothing writes through it but `zero_frame`
  and line 26. `ImageMapped` asks of the two windows only that they are writable and
  closed to user code, and `OneOwner` does not count them as owners.
* `initialize_paging` gives a count only to the last page table. A kernel that
  fills its first one (2 MiB) would start with a count of 0, from which boot
  would borrow into `PG_NX`. `PagesAssumption` excludes such kernels.
* A writer preempted inside `put_char` may leave the column beyond the width,
  where the test for equality no longer stops it until the next `\n` or `\r`, and
  the copying loop of a writer preempted in `line_up` may pass the last row. The
  row stays on the screen all the same (`RowOnScreen`); `ScreenShowsLog` speaks of
  characters that do not overlap.
* `INT_HANDLER_ERRORCODE` is set for vectors 8 to 14; the processor differs for
  9, 17, 21, 29 and 30, which are not raised while `CR0.AM` and the extensions
  are off.
* After the handler, `irq_asm.asm:71` and `:77` look its flags up through `rbx`.
  `switch_task_int` does not save `rbx`; it comes back after a switch only because
  compiled code between the entry and the switch (`preempt_int`) keeps it, as a
  register the callee preserves. `Irq` takes the vector of the entry, and would not
  notice a caller that breaks the convention.
* `syscall_asm.asm:24` compares `rax` with eight bytes at `syscall_count`, an
  `unsigned int` of four (`syscall.c:36`). `Task` takes the comparison that is meant.
* `ceil_to_power_of_two` shifts an `int` (`math.h:10`): a size above 2^31 wraps to a
  small power, and `kalloc` would then hand out a small block. `Sizes` ends at
  2^(`IntBits` - 1) (`LevelAssumption`), which is as far as `Buddy` and its theorems go.
* `irq_asm.asm:83` says "clear zero flag" above an instruction that sets it; the
  code needs it set (the mutant `LeaveClearsZero` shows it).
* `pic_flip_irq` keeps a port in a `char`, which makes 0xA1 another port; only
  line 0 is ever flipped. Vector 15 has no gate. The result of a system call
  without one is whatever `rax` holds. `reset_irq_handler` has no caller.

## Plan

1. Done: all models and runs, and the proofs of every safety property they check.
2. Compositions: pages over the detailed frame allocator; task creation over the
   heap, where `kalloc` never fails at boot.

## Not modelled

* The mode switches of `boot.asm` and the linker script: straight line code and
  layout, no state that changes later.
* `libc` and port access: no state of their own.
* The TLB: `map_page` and the page fault handler invalidate the entry they
  change within the same step; `unmap_page` does not, but leaves the entry too.
* What happens on physical frame 0 after `get_frame` answered 0, and after the
  heap damaged itself: the code gives these states no meaning.
* Faults before `initialize_irq` has set the handlers: the processor resets.
* Colours, `tty_putstring`, `tty_set_tab_size` and later calls of `tty_clear`,
  which have no callers; the status printout of the heap; the wording of
  messages; the walk over the tags of the boot loader.
* The compiler skeleton under `language/` and `utils/page.py`: not part of the
  kernel.
