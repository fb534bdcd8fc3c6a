--------------------------------- MODULE Irq ---------------------------------
(***************************************************************************)
(* Interrupt entry and exit: the tables and handlers of                    *)
(* kernel/arch/x64/irq.c, the common entry and exit of irq_asm.asm, and    *)
(* the masks and in-service bits of the interrupt controller, from the     *)
(* first steps of initialize() to preemption by the timer.                 *)
(*                                                                         *)
(* The kernel stack of a thread is a sequence of words, the last one on    *)
(* top: what the processor pushes for iretq ("iret", five words in one),   *)
(* perhaps an error code, the vector number that interrupt_wrapper pushes, *)
(* and the fifteen registers ("regs", in one).  nest[t] is where the       *)
(* execution of thread t stands: the interrupts it is inside of, the       *)
(* innermost one last.                                                     *)
(*                                                                         *)
(* The processor, the controller and user programs are the environment.    *)
(***************************************************************************)
EXTENDS Integers, Sequences, FiniteSets, SequencesExt, FiniteSetsExt

CONSTANTS Users,     \* user threads
          Main,      \* the thread that runs initialize()
          Raisable,  \* exceptions this processor raises
          Software,  \* the n of the `int n' that user programs try
          MaxDepth   \* bound: interrupts inside interrupts

Vectors    == 0 .. 79 \* INT_VECTORS_NUMBER
Lines      == 0 .. 7  \* of one controller
Exceptions == 0 .. 31
Threads    == Users \cup {Main}

PIC1_OFFSET == 32
PAGE_FAULT  == 14
SPURIOUS    == 39 \* line 7 of the first controller
SYSCALL_INT == 48

\* The exceptions for which the processor pushes an error code.
HasErrorCode == {8, 10, 11, 12, 13, 14, 17, 21, 29, 30}

\* INT_HANDLER_ERRORCODE is set for 8 to 14, so it is wrong for 9, 17, 21, 29
\* and 30; none of them is raised while CR0.AM and the extensions are off.
ASSUME IrqAssumption ==
    /\ Main \notin Users
    /\ Raisable \subseteq Exceptions \ {9, 15, 17, 21, 29, 30}
    /\ Software \subseteq Vectors
    /\ MaxDepth \in Nat \ {0}

VARIABLES handler,  \* idt_handler: address and flags
          gate,     \* idt: present and dpl
          mask,     \* the masked lines of the two controllers
          irr, isr, \* lines of the first controller requested and in service
          boot,     \* the last step of initialize() that is done
          current,  \* the thread that runs
          cpu,      \* IF, privilege and registers of the running code
          stack,    \* the words on the kernel stack of each thread
          nest,     \* the interrupts each thread is inside of
          report,   \* what generic_exception_handler() took for error code and frame
          wild      \* iretq took something else for its frame

tables == <<handler, gate>>
pic    == <<mask, irr, isr>>
code   == <<current, cpu, stack, nest, wild>>
vars   == <<tables, pic, boot, code, report>>

None == "none"

Frame(if, mode) == [kind |-> "iret", if |-> if, mode |-> mode]
ErrorWord       == [kind |-> "error"]
VectorWord(v)   == [kind |-> "vector", v |-> v]
Regs(regs, rax) == [kind |-> "regs", regs |-> regs, rax |-> rax]

\* The registers of the code that a thread runs at some depth of interrupts.
Own(t, depth) == <<t, depth>>

Mode(t) == IF t \in Users THEN "user" ELSE "kernel"

Inside(v, address, error) == [v |-> v, address |-> address, error |-> error, stage |-> "body"]

\* A thread made by create_thread(): leave_interrupt_handler will start it.
Fresh == [v |-> 0, address |-> None, error |-> FALSE, stage |-> "leave"]

\* Before initialize(): the boot loader's settings, interrupts disabled.
Init ==
    /\ handler = [v \in Vectors |-> [address |-> None, flags |-> {}]]
    /\ gate = [v \in Vectors |-> [present |-> FALSE, dpl |-> 0]]
    /\ mask = <<{}, {}>> /\ irr = {} /\ isr = {}
    /\ boot = "reset"
    /\ current = Main
    /\ cpu = [if |-> FALSE, mode |-> "kernel", regs |-> Own(Main, 0), rax |-> Own(Main, 0)]
    /\ stack = [t \in Threads |-> <<>>]
    /\ nest = [t \in Threads |-> <<>>]
    /\ report = <<>>
    /\ wild = FALSE
-----------------------------------------------------------------------------
(* Tables and masks *)

\* Mutant of Privilege: the bit of the flag is stored.
PrivilegeBit(flags) == IF "USER" \in flags THEN 4 ELSE 0

Privilege(flags) == IF "USER" \in flags THEN 3 ELSE 0

\* set_irq_handler() for each vector of a set.
set_irq_handler(vs, address, flags) ==
    /\ handler' = [v \in Vectors |-> IF v \in vs THEN [address |-> address, flags |-> flags]
                                               ELSE handler[v]]
    /\ gate' = [v \in Vectors |-> IF v \in vs THEN [present |-> TRUE, dpl |-> Privilege(flags)]
                                            ELSE gate[v]]

\* pic_flip_irq(): the port number is kept in a char, so the data port 0xA1 of
\* the second controller turns into a port nobody listens to.
pic_flip_irq(irq) ==
    mask' = IF irq >= 8 THEN mask ELSE [mask EXCEPT ![1] = SymDiff(@, {irq})]

\* A step of initialize(), which runs in the main thread outside interrupts.
BootStep(from, to) ==
    /\ boot = from /\ report = <<>>
    /\ current = Main /\ nest[Main] = <<>>
    /\ boot' = to

initialize_pic ==
    /\ BootStep("reset", "pic")
    /\ mask' = <<Lines, Lines>> /\ irr' = {} /\ isr' = {}
    /\ UNCHANGED <<tables, code, report>>

\* create_idt(): all gates lead to their wrapper, none is present; set_idt().
create_idt ==
    /\ BootStep("pic", "idt")
    /\ gate' = [v \in Vectors |-> [present |-> FALSE, dpl |-> 0]]
    /\ UNCHANGED <<handler, pic, code, report>>

ErrorVectors == 8 .. 14

set_handlers ==
    /\ BootStep("idt", "handlers")
    /\ LET flags(v) == IF v \in ErrorVectors THEN {"ERRORCODE"} ELSE {}
       IN  /\ handler' = [v \in Vectors |->
                 CASE v = 15       -> handler[v]
                   [] v = SPURIOUS -> [address |-> "spurious", flags |-> {}]
                   [] OTHER        -> [address |-> "generic", flags |-> flags(v)]]
           /\ gate' = [v \in Vectors |-> IF v = 15 THEN gate[v]
                                         ELSE [present |-> TRUE, dpl |-> Privilege(flags(v))]]
    /\ UNCHANGED <<pic, code, report>>

enable_irq ==
    /\ BootStep("handlers", "enabled")
    /\ cpu' = [cpu EXCEPT !.if = TRUE]
    /\ UNCHANGED <<tables, pic, current, stack, nest, wild, report>>

initialize_virtual_memory ==
    /\ BootStep("enabled", "paging")
    /\ set_irq_handler({PAGE_FAULT}, "page_fault", {"ERRORCODE"})
    /\ UNCHANGED <<pic, code, report>>

\* initialize_tasks(): what create_thread() puts on the stacks.
initialize_tasks ==
    /\ BootStep("paging", "tasks")
    /\ stack' = [t \in Threads |->
                    IF t = Main THEN stack[t]
                    ELSE <<Frame(TRUE, Mode(t)), VectorWord(0), Regs(Own(t, 0), Own(t, 0))>>]
    /\ nest' = [t \in Threads |-> IF t = Main THEN <<>> ELSE <<Fresh>>]
    /\ UNCHANGED <<tables, pic, current, cpu, wild, report>>

\* User programs may use the gate of the system call.
initialize_syscalls ==
    /\ BootStep("tasks", "syscalls")
    /\ set_irq_handler({SYSCALL_INT}, "syscall_int", {"RETVAL", "USER"})
    /\ UNCHANGED <<pic, code, report>>

\* Mutant of pit_initialize: the line is opened before the handler is set.
PitOpenedFirst ==
    \/ /\ BootStep("syscalls", "timer")
       /\ pic_flip_irq(0)
       /\ UNCHANGED <<tables, irr, isr, code, report>>
    \/ /\ BootStep("timer", "run")
       /\ set_irq_handler({PIC1_OFFSET}, "pit", {})
       /\ UNCHANGED <<pic, code, report>>

\* Mutant of pit_initialize: the handler is said to return a value.
PitReturnsValue ==
    \/ /\ BootStep("syscalls", "timer")
       /\ set_irq_handler({PIC1_OFFSET}, "pit", {"RETVAL"})
       /\ UNCHANGED <<pic, code, report>>
    \/ /\ BootStep("timer", "run")
       /\ pic_flip_irq(0)
       /\ UNCHANGED <<tables, irr, isr, code, report>>

\* pit_initialize(), which interrupts may interrupt.
pit_initialize ==
    \/ /\ BootStep("syscalls", "timer")
       /\ set_irq_handler({PIC1_OFFSET}, "pit", {})
       /\ UNCHANGED <<pic, code, report>>
    \/ /\ BootStep("timer", "run")
       /\ pic_flip_irq(0)
       /\ UNCHANGED <<tables, irr, isr, code, report>>

Boot == \/ initialize_pic \/ create_idt \/ set_handlers \/ enable_irq
        \/ initialize_virtual_memory \/ initialize_tasks \/ initialize_syscalls
        \/ pit_initialize
-----------------------------------------------------------------------------
(* Entry *)

Depth(t) == Len(nest[t])

\* The running thread is between two instructions of its program or of the
\* body of a handler.
Interruptible ==
    /\ report = <<>> /\ ~wild
    /\ boot \notin {"reset", "pic", "idt"}
    /\ nest[current] # <<>> => Last(nest[current]).stage = "body"

\* The processor, interrupt_wrapper and handler up to the call: frame, error
\* code, vector and registers go on the stack, interrupts are masked.  A gate
\* that is not present raises vector 11 instead.
Enter(vector, error) ==
    LET v == IF gate[vector].present THEN vector ELSE 11
        e == IF gate[vector].present THEN error ELSE TRUE
        pushed == <<Frame(cpu.if, cpu.mode)>> \o (IF e THEN <<ErrorWord>> ELSE <<>>)
                     \o <<VectorWord(v), Regs(cpu.regs, cpu.rax)>>
    IN  /\ Interruptible
        /\ Depth(current) < MaxDepth
        /\ stack' = [stack EXCEPT ![current] = @ \o pushed]
        /\ nest' = [nest EXCEPT ![current] = Append(@, Inside(v, handler[v].address, e))]
        /\ LET own == Own(current, Depth(current) + 1)
           IN  cpu' = [if |-> FALSE, mode |-> "kernel", regs |-> own, rax |-> own]
        /\ UNCHANGED <<tables, boot, current, wild, report>>

\* An exception.  What page_fault_handler() works on is mapped.
Exception(v) ==
    /\ v \in Raisable
    /\ \A i \in DOMAIN nest[current] : nest[current][i].address # "page_fault"
    /\ Enter(v, v \in HasErrorCode)
    /\ UNCHANGED pic

\* A user program executes `int n': a protection fault unless the gate is open
\* to it.
SoftwareInt(n) ==
    /\ cpu.mode = "user"
    /\ IF gate[n].dpl = 3 THEN Enter(n, FALSE) ELSE Enter(13, TRUE)
    /\ UNCHANGED pic

\* A device requests an interrupt.
Request(line) == irr' = irr \cup {line} /\ UNCHANGED <<tables, mask, isr, boot, code, report>>

\* The controller has a request that is not masked and serves no other one.
Deliver(line) ==
    /\ cpu.if
    /\ line \in irr \ mask[1] /\ isr = {}
    /\ Enter(PIC1_OFFSET + line, FALSE)
    /\ irr' = irr \ {line} /\ isr' = isr \cup {line}
    /\ UNCHANGED mask

\* The request is gone when the processor asks for it: nothing is in service.
Spurious ==
    /\ cpu.if /\ isr = {}
    /\ Enter(SPURIOUS, FALSE)
    /\ UNCHANGED pic
-----------------------------------------------------------------------------
(* Handlers *)

Top == Last(nest[current])

Running(address) ==
    /\ report = <<>> /\ ~wild
    /\ nest[current] # <<>>
    /\ Top.stage = "body" /\ Top.address = address

Stage(n, t, stage) == [n EXCEPT ![t] = [@ EXCEPT ![Len(@)].stage = stage]]

\* The handler returns to the entry code with this in rax; a void function
\* leaves anything there.
ReturnFrom(rax) ==
    /\ nest' = Stage(nest, current, "exit")
    /\ cpu' = [cpu EXCEPT !.rax = rax]
    /\ UNCHANGED <<tables, boot, current, stack, wild, report>>

Junk   == "junk"
Result == "result"

\* generic_exception_handler(): whether there is an error code, and with it the
\* place of the frame, is taken from the flags; the system halts.
Generic ==
    LET words == stack[current]
        coded == "ERRORCODE" \in handler[Top.v].flags
        at == Len(words) - IF coded THEN 3 ELSE 2
    IN  /\ report' = <<IF coded THEN words[Len(words) - 2].kind ELSE None,
                      IF at > 0 THEN words[at].kind ELSE None>>
        /\ UNCHANGED <<tables, pic, boot, code>>

generic_exception_handler == Running("generic") /\ Generic

\* page_fault_handler(): a lazy page is given its frame, or the fault is real.
page_fault_handler ==
    /\ Running("page_fault")
    /\ \/ ReturnFrom(Junk) /\ UNCHANGED pic
       \/ Generic

spurious_interrupt_handler ==
    /\ Running("spurious")
    /\ ReturnFrom(Junk)
    /\ UNCHANGED pic

irq_eoi == isr' = IF isr = {} THEN {} ELSE isr \ {Min(isr)}

\* preempt_int(): thread t continues where it was switched away from, which is
\* the end of its handler, or starts.
Switch(t) ==
    /\ t # current /\ t \in Threads
    /\ nest[t] # <<>>
    /\ nest' = Stage(nest, current, "exit")
    /\ current' = t
    /\ cpu' = [if |-> FALSE, mode |-> "kernel", regs |-> Own(t, Len(nest[t])),
               rax |-> IF Last(nest[t]).address = "syscall_int" THEN Result ELSE Junk]
    /\ UNCHANGED <<tables, boot, stack, wild, report>>

\* Mutant of pit_handler: the interrupt is acknowledged when the thread runs
\* again.
PitAcknowledgesLate ==
    /\ Running("pit")
    /\ \E t \in Threads : Switch(t)
    /\ IF Len(nest[current']) > 0 /\ Last(nest[current']).address = "pit"
       THEN irq_eoi ELSE UNCHANGED isr
    /\ UNCHANGED <<mask, irr>>

\* pit_handler(): irq_eoi(), then preempt_int().
pit_handler ==
    /\ Running("pit")
    /\ irq_eoi
    /\ \E t \in Threads : Switch(t)
    /\ UNCHANGED <<mask, irr>>

\* syscall_int_handler(): what is in rax is the result, or for a number without a
\* system call whatever bad_syscall() left there; a yield switches to another
\* thread.
syscall_int_handler ==
    /\ Running("syscall_int")
    /\ \/ ReturnFrom(Result)
       \/ \E t \in Threads : Switch(t)
    /\ UNCHANGED pic

Body == \/ generic_exception_handler \/ page_fault_handler \/ spurious_interrupt_handler
        \/ pit_handler \/ syscall_int_handler
-----------------------------------------------------------------------------
(* Exit *)

\* Pop the registers, the error code if the zero flag is clear, the vector
\* number, and iretq.  The pops do not look at what they drop: with an error
\* code on the stack two words go.
Unwind(words, zero) ==
    LET n == Len(words)
        at == n - IF zero THEN 2 ELSE 3
    IN  /\ wild' = ~(at > 0 /\ words[at].kind = "iret")
        /\ stack' = [stack EXCEPT ![current] = SubSeq(words, 1, at - 1)]
        /\ nest' = [nest EXCEPT ![current] = Front(@)]
        /\ cpu' = [if |-> IF wild' THEN FALSE ELSE words[at].if,
                   mode |-> IF wild' THEN "kernel" ELSE words[at].mode,
                   regs |-> words[n].regs, rax |-> words[n].rax]

AtStage(stage) ==
    /\ report = <<>> /\ ~wild
    /\ nest[current] # <<>> /\ Top.stage = stage

\* After the call of the handler: rax replaces the saved one if the handler
\* returns a value; the zero flag is that of the test for an error code. The code
\* finds the flags through rbx. Handlers return it as they got it, the timer's too:
\* switch_task_int() does not save rbx, but its compiled caller does, as a
\* register the callee preserves. So the vector is the one of the entry.
Exit ==
    LET flags == handler[Top.v].flags
        words == stack[current]
    IN  /\ AtStage("exit")
        /\ Unwind(IF "RETVAL" \in flags THEN [words EXCEPT ![Len(words)].rax = cpu.rax] ELSE words,
                  "ERRORCODE" \notin flags)
        /\ UNCHANGED <<tables, pic, boot, current, report>>

\* Mutant of leave_interrupt_handler: "clear zero flag", as its comment says.
LeaveClearsZero ==
    /\ AtStage("leave")
    /\ Unwind(stack[current], FALSE)
    /\ UNCHANGED <<tables, pic, boot, current, report>>

\* xor rax, rax sets the zero flag: a new thread has no error code on its stack.
leave_interrupt_handler ==
    /\ AtStage("leave")
    /\ Unwind(stack[current], TRUE)
    /\ UNCHANGED <<tables, pic, boot, current, report>>

Return == Exit \/ leave_interrupt_handler

Next ==
    \/ Boot \/ Body \/ Return
    \/ \E v \in Raisable : Exception(v)
    \/ \E n \in Software : SoftwareInt(n)
    \/ \E line \in {0, 1} : Request(line)
    \/ \E line \in Lines : Deliver(line)
    \/ Spurious

Spec == Init /\ [][Next]_vars

\* The code of initialize() and of each handler runs on, whatever page faults it
\* takes on its way; a request that is met again and again with interrupts
\* enabled is taken.
FairSpec ==
    /\ Spec
    /\ SF_vars(Boot) /\ SF_vars(Return) /\ SF_vars(Deliver(0))
    /\ SF_vars(generic_exception_handler) /\ SF_vars(page_fault_handler)
    /\ SF_vars(spurious_interrupt_handler) /\ SF_vars(pit_handler)
    /\ SF_vars(syscall_int_handler)
-----------------------------------------------------------------------------
Words ==
    [kind : {"iret"}, if : BOOLEAN, mode : {"user", "kernel"}] \cup {ErrorWord}
    \cup [kind : {"vector"}, v : Vectors]
    \cup [kind : {"regs"}, regs : Threads \X Nat, rax : (Threads \X Nat) \cup {Junk, Result}]

TypeOK ==
    /\ \A v \in Vectors : /\ handler[v].flags \subseteq {"ERRORCODE", "RETVAL", "USER"}
                          /\ gate[v] \in [present : BOOLEAN, dpl : {0, 3}]
    /\ mask \in Seq(SUBSET Lines) /\ irr \subseteq Lines /\ isr \subseteq Lines
    /\ current \in Threads
    /\ cpu.if \in BOOLEAN /\ cpu.mode \in {"user", "kernel"}
    /\ \A t \in Threads : \A i \in DOMAIN stack[t] : stack[t][i] \in Words
    /\ \A t \in Threads : Len(nest[t]) <= MaxDepth
    /\ wild \in BOOLEAN

\* What the interrupts a thread is inside of must have left on its stack.
PushedBy(e) ==
    <<"iret">> \o (IF e.error THEN <<"error">> ELSE <<>>) \o <<"vector", "regs">>

\* The number of words below those of the i-th entry: three for each entry
\* inside of which it is, and their error codes.
Below(entries, i) == 3 * (i - 1) + Cardinality({j \in 1 .. i - 1 : entries[j].error})

\* The stack of every thread holds exactly what the entries it is inside of
\* have pushed, error codes included, through nested faults, new threads and
\* switches; so iretq always finds its frame.
StackExact ==
    ~wild /\ \A t \in Threads :
        /\ Len(stack[t]) = Below(nest[t], Depth(t) + 1)
        /\ \A i \in DOMAIN nest[t] :
              LET pushed == PushedBy(nest[t][i])
              IN  \A k \in DOMAIN pushed : stack[t][Below(nest[t], i) + k].kind = pushed[k]

\* Interrupted code finds its registers as they were; rax is another one only
\* as the result of a system call.
RegistersExact ==
    ~wild => /\ cpu.regs = Own(current, Depth(current))
             /\ (Depth(current) = 0 => cpu.rax \in {Own(current, 0), Result})

\* The report that halts the system is of an exception, never of a line of the
\* controller that was unmasked before it had its handler; it shows an error
\* code when there is one, and the frame of the code that was interrupted.
ReportExact ==
    report # <<>> => /\ Top.v \in Exceptions
                     /\ report = <<IF Top.error THEN "error" ELSE None, "iret">>

\* A request of the timer is served: it is acknowledged before the switch,
\* because the next thread may be one that returns from no interrupt, and
\* nothing in service blocks the line for ever, unless the system halted.
TimerServed == (0 \in irr /\ boot = "run") ~> (0 \notin irr \/ report # <<>>)
=============================================================================
