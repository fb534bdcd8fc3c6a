-------------------------------- MODULE Task --------------------------------
(***************************************************************************)
(* Tasks, threads and context switches: kernel/core/task.c, task_asm.asm,  *)
(* the two system call paths of syscall.c and syscall_asm.asm, and the     *)
(* timer interrupt of pit.c that drives preemption.                        *)
(*                                                                         *)
(* Every handler runs with interrupts disabled (all gates are interrupt    *)
(* gates, IA32_FMASK clears IF on `syscall'), so each is one action.  What *)
(* the model keeps of the machine is what a switch must get right:         *)
(*   - cpu: the registers of the running thread.  callee stands for the    *)
(*     callee-saved registers, scratch for the others (rax excepted), sp   *)
(*     for the stack pointer, mode for the privilege level;                *)
(*   - the per-CPU places through which the kernel finds the running       *)
(*     thread: IA32_KERNEL_GS_BASE (gs_base), tss.rsp0 and PML4[0];        *)
(*   - frame[s]: the context saved on the kernel stack of thread s, and    *)
(*     rsp[t]: the stack on which thread t left its context.               *)
(* A register holds a token <<t, e>>: a value that thread t computed in    *)
(* its epoch e, or NULL for a value nobody may rely on.                    *)
(***************************************************************************)
EXTENDS Naturals, FiniteSets

CONSTANTS Users,    \* user tasks; each has one thread, named like the task
          Workers,  \* kernel threads made by create_kernel_thread (do_sth)
          MaxEpoch, \* bound: how many different values a thread computes
          NULL

Kernel == "kernel"
Main   == "main"
Idle   == "idle"

Tasks   == Users \cup {Kernel}
Threads == Users \cup Workers \cup {Main, Idle}
TaskOf(t) == IF t \in Users THEN t ELSE Kernel

\* initialize_tasks() creates user tasks and a kernel thread; with neither of
\* them the main thread would be alone and switch to itself.
ASSUME NamesAssumption ==
    /\ IsFiniteSet(Users) /\ IsFiniteSet(Workers)
    /\ Users \cap Workers = {}
    /\ (Users \cup Workers) \cap {Kernel, Main, Idle} = {}
    /\ Users \cup Workers # {}
    /\ NULL \notin Tasks \cup Threads
    /\ NULL \notin Threads \X Nat
    /\ MaxEpoch \in Nat

VARIABLES tasks,          \* [next, prev]: the ring of tasks
          threads,        \* [next, prev]: the rings of threads
          head,           \* task->threads
          state,          \* thread->state, "none" before creation
          current_task, current_thread,
          gs_base, rsp0, space,
          rsp, frame,
          user_rsp, syscall_type,
          cpu,
          pit,            \* IRQ 0 is unmasked
          want,           \* ghost: the epoch each thread has reached
          spoiled,        \* ghost: threads whose scratch registers a `syscall' took
          served,         \* ghost: tasks scheduled in the current round
          selfswitch      \* a thread was switched to itself

lists == <<tasks, threads, head, state>>
env   == <<gs_base, rsp0, space>>
vars  == <<lists, current_task, current_thread, env, rsp, frame, user_rsp,
           syscall_type, cpu, pit, want, spoiled, served, selfswitch>>

Created == {t \in Threads : state[t] # "none"}
Epochs  == 0 .. MaxEpoch
Tokens  == Threads \X Epochs
Values  == Tokens \cup {NULL}
Context == [entry : {"int", "sys"}, callee : Values, scratch : Values,
            sp : Values, mode : {"user", "kernel"}]
-----------------------------------------------------------------------------
\* Mutant of CLIST_ADD: list->prev is not updated.
CLIST_ADDForward(l, list, v) ==
    IF list = NULL
    THEN [next |-> [l.next EXCEPT ![v] = v], prev |-> [l.prev EXCEPT ![v] = v]]
    ELSE [next |-> [l.next EXCEPT ![l.prev[list]] = v, ![v] = list],
          prev |-> [l.prev EXCEPT ![v] = l.prev[list]]]

\* CLIST_ADD(list, v) of ds.h: insert v before list in the ring l; an empty
\* list becomes a ring of one.  The caller decides what the head becomes.
CLIST_ADD(l, list, v) ==
    IF list = NULL
    THEN [next |-> [l.next EXCEPT ![v] = v], prev |-> [l.prev EXCEPT ![v] = v]]
    ELSE [next |-> [l.next EXCEPT ![l.prev[list]] = v, ![v] = list],
          prev |-> [l.prev EXCEPT ![v] = l.prev[list], ![list] = v]]

\* The context create_thread() builds on the stack of a new thread: it enters
\* the thread's main through leave_interrupt_handler with zeroed registers.
FreshContext(t) ==
    [entry |-> "int", callee |-> <<t, 0>>, scratch |-> <<t, 0>>,
     sp |-> <<t, 0>>, mode |-> IF t \in Users THEN "user" ELSE "kernel"]

\* thread->stack_top; the main thread keeps its boot stack and has none.
StackTop(t) == IF t = Main THEN NULL ELSE t

\* initialize_tasks() up to the creation of further threads: the idle thread
\* is put into the empty list of the kernel task, then the main thread.
Init ==
    /\ LET none == [next |-> [t \in Threads |-> NULL], prev |-> [t \in Threads |-> NULL]]
       IN  threads = CLIST_ADD(CLIST_ADD(none, NULL, Idle), Idle, Main)
    /\ LET none == [next |-> [t \in Tasks |-> NULL], prev |-> [t \in Tasks |-> NULL]]
       IN  tasks = CLIST_ADD(none, NULL, Kernel)
    /\ head = [t \in Tasks |-> IF t = Kernel THEN Main ELSE NULL]
    /\ state = [t \in Threads |-> CASE t = Main -> "RUNNING"
                                    [] t = Idle -> "WAITING"
                                    [] OTHER -> "none"]
    /\ current_task = Kernel
    /\ current_thread = Main
    /\ gs_base = NULL /\ rsp0 = NULL /\ space = NULL
    /\ rsp = [t \in Threads |-> IF t = Idle THEN Idle ELSE NULL]
    /\ frame = [t \in Threads |-> IF t = Idle THEN FreshContext(t) ELSE NULL]
    /\ user_rsp = [t \in Threads |-> NULL]
    /\ syscall_type = [t \in Threads |-> NULL]
    /\ cpu = [callee |-> <<Main, 0>>, scratch |-> <<Main, 0>>,
              sp |-> <<Main, 0>>, mode |-> "kernel"]
    /\ pit = FALSE
    /\ want = [t \in Threads |-> 0]
    /\ spoiled = {}
    /\ served = {}
    /\ selfswitch = FALSE

\* create_thread(): a runnable thread, inserted before the head of its task's
\* list, or as the head of an empty list.
create_thread(t) ==
    LET task == TaskOf(t) IN
    /\ rsp' = [rsp EXCEPT ![t] = t]
    /\ frame' = [frame EXCEPT ![t] = FreshContext(t)]
    /\ state' = [state EXCEPT ![t] = "RUNNING"]
    /\ threads' = CLIST_ADD(threads, head[task], t)
    /\ head' = [head EXCEPT ![task] = IF @ = NULL THEN t ELSE @]

\* create_kernel_thread(&kernel_task, ...), called by the main thread at boot.
create_kernel_thread(t) ==
    /\ ~pit
    /\ state[t] = "none"
    /\ create_thread(t)
    /\ UNCHANGED <<tasks, current_task, current_thread, env, user_rsp, syscall_type,
                   cpu, pit, want, spoiled, served, selfswitch>>

\* create_usermode_task(): a new address space is installed and kept as the
\* memory of the task, which joins the ring before the current task.
create_usermode_task(u) ==
    /\ ~pit
    /\ state[u] = "none"
    /\ space' = u
    /\ create_thread(u)
    /\ tasks' = CLIST_ADD(tasks, current_task, u)
    /\ UNCHANGED <<current_task, current_thread, gs_base, rsp0, user_rsp,
                   syscall_type, cpu, pit, want, spoiled, served, selfswitch>>

\* pit_initialize(), the last step of the boot: IRQ 0 may fire from now on.
pit_initialize ==
    /\ ~pit
    /\ Created = Threads
    /\ pit' = TRUE
    /\ UNCHANGED <<lists, current_task, current_thread, env, rsp, frame, user_rsp,
                   syscall_type, cpu, want, spoiled, served, selfswitch>>
-----------------------------------------------------------------------------
\* The inner loop of schedule(): the first RUNNING thread of the ring from t on,
\* NULL when the walk comes round without one.
FirstRunning(t) ==
    LET walk[left \in 0 .. Cardinality(Threads)] ==
            [x \in Threads |-> IF left = 0 THEN NULL
                               ELSE IF state[x] = "RUNNING" THEN x
                               ELSE walk[left - 1][threads.next[x]]]
    IN  walk[Cardinality(Threads)][t]

\* The outer loop of schedule() from a task on: the first task with a RUNNING
\* thread after its head gives this thread, which becomes the head.  A task
\* without one is walked in full circle and left as it was; when no task has
\* one the idle thread is taken.
SearchFrom(first) ==
    LET turn[task \in Tasks] == FirstRunning(threads.next[head[task]])
        search[left \in 0 .. Cardinality(Tasks)] ==
            [task \in Tasks |->
                IF left = 0 THEN [thread |-> Idle, head |-> head]
                ELSE IF turn[task] = NULL THEN search[left - 1][tasks.next[task]]
                ELSE [thread |-> turn[task], head |-> [head EXCEPT ![task] = turn[task]]]]
    IN  search[Cardinality(Tasks)][first]

\* Mutant of schedule: the current task is not skipped.
ScheduleCurrent == SearchFrom(current_task)

\* Mutant of schedule: the search always starts at the kernel task.
ScheduleKernel == SearchFrom(tasks.next[Kernel])

\* Mutant of schedule: the list of threads of the chosen task is not advanced.
ScheduleSameHead == [SearchFrom(tasks.next[current_task]) EXCEPT !.head = head]

\* schedule() begins with the task after the current one.
schedule == SearchFrom(tasks.next[current_task])

\* Mutant of switch_environment: tss.rsp0 is left alone.
SwitchWithoutStack(old, new) ==
    IF old = new THEN UNCHANGED env
    ELSE /\ gs_base' = new
         /\ space' = IF TaskOf(new) = Kernel THEN space ELSE TaskOf(new)
         /\ UNCHANGED rsp0

\* Mutant of switch_environment: kernel tasks are not an exception.
SwitchAlways(old, new) ==
    IF old = new THEN UNCHANGED env
    ELSE /\ gs_base' = new
         /\ space' = TaskOf(new)
         /\ rsp0' = StackTop(new)

\* switch_environment(): the places through which the next kernel entry finds
\* its thread; kernel threads keep the address space that is loaded.
switch_environment(old, new) ==
    IF old = new THEN UNCHANGED env
    ELSE /\ gs_base' = new
         /\ space' = IF TaskOf(new) = Kernel THEN space ELSE TaskOf(new)
         /\ rsp0' = StackTop(new)

\* Load the context that thread new left on its stack.  A system call context
\* takes the user stack pointer from the thread structure found through GS;
\* callee-saved registers that were not saved keep the values of the thread
\* that ran last.
Restore(ctx, new) ==
    cpu' = [callee  |-> IF ctx.callee = NULL THEN cpu.callee ELSE ctx.callee,
            scratch |-> ctx.scratch,
            sp      |-> IF ctx.entry = "sys" THEN user_rsp'[gs_base'] ELSE ctx.sp,
            mode    |-> ctx.mode]

\* preempt_int() and preempt_syscall(): leave ctx on stack s, switch to the
\* thread schedule() picks.  switch_task_int is handed the new thread's saved
\* stack pointer before it stores the old thread's one, so a switch of a
\* thread to itself would load a stale stack pointer.
preempt(s, ctx) ==
    /\ \E pick \in {schedule} : LET new == pick.thread IN
          /\ head' = pick.head
          /\ current_thread' = new
          /\ current_task' = TaskOf(new)
          /\ switch_environment(current_thread, new)
          /\ rsp' = [rsp EXCEPT ![current_thread] = s]
          /\ frame' = [frame EXCEPT ![s] = ctx]
          /\ Restore(frame'[rsp[new]], new)
          /\ selfswitch' = (selfswitch \/ new = current_thread)
          /\ served' = IF served \cup {TaskOf(new)} = Tasks THEN {}
                       ELSE served \cup {TaskOf(new)}
    /\ UNCHANGED <<tasks, threads, state, pit, want>>

\* The context the common interrupt entry saves: all registers.
IntContext == [entry |-> "int", callee |-> cpu.callee, scratch |-> cpu.scratch,
               sp |-> cpu.sp, mode |-> cpu.mode]

\* The stack an interrupt is taken on: tss.rsp0 when it arrives in user mode.
IntStack == IF cpu.mode = "user" THEN rsp0 ELSE current_thread

\* pit_handler(): acknowledge the interrupt and preempt.
pit_handler ==
    /\ pit
    /\ UNCHANGED <<user_rsp, syscall_type, spoiled>>
    /\ preempt(IntStack, IntContext)

\* Mutant of sys_yield: always the switch made for interrupts.
YieldAsInt(s, ctx) ==
    /\ syscall_type'[current_thread] \in {"INT", "SYS"}
    /\ preempt(s, [ctx EXCEPT !.callee = IF ctx.entry = "int" THEN @ ELSE NULL])

\* sys_yield(): the way the thread entered the kernel, as recorded in its
\* structure, selects the kind of switch.  Only switch_task_sys saves the
\* callee-saved registers of a system call, an interrupt entry has done so.
sys_yield(s, ctx) ==
    LET type == syscall_type'[current_thread]
        kept == IF type = "SYS" \/ ctx.entry = "int" THEN ctx.callee ELSE NULL
    IN  /\ type \in {"INT", "SYS"}
        /\ preempt(s, [ctx EXCEPT !.callee = kept])

\* Mutant of EnterFast: the user stack pointer is not stored.
EnterFastNoStack ==
    /\ syscall_type' = [syscall_type EXCEPT ![gs_base] = "SYS"]
    /\ spoiled' = spoiled \cup {current_thread}
    /\ UNCHANGED user_rsp

\* syscall_fast_handler: the thread structure is the one GS points to.
EnterFast ==
    /\ user_rsp' = [user_rsp EXCEPT ![gs_base] = cpu.sp]
    /\ syscall_type' = [syscall_type EXCEPT ![gs_base] = "SYS"]
    /\ spoiled' = spoiled \cup {current_thread}

SysContext == [IntContext EXCEPT !.entry = "sys", !.scratch = NULL, !.sp = NULL]

\* `syscall' with number 0.
FastYield ==
    /\ cpu.mode = "user"
    /\ EnterFast
    /\ sys_yield(gs_base, SysContext)

\* `syscall' with another number: sys_printk or bad_syscall, no switch. The code
\* compares the number with eight bytes at the four of syscall_count; here it is
\* the comparison that is meant.
FastOther ==
    /\ cpu.mode = "user"
    /\ EnterFast
    /\ cpu' = [cpu EXCEPT !.scratch = NULL, !.sp = user_rsp'[gs_base]]
    /\ UNCHANGED <<lists, current_task, current_thread, env, rsp, frame,
                   pit, want, served, selfswitch>>

\* `int 0x30' with number 0: syscall_int_handler.
IntYield ==
    /\ cpu.mode = "user"
    /\ syscall_type' = [syscall_type EXCEPT ![current_thread] = "INT"]
    /\ UNCHANGED <<user_rsp, spoiled>>
    /\ sys_yield(rsp0, IntContext)

\* `int 0x30' with number 1, sys_printk; numbers beyond the table only print a
\* warning, in which case the entry path is not recorded.
IntOther ==
    /\ cpu.mode = "user"
    /\ syscall_type' = [syscall_type EXCEPT ![current_thread] = "INT"]
    /\ UNCHANGED <<lists, current_task, current_thread, env, rsp, frame, user_rsp,
                   cpu, pit, want, spoiled, served, selfswitch>>

\* The running thread computes: its registers take new values.
Run ==
    /\ pit
    /\ \E e \in Epochs :
          LET v == <<current_thread, e>> IN
          /\ e # want[current_thread]
          /\ want' = [want EXCEPT ![current_thread] = e]
          /\ spoiled' = spoiled \ {current_thread}
          /\ cpu' = [cpu EXCEPT !.callee = v, !.scratch = v, !.sp = v]
    /\ UNCHANGED <<lists, current_task, current_thread, env, rsp, frame, user_rsp,
                   syscall_type, pit, served, selfswitch>>

Boot == \/ \E t \in Workers : create_kernel_thread(t)
        \/ \E u \in Users : create_usermode_task(u)
        \/ pit_initialize

syscall == FastYield \/ FastOther \/ IntYield \/ IntOther

Next == Boot \/ pit_handler \/ syscall \/ Run

Spec == Init /\ [][Next]_vars

\* The timer fires periodically and every thread runs with interrupts enabled;
\* the boot code runs to its end.
FairSpec == Spec /\ WF_vars(Boot) /\ WF_vars(pit_handler)
-----------------------------------------------------------------------------
Ring(S) == [next : [S -> S \cup {NULL}], prev : [S -> S \cup {NULL}]]

TypeOK ==
    /\ tasks \in Ring(Tasks) /\ threads \in Ring(Threads)
    /\ head \in [Tasks -> Threads \cup {NULL}]
    /\ state \in [Threads -> {"none", "RUNNING", "WAITING"}]
    /\ current_task \in Tasks /\ current_thread \in Threads
    /\ gs_base \in Threads \cup {NULL} /\ rsp0 \in Threads \cup {NULL}
    /\ space \in Users \cup {NULL}
    /\ rsp \in [Threads -> Threads \cup {NULL}]
    /\ frame \in [Threads -> Context \cup {NULL}]
    /\ user_rsp \in [Threads -> Values]
    /\ syscall_type \in [Threads -> {"INT", "SYS", NULL}]
    /\ cpu \in [callee : Values, scratch : Values, sp : Values, mode : {"user", "kernel"}]
    /\ pit \in BOOLEAN
    /\ want \in [Threads -> Epochs] /\ spoiled \in SUBSET Threads
    /\ served \in SUBSET Tasks /\ selfswitch \in BOOLEAN

\* The ring l links exactly the members of S, in one circle both ways: a walk
\* along next stays in no proper part of S.
OneCircle(l, S) ==
    /\ \A x \in S : l.next[x] \in S /\ l.prev[l.next[x]] = x
    /\ \A Q \in (SUBSET S) \ {{}} : (\A x \in Q : l.next[x] \in Q) => Q = S

ThreadsOf(task) == {t \in Created : TaskOf(t) = task}
CreatedTasks == {task \in Tasks : ThreadsOf(task) # {}}

\* The insertions of create_thread() and create_usermode_task() and the head
\* movements of schedule() keep every created task on the ring the scheduler
\* walks, and every thread of a task on the ring that its head belongs to.
RingsComplete ==
    /\ OneCircle(tasks, CreatedTasks)
    /\ \A task \in CreatedTasks :
          OneCircle(threads, ThreadsOf(task)) /\ head[task] \in ThreadsOf(task)

\* While user code runs, the next kernel entry finds the right thread, stack
\* and memory: GS, tss.rsp0 and PML4[0] were set by the switch that resumed
\* exactly this thread, although kernel threads ran in between and kernel
\* tasks leave the address space alone.
UserEnvironment ==
    cpu.mode = "user" => /\ gs_base = current_thread
                         /\ rsp0 = StackTop(current_thread)
                         /\ space = TaskOf(current_thread)
                         /\ current_task = TaskOf(current_thread)

\* The values thread t must find in its registers when it runs again.
Computed(t) == <<t, want[t]>>
Scratch(t)  == IF t \in spoiled THEN NULL ELSE Computed(t)
Mode(t)     == IF t \in Users THEN "user" ELSE "kernel"

\* The running thread computes with its own values: a timer interrupt loses no
\* register, a system call at most the scratch registers, however entries
\* through int 0x30, `syscall' and IRQ 0 of all threads are interleaved.
RegistersKept ==
    /\ cpu.callee = Computed(current_thread)
    /\ cpu.scratch = Scratch(current_thread)
    /\ cpu.sp = Computed(current_thread)
    /\ cpu.mode = Mode(current_thread)

\* Every thread that is not running has left the context to resume it on its
\* own kernel stack, and no other thread has overwritten it.
Suspended(t) ==
    /\ rsp[t] = t
    /\ frame[t] \in Context
    /\ frame[t].callee = Computed(t)
    /\ frame[t].scratch = Scratch(t)
    /\ IF frame[t].entry = "sys" THEN user_rsp[t] = Computed(t)
                                 ELSE frame[t].sp = Computed(t)
    /\ frame[t].mode = Mode(t)

StacksKept == \A t \in Created \ {current_thread} : Suspended(t)

\* preempt_int() and preempt_syscall() never switch a thread to itself: they
\* read the new stack pointer before the old one is stored, which is sound for
\* two different threads only.
NoSelfSwitch == ~selfswitch

\* A task that had its turn is not scheduled again before all the others had
\* theirs, whether they are preempted or yield.
FairTurns ==
    [][current_thread' # current_thread => TaskOf(current_thread') \notin served]_vars

\* Every runnable thread runs again and again, whatever the others do.
EveryoneRuns ==
    \A t \in Threads \ {Idle} : []<>(current_thread = t /\ state[t] = "RUNNING")
=============================================================================
