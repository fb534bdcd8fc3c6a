----------------------------- MODULE TaskProofs -----------------------------
(***************************************************************************)
(* Proofs about Task: the rings of tasks and threads stay complete, and a  *)
(* context switch resumes every thread with its own registers, stack and   *)
(* memory, for every number of user tasks and kernel threads.              *)
(***************************************************************************)
EXTENDS Task, FiniteSetTheorems, TLAPS

\* A task without a thread has an empty list: create_thread() decides by the
\* head whether it starts a list or inserts into one.
HeadsExact == \A task \in Tasks \ CreatedTasks : head[task] = NULL

\* Where the scheduler stands: current_thread and current_task agree, and the
\* list of the current task starts at the current thread.
AtHead ==
    /\ current_thread \in Created
    /\ current_task = TaskOf(current_thread)
    /\ head[current_task] = current_thread

\* The phases of the kernel: before pit_initialize() the main thread creates
\* the others, afterwards nothing is created.  Only the idle thread waits.
Phase ==
    /\ {Main, Idle} \subseteq Created
    /\ \A t \in Threads : state[t] = "WAITING" <=> t = Idle
    /\ pit => Created = Threads
    /\ ~pit => /\ current_thread = Main
               /\ served = {} /\ spoiled = {} /\ want = [t \in Threads |-> 0]

\* The tasks that had their turn follow one another on the ring, up to the
\* current task.
ServedInOrder ==
    /\ served # Tasks
    /\ served # {} => current_task \in served
    /\ \A x \in served \ {current_task} : tasks.next[x] \in served

IInv ==
    /\ TypeOK /\ RingsComplete /\ HeadsExact /\ AtHead /\ Phase
    /\ UserEnvironment /\ RegistersKept /\ StacksKept
    /\ NoSelfSwitch /\ ServedInOrder
-----------------------------------------------------------------------------
\* In a circle every element has a predecessor: the successors form a part
\* that next does not leave.
LEMMA CircleBack ==
    ASSUME NEW l, NEW S, OneCircle(l, S), NEW y \in S
    PROVE  l.prev[y] \in S /\ l.next[l.prev[y]] = y
<1> DEFINE Q == {l.next[x] : x \in S}
<1>1. Q \in SUBSET S
  BY DEF OneCircle
<1>2. Q # {}
  OBVIOUS
<1>3. \A x \in Q : l.next[x] \in Q
  BY <1>1
<1>4. Q = S
  <2> HIDE DEF Q
  <2> QED  BY <1>1, <1>2, <1>3 DEF OneCircle
<1>5. PICK x \in S : l.next[x] = y
  BY <1>4
<1> QED  BY <1>5 DEF OneCircle

\* A circle with a step from x to x has no other element, and one with a step
\* from x to y and back has these two.
LEMMA CircleShort ==
    ASSUME NEW l, NEW S, OneCircle(l, S), NEW x \in S
    PROVE  /\ l.next[x] = x => S = {x}
           /\ l.next[l.next[x]] = x => S = {x, l.next[x]}
<1>0. l.next[x] \in S
  BY DEF OneCircle
<1>1. CASE l.next[x] = x
  <2>1. {x} \in (SUBSET S) \ {{}}
    OBVIOUS
  <2>2. \A y \in {x} : l.next[y] \in {x}
    BY <1>1
  <2>3. S = {x}
    BY <2>1, <2>2 DEF OneCircle
  <2> QED  BY <2>3, <1>0, <1>1
<1>2. CASE l.next[l.next[x]] = x /\ l.next[x] # x
  <2>1. {x, l.next[x]} \in (SUBSET S) \ {{}}
    BY <1>0
  <2>2. \A y \in {x, l.next[x]} : l.next[y] \in {x, l.next[x]}
    BY <1>2
  <2>3. S = {x, l.next[x]}
    BY <2>1, <2>2 DEF OneCircle
  <2> QED  BY <2>3, <1>2
<1> QED  BY <1>1, <1>2

\* A circle depends on nothing but the links of its elements.
LEMMA CircleKept ==
    ASSUME NEW l, NEW m, NEW S, OneCircle(l, S),
           \A x \in S : m.next[x] = l.next[x] /\ m.prev[x] = l.prev[x]
    PROVE  OneCircle(m, S)
  BY DEF OneCircle

\* CLIST_ADD to an empty list makes a ring of one.
LEMMA AddToNone ==
    ASSUME NEW D, NULL \notin D, NEW l \in Ring(D), NEW v \in D
    PROVE  /\ CLIST_ADD(l, NULL, v) \in Ring(D)
           /\ OneCircle(CLIST_ADD(l, NULL, v), {v})
           /\ \A x \in D \ {v} : /\ CLIST_ADD(l, NULL, v).next[x] = l.next[x]
                                 /\ CLIST_ADD(l, NULL, v).prev[x] = l.prev[x]
<1> DEFINE m == CLIST_ADD(l, NULL, v)
<1>1. m.next = [l.next EXCEPT ![v] = v] /\ m.prev = [l.prev EXCEPT ![v] = v]
  BY DEF CLIST_ADD
<1>2. m \in Ring(D)
  BY DEF CLIST_ADD, Ring
<1>3. m.next[v] = v /\ m.prev[v] = v
  BY <1>1 DEF Ring
<1>4. \A x \in D \ {v} : m.next[x] = l.next[x] /\ m.prev[x] = l.prev[x]
  BY <1>1 DEF Ring
<1> HIDE DEF m
<1>5. OneCircle(m, {v})
  BY <1>3 DEF OneCircle
<1> QED  BY <1>2, <1>4, <1>5 DEF m

\* CLIST_ADD before an element of a circle makes one circle with one element
\* more, and touches the links of no other list.
LEMMA AddToCircle ==
    ASSUME NEW D, NULL \notin D, NEW l \in Ring(D), NEW S \in SUBSET D, OneCircle(l, S),
           NEW list \in S, NEW v \in D \ S
    PROVE  /\ CLIST_ADD(l, list, v) \in Ring(D)
           /\ OneCircle(CLIST_ADD(l, list, v), S \cup {v})
           /\ \A x \in D \ (S \cup {v}) :
                 /\ CLIST_ADD(l, list, v).next[x] = l.next[x]
                 /\ CLIST_ADD(l, list, v).prev[x] = l.prev[x]
<1> DEFINE m == CLIST_ADD(l, list, v)
           p == l.prev[list]
<1>1. p \in S /\ l.next[p] = list /\ list # NULL
  BY CircleBack
<1>2. /\ m.next = [l.next EXCEPT ![p] = v, ![v] = list]
      /\ m.prev = [l.prev EXCEPT ![v] = p, ![list] = v]
  BY <1>1 DEF CLIST_ADD
<1>3. m \in Ring(D)
  BY <1>1 DEF CLIST_ADD, Ring
<1>4. /\ m.next[v] = list /\ m.next[p] = v
      /\ \A x \in D \ {p, v} : m.next[x] = l.next[x]
      /\ m.prev[list] = v /\ m.prev[v] = p
      /\ \A x \in D \ {list, v} : m.prev[x] = l.prev[x]
  BY <1>1, <1>2 DEF Ring
<1> HIDE DEF m, p
<1>5. \A x \in S : l.next[x] \in S /\ l.prev[l.next[x]] = x
  BY DEF OneCircle
<1>6. \A x \in S \cup {v} : m.next[x] \in S \cup {v} /\ m.prev[m.next[x]] = x
  <2> SUFFICES ASSUME NEW x \in S \cup {v}
               PROVE  m.next[x] \in S \cup {v} /\ m.prev[m.next[x]] = x
    OBVIOUS
  <2>1. CASE x = v
    BY <2>1, <1>4
  <2>2. CASE x = p
    BY <2>2, <1>4
  <2>3. CASE x \in S \ {p}
    <3>1. m.next[x] = l.next[x]
      BY <2>3, <1>4
    <3>2. l.next[x] # list
      BY <2>3, <1>5 DEF p
    <3> QED  BY <3>1, <3>2, <1>4, <1>5, <2>3
  <2> QED  BY <2>1, <2>2, <2>3
<1>7. ASSUME NEW Q \in (SUBSET (S \cup {v})) \ {{}}, \A x \in Q : m.next[x] \in Q
      PROVE  Q = S \cup {v}
  <2> DEFINE R == Q \ {v}
  <2>1. R \in SUBSET S /\ R # {}
    <3>1. CASE v \in Q
      BY <3>1, <1>4, <1>7
    <3> QED  BY <3>1, <1>7
  <2>2. \A x \in R : l.next[x] \in R
    <3> SUFFICES ASSUME NEW x \in R PROVE l.next[x] \in R
      OBVIOUS
    <3>1. CASE x = p
      BY <3>1, <1>4, <1>7, <1>1
    <3>2. CASE x # p
      BY <3>2, <1>4, <1>7, <1>5, <2>1
    <3> QED  BY <3>1, <3>2
  <2>3. R = S
    <3> HIDE DEF R
    <3> QED  BY <2>1, <2>2 DEF OneCircle
  <2>4. v \in Q
    BY <2>3, <1>1, <1>4, <1>7
  <2> QED  BY <2>3, <2>4
<1>8. OneCircle(m, S \cup {v})
  BY <1>6, <1>7 DEF OneCircle
<1> QED  BY <1>3, <1>4, <1>8, <1>1 DEF m
-----------------------------------------------------------------------------
LEMMA ThreadsMany ==
    /\ Cardinality(Threads) \in Nat /\ Cardinality(Threads) >= 2
    /\ Cardinality(Tasks) \in Nat /\ Cardinality(Tasks) >= 1
<1>1. IsFiniteSet(Threads) /\ IsFiniteSet(Tasks)
  <2>1. IsFiniteSet({Main, Idle}) /\ IsFiniteSet({Kernel})
    <3>1. IsFiniteSet({Main}) /\ IsFiniteSet({Idle}) /\ IsFiniteSet({Kernel})
      BY FS_Singleton
    <3>2. IsFiniteSet({Main} \cup {Idle})
      BY <3>1, FS_Union
    <3>3. {Main} \cup {Idle} = {Main, Idle}
      OBVIOUS
    <3> QED  BY <3>1, <3>2, <3>3
  <2>2. IsFiniteSet(Users \cup Workers)
    BY FS_Union, NamesAssumption
  <2>3. IsFiniteSet((Users \cup Workers) \cup {Main, Idle})
    BY FS_Union, <2>1, <2>2
  <2>4. (Users \cup Workers) \cup {Main, Idle} = Threads
    BY DEF Threads
  <2>5. IsFiniteSet(Tasks)
    BY FS_Union, <2>1, NamesAssumption DEF Tasks
  <2> QED  BY <2>3, <2>4, <2>5
<1>2. Cardinality({Main}) = 1 /\ Cardinality({Kernel}) = 1
  BY FS_Singleton
<1>3. Cardinality({Main} \cup {Idle}) = 2
  <2>1. IsFiniteSet({Main}) /\ Idle \notin {Main}
    BY FS_Singleton DEF Main, Idle
  <2>2. Cardinality({Main} \cup {Idle}) = Cardinality({Main}) + 1
    BY <2>1, FS_AddElement
  <2> QED  BY <2>2, <1>2
<1>4. {Main} \cup {Idle} \in SUBSET Threads /\ {Kernel} \in SUBSET Tasks
  BY DEF Threads, Tasks
<1>5. Cardinality(Threads) \in Nat /\ Cardinality(Tasks) \in Nat
  BY <1>1, FS_CardinalityType
<1>6. 2 <= Cardinality(Threads) /\ 1 <= Cardinality(Tasks)
  BY <1>1, <1>2, <1>3, <1>4, FS_Subset
<1> QED  BY <1>5, <1>6

\* The inner loop of schedule() as the equation its walk satisfies.
WalkBody(w) ==
    [left \in 0 .. Cardinality(Threads) |->
        [x \in Threads |-> IF left = 0 THEN NULL
                           ELSE IF state[x] = "RUNNING" THEN x
                           ELSE w[left - 1][threads.next[x]]]]

LEMMA WalkDef ==
    ASSUME NEW t
    PROVE  FirstRunning(t) = (CHOOSE w : w = WalkBody(w))[Cardinality(Threads)][t]
  BY DEF FirstRunning, WalkBody

\* With every thread created and only the idle thread waiting, the first
\* RUNNING thread is the one the walk starts at or, from the idle thread, the
\* next one.
LEMMA FirstIsRunning ==
    ASSUME TypeOK, RingsComplete, Phase, pit, NEW t \in Threads
    PROVE  FirstRunning(t) = IF t = Idle THEN threads.next[Idle] ELSE t
<1> DEFINE N == Cardinality(Threads)
           G == [left \in 0 .. N |->
                    [x \in Threads |-> IF left = 0 THEN NULL
                                       ELSE IF state[x] = "RUNNING" THEN x
                                       ELSE IF left = 1 THEN NULL ELSE threads.next[x]]]
           w == CHOOSE f : f = WalkBody(f)
<1>1. N \in Nat /\ N >= 2
  BY ThreadsMany
<1>2. /\ \A x \in Threads : state[x] = "RUNNING" <=> x # Idle
      /\ Idle \in Threads
  BY DEF Phase, Created, TypeOK, Threads
<1>3. threads.next[Idle] \in Threads /\ threads.next[Idle] # Idle
  <2>1. {Main, Idle} \subseteq ThreadsOf(Kernel)
    BY NamesAssumption DEF Phase, ThreadsOf, TaskOf, Threads
  <2>2. OneCircle(threads, ThreadsOf(Kernel))
    BY <2>1 DEF RingsComplete, CreatedTasks, Tasks
  <2>3. threads.next[Idle] # Idle
    BY <2>1, <2>2, CircleShort DEF Main, Idle
  <2>4. threads.next[Idle] \in ThreadsOf(Kernel)
    BY <2>1, <2>2 DEF OneCircle
  <2> QED  BY <2>3, <2>4 DEF ThreadsOf, Created
<1> HIDE DEF N
<1>4. G = WalkBody(G)
  <2>1. ASSUME NEW x \in Threads, NEW left \in 0 .. N, left # 0, x = Idle
        PROVE  G[left - 1][threads.next[x]] = IF left = 1 THEN NULL ELSE threads.next[x]
    <3>1. left - 1 \in 0 .. N /\ (left - 1 = 0 <=> left = 1)
      BY <2>1, <1>1
    <3>2. threads.next[x] \in Threads /\ state[threads.next[x]] = "RUNNING"
      BY <2>1, <1>2, <1>3
    <3> QED  BY <3>1, <3>2
  <2> HIDE DEF G
  <2>2. ASSUME NEW left \in 0 .. N
        PROVE  G[left] = WalkBody(G)[left]
    <3>1. \A x \in Threads : G[left][x] = WalkBody(G)[left][x]
      <4>1. \A x \in Threads : G[left][x] =
               IF left = 0 THEN NULL
               ELSE IF state[x] = "RUNNING" THEN x
               ELSE IF left = 1 THEN NULL ELSE threads.next[x]
        BY DEF G
      <4>2. \A x \in Threads : WalkBody(G)[left][x] =
               IF left = 0 THEN NULL
               ELSE IF state[x] = "RUNNING" THEN x
               ELSE G[left - 1][threads.next[x]]
        BY DEF WalkBody, N
      <4> QED  BY <4>1, <4>2, <2>1, <1>2
    <3>2. G[left] = [x \in Threads |-> G[left][x]]
      BY DEF G
    <3>3. WalkBody(G)[left] = [x \in Threads |-> WalkBody(G)[left][x]]
      BY DEF WalkBody, N
    <3> QED  BY <3>1, <3>2, <3>3
  <2>3. G = [left \in 0 .. N |-> G[left]]
    BY DEF G
  <2>4. WalkBody(G) = [left \in 0 .. N |-> WalkBody(G)[left]]
    BY DEF WalkBody, N
  <2> QED  BY <2>2, <2>3, <2>4
<1>5. w = WalkBody(w)
  <2> HIDE DEF G
  <2> QED  BY <1>4, Zenon
<1> HIDE DEF w, G
<1>6. \A x \in Threads, left \in 0 .. N :
         w[left][x] = IF left = 0 THEN NULL
                      ELSE IF state[x] = "RUNNING" THEN x
                      ELSE w[left - 1][threads.next[x]]
  <2>1. \A left \in 0 .. N : w[left] =
           [x \in Threads |-> IF left = 0 THEN NULL
                              ELSE IF state[x] = "RUNNING" THEN x
                              ELSE w[left - 1][threads.next[x]]]
    BY <1>5 DEF WalkBody, N
  <2> SUFFICES ASSUME NEW x \in Threads, NEW left \in 0 .. N
               PROVE  w[left][x] = IF left = 0 THEN NULL
                                   ELSE IF state[x] = "RUNNING" THEN x
                                   ELSE w[left - 1][threads.next[x]]
    OBVIOUS
  <2>2. w[left] = [y \in Threads |-> IF left = 0 THEN NULL
                                     ELSE IF state[y] = "RUNNING" THEN y
                                     ELSE w[left - 1][threads.next[y]]]
    BY <2>1
  <2> QED  BY <2>2, Zenon
<1>7. FirstRunning(t) = w[N][t]
  BY WalkDef DEF w, N
<1>8. CASE t = Idle
  <2>1. w[N][t] = w[N - 1][threads.next[t]]
    BY <1>1, <1>2, <1>6, <1>8
  <2>2. N - 1 \in 0 .. N /\ N - 1 # 0
    BY <1>1
  <2>3. w[N - 1][threads.next[t]] = threads.next[t]
    BY <2>2, <1>2, <1>3, <1>6, <1>8
  <2> QED  BY <2>1, <2>3, <1>7, <1>8
<1>9. CASE t # Idle
  BY <1>1, <1>2, <1>6, <1>7, <1>9
<1> QED  BY <1>8, <1>9

\* The outer loop, likewise.
Turn == [task \in Tasks |-> FirstRunning(threads.next[head[task]])]

SearchBody(s) ==
    [left \in 0 .. Cardinality(Tasks) |->
        [task \in Tasks |->
            IF left = 0 THEN [thread |-> Idle, head |-> head]
            ELSE IF Turn[task] = NULL THEN s[left - 1][tasks.next[task]]
            ELSE [thread |-> Turn[task], head |-> [head EXCEPT ![task] = Turn[task]]]]]

LEMMA SearchDef ==
    ASSUME NEW t
    PROVE  SearchFrom(t) = (CHOOSE s : s = SearchBody(s))[Cardinality(Tasks)][t]
  BY DEF SearchFrom, SearchBody, Turn

\* Once every thread is created every task has a RUNNING thread, which the
\* walk along its list finds.
LEMMA TurnFound ==
    ASSUME TypeOK, RingsComplete, Phase, pit, NEW task \in Tasks
    PROVE  /\ Turn[task] \in ThreadsOf(task) /\ Turn[task] # Idle
           /\ Turn[task] = IF threads.next[head[task]] = Idle THEN threads.next[Idle]
                           ELSE threads.next[head[task]]
<1>1. Created = Threads
  BY DEF Phase
<1>2. ThreadsOf(task) # {} /\ ThreadsOf(task) \subseteq Threads
  <2>1. CASE task = Kernel
    BY <2>1, <1>1, NamesAssumption DEF ThreadsOf, TaskOf, Threads
  <2>2. CASE task \in Users
    BY <2>2, <1>1 DEF ThreadsOf, TaskOf, Threads
  <2> QED  BY <2>1, <2>2, <1>1 DEF Tasks, ThreadsOf
<1>3. OneCircle(threads, ThreadsOf(task)) /\ head[task] \in ThreadsOf(task)
  BY <1>2 DEF RingsComplete, CreatedTasks
<1>4. threads.next[head[task]] \in ThreadsOf(task)
  BY <1>3 DEF OneCircle
<1>5. Turn[task] = IF threads.next[head[task]] = Idle THEN threads.next[Idle]
                   ELSE threads.next[head[task]]
  BY <1>2, <1>4, FirstIsRunning DEF Turn
<1>6. CASE threads.next[head[task]] = Idle
  <2>1. threads.next[Idle] \in ThreadsOf(task)
    BY <1>3, <1>4, <1>6 DEF OneCircle
  <2>2. Main \in ThreadsOf(task)
    BY <1>1, <1>4, <1>6, NamesAssumption DEF ThreadsOf, TaskOf, Threads
  <2>3. threads.next[Idle] # Idle
    BY <1>3, <1>4, <1>6, <2>2, CircleShort DEF Main, Idle
  <2> QED  BY <1>5, <1>6, <2>1, <2>3
<1> QED  BY <1>4, <1>5, <1>6

\* schedule() picks the first runnable thread of the next task, which becomes
\* the head of this task's list.
LEMMA ScheduleNext ==
    ASSUME TypeOK, RingsComplete, Phase, pit, NEW first \in Tasks
    PROVE  SearchFrom(first) =
              [thread |-> Turn[first], head |-> [head EXCEPT ![first] = Turn[first]]]
<1> DEFINE N == Cardinality(Tasks)
           Found == [task \in Tasks |-> [thread |-> Turn[task],
                                         head |-> [head EXCEPT ![task] = Turn[task]]]]
           None == [thread |-> Idle, head |-> head]
           G == [left \in 0 .. N |-> [task \in Tasks |->
                    IF left = 0 THEN None ELSE Found[task]]]
           s == CHOOSE f : f = SearchBody(f)
<1>1. N \in Nat /\ N >= 1
  BY ThreadsMany
<1>2. \A task \in Tasks : Turn[task] # NULL
  BY TurnFound, NamesAssumption DEF ThreadsOf, Created
<1>3. G = SearchBody(G)
  BY <1>2 DEF SearchBody
<1>4. s = SearchBody(s)
  <2> HIDE DEF G
  <2> QED  BY <1>3, Zenon
<1>5. SearchFrom(first) = s[N][first]
  BY SearchDef
<1>6. s[N][first] = Found[first]
  <2>0. N \in 0 .. N /\ N # 0
    BY <1>1
  <2> HIDE DEF N, s
  <2>1. s[N] = [task \in Tasks |->
            IF N = 0 THEN None
            ELSE IF Turn[task] = NULL THEN s[N - 1][tasks.next[task]]
            ELSE [thread |-> Turn[task], head |-> [head EXCEPT ![task] = Turn[task]]]]
    BY <2>0, <1>4 DEF SearchBody, N
  <2> QED  BY <2>0, <2>1, <1>2
<1> QED  BY <1>5, <1>6

\* The thread picked is never the current one.
LEMMA PickIsOther ==
    ASSUME TypeOK, RingsComplete, Phase, AtHead, pit
    PROVE  /\ tasks.next[current_task] \in Tasks
           /\ Turn[tasks.next[current_task]] # current_thread
<1> DEFINE task == tasks.next[current_task]
<1>1. Created = Threads
  BY DEF Phase
<1>2. CreatedTasks = Tasks
  <2>1. Main \in ThreadsOf(Kernel)
    BY <1>1, NamesAssumption DEF ThreadsOf, TaskOf, Threads
  <2>2. \A u \in Users : u \in ThreadsOf(u)
    BY <1>1 DEF ThreadsOf, TaskOf, Threads
  <2> QED  BY <2>1, <2>2 DEF CreatedTasks, Tasks
<1>3. OneCircle(tasks, Tasks)
  BY <1>2 DEF RingsComplete
<1>4. task \in Tasks
  BY <1>3 DEF OneCircle, TypeOK
<1>5. Turn[task] \in ThreadsOf(task)
  BY <1>4, TurnFound
<1>6. CASE task # current_task
  BY <1>4, <1>5, <1>6 DEF ThreadsOf, AtHead
<1>7. CASE task = current_task
  <2>1. Tasks = {current_task}
    BY <1>3, <1>7, CircleShort DEF TypeOK
  <2>2. current_task = Kernel /\ Users = {}
    BY <2>1, NamesAssumption DEF Tasks
  <2>3. PICK d \in Workers : TRUE
    BY <2>2, NamesAssumption
  <2>4. {Main, Idle, d} \subseteq ThreadsOf(Kernel)
    BY <1>1, <2>2 DEF ThreadsOf, TaskOf, Threads
  <2>5. d # Main /\ d # Idle /\ Main # Idle
    BY NamesAssumption DEF Main, Idle
  <2>6. OneCircle(threads, ThreadsOf(Kernel))
    BY <2>4 DEF RingsComplete, CreatedTasks, Tasks
  <2>7. head[Kernel] = current_thread /\ current_thread \in ThreadsOf(Kernel)
    BY <2>2 DEF AtHead, ThreadsOf
  <2> HIDE DEF task
  <2>8. Turn[Kernel] = IF threads.next[current_thread] = Idle THEN threads.next[Idle]
                       ELSE threads.next[current_thread]
    BY <1>4, <1>7, <2>2, <2>7, TurnFound
  <2>9. threads.next[current_thread] # current_thread
    BY <2>4, <2>5, <2>6, <2>7, CircleShort
  <2>10. threads.next[threads.next[current_thread]] # current_thread
    <3>1. ThreadsOf(Kernel) # {current_thread, threads.next[current_thread]}
      BY <2>4, <2>5
    <3> QED  BY <3>1, <2>6, <2>7, CircleShort
  <2>11. Turn[Kernel] # current_thread
    BY <2>8, <2>9, <2>10
  <2> QED  BY <1>4, <1>7, <2>2, <2>11 DEF task
<1> QED  BY <1>4, <1>6, <1>7
-----------------------------------------------------------------------------
LEMMA Names ==
    /\ Main \in Threads /\ Idle \in Threads /\ Main # Idle /\ Kernel \in Tasks
    /\ Main \notin Users /\ Idle \notin Users /\ Kernel \notin Users
    /\ TaskOf(Main) = Kernel /\ TaskOf(Idle) = Kernel
    /\ \A t \in Threads : TaskOf(t) \in Tasks
    /\ \A t \in Users : t \in Tasks /\ TaskOf(t) = t
    /\ \A t \in Workers : t \in Threads /\ TaskOf(t) = Kernel /\ t # Main /\ t # Idle
    /\ \A t \in Users : t \in Threads /\ t # Main /\ t # Idle
    /\ NULL \notin Threads /\ NULL \notin Tasks /\ NULL \notin Tokens
    /\ \A t \in Threads, e \in Epochs : <<t, e>> \in Tokens
    /\ 0 \in Epochs
<1>1. Epochs \subseteq Nat /\ 0 \in Epochs
  BY NamesAssumption DEF Epochs
<1>2. NULL \notin Tokens
  BY <1>1, NamesAssumption DEF Tokens
<1>3. Main # Idle
  BY DEF Main, Idle
<1>4. /\ NULL \notin Threads /\ NULL \notin Tasks
      /\ Main \notin Users /\ Idle \notin Users /\ Kernel \notin Users
      /\ \A t \in Workers : t \notin Users /\ t # Main /\ t # Idle
      /\ \A t \in Users : t # Main /\ t # Idle
  BY NamesAssumption
<1> QED  BY <1>1, <1>2, <1>3, <1>4 DEF TaskOf, Tasks, Threads, Tokens

\* A thread joins the list of its task, whether it is the first or not, and
\* the lists of the other tasks stay what they were.
LEMMA ThreadJoins ==
    ASSUME TypeOK, RingsComplete, HeadsExact, NEW t \in Threads, state[t] = "none",
           create_thread(t)
    PROVE  /\ threads' \in Ring(Threads)
           /\ head' \in [Tasks -> Threads \cup {NULL}]
           /\ state' \in [Threads -> {"none", "RUNNING", "WAITING"}]
           /\ Created' = Created \cup {t}
           /\ CreatedTasks' = CreatedTasks \cup {TaskOf(t)}
           /\ \A task \in CreatedTasks' :
                 /\ OneCircle(threads', ThreadsOf(task)')
                 /\ head'[task] \in ThreadsOf(task)'
           /\ HeadsExact'
           /\ \A task \in CreatedTasks : head'[task] = head[task]
<1> DEFINE own == TaskOf(t)
<1>1. own \in Tasks /\ NULL \notin Threads
  BY Names
<1>2. state' \in [Threads -> {"none", "RUNNING", "WAITING"}]
  BY DEF TypeOK, create_thread
<1>3. Created' = Created \cup {t} /\ t \notin Created
  BY DEF TypeOK, create_thread, Created
<1>4. /\ \A task \in Tasks \ {own} : ThreadsOf(task)' = ThreadsOf(task)
      /\ ThreadsOf(own)' = ThreadsOf(own) \cup {t} /\ t \notin ThreadsOf(own)
  BY <1>3 DEF ThreadsOf
<1>5. CreatedTasks' = CreatedTasks \cup {own}
  BY <1>1, <1>4 DEF CreatedTasks
<1>6. \A task \in Tasks : ThreadsOf(task) \in SUBSET Threads
  BY DEF ThreadsOf, Created
<1>7. threads \in Ring(Threads)
  BY DEF TypeOK
<1>8. /\ threads' = CLIST_ADD(threads, head[own], t)
      /\ head' = [head EXCEPT ![own] = IF head[own] = NULL THEN t ELSE head[own]]
  BY <1>1 DEF create_thread, TypeOK
<1> HIDE DEF own
<1>9. /\ threads' \in Ring(Threads)
      /\ OneCircle(threads', ThreadsOf(own)')
      /\ \A x \in Threads \ ThreadsOf(own)' : /\ threads'.next[x] = threads.next[x]
                                              /\ threads'.prev[x] = threads.prev[x]
  <2>1. CASE own \in CreatedTasks
    <3>1. OneCircle(threads, ThreadsOf(own)) /\ head[own] \in ThreadsOf(own)
      BY <2>1 DEF RingsComplete
    <3>2. t \in Threads \ ThreadsOf(own) /\ ThreadsOf(own) \in SUBSET Threads
      BY <1>1, <1>4, <1>6
    <3> QED  BY <1>1, <1>4, <1>7, <1>8, <3>1, <3>2, AddToCircle
  <2>2. CASE own \notin CreatedTasks
    <3>1. ThreadsOf(own)' = {t}
      BY <1>1, <1>4, <2>2 DEF CreatedTasks
    <3>2. head[own] = NULL
      BY <1>1, <2>2 DEF HeadsExact
    <3> QED  BY <1>1, <1>7, <1>8, <3>1, <3>2, AddToNone
  <2> QED  BY <2>1, <2>2
<1>10. head' \in [Tasks -> Threads \cup {NULL}]
  BY <1>8 DEF TypeOK
<1>11. head'[own] \in ThreadsOf(own)'
  <2>1. CASE own \in CreatedTasks
    <3>1. head[own] \in ThreadsOf(own) /\ head[own] # NULL
      BY <1>1, <1>6, <2>1 DEF RingsComplete
    <3> QED  BY <3>1, <1>1, <1>4, <1>8 DEF TypeOK
  <2>2. CASE own \notin CreatedTasks
    <3>1. head[own] = NULL
      BY <1>1, <2>2 DEF HeadsExact
    <3> QED  BY <3>1, <1>1, <1>4, <1>8 DEF TypeOK
  <2> QED  BY <2>1, <2>2
<1>12. ASSUME NEW task \in CreatedTasks', task # own
       PROVE  OneCircle(threads', ThreadsOf(task)') /\ head'[task] \in ThreadsOf(task)'
  <2>1. task \in CreatedTasks /\ task \in Tasks
    BY <1>5, <1>12 DEF CreatedTasks
  <2>2. OneCircle(threads, ThreadsOf(task)) /\ head[task] \in ThreadsOf(task)
    BY <2>1 DEF RingsComplete
  <2>3. \A x \in ThreadsOf(task) : x \in Threads \ ThreadsOf(own)'
    BY <1>4, <1>6, <1>12, <2>1 DEF ThreadsOf, own
  <2>4. \A x \in ThreadsOf(task) : /\ threads'.next[x] = threads.next[x]
                                   /\ threads'.prev[x] = threads.prev[x]
    BY <2>3, <1>9
  <2>5. OneCircle(threads', ThreadsOf(task))
    BY <2>2, <2>4, CircleKept
  <2>6. head'[task] = head[task]
    BY <1>8, <1>12, <2>1 DEF TypeOK
  <2> QED  BY <1>4, <1>12, <2>1, <2>2, <2>5, <2>6
<1>13. \A task \in CreatedTasks : head'[task] = head[task]
  <2> SUFFICES ASSUME NEW task \in CreatedTasks PROVE head'[task] = head[task]
    OBVIOUS
  <2>1. task \in Tasks /\ head[task] # NULL
    BY <1>6, <1>1 DEF RingsComplete, CreatedTasks
  <2> QED  BY <2>1, <1>8 DEF TypeOK
<1>14. HeadsExact'
  <2> SUFFICES ASSUME NEW task \in Tasks \ CreatedTasks' PROVE head'[task] = NULL
    BY DEF HeadsExact
  <2>1. task # own /\ task \notin CreatedTasks
    BY <1>5
  <2> QED  BY <2>1, <1>8 DEF HeadsExact, TypeOK
<1> QED  BY <1>2, <1>3, <1>5, <1>9, <1>10, <1>11, <1>12, <1>13, <1>14 DEF own

LEMMA FreshContextType ==
    ASSUME NEW t \in Threads
    PROVE  /\ FreshContext(t) \in Context
           /\ FreshContext(t).callee = <<t, 0>> /\ FreshContext(t).scratch = <<t, 0>>
           /\ FreshContext(t).sp = <<t, 0>> /\ FreshContext(t).mode = Mode(t)
           /\ FreshContext(t).entry = "int"
<1>1. <<t, 0>> \in Values
  BY Names DEF Values
<1> QED  BY <1>1 DEF FreshContext, Context, Mode

\* A new thread can be resumed, and the contexts of the others stay.
LEMMA ThreadStartable ==
    ASSUME TypeOK, StacksKept, Phase, ~pit, NEW t \in Users \cup Workers,
           create_thread(t), Created' = Created \cup {t},
           UNCHANGED <<current_thread, user_rsp, want, spoiled>>
    PROVE  /\ rsp' \in [Threads -> Threads \cup {NULL}]
           /\ frame' \in [Threads -> Context \cup {NULL}]
           /\ StacksKept'
<1>0. t \in Threads
  BY Names
<1>1. rsp' = [rsp EXCEPT ![t] = t] /\ frame' = [frame EXCEPT ![t] = FreshContext(t)]
  BY DEF create_thread
<1>2. rsp' \in [Threads -> Threads \cup {NULL}] /\ frame' \in [Threads -> Context \cup {NULL}]
  BY <1>0, <1>1, FreshContextType DEF TypeOK
<1>3. ASSUME NEW x \in Created' \ {current_thread'}
      PROVE  Suspended(x)'
  <2>1. x \in Threads
    BY DEF Created
  <2>2. CASE x = t
    <3>1. rsp'[t] = t /\ frame'[t] = FreshContext(t)
      BY <1>0, <1>1 DEF TypeOK
    <3>2. want'[t] = 0 /\ t \notin spoiled'
      BY <1>0 DEF Phase
    <3> QED  BY <1>0, <2>2, <3>1, <3>2, FreshContextType DEF Suspended, Computed, Scratch
  <2>3. CASE x # t
    <3>1. Suspended(x)
      BY <2>3 DEF StacksKept
    <3>2. rsp'[x] = rsp[x] /\ frame'[x] = frame[x]
      BY <1>0, <1>1, <2>1, <2>3 DEF TypeOK
    <3> QED  BY <3>1, <3>2 DEF Suspended, Computed, Scratch, Mode
  <2> QED  BY <2>2, <2>3
<1> QED  BY <1>2, <1>3 DEF StacksKept

LEMMA KernelCreates ==
    ASSUME IInv, NEW t \in Workers, create_kernel_thread(t)
    PROVE  IInv'
<1>0. t \in Threads /\ TaskOf(t) = Kernel /\ t # Main /\ t # Idle /\ t \notin Users
  BY Names, NamesAssumption
<1>1. /\ ~pit /\ state[t] = "none" /\ create_thread(t)
      /\ UNCHANGED <<tasks, current_task, current_thread, env, user_rsp, syscall_type,
                     cpu, pit, want, spoiled, served, selfswitch>>
  BY DEF create_kernel_thread
<1>2. /\ TypeOK /\ RingsComplete /\ HeadsExact /\ AtHead /\ Phase
      /\ UserEnvironment /\ RegistersKept /\ StacksKept
      /\ NoSelfSwitch /\ ServedInOrder
  BY DEF IInv
<1>3. /\ threads' \in Ring(Threads)
      /\ head' \in [Tasks -> Threads \cup {NULL}]
      /\ state' \in [Threads -> {"none", "RUNNING", "WAITING"}]
      /\ Created' = Created \cup {t}
      /\ CreatedTasks' = CreatedTasks \cup {Kernel}
      /\ \A task \in CreatedTasks' :
            /\ OneCircle(threads', ThreadsOf(task)')
            /\ head'[task] \in ThreadsOf(task)'
      /\ HeadsExact'
      /\ \A task \in CreatedTasks : head'[task] = head[task]
  BY <1>0, <1>1, <1>2, ThreadJoins
<1>4. /\ rsp' \in [Threads -> Threads \cup {NULL}]
      /\ frame' \in [Threads -> Context \cup {NULL}]
      /\ StacksKept'
  <2>1. UNCHANGED <<current_thread, user_rsp, want, spoiled>>
    BY <1>1
  <2> QED  BY <1>1, <1>2, <1>3, <2>1, ThreadStartable
<1>5. Kernel \in CreatedTasks
  BY <1>2, Names DEF Phase, CreatedTasks, ThreadsOf
<1>6. TypeOK'
  BY <1>1, <1>2, <1>3, <1>4 DEF TypeOK, env
<1>7. RingsComplete'
  BY <1>1, <1>2, <1>3, <1>5 DEF RingsComplete
<1>8. AtHead'
  <2>1. current_thread = Main /\ current_task = Kernel
    BY <1>1, <1>2, Names DEF Phase, AtHead
  <2> QED  BY <2>1, <1>1, <1>2, <1>3, <1>5 DEF AtHead
<1>9. Phase'
  <2>1. state' = [state EXCEPT ![t] = "RUNNING"]
    BY <1>1 DEF create_thread
  <2>2. \A x \in Threads : state'[x] = "WAITING" <=> x = Idle
    BY <2>1, <1>0, <1>2 DEF Phase, TypeOK
  <2> QED  BY <2>2, <1>1, <1>2, <1>3 DEF Phase
<1>10. UserEnvironment' /\ RegistersKept' /\ NoSelfSwitch' /\ ServedInOrder'
  BY <1>1, <1>2 DEF UserEnvironment, RegistersKept, NoSelfSwitch, ServedInOrder, env,
     Computed, Scratch
<1> QED  BY <1>3, <1>4, <1>6, <1>7, <1>8, <1>9, <1>10 DEF IInv

LEMMA UserCreates ==
    ASSUME IInv, NEW u \in Users, create_usermode_task(u)
    PROVE  IInv'
<1>0. u \in Threads /\ u \in Tasks /\ TaskOf(u) = u /\ u # Main /\ u # Idle /\ u # Kernel
  BY Names
<1>1. /\ ~pit /\ state[u] = "none" /\ create_thread(u) /\ space' = u
      /\ tasks' = CLIST_ADD(tasks, current_task, u)
      /\ UNCHANGED <<current_task, current_thread, gs_base, rsp0, user_rsp,
                     syscall_type, cpu, pit, want, spoiled, served, selfswitch>>
  BY DEF create_usermode_task
<1>2. /\ TypeOK /\ RingsComplete /\ HeadsExact /\ AtHead /\ Phase
      /\ UserEnvironment /\ RegistersKept /\ StacksKept
      /\ NoSelfSwitch /\ ServedInOrder
  BY DEF IInv
<1>3. /\ threads' \in Ring(Threads)
      /\ head' \in [Tasks -> Threads \cup {NULL}]
      /\ state' \in [Threads -> {"none", "RUNNING", "WAITING"}]
      /\ Created' = Created \cup {u}
      /\ CreatedTasks' = CreatedTasks \cup {u}
      /\ \A task \in CreatedTasks' :
            /\ OneCircle(threads', ThreadsOf(task)')
            /\ head'[task] \in ThreadsOf(task)'
      /\ HeadsExact'
      /\ \A task \in CreatedTasks : head'[task] = head[task]
  BY <1>0, <1>1, <1>2, ThreadJoins
<1>4. /\ rsp' \in [Threads -> Threads \cup {NULL}]
      /\ frame' \in [Threads -> Context \cup {NULL}]
      /\ StacksKept'
  <2>1. UNCHANGED <<current_thread, user_rsp, want, spoiled>>
    BY <1>1
  <2> QED  BY <1>1, <1>2, <1>3, <2>1, ThreadStartable
<1>5. current_thread = Main /\ current_task = Kernel /\ Kernel \in CreatedTasks
  BY <1>1, <1>2, Names DEF Phase, AtHead, CreatedTasks, ThreadsOf
<1>6. tasks' \in Ring(Tasks) /\ OneCircle(tasks', CreatedTasks')
  <2>1. u \in Tasks \ CreatedTasks
    BY <1>0, <1>1, NamesAssumption DEF CreatedTasks, ThreadsOf, Created, TaskOf
  <2>2. NULL \notin Tasks /\ tasks \in Ring(Tasks) /\ CreatedTasks \in SUBSET Tasks
    BY <1>2, Names DEF TypeOK, CreatedTasks
  <2>3. OneCircle(tasks, CreatedTasks)
    BY <1>2 DEF RingsComplete
  <2> QED  BY <1>1, <1>3, <1>5, <2>1, <2>2, <2>3, AddToCircle
<1>7. TypeOK'
  BY <1>1, <1>2, <1>3, <1>4, <1>6 DEF TypeOK
<1>8. RingsComplete'
  BY <1>3, <1>6 DEF RingsComplete
<1>9. AtHead'
  BY <1>1, <1>2, <1>3, <1>5 DEF AtHead
<1>10. Phase'
  <2>1. state' = [state EXCEPT ![u] = "RUNNING"]
    BY <1>1 DEF create_thread
  <2>2. \A x \in Threads : state'[x] = "WAITING" <=> x = Idle
    BY <2>1, <1>0, <1>2 DEF Phase, TypeOK
  <2> QED  BY <2>2, <1>1, <1>2, <1>3 DEF Phase
<1>11. UserEnvironment' /\ RegistersKept' /\ NoSelfSwitch' /\ ServedInOrder'
  <2>1. cpu.mode # "user"
    BY <1>2, <1>5, Names DEF RegistersKept, Mode
  <2>2. UserEnvironment'
    BY <2>1, <1>1 DEF UserEnvironment
  <2>3. RegistersKept' /\ NoSelfSwitch'
    BY <1>1, <1>2 DEF RegistersKept, NoSelfSwitch, Computed, Scratch
  <2>4. ServedInOrder'
    BY <1>1, <1>2 DEF ServedInOrder, Phase
  <2> QED  BY <2>2, <2>3, <2>4
<1> QED  BY <1>3, <1>4, <1>7, <1>8, <1>9, <1>10, <1>11 DEF IInv
-----------------------------------------------------------------------------
\* What a switch does, with the search of schedule() carried out.
LEMMA Switched ==
    ASSUME IInv, pit, NEW s, NEW ctx, preempt(s, ctx)
    PROVE  \E new \in Threads \ {current_thread, Idle} :
              /\ TaskOf(new) = tasks.next[current_task] /\ TaskOf(new) \in Tasks
              /\ head' = [head EXCEPT ![TaskOf(new)] = new]
              /\ current_thread' = new /\ current_task' = TaskOf(new)
              /\ gs_base' = new /\ rsp0' = StackTop(new)
              /\ space' = IF TaskOf(new) = Kernel THEN space ELSE TaskOf(new)
              /\ rsp' = [rsp EXCEPT ![current_thread] = s]
              /\ frame' = [frame EXCEPT ![s] = ctx]
              /\ Restore(frame'[rsp[new]], new)
              /\ selfswitch' = FALSE
              /\ served' = IF served \cup {TaskOf(new)} = Tasks THEN {}
                           ELSE served \cup {TaskOf(new)}
              /\ UNCHANGED <<tasks, threads, state, pit, want>>
<1> DEFINE task == tasks.next[current_task]
           new == Turn[task]
<1>1. TypeOK /\ RingsComplete /\ Phase /\ AtHead /\ NoSelfSwitch
  BY DEF IInv
<1>2. task \in Tasks /\ new # current_thread
  BY <1>1, PickIsOther
<1>3. new \in ThreadsOf(task) /\ new # Idle
  BY <1>1, <1>2, TurnFound
<1>4. new \in Threads /\ TaskOf(new) = task
  BY <1>3 DEF ThreadsOf, Created
<1> HIDE DEF task
<1>5. schedule = [thread |-> new, head |-> [head EXCEPT ![task] = new]]
  BY <1>1, <1>2, ScheduleNext DEF schedule, task
<1> HIDE DEF new
<1>6. /\ head' = [head EXCEPT ![task] = new]
      /\ current_thread' = new /\ current_task' = TaskOf(new)
      /\ switch_environment(current_thread, new)
      /\ rsp' = [rsp EXCEPT ![current_thread] = s]
      /\ frame' = [frame EXCEPT ![s] = ctx]
      /\ Restore(frame'[rsp[new]], new)
      /\ selfswitch' = (selfswitch \/ new = current_thread)
      /\ served' = IF served \cup {TaskOf(new)} = Tasks THEN {}
                   ELSE served \cup {TaskOf(new)}
  BY <1>5 DEF preempt
<1>7. UNCHANGED <<tasks, threads, state, pit, want>>
  BY DEF preempt
<1>8. /\ gs_base' = new /\ rsp0' = StackTop(new)
      /\ space' = IF TaskOf(new) = Kernel THEN space ELSE TaskOf(new)
  BY <1>2, <1>6 DEF switch_environment
<1>9. selfswitch' = FALSE
  BY <1>1, <1>2, <1>6 DEF NoSelfSwitch, TypeOK
<1> QED  BY <1>2, <1>3, <1>4, <1>6, <1>7, <1>8, <1>9 DEF task

\* ctx is the context with which the current thread can be resumed; the other
\* threads' contexts are left alone.
Left(ctx) ==
    /\ ctx \in Context
    /\ ctx.callee = Computed(current_thread) /\ ctx.mode = Mode(current_thread)
    /\ ctx.scratch = IF current_thread \in spoiled' THEN NULL ELSE Computed(current_thread)
    /\ IF ctx.entry = "sys" THEN user_rsp'[current_thread] = Computed(current_thread)
                            ELSE ctx.sp = Computed(current_thread)
    /\ user_rsp' \in [Threads -> Values] /\ spoiled' \in SUBSET Threads
    /\ syscall_type' \in [Threads -> {"INT", "SYS", NULL}]
    /\ \A t \in Threads \ {current_thread} : /\ user_rsp'[t] = user_rsp[t]
                                             /\ t \in spoiled' <=> t \in spoiled

LEMMA ComputedType ==
    ASSUME TypeOK, NEW t \in Threads
    PROVE  Computed(t) \in Values /\ Scratch(t) \in Values /\ Computed(t) # NULL
<1>1. Computed(t) \in Tokens
  BY Names DEF Computed, TypeOK
<1> QED  BY <1>1, Names DEF Scratch, Values

\* A switch that leaves such a context behind keeps every promise.
LEMMA SwitchKeeps ==
    ASSUME IInv, pit, NEW ctx, Left(ctx), preempt(current_thread, ctx)
    PROVE  IInv'
<1>1. /\ TypeOK /\ RingsComplete /\ HeadsExact /\ AtHead /\ Phase
      /\ UserEnvironment /\ RegistersKept /\ StacksKept
      /\ NoSelfSwitch /\ ServedInOrder
  BY DEF IInv
<1> DEFINE old == current_thread
<1>2. PICK new \in Threads \ {current_thread, Idle} :
        /\ TaskOf(new) = tasks.next[current_task] /\ TaskOf(new) \in Tasks
        /\ head' = [head EXCEPT ![TaskOf(new)] = new]
        /\ current_thread' = new /\ current_task' = TaskOf(new)
        /\ gs_base' = new /\ rsp0' = StackTop(new)
        /\ space' = IF TaskOf(new) = Kernel THEN space ELSE TaskOf(new)
        /\ rsp' = [rsp EXCEPT ![current_thread] = current_thread]
        /\ frame' = [frame EXCEPT ![current_thread] = ctx]
        /\ Restore(frame'[rsp[new]], new)
        /\ selfswitch' = FALSE
        /\ served' = IF served \cup {TaskOf(new)} = Tasks THEN {}
                     ELSE served \cup {TaskOf(new)}
        /\ UNCHANGED <<tasks, threads, state, pit, want>>
  BY Switched, Zenon
<1>3. old \in Threads /\ new \in Threads /\ new # old /\ new \in Created /\ Created = Threads
  BY <1>1, <1>2 DEF TypeOK, Phase
<1>4. /\ Created' = Created /\ CreatedTasks' = CreatedTasks
      /\ \A task \in Tasks : ThreadsOf(task)' = ThreadsOf(task)
  BY <1>2 DEF Created, CreatedTasks, ThreadsOf
<1>5. Suspended(new)
  BY <1>1, <1>3 DEF StacksKept
<1>6. frame'[rsp[new]] = frame[new]
  BY <1>1, <1>2, <1>3, <1>5 DEF Suspended, TypeOK
<1>7. /\ Computed(new)' = Computed(new) /\ Scratch(new)' = Scratch(new)
      /\ user_rsp'[new] = user_rsp[new]
  BY <1>2, <1>3 DEF Left, Computed, Scratch
<1>8. cpu' = [callee |-> Computed(new), scratch |-> Scratch(new),
              sp |-> Computed(new), mode |-> Mode(new)]
  <2>1. frame[new].callee # NULL
    BY <1>1, <1>3, <1>5, ComputedType DEF Suspended
  <2>2. (IF frame[new].entry = "sys" THEN user_rsp'[gs_base'] ELSE frame[new].sp) = Computed(new)
    BY <1>2, <1>5, <1>7 DEF Suspended
  <2> QED  BY <1>2, <1>5, <1>6, <2>1, <2>2 DEF Restore, Suspended
<1>9. RegistersKept'
  BY <1>2, <1>7, <1>8 DEF RegistersKept
<1>10. StacksKept'
  <2> SUFFICES ASSUME NEW t \in Threads, t # new
               PROVE  Suspended(t)'
    BY <1>2 DEF StacksKept, Created
  <2>1. CASE t = old
    <3>1. rsp'[t] = t /\ frame'[t] = ctx
      BY <1>1, <1>2, <2>1 DEF TypeOK
    <3> QED  BY <1>2, <2>1, <3>1 DEF Left, Suspended, Computed, Scratch, Mode
  <2>2. CASE t # old
    <3>1. Suspended(t)
      BY <1>1, <1>3, <2>2 DEF StacksKept
    <3>2. rsp'[t] = rsp[t] /\ frame'[t] = frame[t] /\ user_rsp'[t] = user_rsp[t]
      BY <1>1, <1>2, <2>2 DEF TypeOK, Left
    <3>3. Computed(t)' = Computed(t) /\ Scratch(t)' = Scratch(t)
      BY <1>2, <2>2 DEF Left, Computed, Scratch
    <3> QED  BY <3>1, <3>2, <3>3 DEF Suspended
  <2> QED  BY <2>1, <2>2
<1>11. TypeOK'
  <2>1. cpu' \in [callee : Values, scratch : Values, sp : Values, mode : {"user", "kernel"}]
    BY <1>1, <1>3, <1>8, ComputedType DEF Mode
  <2>2. head' \in [Tasks -> Threads \cup {NULL}]
    BY <1>1, <1>2 DEF TypeOK
  <2>3. rsp' \in [Threads -> Threads \cup {NULL}] /\ frame' \in [Threads -> Context \cup {NULL}]
    BY <1>1, <1>2, <1>3 DEF TypeOK, Left
  <2>4. rsp0' \in Threads \cup {NULL} /\ space' \in Users \cup {NULL}
    BY <1>1, <1>2 DEF TypeOK, StackTop, Tasks
  <2>5. served' \in SUBSET Tasks
    BY <1>1, <1>2 DEF TypeOK
  <2>6. /\ user_rsp' \in [Threads -> Values] /\ spoiled' \in SUBSET Threads
        /\ syscall_type' \in [Threads -> {"INT", "SYS", NULL}]
    BY DEF Left
  <2> QED  BY <1>1, <1>2, <2>1, <2>2, <2>3, <2>4, <2>5, <2>6 DEF TypeOK
<1>12. RingsComplete'
  <2>1. new \in ThreadsOf(TaskOf(new))
    BY <1>3 DEF ThreadsOf
  <2>2. \A task \in CreatedTasks : head'[task] \in ThreadsOf(task)
    BY <1>1, <1>2, <2>1 DEF RingsComplete, CreatedTasks, TypeOK
  <2> QED  BY <1>1, <1>2, <1>4, <2>2 DEF RingsComplete, CreatedTasks
<1>13. HeadsExact'
  <2>1. TaskOf(new) \in CreatedTasks
    BY <1>2, <1>3 DEF CreatedTasks, ThreadsOf
  <2> QED  BY <1>1, <1>2, <1>4, <2>1 DEF HeadsExact, TypeOK
<1>14. AtHead'
  BY <1>1, <1>2, <1>3, <1>4 DEF AtHead, TypeOK
<1>15. Phase'
  BY <1>1, <1>2, <1>4 DEF Phase
<1>16. UserEnvironment'
  BY <1>2, <1>8, Names DEF UserEnvironment, Mode
<1>17. NoSelfSwitch'
  BY <1>2 DEF NoSelfSwitch
<1>18. ServedInOrder'
  <2>1. CASE served \cup {TaskOf(new)} = Tasks
    BY <1>2, <2>1 DEF ServedInOrder
  <2>2. CASE served \cup {TaskOf(new)} # Tasks
    BY <1>1, <1>2, <2>2 DEF ServedInOrder
  <2> QED  BY <2>1, <2>2
<1> QED  BY <1>9, <1>10, <1>11, <1>12, <1>13, <1>14, <1>15, <1>16, <1>17, <1>18 DEF IInv
-----------------------------------------------------------------------------
\* A thread in user mode is one of a user task, after the boot, and the kernel
\* finds its structure and its stack.
LEMMA InUserMode ==
    ASSUME IInv, cpu.mode = "user"
    PROVE  /\ pit /\ current_thread \in Users
           /\ gs_base = current_thread /\ rsp0 = current_thread
<1>1. current_thread \in Users
  BY DEF IInv, RegistersKept, Mode
<1>2. pit
  BY <1>1, Names DEF IInv, Phase
<1>3. gs_base = current_thread /\ rsp0 = current_thread
  BY <1>1, Names DEF IInv, UserEnvironment, StackTop
<1> QED  BY <1>1, <1>2, <1>3

LEMMA IntContextIs ==
    ASSUME IInv
    PROVE  /\ IntContext \in Context /\ IntContext.entry = "int"
           /\ IntContext.callee = Computed(current_thread)
           /\ IntContext.scratch = Scratch(current_thread)
           /\ IntContext.sp = Computed(current_thread)
           /\ IntContext.mode = Mode(current_thread)
  BY DEF IInv, TypeOK, RegistersKept, IntContext, Context

\* A timer interrupt leaves the whole context.
LEMMA PitKeeps ==
    ASSUME IInv, pit_handler
    PROVE  IInv'
<1>1. /\ pit /\ UNCHANGED <<user_rsp, syscall_type, spoiled>>
      /\ preempt(IntStack, IntContext)
  BY DEF pit_handler
<1>2. IntStack = current_thread
  BY InUserMode DEF IntStack
<1>3. Left(IntContext)
  <2>1. user_rsp \in [Threads -> Values] /\ spoiled \in SUBSET Threads
        /\ syscall_type \in [Threads -> {"INT", "SYS", NULL}]
    BY DEF IInv, TypeOK
  <2> QED  BY <1>1, <2>1, IntContextIs DEF Left, Scratch
<1> QED  BY <1>1, <1>2, <1>3, SwitchKeeps

\* So does int 0x30.
LEMMA IntYieldKeeps ==
    ASSUME IInv, IntYield
    PROVE  IInv'
<1>1. /\ cpu.mode = "user"
      /\ syscall_type' = [syscall_type EXCEPT ![current_thread] = "INT"]
      /\ UNCHANGED <<user_rsp, spoiled>>
      /\ sys_yield(rsp0, IntContext)
  BY DEF IntYield
<1>2. pit /\ current_thread \in Threads /\ rsp0 = current_thread
  BY <1>1, InUserMode DEF IInv, TypeOK
<1>3. preempt(current_thread, IntContext)
  <2>1. [IntContext EXCEPT !.callee = IntContext.callee] = IntContext
    BY DEF IntContext
  <2> QED  BY <1>1, <1>2, <2>1, IntContextIs DEF sys_yield
<1>4. Left(IntContext)
  <2>1. user_rsp \in [Threads -> Values] /\ spoiled \in SUBSET Threads
        /\ syscall_type' \in [Threads -> {"INT", "SYS", NULL}]
    BY <1>1, <1>2 DEF IInv, TypeOK
  <2> QED  BY <1>1, <2>1, IntContextIs DEF Left, Scratch
<1> QED  BY <1>2, <1>3, <1>4, SwitchKeeps

\* What syscall_fast_handler stores, it stores for the current thread.
LEMMA EnterFastStores ==
    ASSUME IInv, cpu.mode = "user", EnterFast
    PROVE  /\ user_rsp' \in [Threads -> Values] /\ spoiled' \in SUBSET Threads
           /\ syscall_type' \in [Threads -> {"INT", "SYS", NULL}]
           /\ user_rsp'[current_thread] = Computed(current_thread)
           /\ syscall_type'[current_thread] = "SYS" /\ current_thread \in spoiled'
           /\ \A t \in Threads \ {current_thread} : /\ user_rsp'[t] = user_rsp[t]
                                                    /\ t \in spoiled' <=> t \in spoiled
<1>1. gs_base = current_thread /\ current_thread \in Threads
  BY InUserMode DEF IInv, TypeOK
<1>2. /\ user_rsp \in [Threads -> Values] /\ spoiled \in SUBSET Threads
      /\ syscall_type \in [Threads -> {"INT", "SYS", NULL}]
      /\ cpu.sp = Computed(current_thread) /\ cpu.sp \in Values
  BY DEF IInv, TypeOK, RegistersKept
<1> QED  BY <1>1, <1>2 DEF EnterFast

\* The `syscall' path leaves the callee-saved registers in the context, and the
\* user stack pointer in the thread structure.
LEMMA FastYieldKeeps ==
    ASSUME IInv, FastYield
    PROVE  IInv'
<1>1. cpu.mode = "user" /\ EnterFast /\ sys_yield(gs_base, SysContext)
  BY DEF FastYield
<1>2. pit /\ current_thread \in Threads /\ gs_base = current_thread
  BY <1>1, InUserMode DEF IInv, TypeOK
<1>3. SysContext = [entry |-> "sys", callee |-> cpu.callee, scratch |-> NULL,
                    sp |-> NULL, mode |-> cpu.mode]
  <2>1. IntContext = [entry |-> "int", callee |-> cpu.callee, scratch |-> cpu.scratch,
                      sp |-> cpu.sp, mode |-> cpu.mode]
    BY DEF IntContext
  <2>2. IntContext \in Context /\ NULL \in Values
    BY IntContextIs DEF Values
  <2>3. /\ SysContext \in Context /\ SysContext.entry = "sys"
        /\ SysContext.callee = IntContext.callee /\ SysContext.scratch = NULL
        /\ SysContext.sp = NULL /\ SysContext.mode = IntContext.mode
    BY <2>2 DEF SysContext, Context
  <2> QED  BY <2>1, <2>3 DEF Context
<1>4. preempt(current_thread, SysContext)
  <2>1. syscall_type'[current_thread] = "SYS"
    BY <1>1, EnterFastStores
  <2>2. [SysContext EXCEPT !.callee = SysContext.callee] = SysContext
    BY <1>3
  <2> QED  BY <1>1, <1>2, <2>1, <2>2 DEF sys_yield
<1>5. Left(SysContext)
  <2>1. cpu.callee = Computed(current_thread) /\ cpu.mode = Mode(current_thread)
    BY DEF IInv, RegistersKept
  <2>2. SysContext \in Context
    BY <1>3 DEF Context, IInv, TypeOK, Values
  <2> QED  BY <1>1, <1>3, <2>1, <2>2, EnterFastStores DEF Left
<1> QED  BY <1>2, <1>4, <1>5, SwitchKeeps

\* A call without a switch returns to the same thread.
LEMMA FastOtherKeeps ==
    ASSUME IInv, FastOther
    PROVE  IInv'
<1>1. /\ cpu.mode = "user" /\ EnterFast
      /\ cpu' = [cpu EXCEPT !.scratch = NULL, !.sp = user_rsp'[gs_base]]
      /\ UNCHANGED <<lists, current_task, current_thread, env, rsp, frame,
                     pit, want, served, selfswitch>>
  BY DEF FastOther
<1>2. /\ TypeOK /\ RingsComplete /\ HeadsExact /\ AtHead /\ Phase
      /\ UserEnvironment /\ RegistersKept /\ StacksKept
      /\ NoSelfSwitch /\ ServedInOrder
  BY DEF IInv
<1>3. /\ pit /\ current_thread \in Threads /\ gs_base = current_thread
  BY <1>1, <1>2, InUserMode DEF TypeOK
<1>4. cpu' = [callee |-> cpu.callee, scratch |-> NULL, sp |-> Computed(current_thread),
              mode |-> cpu.mode]
  <2>1. user_rsp'[gs_base] = Computed(current_thread)
    BY <1>1, <1>3, EnterFastStores
  <2> QED  BY <1>1, <1>2, <2>1 DEF TypeOK
<1>5. /\ Created' = Created /\ CreatedTasks' = CreatedTasks
      /\ \A task \in Tasks : ThreadsOf(task)' = ThreadsOf(task)
  BY <1>1 DEF Created, CreatedTasks, ThreadsOf, lists
<1>6. TypeOK'
  <2>1. cpu' \in [callee : Values, scratch : Values, sp : Values, mode : {"user", "kernel"}]
    BY <1>2, <1>3, <1>4, ComputedType DEF TypeOK, Values
  <2> QED  BY <1>1, <1>2, <2>1, EnterFastStores DEF TypeOK, lists, env
<1>7. RingsComplete' /\ HeadsExact' /\ AtHead' /\ NoSelfSwitch' /\ ServedInOrder'
  BY <1>1, <1>2, <1>5 DEF RingsComplete, HeadsExact, AtHead, NoSelfSwitch, ServedInOrder,
     lists, CreatedTasks
<1>8. Phase'
  BY <1>1, <1>2, <1>3, <1>5 DEF Phase, lists
<1>9. UserEnvironment'
  BY <1>1, <1>2, <1>4 DEF UserEnvironment, env
<1>10. RegistersKept'
  <2>1. current_thread \in spoiled'
    BY <1>1, EnterFastStores
  <2>2. /\ Computed(current_thread)' = Computed(current_thread)
        /\ Mode(current_thread)' = Mode(current_thread)
        /\ Scratch(current_thread)' = NULL
    BY <1>1, <2>1 DEF Computed, Mode, Scratch
  <2>3. cpu.callee = Computed(current_thread) /\ cpu.mode = Mode(current_thread)
    BY <1>2 DEF RegistersKept
  <2> QED  BY <1>4, <2>2, <2>3 DEF RegistersKept
<1>11. StacksKept'
  <2> SUFFICES ASSUME NEW t \in Created \ {current_thread}
               PROVE  Suspended(t)'
    BY <1>1, <1>5 DEF StacksKept
  <2>1. Suspended(t) /\ t \in Threads
    BY <1>2 DEF StacksKept, Created
  <2>2. user_rsp'[t] = user_rsp[t] /\ (t \in spoiled' <=> t \in spoiled)
    BY <1>1, <2>1, EnterFastStores
  <2> QED  BY <1>1, <2>1, <2>2 DEF Suspended, Computed, Scratch
<1> QED  BY <1>6, <1>7, <1>8, <1>9, <1>10, <1>11 DEF IInv

LEMMA IntOtherKeeps ==
    ASSUME IInv, IntOther
    PROVE  IInv'
<1>1. /\ cpu.mode = "user"
      /\ syscall_type' = [syscall_type EXCEPT ![current_thread] = "INT"]
      /\ UNCHANGED <<lists, current_task, current_thread, env, rsp, frame, user_rsp,
                     cpu, pit, want, spoiled, served, selfswitch>>
  BY DEF IntOther
<1>2. TypeOK'
  BY <1>1 DEF IInv, TypeOK, lists, env
<1>3. /\ TypeOK /\ RingsComplete /\ HeadsExact /\ AtHead /\ Phase
      /\ UserEnvironment /\ RegistersKept /\ StacksKept
      /\ NoSelfSwitch /\ ServedInOrder
  BY DEF IInv
<1>4. /\ Created' = Created /\ CreatedTasks' = CreatedTasks
      /\ \A task \in Tasks : ThreadsOf(task)' = ThreadsOf(task)
  BY <1>1 DEF Created, CreatedTasks, ThreadsOf, lists
<1>5. RingsComplete' /\ HeadsExact' /\ AtHead' /\ NoSelfSwitch' /\ ServedInOrder'
  BY <1>1, <1>3, <1>4 DEF RingsComplete, HeadsExact, AtHead, NoSelfSwitch, ServedInOrder,
     lists, CreatedTasks
<1>6. Phase' /\ UserEnvironment'
  BY <1>1, <1>3, <1>4 DEF Phase, UserEnvironment, lists, env
<1>7. RegistersKept' /\ StacksKept'
  BY <1>1, <1>3, <1>4 DEF RegistersKept, StacksKept, Suspended, Computed, Scratch
<1> QED  BY <1>2, <1>5, <1>6, <1>7 DEF IInv

\* Computing changes the registers of the current thread only.
LEMMA RunKeeps ==
    ASSUME IInv, Run
    PROVE  IInv'
<1>1. PICK e \in Epochs :
        /\ want' = [want EXCEPT ![current_thread] = e]
        /\ spoiled' = spoiled \ {current_thread}
        /\ cpu' = [cpu EXCEPT !.callee = <<current_thread, e>>,
                              !.scratch = <<current_thread, e>>,
                              !.sp = <<current_thread, e>>]
  BY DEF Run
<1>2. /\ pit
      /\ UNCHANGED <<lists, current_task, current_thread, env, rsp, frame, user_rsp,
                     syscall_type, pit, served, selfswitch>>
  BY DEF Run
<1>3. /\ TypeOK /\ RingsComplete /\ HeadsExact /\ AtHead /\ Phase
      /\ UserEnvironment /\ RegistersKept /\ StacksKept
      /\ NoSelfSwitch /\ ServedInOrder
  BY DEF IInv
<1>4. /\ Created' = Created /\ CreatedTasks' = CreatedTasks
      /\ \A task \in Tasks : ThreadsOf(task)' = ThreadsOf(task)
  BY <1>2 DEF Created, CreatedTasks, ThreadsOf, lists
<1> DEFINE v == <<current_thread, e>>
<1>5. current_thread \in Threads /\ v \in Values
  BY <1>3, Names DEF TypeOK, Values
<1>6. cpu' = [callee |-> v, scratch |-> v, sp |-> v, mode |-> cpu.mode]
  BY <1>1, <1>3 DEF TypeOK
<1>7. TypeOK'
  <2>1. cpu' \in [callee : Values, scratch : Values, sp : Values, mode : {"user", "kernel"}]
    BY <1>3, <1>5, <1>6 DEF TypeOK
  <2>2. want' \in [Threads -> Epochs] /\ spoiled' \in SUBSET Threads
    BY <1>1, <1>3 DEF TypeOK
  <2> QED  BY <1>2, <1>3, <2>1, <2>2 DEF TypeOK, lists, env
<1>8. RingsComplete' /\ HeadsExact' /\ AtHead' /\ NoSelfSwitch' /\ ServedInOrder'
  BY <1>2, <1>3, <1>4 DEF RingsComplete, HeadsExact, AtHead, NoSelfSwitch, ServedInOrder,
     lists, CreatedTasks
<1>9. Phase'
  BY <1>2, <1>3, <1>4 DEF Phase, lists
<1>10. UserEnvironment'
  BY <1>2, <1>3, <1>6 DEF UserEnvironment, env
<1>11. RegistersKept'
  <2>1. Computed(current_thread)' = v /\ Scratch(current_thread)' = v
    BY <1>1, <1>2, <1>3, <1>5 DEF Computed, Scratch, TypeOK
  <2>2. Mode(current_thread)' = Mode(current_thread) /\ cpu.mode = Mode(current_thread)
    BY <1>2, <1>3 DEF Mode, RegistersKept
  <2> QED  BY <1>6, <2>1, <2>2 DEF RegistersKept
<1>12. StacksKept'
  <2> SUFFICES ASSUME NEW t \in Created \ {current_thread}
               PROVE  Suspended(t)'
    BY <1>2, <1>4 DEF StacksKept
  <2>1. Suspended(t) /\ t \in Threads
    BY <1>3 DEF StacksKept, Created
  <2>2. want'[t] = want[t] /\ (t \in spoiled' <=> t \in spoiled)
    BY <1>1, <1>3, <2>1 DEF TypeOK
  <2> QED  BY <1>2, <2>1, <2>2 DEF Suspended, Computed, Scratch
<1> QED  BY <1>7, <1>8, <1>9, <1>10, <1>11, <1>12 DEF IInv

\* The last step of the boot comes when every thread is there.
LEMMA PitInitializeKeeps ==
    ASSUME IInv, pit_initialize
    PROVE  IInv'
<1>1. /\ Created = Threads /\ pit' = TRUE
      /\ UNCHANGED <<lists, current_task, current_thread, env, rsp, frame, user_rsp,
                     syscall_type, cpu, want, spoiled, served, selfswitch>>
  BY DEF pit_initialize
<1>2. /\ TypeOK /\ RingsComplete /\ HeadsExact /\ AtHead /\ Phase
      /\ UserEnvironment /\ RegistersKept /\ StacksKept
      /\ NoSelfSwitch /\ ServedInOrder
  BY DEF IInv
<1>3. /\ Created' = Created /\ CreatedTasks' = CreatedTasks
      /\ \A task \in Tasks : ThreadsOf(task)' = ThreadsOf(task)
  BY <1>1 DEF Created, CreatedTasks, ThreadsOf, lists
<1>4. TypeOK'
  BY <1>1, <1>2 DEF TypeOK, lists, env
<1>5. RingsComplete' /\ HeadsExact' /\ AtHead' /\ NoSelfSwitch' /\ ServedInOrder'
  BY <1>1, <1>2, <1>3 DEF RingsComplete, HeadsExact, AtHead, NoSelfSwitch, ServedInOrder,
     lists, CreatedTasks
<1>6. Phase' /\ UserEnvironment'
  BY <1>1, <1>2, <1>3 DEF Phase, UserEnvironment, lists, env
<1>7. RegistersKept' /\ StacksKept'
  BY <1>1, <1>2, <1>3 DEF RegistersKept, StacksKept, Suspended, Computed, Scratch
<1> QED  BY <1>4, <1>5, <1>6, <1>7 DEF IInv
-----------------------------------------------------------------------------
\* initialize_tasks() starts with two rings that have one and two elements.
LEMMA InitEstablishes ==
    ASSUME Init
    PROVE  IInv
<1> DEFINE noThread == [next |-> [t \in Threads |-> NULL], prev |-> [t \in Threads |-> NULL]]
           noTask == [next |-> [t \in Tasks |-> NULL], prev |-> [t \in Tasks |-> NULL]]
           idle == CLIST_ADD(noThread, NULL, Idle)
<1>1. /\ threads = CLIST_ADD(idle, Idle, Main) /\ tasks = CLIST_ADD(noTask, NULL, Kernel)
      /\ current_task = Kernel /\ current_thread = Main
      /\ head = [t \in Tasks |-> IF t = Kernel THEN Main ELSE NULL]
      /\ gs_base = NULL /\ rsp0 = NULL /\ space = NULL
      /\ rsp = [t \in Threads |-> IF t = Idle THEN Idle ELSE NULL]
      /\ frame = [t \in Threads |-> IF t = Idle THEN FreshContext(t) ELSE NULL]
      /\ user_rsp = [t \in Threads |-> NULL] /\ syscall_type = [t \in Threads |-> NULL]
      /\ cpu = [callee |-> <<Main, 0>>, scratch |-> <<Main, 0>>, sp |-> <<Main, 0>>,
                mode |-> "kernel"]
      /\ pit = FALSE /\ want = [t \in Threads |-> 0] /\ spoiled = {} /\ served = {}
      /\ selfswitch = FALSE
  BY DEF Init
<1>2. /\ state \in [Threads -> {"none", "RUNNING", "WAITING"}]
      /\ \A t \in Threads : state[t] = IF t = Main THEN "RUNNING"
                                       ELSE IF t = Idle THEN "WAITING" ELSE "none"
  BY Names DEF Init
<1>3. Created = {Main, Idle}
  BY <1>2, Names DEF Created
<1>4. CreatedTasks = {Kernel} /\ ThreadsOf(Kernel) = {Main, Idle}
  BY <1>3, Names DEF CreatedTasks, ThreadsOf
<1>5. noThread \in Ring(Threads) /\ noTask \in Ring(Tasks)
  BY DEF Ring
<1> HIDE DEF noThread, noTask
<1>6. idle \in Ring(Threads) /\ OneCircle(idle, {Idle})
  BY <1>5, Names, AddToNone
<1>7. tasks \in Ring(Tasks) /\ OneCircle(tasks, {Kernel})
  BY <1>1, <1>5, Names, AddToNone
<1> HIDE DEF idle
<1>8. threads \in Ring(Threads) /\ OneCircle(threads, {Main, Idle})
  <2>1. Main \in Threads \ {Idle} /\ {Idle} \in SUBSET Threads /\ Idle \in {Idle}
    BY Names
  <2>2. threads \in Ring(Threads) /\ OneCircle(threads, {Idle} \cup {Main})
    BY <1>1, <1>6, <2>1, Names, AddToCircle
  <2>3. {Idle} \cup {Main} = {Main, Idle}
    OBVIOUS
  <2> QED  BY <2>2, <2>3
<1>9. TypeOK
  <2>1. <<Main, 0>> \in Values /\ NULL \in Values
    BY Names DEF Values
  <2>2. frame \in [Threads -> Context \cup {NULL}]
    BY <1>1, FreshContextType
  <2>3. cpu \in [callee : Values, scratch : Values, sp : Values, mode : {"user", "kernel"}]
    BY <1>1, <2>1
  <2>4. want \in [Threads -> Epochs]
    BY <1>1, Names
  <2>5. head \in [Tasks -> Threads \cup {NULL}] /\ rsp \in [Threads -> Threads \cup {NULL}]
    BY <1>1, Names
  <2>6. user_rsp \in [Threads -> Values] /\ syscall_type \in [Threads -> {"INT", "SYS", NULL}]
    BY <1>1, <2>1
  <2> QED  BY <1>1, <1>2, <1>7, <1>8, <2>2, <2>3, <2>4, <2>5, <2>6, Names DEF TypeOK
<1>10. RingsComplete /\ HeadsExact /\ AtHead
  <2>1. head[Kernel] = Main /\ \A t \in Tasks \ {Kernel} : head[t] = NULL
    BY <1>1, Names
  <2>2. RingsComplete
    BY <1>4, <1>7, <1>8, <2>1 DEF RingsComplete
  <2>3. HeadsExact
    BY <1>4, <2>1 DEF HeadsExact
  <2>4. AtHead
    BY <1>1, <1>3, <2>1, Names DEF AtHead
  <2> QED  BY <2>2, <2>3, <2>4
<1>11. Phase
  BY <1>1, <1>2, <1>3, Names DEF Phase
<1>12. UserEnvironment /\ NoSelfSwitch
  BY <1>1 DEF UserEnvironment, NoSelfSwitch
<1>13. RegistersKept
  <2>1. Computed(Main) = <<Main, 0>> /\ Scratch(Main) = <<Main, 0>> /\ Mode(Main) = "kernel"
    BY <1>1, Names DEF Computed, Scratch, Mode
  <2> QED  BY <1>1, <2>1 DEF RegistersKept
<1>14. StacksKept
  <2>1. rsp[Idle] = Idle /\ frame[Idle] = FreshContext(Idle)
    BY <1>1, Names
  <2>2. Computed(Idle) = <<Idle, 0>> /\ Scratch(Idle) = <<Idle, 0>>
    BY <1>1, Names DEF Computed, Scratch
  <2>3. Suspended(Idle)
    BY <2>1, <2>2, Names, FreshContextType DEF Suspended
  <2> QED  BY <1>1, <1>3, <2>3 DEF StacksKept
<1>15. ServedInOrder
  BY <1>1, Names DEF ServedInOrder
<1> QED  BY <1>9, <1>10, <1>11, <1>12, <1>13, <1>14, <1>15 DEF IInv

\* Every step of the kernel and of its threads preserves the invariant.
LEMMA NextPreserves ==
    ASSUME IInv, [Next]_vars
    PROVE  IInv'
<1>1. CASE Boot
  BY <1>1, KernelCreates, UserCreates, PitInitializeKeeps DEF Boot
<1>2. CASE pit_handler
  BY <1>2, PitKeeps
<1>3. CASE syscall
  BY <1>3, FastYieldKeeps, FastOtherKeeps, IntYieldKeeps, IntOtherKeeps DEF syscall
<1>4. CASE Run
  BY <1>4, RunKeeps
<1>5. CASE UNCHANGED vars
  <2>1. /\ TypeOK /\ RingsComplete /\ HeadsExact /\ AtHead /\ Phase
        /\ UserEnvironment /\ RegistersKept /\ StacksKept
        /\ NoSelfSwitch /\ ServedInOrder
    BY DEF IInv
  <2>2. UNCHANGED <<lists, current_task, current_thread, env, rsp, frame, user_rsp,
                    syscall_type, cpu, pit, want, spoiled, served, selfswitch>>
    BY <1>5 DEF vars
  <2>3. /\ Created' = Created /\ CreatedTasks' = CreatedTasks
        /\ \A task \in Tasks : ThreadsOf(task)' = ThreadsOf(task)
    BY <2>2 DEF Created, CreatedTasks, ThreadsOf, lists
  <2>4. TypeOK'
    BY <2>1, <2>2 DEF TypeOK, lists, env
  <2>5. RingsComplete' /\ HeadsExact' /\ AtHead' /\ NoSelfSwitch' /\ ServedInOrder'
    BY <2>1, <2>2, <2>3 DEF RingsComplete, HeadsExact, AtHead, NoSelfSwitch, ServedInOrder,
       lists, CreatedTasks
  <2>6. Phase' /\ UserEnvironment'
    BY <2>1, <2>2, <2>3 DEF Phase, UserEnvironment, lists, env
  <2>7. RegistersKept' /\ StacksKept'
    BY <2>1, <2>2, <2>3 DEF RegistersKept, StacksKept, Suspended, Computed, Scratch
  <2> QED  BY <2>1, <2>4, <2>5, <2>6, <2>7 DEF IInv
<1> QED  BY <1>1, <1>2, <1>3, <1>4, <1>5 DEF Next

\* The state of the scheduler and of all saved contexts, for every number of
\* user tasks and kernel threads (initialize_tasks, schedule, preempt_int,
\* preempt_syscall and the two system call paths).
THEOREM Invariance == Spec => []IInv
<1>1. Init => IInv
  BY InitEstablishes
<1>2. IInv /\ [Next]_vars => IInv'
  BY NextPreserves
<1> QED  BY <1>1, <1>2, PTL DEF Spec

\* Every variable keeps its type.
THEOREM TypeCorrect == Spec => []TypeOK
<1>1. IInv => TypeOK
  BY DEF IInv
<1> QED  BY <1>1, Invariance, PTL

\* create_thread(), create_usermode_task() and schedule() keep every task and
\* every thread on the ring the scheduler walks.
THEOREM RingsCorrect == Spec => []RingsComplete
<1>1. IInv => RingsComplete
  BY DEF IInv
<1> QED  BY <1>1, Invariance, PTL

\* When user code runs, switch_environment() has set GS, tss.rsp0 and PML4[0]
\* for exactly this thread.
THEOREM EnvironmentCorrect == Spec => []UserEnvironment
<1>1. IInv => UserEnvironment
  BY DEF IInv
<1> QED  BY <1>1, Invariance, PTL

\* A thread that runs computes with the registers it left, through timer
\* interrupts, `int 0x30' and `syscall'.
THEOREM RegistersCorrect == Spec => []RegistersKept
<1>1. IInv => RegistersKept
  BY DEF IInv
<1> QED  BY <1>1, Invariance, PTL

\* Every suspended thread can be resumed from its own kernel stack.
THEOREM StacksCorrect == Spec => []StacksKept
<1>1. IInv => StacksKept
  BY DEF IInv
<1> QED  BY <1>1, Invariance, PTL

\* preempt_int() and preempt_syscall() never switch a thread to itself.
THEOREM SelfSwitchNever == Spec => []NoSelfSwitch
<1>1. IInv => NoSelfSwitch
  BY DEF IInv
<1> QED  BY <1>1, Invariance, PTL

\* schedule() takes a task that has not had its turn in this round.
LEMMA TurnIsNew ==
    ASSUME IInv, pit, NEW s, NEW ctx, preempt(s, ctx)
    PROVE  TaskOf(current_thread') \notin served
<1>1. PICK new \in Threads \ {current_thread, Idle} :
         /\ TaskOf(new) = tasks.next[current_task] /\ current_thread' = new
         /\ TaskOf(new) \in Tasks
  BY Switched, Zenon
<1>2. RingsComplete /\ ServedInOrder /\ Phase /\ served \in SUBSET Tasks
  BY DEF IInv, TypeOK
<1>3. CreatedTasks = Tasks
  <2>1. \A task \in Tasks : ThreadsOf(task) # {}
    BY <1>2, Names DEF Phase, ThreadsOf, Tasks
  <2> QED  BY <2>1 DEF CreatedTasks
<1>4. ASSUME tasks.next[current_task] \in served
      PROVE  FALSE
  <2>1. served \in (SUBSET Tasks) \ {{}}
    BY <1>2, <1>4
  <2>2. \A x \in served : tasks.next[x] \in served
    BY <1>2, <1>4 DEF ServedInOrder
  <2>3. served = Tasks
    BY <1>2, <1>3, <2>1, <2>2 DEF RingsComplete, OneCircle
  <2> QED  BY <1>2, <2>3 DEF ServedInOrder
<1> QED  BY <1>1, <1>4

\* A task that had its turn waits until all the others had theirs.
THEOREM TurnsFair == Spec => FairTurns
<1>1. ASSUME IInv, [Next]_vars
      PROVE  [current_thread' # current_thread => TaskOf(current_thread') \notin served]_vars
  <2> SUFFICES ASSUME Next, current_thread' # current_thread
               PROVE  TaskOf(current_thread') \notin served
    BY <1>1 DEF vars
  <2>1. CASE pit_handler
    BY <1>1, <2>1, TurnIsNew DEF pit_handler
  <2>2. CASE FastYield
    <3>1. pit
      BY <1>1, <2>2, InUserMode DEF FastYield
    <3> QED  BY <1>1, <2>2, <3>1, TurnIsNew DEF FastYield, sys_yield
  <2>3. CASE IntYield
    <3>1. pit
      BY <1>1, <2>3, InUserMode DEF IntYield
    <3> QED  BY <1>1, <2>3, <3>1, TurnIsNew DEF IntYield, sys_yield
  <2> QED  BY <2>1, <2>2, <2>3 DEF Next, Boot, syscall, FastOther, IntOther, Run,
              create_kernel_thread, create_usermode_task, pit_initialize
<1> QED  BY <1>1, Invariance, PTL DEF Spec, FairTurns
=============================================================================
