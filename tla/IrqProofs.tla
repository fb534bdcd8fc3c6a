------------------------------ MODULE IrqProofs ------------------------------
(***************************************************************************)
(* Interrupt entry and exit push and pop the same words and return every   *)
(* register, for every number of threads, every set of exceptions and      *)
(* software interrupts, and every depth of nesting.                        *)
(***************************************************************************)
EXTENDS Irq, SequenceTheorems, FiniteSetTheorems, TLAPS

Addresses == {None, "generic", "page_fault", "spurious", "syscall_int", "pit"}
Flags     == {"ERRORCODE", "RETVAL", "USER"}
Entry     == [v : Vectors, address : Addresses, error : BOOLEAN,
              stage : {"body", "exit", "leave"}]
Rax       == (Threads \X Nat) \cup {Junk, Result}
RegsWords == [kind : {"regs"}, regs : Threads \X Nat, rax : Rax]

Size(e) == IF e.error THEN 4 ELSE 3

\* The privilege of the code that thread t runs at some depth of interrupts.
ModeAt(t, depth) == IF depth = 0 THEN Mode(t) ELSE "kernel"

\* The words that the i-th entry of thread t, e, leaves on the stack: the
\* lowest, the one above it, the last but one and the last.
Saved(frame, error, vector, regs, e, t, i) ==
    /\ frame.kind = "iret" /\ frame.if \in BOOLEAN /\ frame.mode = ModeAt(t, i - 1)
    /\ e.error => error.kind = "error"
    /\ vector.kind = "vector"
    /\ regs.kind = "regs" /\ regs \in RegsWords /\ regs.regs = Own(t, i - 1)
    /\ i = 1 => regs.rax \in {Own(t, 0), Result}

\* They lie above b other words.
Pushed(words, b, e, t, i) ==
    Saved(words[b + 1], words[b + 2], words[b + Size(e) - 1], words[b + Size(e)], e, t, i)

\* The words on the stack of thread t are those of its entries.
Stacked(words, entries, t) ==
    /\ words \in Seq(Words) /\ entries \in Seq(Entry)
    /\ Len(words) = Below(entries, Len(entries) + 1)
    /\ \A i \in 1 .. Len(entries) : Pushed(words, Below(entries, i), entries[i], t, i)
\* The steps of boot with every handler of an exception set, and those from
\* initialize_virtual_memory() and initialize_syscalls() on.
Live   == {"handlers", "enabled", "paging", "tasks", "syscalls", "timer", "run"}
Paging == {"paging", "tasks", "syscalls", "timer", "run"}
Calls  == {"syscalls", "timer", "run"}

\* The handler that has been set for a vector, and its flags.
Servant(v) ==
    IF v = SPURIOUS THEN "spurious"
    ELSE IF v = PAGE_FAULT /\ boot \in Paging THEN "page_fault"
    ELSE IF v = SYSCALL_INT /\ boot \in Calls THEN "syscall_int"
    ELSE IF v = PIC1_OFFSET /\ boot \in {"timer", "run"} THEN "pit"
    ELSE "generic"

FlagsOf(v) ==
    IF v \in ErrorVectors THEN {"ERRORCODE"}
    ELSE IF v = SYSCALL_INT /\ boot \in Calls THEN {"RETVAL", "USER"} ELSE {}

\* The tables: only the system call is open to user programs.
TablesOK ==
    /\ boot \in {"reset", "pic", "idt"} \cup Live
    /\ handler \in [Vectors -> [address : Addresses, flags : SUBSET Flags]]
    /\ gate \in [Vectors -> [present : BOOLEAN, dpl : {0, 3}]]
    /\ boot \in Live => \A v \in Vectors \ {15} : /\ handler[v].address = Servant(v)
                                                  /\ handler[v].flags = FlagsOf(v)
                                                  /\ gate[v].present
    /\ \A v \in Vectors : gate[v].dpl = 3 => v = SYSCALL_INT /\ boot \in Calls

\* The controller: the line of the timer is opened by the last step of boot.
PicOK ==
    /\ mask \in [1 .. 2 -> SUBSET Lines] /\ irr \subseteq Lines /\ isr \subseteq Lines
    /\ boot \in Live \ {"run"} => mask[1] = Lines
    /\ boot = "pic" => mask[1] = Lines
    /\ boot = "idt" => mask[1] = Lines
    /\ boot = "run" => mask[1] = Lines \ {0}

StacksOK ==
    /\ stack \in [Threads -> Seq(Words)]
    /\ nest \in [Threads -> Seq(Entry)]
    /\ \A t \in Threads : Stacked(stack[t], nest[t], t) /\ Len(nest[t]) <= MaxDepth

\* The vectors that arrive.
Arriving == (Exceptions \ {15}) \cup {SPURIOUS, PIC1_OFFSET, SYSCALL_INT}

\* The i-th entry of a thread that is inside of so many: a new thread, or an
\* interrupt whose handler has not changed since.
EntryOK(e, t, i, depth) ==
    \/ e = Fresh /\ i = 1 /\ depth = 1 /\ t # Main
    \/ /\ boot \in Live
       /\ e.v \in Arriving
       /\ e.address = Servant(e.v)
       /\ e.error = (e.v \in ErrorVectors)
       /\ e.stage \in {"body", "exit"}
       /\ i < depth => e.stage = "body"
       /\ e.v \in {PIC1_OFFSET, SYSCALL_INT} => boot = "run"

EntriesOK ==
    \A t \in Threads : \A i \in 1 .. Len(nest[t]) : EntryOK(nest[t][i], t, i, Len(nest[t]))

\* The running code has its own registers; a system call that is done has its
\* result in rax.
CpuOK ==
    /\ current \in Threads
    /\ cpu \in [if : BOOLEAN, mode : {"user", "kernel"}, regs : Threads \X Nat, rax : Rax]
    /\ cpu.mode = ModeAt(current, Len(nest[current]))
    /\ cpu.regs = Own(current, Len(nest[current]))
    /\ Len(nest[current]) = 0 => cpu.rax \in {Own(current, 0), Result}
    /\ Len(nest[current]) > 0 =>
          LET top == nest[current][Len(nest[current])]
          IN  top.stage = "exit" /\ top.address = "syscall_int" => cpu.rax = Result

\* Until boot is done the main thread runs and the others have not started.
IdleOK ==
    boot # "run" => /\ current = Main
                    /\ \A t \in Users : nest[t] = <<>> \/ nest[t] = <<Fresh>>

CodeOK == StacksOK /\ EntriesOK /\ CpuOK /\ IdleOK /\ wild = FALSE

\* The inductive invariant.
IInv == TablesOK /\ PicOK /\ CodeOK /\ ReportExact
-----------------------------------------------------------------------------
\* The fields of an entry.
LEMMA EntryFields ==
    \A e \in Entry : /\ e.v \in Vectors /\ e.address \in Addresses /\ e.error \in BOOLEAN
                     /\ e.stage \in {"body", "exit", "leave"}
BY DEF Entry

\* The number of words below an entry, from the number below the one before.
LEMMA BelowNext ==
    ASSUME NEW n \in Seq(Entry), NEW i \in 1 .. Len(n)
    PROVE  /\ Below(n, 1) = 0
           /\ Below(n, i) \in Nat
           /\ Below(n, i + 1) = Below(n, i) + Size(n[i])
<1> DEFINE E(k) == {j \in 1 .. k - 1 : n[j].error}
<1>1. \A k \in Nat : IsFiniteSet(E(k))
  <2> TAKE k \in Nat
  <2>1. IsFiniteSet(1 .. k - 1)
    BY FS_Interval
  <2> QED
    BY <2>1, FS_Subset
<1>2. Len(n) \in Nat /\ i \in Nat /\ i > 0 /\ n[i].error \in BOOLEAN
  BY LenProperties, ElementOfSeq, EntryFields
<1>3. E(1) = {}
  BY SMT
<1>4. Cardinality(E(1)) = 0
  BY <1>3, FS_EmptySet
<1>5. Cardinality(E(i)) \in Nat
  BY <1>1, <1>2, FS_CardinalityType
<1>6. Cardinality(E(i + 1)) = Cardinality(E(i)) + IF n[i].error THEN 1 ELSE 0
  <2>1. CASE n[i].error
    <3>1. E(i + 1) = E(i) \cup {i} /\ i \notin E(i)
      BY <1>2, <2>1
    <3> QED
      BY <1>1, <1>2, <2>1, <3>1, FS_AddElement
  <2>2. CASE ~n[i].error
    <3>1. E(i + 1) = E(i)
      BY <1>2, <2>2
    <3>2. Cardinality(E(i + 1)) = Cardinality(E(i))
      BY <3>1, Zenon
    <3> HIDE DEF E
    <3> QED
      BY <1>5, <2>2, <3>2
  <2> QED
    BY <2>1, <2>2
<1>7. Below(n, 1) = 0 /\ Below(n, i) = 3 * (i - 1) + Cardinality(E(i))
  BY <1>4 DEF Below
<1>8. Below(n, i + 1) = 3 * i + Cardinality(E(i + 1))
  BY <1>2 DEF Below
<1> HIDE DEF E
<1> QED
  BY <1>2, <1>5, <1>6, <1>7, <1>8 DEF Size

\* It depends only on which of the entries inside of it had an error code.
LEMMA BelowSame ==
    ASSUME NEW n, NEW m, NEW i \in Nat,
           \A j \in 1 .. i - 1 : n[j].error = m[j].error
    PROVE  Below(n, i) = Below(m, i)
<1>1. {j \in 1 .. i - 1 : n[j].error} = {j \in 1 .. i - 1 : m[j].error}
  OBVIOUS
<1> QED
  BY <1>1 DEF Below

\* Entries further out lie lower.
LEMMA BelowRises ==
    ASSUME NEW n \in Seq(Entry), NEW i \in 1 .. Len(n)
    PROVE  Below(n, i + 1) <= Below(n, Len(n) + 1)
<1> DEFINE E(k) == {j \in 1 .. k - 1 : n[j].error}
<1>1. Len(n) \in Nat /\ i \in Nat
  BY LenProperties
<1>2. IsFiniteSet(E(Len(n) + 1))
  <2>1. IsFiniteSet(1 .. (Len(n) + 1) - 1) /\ E(Len(n) + 1) \subseteq 1 .. (Len(n) + 1) - 1
    BY <1>1, FS_Interval
  <2> QED
    BY <2>1, FS_Subset
<1>3. E(i + 1) \subseteq E(Len(n) + 1)
  BY <1>1
<1>4. /\ Cardinality(E(i + 1)) \in Nat /\ Cardinality(E(Len(n) + 1)) \in Nat
      /\ Cardinality(E(i + 1)) <= Cardinality(E(Len(n) + 1))
  BY <1>2, <1>3, FS_Subset, FS_CardinalityType
<1>5. /\ Below(n, i + 1) = 3 * i + Cardinality(E(i + 1))
      /\ Below(n, Len(n) + 1) = 3 * Len(n) + Cardinality(E(Len(n) + 1))
  BY <1>1 DEF Below
<1> HIDE DEF E
<1> QED
  BY <1>1, <1>4, <1>5

\* What an entry pushed stays in place when other words change.
LEMMA PushedSame ==
    ASSUME NEW w, NEW u, NEW b \in Nat, NEW e \in Entry, NEW t, NEW i,
           \A k \in 1 .. Size(e) : u[b + k] = w[b + k],
           Pushed(w, b, e, t, i)
    PROVE  Pushed(u, b, e, t, i)
<1> DEFINE z == Size(e)
<1>1. z \in {3, 4} /\ e.error \in BOOLEAN /\ (e.error => z = 4)
  BY EntryFields DEF Size
<1>2. b + z - 1 = b + (z - 1) /\ z - 1 \in 1 .. z /\ z \in 1 .. z /\ 1 \in 1 .. z /\ 2 \in 1 .. z
  BY <1>1
<1> HIDE DEF z
<1>3. u[b + z - 1] = w[b + z - 1] /\ u[b + z] = w[b + z] /\ u[b + 1] = w[b + 1] /\ u[b + 2] = w[b + 2]
  BY <1>2 DEF z
<1> QED
  BY <1>3 DEF Pushed, z

\* The words of an entry, from the lowest to the top of the stack.
LEMMA EntryWords ==
    ASSUME NEW S, NEW frame \in S, NEW error \in S, NEW vector \in S, NEW regs \in S,
           NEW coded \in BOOLEAN
    PROVE  LET p == <<frame>> \o (IF coded THEN <<error>> ELSE <<>>) \o <<vector, regs>>
           IN  /\ p \in Seq(S)
               /\ Len(p) = IF coded THEN 4 ELSE 3
               /\ p[1] = frame /\ (coded => p[2] = error)
               /\ p[IF coded THEN 3 ELSE 2] = vector /\ p[IF coded THEN 4 ELSE 3] = regs
<1>1. CASE coded
  BY <1>1
<1>2. CASE ~coded
  BY <1>2
<1> QED
  BY <1>1, <1>2

\* Entering puts the words of one more entry on the stack.
LEMMA Push ==
    ASSUME NEW t \in Threads, NEW w, NEW n, Stacked(w, n, t),
           NEW e \in Entry, NEW if \in BOOLEAN, NEW v \in Vectors,
           NEW rax \in Rax, Len(n) = 0 => rax \in {Own(t, 0), Result}
    PROVE  Stacked(w \o (<<Frame(if, ModeAt(t, Len(n)))>> \o (IF e.error THEN <<ErrorWord>> ELSE <<>>)
                            \o <<VectorWord(v), Regs(Own(t, Len(n)), rax)>>),
                   Append(n, e), t)
<1> DEFINE F == Frame(if, ModeAt(t, Len(n)))
           R == Regs(Own(t, Len(n)), rax)
           p == <<F>> \o (IF e.error THEN <<ErrorWord>> ELSE <<>>) \o <<VectorWord(v), R>>
           u == w \o p
           m == Append(n, e)
<1>1. w \in Seq(Words) /\ n \in Seq(Entry) /\ Len(n) \in Nat /\ Len(w) \in Nat /\ e.error \in BOOLEAN
  BY LenProperties, EntryFields DEF Stacked
<1>2. F \in Words /\ F.kind = "iret" /\ F.if = if /\ F.mode = ModeAt(t, Len(n))
  BY <1>1 DEF Frame, ModeAt, Mode, Words
<1>3. ErrorWord \in Words /\ ErrorWord.kind = "error"
  BY DEF ErrorWord, Words
<1>4. VectorWord(v) \in Words /\ VectorWord(v).kind = "vector"
  BY DEF VectorWord, Words
<1>5. R \in Words /\ R \in RegsWords /\ R.kind = "regs" /\ R.regs = Own(t, Len(n)) /\ R.rax = rax
  BY <1>1 DEF Regs, Own, Words, RegsWords, Rax
<1> HIDE DEF F, R
<1>6. /\ p \in Seq(Words) /\ Len(p) = Size(e)
      /\ p[1] = F /\ (e.error => p[2] = ErrorWord)
      /\ p[Size(e) - 1] = VectorWord(v) /\ p[Size(e)] = R
  BY <1>1, <1>2, <1>3, <1>4, <1>5 DEF Size
<1> HIDE DEF p
<1>7. Size(e) \in {3, 4} /\ (e.error => Size(e) = 4)
  BY DEF Size
<1>8. /\ u \in Seq(Words) /\ Len(u) = Len(w) + Size(e)
      /\ \A i \in 1 .. Len(w) : u[i] = w[i]
      /\ \A i \in 1 .. Size(e) : u[Len(w) + i] = p[i]
  BY <1>1, <1>6, <1>7, ConcatProperties
<1>9. /\ m \in Seq(Entry) /\ Len(m) = Len(n) + 1
      /\ \A i \in 1 .. Len(n) : m[i] = n[i]
      /\ m[Len(n) + 1] = e
  BY <1>1, AppendProperties
<1> HIDE DEF u, m
<1>10. \A i \in 1 .. Len(n) + 1 : Below(m, i) = Below(n, i)
  <2> TAKE i \in 1 .. Len(n) + 1
  <2>1. i \in Nat /\ \A j \in 1 .. i - 1 : m[j].error = n[j].error
    BY <1>1, <1>9
  <2> QED
    BY <2>1, BelowSame
<1>11. Below(m, Len(n) + 1) = Len(w)
  BY <1>1, <1>10 DEF Stacked
<1>12. Below(m, Len(m) + 1) = Len(u)
  BY <1>1, <1>8, <1>9, <1>11, BelowNext
<1>13. Pushed(u, Len(w), e, t, Len(n) + 1)
  <2>1. u[Len(w) + 1] = p[1] /\ u[Len(w) + Size(e)] = p[Size(e)]
    BY <1>1, <1>7, <1>8
  <2>2. u[Len(w) + 2] = p[2]
    BY <1>1, <1>7, <1>8
  <2>3. u[Len(w) + Size(e) - 1] = p[Size(e) - 1]
    <3>1. Size(e) - 1 \in 1 .. Size(e) /\ Len(w) + (Size(e) - 1) = Len(w) + Size(e) - 1
      BY <1>1, <1>7
    <3> QED
      BY <1>8, <3>1
  <2>4. e.error => u[Len(w) + 2].kind = "error"
    BY <1>3, <1>6, <2>2
  <2>5. ModeAt(t, Len(n)) = ModeAt(t, Len(n) + 1 - 1) /\ Own(t, Len(n)) = Own(t, Len(n) + 1 - 1)
    BY <1>1
  <2>6. Len(n) + 1 = 1 => rax \in {Own(t, 0), Result}
    BY <1>1
  <2> QED
    BY <1>2, <1>4, <1>5, <1>6, <2>1, <2>3, <2>4, <2>5, <2>6 DEF Pushed, Saved
<1>14. ASSUME NEW i \in 1 .. Len(n)
       PROVE  Pushed(u, Below(m, i), m[i], t, i)
  <2>1. Pushed(w, Below(n, i), n[i], t, i) /\ m[i] = n[i] /\ Below(m, i) = Below(n, i)
    BY <1>1, <1>9, <1>10 DEF Stacked
  <2>2. Below(n, i) \in Nat /\ Below(n, i) + Size(n[i]) = Below(n, i + 1)
    BY <1>1, BelowNext
  <2>3. Below(n, i + 1) <= Len(w)
    BY <1>1, BelowRises DEF Stacked
  <2>4. Size(n[i]) \in {3, 4} /\ (n[i].error => Size(n[i]) = 4)
    BY DEF Size
  <2>5. \A k \in 1 .. Size(n[i]) : u[Below(n, i) + k] = w[Below(n, i) + k]
    <3> TAKE k \in 1 .. Size(n[i])
    <3> DEFINE x == Below(n, i)
    <3>1. x \in Nat /\ k \in Nat /\ k >= 1 /\ x + k <= Len(w)
      BY <1>1, <2>2, <2>3, <2>4
    <3> HIDE DEF x
    <3>2. x + k \in 1 .. Len(w)
      BY <1>1, <3>1
    <3> QED
      BY <1>8, <3>2 DEF x
  <2> QED
    BY <1>1, <2>1, <2>2, <2>5, PushedSame, ElementOfSeq
<1>15. \A i \in 1 .. Len(m) : Pushed(u, Below(m, i), m[i], t, i)
  BY <1>1, <1>9, <1>11, <1>13, <1>14
<1> QED
  BY <1>8, <1>9, <1>12, <1>15 DEF Stacked, u, m, p, F, R

\* The place of the frame of the innermost entry.
FrameAt(w, n) == Len(w) - IF n[Len(n)].error THEN 3 ELSE 2

\* Where the words of the innermost entry lie.
LEMMA TopWords ==
    ASSUME NEW t \in Threads, NEW w, NEW n, Stacked(w, n, t), n # <<>>
    PROVE  LET k == Len(w)
               at == FrameAt(w, n)
           IN  /\ k \in Nat /\ at \in Nat /\ at > 0 /\ at < k /\ Len(n) \in Nat /\ Len(n) > 0
               /\ at - 1 = Below(n, Len(n))
               /\ n[Len(n)] \in Entry
               /\ w \in Seq(Words) /\ n \in Seq(Entry)
               /\ w[k] \in RegsWords /\ w[k].regs = Own(t, Len(n) - 1)
               /\ Len(n) = 1 => w[k].rax \in {Own(t, 0), Result}
               /\ w[at].kind = "iret" /\ w[at].if \in BOOLEAN
               /\ w[at].mode = ModeAt(t, Len(n) - 1)
               /\ n[Len(n)].error => w[k - 2].kind = "error"
<1> DEFINE l == Len(n)
           e == n[l]
           b == Below(n, l)
<1>1. w \in Seq(Words) /\ n \in Seq(Entry) /\ l \in Nat /\ l > 0 /\ Len(w) \in Nat
  BY LenProperties, EmptySeq DEF Stacked
<1>2. l \in 1 .. l /\ e \in Entry /\ e.error \in BOOLEAN
  BY <1>1, ElementOfSeq, EntryFields
<1>3. b \in Nat /\ Len(w) = b + Size(e) /\ Pushed(w, b, e, t, l)
  BY <1>1, <1>2, BelowNext DEF Stacked
<1> HIDE DEF b, e, l
<1>4. CASE e.error
  <2>1. Size(e) = 4
    BY <1>4 DEF Size
  <2>2. b + 1 = Len(w) - 3 /\ b + 2 = Len(w) - 2 /\ b + Size(e) = Len(w)
    BY <1>1, <1>3, <2>1
  <2> QED
    BY <1>1, <1>2, <1>3, <1>4, <2>2 DEF Pushed, Saved, FrameAt, b, e, l
<1>5. CASE ~e.error
  <2>1. Size(e) = 3
    BY <1>5 DEF Size
  <2>2. b + 1 = Len(w) - 2 /\ b + Size(e) = Len(w)
    BY <1>1, <1>3, <2>1
  <2> QED
    BY <1>1, <1>2, <1>3, <1>5, <2>2 DEF Pushed, Saved, FrameAt, b, e, l
<1> QED
  BY <1>4, <1>5

\* Leaving takes exactly the words of the innermost entry, whatever was written
\* over the last of them.
LEMMA Pop ==
    ASSUME NEW t \in Threads, NEW w, NEW n, Stacked(w, n, t), n # <<>>,
           NEW u, \A i \in 1 .. Len(w) - 1 : u[i] = w[i]
    PROVE  Stacked(SubSeq(u, 1, FrameAt(w, n) - 1), Front(n), t)
<1> DEFINE l == Len(n)
           b == Below(n, l)
           s == SubSeq(u, 1, b)
           m == Front(n)
<1>1. /\ Len(w) \in Nat /\ b < Len(w) /\ b \in Nat /\ l \in Nat /\ l > 0
      /\ w \in Seq(Words) /\ n \in Seq(Entry)
      /\ FrameAt(w, n) - 1 = b
  BY TopWords, BelowNext
<1>2. \A i \in 1 .. b : u[i] = w[i] /\ w[i] \in Words
  BY <1>1, ElementOfSeq
<1>3. s \in Seq(Words) /\ Len(s) = b /\ \A i \in 1 .. b : s[i] = w[i]
  <2>1. b \in Nat /\ \A i \in 1 .. b : u[i] = w[i] /\ u[i] \in Words
    BY <1>1, <1>2
  <2> HIDE DEF b
  <2> QED
    BY <2>1, SubSeqProperties
<1>4. m \in Seq(Entry) /\ Len(m) = l - 1 /\ \A i \in 1 .. l - 1 : m[i] = n[i]
  <2>1. \A i \in 1 .. l - 1 : n[i] \in Entry
    BY <1>1, ElementOfSeq
  <2>2. m = SubSeq(n, 1, l - 1)
    BY DEF Front
  <2> HIDE DEF m
  <2> DEFINE c == l - 1
  <2>3. c \in Nat /\ m = SubSeq(n, 1, c) /\ \A i \in 1 .. c : n[i] \in Entry
    BY <1>1, <2>1, <2>2
  <2> HIDE DEF c
  <2>4. m \in Seq(Entry) /\ Len(m) = c /\ \A i \in 1 .. c : m[i] = n[i]
    BY <2>3, SubSeqProperties
  <2> QED
    BY <2>4 DEF c
<1> HIDE DEF s, m
<1>5. \A i \in 1 .. l : Below(m, i) = Below(n, i)
  <2> TAKE i \in 1 .. l
  <2>1. i \in Nat /\ \A j \in 1 .. i - 1 : m[j].error = n[j].error
    BY <1>1, <1>4
  <2> QED
    BY <2>1, BelowSame
<1>6. Len(s) = Below(m, Len(m) + 1)
  BY <1>1, <1>3, <1>4, <1>5
<1>7. ASSUME NEW i \in 1 .. Len(m)
      PROVE  Pushed(s, Below(m, i), m[i], t, i)
  <2>1. i \in 1 .. l /\ i \in 1 .. l - 1 /\ i + 1 \in 1 .. l
    BY <1>1, <1>4
  <2>2. Pushed(w, Below(n, i), n[i], t, i) /\ m[i] = n[i] /\ Below(m, i) = Below(n, i)
    BY <1>4, <1>5, <2>1 DEF Stacked
  <2>3. Below(n, i) \in Nat /\ Below(n, i) + Size(n[i]) = Below(n, i + 1)
    BY <1>1, <2>1, BelowNext
  <2>4. Below(n, i + 1) <= b
    <3>1. Below(m, i + 1) <= Below(m, Len(m) + 1)
      BY <1>4, BelowRises
    <3> QED
      BY <1>3, <1>5, <1>6, <2>1, <3>1
  <2>5. \A k \in 1 .. Size(n[i]) : s[Below(n, i) + k] = w[Below(n, i) + k]
    <3> TAKE k \in 1 .. Size(n[i])
    <3> DEFINE x == Below(n, i)
               z == Size(n[i])
    <3>1. x \in Nat /\ z \in {3, 4} /\ k \in 1 .. z /\ x + z <= b
      BY <2>3, <2>4 DEF Size
    <3> HIDE DEF x, z
    <3>2. x + k \in 1 .. b
      BY <1>1, <3>1
    <3> QED
      BY <1>3, <3>2 DEF x
  <2> QED
    BY <1>1, <2>1, <2>2, <2>3, <2>5, PushedSame, ElementOfSeq
<1> QED
  BY <1>1, <1>3, <1>4, <1>6, <1>7 DEF Stacked, s, m

\* The innermost entry is at the exit code.
Exited(n) == [n EXCEPT ![Len(n)].stage = "exit"]

LEMMA ExitedEntries ==
    ASSUME NEW n \in Seq(Entry), n # <<>>
    PROVE  /\ Exited(n) \in Seq(Entry) /\ Len(Exited(n)) = Len(n)
           /\ Len(n) \in Nat /\ Len(n) > 0
           /\ Exited(n)[Len(n)].stage = "exit"
           /\ \A i \in 1 .. Len(n) :
                 /\ Exited(n)[i].v = n[i].v /\ Exited(n)[i].address = n[i].address
                 /\ Exited(n)[i].error = n[i].error
                 /\ i < Len(n) => Exited(n)[i] = n[i]
<1> DEFINE l == Len(n)
           m == Exited(n)
<1>1. l \in Nat /\ l > 0 /\ l \in 1 .. l /\ n[l] \in Entry
  BY EmptySeq, LenProperties, ElementOfSeq
<1> DEFINE f == [n[l] EXCEPT !.stage = "exit"]
<1>2. f \in Entry /\ f.stage = "exit" /\ f.v = n[l].v /\ f.address = n[l].address /\ f.error = n[l].error
  BY <1>1 DEF Entry
<1>3. m = [n EXCEPT ![l] = f]
  BY <1>1 DEF Exited
<1> HIDE DEF f
<1>4. m \in Seq(Entry) /\ Len(m) = l /\ \A i \in 1 .. l : m[i] = IF i = l THEN f ELSE n[i]
  BY <1>1, <1>2, <1>3, ExceptSeq
<1> HIDE DEF m, l
<1>5. \A i \in 1 .. l : /\ m[i].v = n[i].v /\ m[i].address = n[i].address /\ m[i].error = n[i].error
                        /\ i < l => m[i] = n[i]
  BY <1>1, <1>2, <1>4
<1> QED
  BY <1>1, <1>2, <1>4, <1>5 DEF m, l

\* Which part of the handler an entry is at does not matter to the stack.
LEMMA Restaged ==
    ASSUME NEW t \in Threads, NEW w, NEW n, Stacked(w, n, t), n # <<>>
    PROVE  Stacked(w, Exited(n), t)
<1> DEFINE l == Len(n)
           m == Exited(n)
<1>1. n \in Seq(Entry)
  BY DEF Stacked
<1>2. m \in Seq(Entry) /\ Len(m) = l /\ l \in Nat /\ \A i \in 1 .. l : m[i].error = n[i].error
  BY <1>1, ExitedEntries
<1> HIDE DEF m
<1>3. \A i \in 1 .. l + 1 : Below(m, i) = Below(n, i)
  <2> TAKE i \in 1 .. l + 1
  <2>1. i \in Nat /\ \A j \in 1 .. i - 1 : m[j].error = n[j].error
    BY <1>2
  <2> QED
    BY <2>1, BelowSame
<1>4. \A i \in 1 .. l : Pushed(w, Below(m, i), m[i], t, i)
  <2> TAKE i \in 1 .. l
  <2>1. /\ Pushed(w, Below(n, i), n[i], t, i) /\ Below(m, i) = Below(n, i)
        /\ m[i].error = n[i].error
    BY <1>2, <1>3 DEF Stacked
  <2> QED
    BY <2>1, Zenon DEF Pushed, Saved, Size
<1> QED
  BY <1>2, <1>3, <1>4 DEF Stacked, m
-----------------------------------------------------------------------------
(* What every step keeps *)

\* Facts of the tables at a vector that arrives.
LEMMA TableFacts ==
    ASSUME TablesOK, boot \in Live, NEW v \in Arriving
    PROVE  /\ v \in Vectors
           /\ handler[v].address = Servant(v) /\ handler[v].flags = FlagsOf(v)
           /\ gate[v].present
           /\ Servant(v) \in Addresses
           /\ "ERRORCODE" \in FlagsOf(v) <=> v \in ErrorVectors
           /\ "RETVAL" \in FlagsOf(v) => Servant(v) = "syscall_int"
           /\ Servant(v) = "syscall_int" => v = SYSCALL_INT
           /\ Servant(v) = "pit" => v = PIC1_OFFSET
           /\ Servant(v) \in {"generic", "page_fault"} =>
                 v \in Exceptions \cup {PIC1_OFFSET, SYSCALL_INT}
<1>1. v \in Vectors /\ v # 15
  BY DEF Arriving, Vectors, Exceptions, SPURIOUS, PIC1_OFFSET, SYSCALL_INT
<1>2. handler[v].address = Servant(v) /\ handler[v].flags = FlagsOf(v) /\ gate[v].present
  BY <1>1 DEF TablesOK
<1>3. Servant(v) \in Addresses
  BY DEF Servant, Addresses
<1>4. /\ "ERRORCODE" \in FlagsOf(v) <=> v \in ErrorVectors
      /\ "RETVAL" \in FlagsOf(v) => Servant(v) = "syscall_int"
      /\ Servant(v) = "syscall_int" => v = SYSCALL_INT
      /\ Servant(v) = "pit" => v = PIC1_OFFSET
      /\ Servant(v) \in {"generic", "page_fault"} =>
                 v \in Exceptions \cup {PIC1_OFFSET, SYSCALL_INT}
  BY DEF Servant, FlagsOf, Arriving, SYSCALL_INT, PIC1_OFFSET, SPURIOUS, PAGE_FAULT,
         ErrorVectors, Exceptions
<1> QED
  BY <1>1, <1>2, <1>3, <1>4

\* The top entry of a thread that is inside of something.
LEMMA TopEntry ==
    ASSUME StacksOK, EntriesOK, NEW t \in Threads, nest[t] # <<>>
    PROVE  /\ Len(nest[t]) \in Nat /\ Len(nest[t]) > 0
           /\ nest[t] \in Seq(Entry)
           /\ Last(nest[t]) = nest[t][Len(nest[t])]
           /\ Last(nest[t]) \in Entry
           /\ EntryOK(Last(nest[t]), t, Len(nest[t]), Len(nest[t]))
<1>1. nest[t] \in Seq(Entry) /\ Stacked(stack[t], nest[t], t)
  BY DEF StacksOK
<1>2. Len(nest[t]) \in Nat /\ Len(nest[t]) > 0 /\ nest[t][Len(nest[t])] \in Entry
  BY <1>1, TopWords
<1> QED
  BY <1>1, <1>2 DEF Last, EntriesOK

\* Entries that others are inside of stand at their body.
LEMMA InnerEntry ==
    ASSUME NEW e, NEW t, NEW i \in Nat, NEW depth \in Nat, i > 0, i < depth,
           EntryOK(e, t, i, depth)
    PROVE  e.stage = "body"
<1>1. ~(i = 1 /\ depth = 1)
  OBVIOUS
<1> QED
  BY <1>1, Zenon DEF EntryOK

\* Steps that leave the code alone, and the tables with it, keep all that is
\* said of it.
LEMMA CodeKept ==
    ASSUME CodeOK, ReportExact, UNCHANGED <<code, report, boot>>
    PROVE  CodeOK' /\ ReportExact'
<1>1. StacksOK'
  BY DEF CodeOK, StacksOK, code
<1>2. EntriesOK'
  BY DEF CodeOK, EntriesOK, EntryOK, Servant, code
<1>3. CpuOK'
  BY DEF CodeOK, CpuOK, code
<1>4. IdleOK' /\ wild' = FALSE /\ ReportExact'
  BY DEF CodeOK, IdleOK, ReportExact, Top, Last, code
<1> QED
  BY <1>1, <1>2, <1>3, <1>4 DEF CodeOK

\* Before boot is done all entries are those of new threads.
LEMMA AllFresh ==
    ASSUME CodeOK, boot # "run", nest[Main] = <<>>, NEW t \in Threads, NEW i \in 1 .. Len(nest[t])
    PROVE  nest[t][i] = Fresh /\ i = 1 /\ Len(nest[t]) = 1 /\ t # Main
<1>1. t # Main /\ nest[t] = <<Fresh>>
  <2>1. nest[t] # <<>>
    OBVIOUS
  <2> QED
    BY <2>1 DEF CodeOK, IdleOK, Threads
<1> QED
  BY <1>1

\* A step of boot keeps them, whatever it does to the tables.
LEMMA BootCode ==
    ASSUME CodeOK, ReportExact, boot # "run", nest[Main] = <<>>, UNCHANGED <<code, report>>
    PROVE  CodeOK' /\ ReportExact'
<1>1. StacksOK'
  BY DEF CodeOK, StacksOK, code
<1>2. EntriesOK'
  <2>1. SUFFICES ASSUME NEW t \in Threads, NEW i \in 1 .. Len(nest[t])
                 PROVE  EntryOK(nest[t][i], t, i, Len(nest[t]))'
    BY DEF EntriesOK, code
  <2>2. nest[t][i] = Fresh /\ i = 1 /\ Len(nest[t]) = 1 /\ t # Main
    BY AllFresh
  <2> QED
    BY <2>2 DEF EntryOK, code, Fresh
<1>3. CpuOK'
  BY DEF CodeOK, CpuOK, code
<1>4. IdleOK' /\ wild' = FALSE /\ ReportExact'
  BY DEF CodeOK, IdleOK, ReportExact, Top, Last, code
<1> QED
  BY <1>1, <1>2, <1>3, <1>4 DEF CodeOK

\* Entry: the new words, the new entry and the registers of the handler.
LEMMA EnterCode ==
    ASSUME TablesOK, CodeOK, NEW v \in Arriving, Enter(v, v \in ErrorVectors),
           v \in {PIC1_OFFSET, SYSCALL_INT} => boot = "run"
    PROVE  CodeOK' /\ ReportExact'
<1> DEFINE n == nest[current]
           e == Inside(v, Servant(v), v \in ErrorVectors)
           own == Own(current, Len(n) + 1)
           pushed == <<Frame(cpu.if, cpu.mode)>> \o (IF e.error THEN <<ErrorWord>> ELSE <<>>)
                        \o <<VectorWord(v), Regs(cpu.regs, cpu.rax)>>
<1>1. StacksOK /\ EntriesOK /\ CpuOK /\ IdleOK /\ wild = FALSE /\ report = <<>>
  BY DEF CodeOK, Enter, Interruptible
<1>2. boot \in Live
  BY DEF TablesOK, Enter, Interruptible
<1>3. gate[v].present /\ handler[v].address = Servant(v) /\ v \in Vectors /\ Servant(v) \in Addresses
  BY <1>2, TableFacts
<1>4. current \in Threads /\ n \in Seq(Entry) /\ Len(n) \in Nat /\ Stacked(stack[current], n, current)
  BY <1>1, LenProperties DEF StacksOK, CpuOK
<1>5. /\ e \in Entry /\ e.v = v /\ e.address = Servant(v) /\ e.error = (v \in ErrorVectors)
      /\ e.stage = "body"
  BY <1>3 DEF Inside, Entry
<1>6. /\ stack' = [stack EXCEPT ![current] = @ \o pushed]
      /\ nest' = [nest EXCEPT ![current] = Append(@, e)]
      /\ cpu' = [if |-> FALSE, mode |-> "kernel", regs |-> own, rax |-> own]
      /\ Len(n) < MaxDepth
      /\ UNCHANGED <<tables, boot, current, wild, report>>
  BY <1>3 DEF Enter, Depth, Inside
<1> HIDE DEF e
<1>7. current' = current /\ boot' = boot /\ wild' = wild /\ report' = report
  BY <1>6
<1>8. Stacked(stack[current] \o pushed, Append(n, e), current)
  <2>1. /\ cpu.if \in BOOLEAN /\ cpu.rax \in Rax /\ (Len(n) = 0 => cpu.rax \in {Own(current, 0), Result})
        /\ cpu.mode = ModeAt(current, Len(n)) /\ cpu.regs = Own(current, Len(n))
    BY <1>1 DEF CpuOK
  <2>2. pushed = <<Frame(cpu.if, ModeAt(current, Len(n)))>> \o (IF e.error THEN <<ErrorWord>> ELSE <<>>)
                    \o <<VectorWord(v), Regs(Own(current, Len(n)), cpu.rax)>>
    BY <2>1
  <2> HIDE DEF pushed, n
  <2> QED
    BY <1>3, <1>4, <1>5, <2>1, <2>2, Push
<1> HIDE DEF pushed
<1>9. /\ Append(n, e) \in Seq(Entry) /\ Len(Append(n, e)) = Len(n) + 1
      /\ \A i \in 1 .. Len(n) : Append(n, e)[i] = n[i]
      /\ Append(n, e)[Len(n) + 1] = e
  BY <1>4, <1>5, AppendProperties
<1>10. \A t \in Threads : /\ t # current => nest'[t] = nest[t] /\ stack'[t] = stack[t]
                          /\ nest'[current] = Append(n, e)
                          /\ stack'[current] = stack[current] \o pushed
  BY <1>1, <1>4, <1>6 DEF StacksOK
<1>11. StacksOK'
  <2>1. stack[current] \o pushed \in Seq(Words)
    BY <1>8 DEF Stacked
  <2>2. stack' \in [Threads -> Seq(Words)] /\ nest' \in [Threads -> Seq(Entry)]
    BY <1>1, <1>4, <1>6, <1>9, <2>1 DEF StacksOK
  <2>3. ASSUME NEW t \in Threads
        PROVE  Stacked(stack'[t], nest'[t], t) /\ Len(nest'[t]) <= MaxDepth
    <3>1. CASE t = current
      <4>1. nest'[t] = Append(n, e) /\ stack'[t] = stack[current] \o pushed
        BY <1>10, <3>1
      <4>2. Len(n) + 1 <= MaxDepth
        BY <1>4, <1>6, IrqAssumption
      <4> HIDE DEF n
      <4> QED
        BY <1>8, <1>9, <3>1, <4>1, <4>2
    <3>2. CASE t # current
      BY <1>1, <1>10, <3>2 DEF StacksOK
    <3> QED
      BY <3>1, <3>2
  <2> QED
    BY <2>2, <2>3 DEF StacksOK, Stacked, Pushed, Saved
<1>12. EntriesOK'
  <2>1. SUFFICES ASSUME NEW t \in Threads, NEW i \in 1 .. Len(nest'[t])
                 PROVE  EntryOK(nest[t][i], t, i, Len(nest[t]))'
    BY DEF EntriesOK
  <2>2. CASE t # current
    <3>1. EntryOK(nest[t][i], t, i, Len(nest[t]))
      BY <1>1, <1>10, <2>2 DEF EntriesOK
    <3> QED
      BY <1>7, <1>10, <2>2, <3>1 DEF EntryOK, Servant, Fresh
  <2>3. CASE t = current /\ i = Len(n) + 1
    <3>1. nest'[t][i] = e /\ i = Len(nest'[t])
      BY <1>9, <1>10, <2>3
    <3> QED
      BY <1>2, <1>4, <1>5, <1>7, <2>3, <3>1 DEF EntryOK, Servant
  <2>4. CASE t = current /\ i # Len(n) + 1
    <3>1. i \in 1 .. Len(n) /\ nest'[t][i] = n[i] /\ i < Len(nest'[t])
      BY <1>4, <1>9, <1>10, <2>4
    <3>2. EntryOK(n[i], t, i, Len(n))
      BY <1>1, <2>4, <3>1 DEF EntriesOK
    <3>3. n[i].stage = "body"
      <4>1. CASE i < Len(n)
        BY <1>4, <3>1, <3>2, <4>1, InnerEntry
      <4>2. CASE i = Len(n)
        BY <1>1, <2>4, <4>2, <3>1 DEF Enter, Interruptible, Last
      <4> QED
        BY <1>4, <3>1, <4>1, <4>2
    <3>4. n[i] # Fresh
      BY <3>3 DEF Fresh
    <3> QED
      BY <1>7, <3>1, <3>2, <3>3, <3>4 DEF EntryOK, Servant
  <2> QED
    BY <2>2, <2>3, <2>4
<1>13. CpuOK'
  <2>1. own \in Threads \X Nat
    BY <1>4 DEF Own
  <2>2. cpu' \in [if : BOOLEAN, mode : {"user", "kernel"}, regs : Threads \X Nat, rax : Rax]
    BY <1>6, <2>1 DEF Rax
  <2>3. /\ cpu'.mode = ModeAt(current, Len(n) + 1) /\ cpu'.regs = Own(current, Len(n) + 1)
        /\ Len(n) + 1 > 0 /\ ~(Len(n) + 1 = 0)
    BY <1>4, <1>6 DEF ModeAt
  <2>4. Len(nest'[current]) = Len(n) + 1 /\ nest'[current][Len(n) + 1] = e
    BY <1>4, <1>9, <1>10
  <2> QED
    BY <1>4, <1>5, <1>7, <2>2, <2>3, <2>4 DEF CpuOK, ModeAt, Mode, Own
<1>14. IdleOK'
  BY <1>1, <1>4, <1>6, <1>7, <1>10, IrqAssumption DEF IdleOK, Threads
<1>15. wild' = FALSE /\ ReportExact'
  BY <1>1, <1>7 DEF ReportExact
<1> QED
  BY <1>11, <1>12, <1>13, <1>14, <1>15 DEF CodeOK

\* Exit: the words, the entry and the registers of the innermost interrupt go.
LEMMA UnwindCode ==
    ASSUME CodeOK, report = <<>>, nest[current] # <<>>,
           NEW words, NEW zero \in BOOLEAN, zero = ~Last(nest[current]).error,
           Len(words) = Len(stack[current]),
           \A i \in 1 .. Len(words) - 1 : words[i] = stack[current][i],
           words[Len(words)].regs = stack[current][Len(words)].regs,
           words[Len(words)].rax \in Rax,
           Len(nest[current]) = 1 => words[Len(words)].rax \in {Own(current, 0), Result},
           Unwind(words, zero), UNCHANGED <<tables, boot, current, report>>
    PROVE  CodeOK' /\ ReportExact'
<1> DEFINE n == nest[current]
           w == stack[current]
           k == Len(w)
           at == FrameAt(w, n)
<1>1. StacksOK /\ EntriesOK /\ CpuOK /\ IdleOK /\ wild = FALSE
  BY DEF CodeOK
<1>2. current \in Threads /\ Stacked(w, n, current) /\ Len(words) = k /\ n # <<>>
  BY <1>1 DEF StacksOK, CpuOK
<1>3. /\ k \in Nat /\ at \in Nat /\ at > 0 /\ at < k /\ Len(n) \in Nat /\ Len(n) > 0
      /\ n \in Seq(Entry) /\ n[Len(n)] \in Entry
      /\ w[k].regs = Own(current, Len(n) - 1)
      /\ w[at].kind = "iret" /\ w[at].if \in BOOLEAN
      /\ w[at].mode = ModeAt(current, Len(n) - 1)
  BY <1>2, TopWords
<1>4. at = k - IF zero THEN 2 ELSE 3
  BY <1>2, <1>3, EntryFields DEF Last, FrameAt
<1>5. words[at] = w[at]
  <2>1. at \in 1 .. k - 1
    BY <1>3
  <2> HIDE DEF at, k
  <2> QED
    BY <1>2, <2>1 DEF k
<1> DEFINE s == SubSeq(words, 1, at - 1)
           m == Front(n)
<1>6. Stacked(s, m, current)
  BY <1>2, Pop
<1>7. m \in Seq(Entry) /\ Len(m) = Len(n) - 1 /\ \A i \in 1 .. Len(n) - 1 : m[i] = n[i]
  <2> DEFINE c == Len(n) - 1
  <2>1. c \in Nat /\ m = SubSeq(n, 1, c) /\ \A i \in 1 .. c : n[i] \in Entry
    BY <1>3, ElementOfSeq DEF Front
  <2> HIDE DEF c, m
  <2>2. m \in Seq(Entry) /\ Len(m) = c /\ \A i \in 1 .. c : m[i] = n[i]
    BY <2>1, SubSeqProperties
  <2> QED
    BY <2>2 DEF c
<1>8. /\ wild' = FALSE
      /\ stack' = [stack EXCEPT ![current] = s]
      /\ nest' = [nest EXCEPT ![current] = m]
      /\ cpu' = [if |-> words[at].if, mode |-> words[at].mode,
                 regs |-> words[k].regs, rax |-> words[k].rax]
  BY <1>3, <1>4, <1>5 DEF Unwind
<1> HIDE DEF s, m
<1>9. current' = current /\ boot' = boot /\ report' = report
  OBVIOUS
<1>10. /\ nest'[current] = m /\ stack'[current] = s
       /\ \A t \in Threads : t # current => nest'[t] = nest[t] /\ stack'[t] = stack[t]
  BY <1>1, <1>2, <1>8 DEF StacksOK
<1>11. StacksOK'
  <2>1. s \in Seq(Words)
    BY <1>6 DEF Stacked
  <2>2. stack' \in [Threads -> Seq(Words)] /\ nest' \in [Threads -> Seq(Entry)]
    BY <1>1, <1>2, <1>7, <1>8, <2>1 DEF StacksOK
  <2>3. ASSUME NEW t \in Threads
        PROVE  Stacked(stack'[t], nest'[t], t) /\ Len(nest'[t]) <= MaxDepth
    <3>1. CASE t = current
      <4>1. Len(n) <= MaxDepth
        BY <1>1, <1>2 DEF StacksOK
      <4> HIDE DEF n
      <4>2. Len(m) <= MaxDepth
        BY <1>3, <1>7, <4>1, IrqAssumption
      <4> QED
        BY <1>6, <1>10, <3>1, <4>2
    <3>2. CASE t # current
      BY <1>1, <1>10, <3>2 DEF StacksOK
    <3> QED
      BY <3>1, <3>2
  <2> QED
    BY <2>2, <2>3 DEF StacksOK, Stacked, Pushed, Saved
<1>12. EntriesOK'
  <2>1. SUFFICES ASSUME NEW t \in Threads, NEW i \in 1 .. Len(nest'[t])
                 PROVE  EntryOK(nest[t][i], t, i, Len(nest[t]))'
    BY DEF EntriesOK
  <2>2. CASE t # current
    <3>1. EntryOK(nest[t][i], t, i, Len(nest[t]))
      BY <1>1, <1>10, <2>2 DEF EntriesOK
    <3> QED
      BY <1>9, <1>10, <2>2, <3>1 DEF EntryOK, Servant, Fresh
  <2>3. CASE t = current
    <3>1. i \in 1 .. Len(n) - 1 /\ i \in 1 .. Len(n) /\ nest'[t][i] = n[i]
      <4>1. nest'[t] = m
        BY <1>10, <2>3
      <4> HIDE DEF n
      <4> QED
        BY <1>3, <1>7, <4>1
    <3>2. EntryOK(n[i], t, i, Len(n))
      BY <1>1, <2>3, <3>1 DEF EntriesOK
    <3>3. n[i].stage = "body"
      BY <1>3, <3>1, <3>2, InnerEntry
    <3>4. n[i] # Fresh
      BY <3>3 DEF Fresh
    <3> QED
      BY <1>9, <3>1, <3>2, <3>3, <3>4 DEF EntryOK, Servant
  <2> QED
    BY <2>2, <2>3
<1>13. CpuOK'
  <2>1. Own(current, Len(n) - 1) \in Threads \X Nat
    BY <1>2, <1>3 DEF Own
  <2>2. ModeAt(current, Len(n) - 1) \in {"user", "kernel"}
    BY DEF ModeAt, Mode
  <2>3. /\ cpu' \in [if : BOOLEAN, mode : {"user", "kernel"}, regs : Threads \X Nat, rax : Rax]
        /\ cpu'.mode = ModeAt(current, Len(m)) /\ cpu'.regs = Own(current, Len(m))
        /\ Len(m) = 0 => cpu'.rax \in {Own(current, 0), Result}
    BY <1>2, <1>3, <1>5, <1>7, <1>8, <2>1, <2>2
  <2>4. Len(m) > 0 => m[Len(m)].stage = "body"
    <3>1. SUFFICES ASSUME Len(m) > 0 PROVE n[Len(n) - 1].stage = "body"
      BY <1>3, <1>7
    <3>2. Len(n) - 1 \in 1 .. Len(n) /\ Len(n) - 1 \in Nat /\ Len(n) - 1 < Len(n) /\ Len(n) - 1 > 0
      BY <1>3, <1>7, <3>1
    <3>3. EntryOK(n[Len(n) - 1], current, Len(n) - 1, Len(n))
      BY <1>1, <1>2, <3>2 DEF EntriesOK
    <3> QED
      BY <1>3, <3>2, <3>3, InnerEntry
  <2> QED
    BY <1>2, <1>9, <1>10, <2>3, <2>4 DEF CpuOK, ModeAt, Mode, Own
<1>14. IdleOK'
  BY <1>1, <1>9, <1>10, IrqAssumption DEF IdleOK, Threads
<1>15. wild' = FALSE /\ ReportExact'
  BY <1>8, <1>9 DEF ReportExact
<1> QED
  BY <1>11, <1>12, <1>13, <1>14, <1>15 DEF CodeOK

\* A handler is over: its entry turns to the exit code.
LEMMA ExitEntry ==
    ASSUME CodeOK, nest[current] # <<>>, Top.stage = "body",
           nest' = Stage(nest, current, "exit"), UNCHANGED <<stack, boot>>
    PROVE  /\ StacksOK' /\ EntriesOK'
           /\ \A t \in Threads : t # current => nest'[t] = nest[t]
           /\ Len(nest'[current]) = Len(nest[current]) /\ Len(nest[current]) > 0
           /\ Len(nest[current]) \in Nat
           /\ nest'[current][Len(nest[current])].address = Top.address
<1> DEFINE n == nest[current]
           m == Exited(n)
<1>1. StacksOK /\ EntriesOK /\ current \in Threads /\ n # <<>>
      /\ Stacked(stack[current], n, current)
  BY DEF CodeOK, StacksOK, CpuOK
<1>2. nest' = [nest EXCEPT ![current] = m]
  BY DEF Stage, Exited
<1>3. /\ Stacked(stack[current], m, current) /\ m \in Seq(Entry) /\ Len(m) = Len(n)
      /\ \A i \in 1 .. Len(n) : /\ m[i].v = n[i].v /\ m[i].address = n[i].address
                                /\ m[i].error = n[i].error
                                /\ i < Len(n) => m[i] = n[i]
      /\ m[Len(n)].stage = "exit"
  <2>1. n \in Seq(Entry)
    BY <1>1 DEF Stacked
  <2> HIDE DEF n
  <2> QED
    BY <1>1, <2>1, Restaged, ExitedEntries
<1>4. Len(n) \in Nat /\ Len(n) > 0 /\ n[Len(n)] = Top /\ Len(n) \in 1 .. Len(n)
  BY <1>1, TopEntry DEF Top
<1> HIDE DEF m
<1>5. /\ nest'[current] = m
      /\ \A t \in Threads : t # current => nest'[t] = nest[t]
  BY <1>1, <1>2 DEF StacksOK
<1>6. StacksOK'
  <2>1. nest' \in [Threads -> Seq(Entry)]
    BY <1>1, <1>2, <1>3 DEF StacksOK
  <2>2. ASSUME NEW t \in Threads
        PROVE  Stacked(stack'[t], nest'[t], t) /\ Len(nest'[t]) <= MaxDepth
    BY <1>1, <1>3, <1>5 DEF StacksOK
  <2> QED
    BY <1>1, <2>1, <2>2 DEF StacksOK, Stacked, Pushed, Saved
<1>7. EntriesOK'
  <2>1. SUFFICES ASSUME NEW t \in Threads, NEW i \in 1 .. Len(nest'[t])
                 PROVE  EntryOK(nest[t][i], t, i, Len(nest[t]))'
    BY DEF EntriesOK
  <2>2. CASE t # current
    <3>1. EntryOK(nest[t][i], t, i, Len(nest[t]))
      BY <1>1, <1>5, <2>2 DEF EntriesOK
    <3> QED
      BY <1>5, <2>2, <3>1 DEF EntryOK, Servant, Fresh
  <2>3. CASE t = current
    <3>1. i \in 1 .. Len(n) /\ nest'[t][i] = m[i] /\ Len(nest'[t]) = Len(n)
      BY <1>3, <1>5, <2>3
    <3>2. EntryOK(n[i], t, i, Len(n))
      BY <1>1, <2>3, <3>1 DEF EntriesOK
    <3>3. n[i].stage = "body"
      <4>1. CASE i < Len(n)
        BY <1>4, <3>1, <3>2, <4>1, InnerEntry
      <4>2. CASE i = Len(n)
        BY <1>4, <4>2
      <4> QED
        BY <1>4, <3>1, <4>1, <4>2
    <3>4. n[i] # Fresh
      BY <3>3 DEF Fresh
    <3>5. /\ m[i].stage \in {"body", "exit"} /\ (i < Len(n) => m[i].stage = "body")
          /\ m[i].v = n[i].v /\ m[i].address = n[i].address /\ m[i].error = n[i].error
      BY <1>3, <1>4, <3>1, <3>3
    <3>6. /\ boot \in Live /\ n[i].v \in Arriving /\ n[i].address = Servant(n[i].v)
          /\ n[i].error = (n[i].v \in ErrorVectors)
          /\ n[i].v \in {PIC1_OFFSET, SYSCALL_INT} => boot = "run"
      BY <3>2, <3>4 DEF EntryOK
    <3> HIDE DEF n
    <3> QED
      BY <3>1, <3>5, <3>6 DEF EntryOK, Servant
  <2> QED
    BY <2>2, <2>3
<1> QED
  BY <1>3, <1>4, <1>5, <1>6, <1>7

\* The handler returns.
LEMMA ReturnCode ==
    ASSUME CodeOK, report = <<>>, nest[current] # <<>>, Top.stage = "body",
           NEW rax \in Rax, Top.address = "syscall_int" => rax = Result,
           ReturnFrom(rax)
    PROVE  CodeOK' /\ ReportExact'
<1>1. nest' = Stage(nest, current, "exit") /\ UNCHANGED <<tables, boot, current, stack, wild, report>>
      /\ cpu' = [cpu EXCEPT !.rax = rax]
  BY DEF ReturnFrom
<1>2. /\ StacksOK' /\ EntriesOK'
      /\ \A t \in Threads : t # current => nest'[t] = nest[t]
      /\ Len(nest'[current]) = Len(nest[current]) /\ Len(nest[current]) > 0
      /\ Len(nest[current]) \in Nat
      /\ nest'[current][Len(nest[current])].address = Top.address
  BY <1>1, ExitEntry
<1>3. CpuOK'
  <2>1. /\ current \in Threads
        /\ cpu \in [if : BOOLEAN, mode : {"user", "kernel"}, regs : Threads \X Nat, rax : Rax]
        /\ cpu.mode = ModeAt(current, Len(nest[current]))
        /\ cpu.regs = Own(current, Len(nest[current]))
    BY DEF CodeOK, CpuOK
  <2>2. /\ cpu' \in [if : BOOLEAN, mode : {"user", "kernel"}, regs : Threads \X Nat, rax : Rax]
        /\ cpu'.mode = cpu.mode /\ cpu'.regs = cpu.regs /\ cpu'.rax = rax
    BY <1>1, <2>1
  <2> QED
    BY <1>1, <1>2, <2>1, <2>2 DEF CpuOK, ModeAt, Mode, Own
<1>4. IdleOK'
  <2>1. CASE boot = "run"
    BY <1>1, <2>1 DEF IdleOK
  <2>2. CASE boot # "run"
    BY <1>1, <1>2, <2>2, IrqAssumption DEF CodeOK, IdleOK, Threads
  <2> QED
    BY <2>1, <2>2
<1>5. wild' = FALSE /\ ReportExact'
  BY <1>1 DEF CodeOK, ReportExact
<1> QED
  BY <1>2, <1>3, <1>4, <1>5 DEF CodeOK

\* preempt_int().
LEMMA SwitchCode ==
    ASSUME CodeOK, report = <<>>, nest[current] # <<>>, Top.stage = "body", boot = "run",
           NEW t \in Threads, Switch(t)
    PROVE  CodeOK' /\ ReportExact'
<1>1. /\ nest' = Stage(nest, current, "exit") /\ UNCHANGED <<tables, boot, stack, wild, report>>
      /\ t # current /\ nest[t] # <<>> /\ current' = t
      /\ cpu' = [if |-> FALSE, mode |-> "kernel", regs |-> Own(t, Len(nest[t])),
                 rax |-> IF Last(nest[t]).address = "syscall_int" THEN Result ELSE Junk]
  BY DEF Switch
<1>2. StacksOK' /\ EntriesOK' /\ \A u \in Threads : u # current => nest'[u] = nest[u]
  BY <1>1, ExitEntry
<1>3. nest'[t] = nest[t]
  BY <1>1, <1>2
<1>4. CpuOK'
  <2>1. Len(nest[t]) \in Nat /\ Len(nest[t]) > 0 /\ Last(nest[t]) = nest[t][Len(nest[t])]
    BY <1>1, TopEntry DEF CodeOK
  <2>2. Own(t, Len(nest[t])) \in Threads \X Nat
    BY <2>1 DEF Own
  <2>3. cpu' \in [if : BOOLEAN, mode : {"user", "kernel"}, regs : Threads \X Nat, rax : Rax]
    BY <1>1, <2>2 DEF Rax
  <2>4. /\ cpu'.mode = ModeAt(t, Len(nest[t])) /\ cpu'.regs = Own(t, Len(nest[t]))
        /\ nest[t][Len(nest[t])].address = "syscall_int" => cpu'.rax = Result
    BY <1>1, <2>1 DEF ModeAt
  <2> QED
    BY <1>1, <1>3, <2>1, <2>3, <2>4 DEF CpuOK, ModeAt, Mode, Own
<1>5. IdleOK' /\ wild' = FALSE /\ ReportExact'
  BY <1>1 DEF CodeOK, IdleOK, ReportExact
<1> QED
  BY <1>2, <1>4, <1>5 DEF CodeOK

\* generic_exception_handler() finds the error code and the frame.
LEMMA GenericCode ==
    ASSUME TablesOK, CodeOK, report = <<>>, nest[current] # <<>>, Top.stage = "body",
           Top.address \in {"generic", "page_fault"}, Generic
    PROVE  CodeOK' /\ ReportExact'
<1> DEFINE n == nest[current]
           w == stack[current]
<1>1. StacksOK /\ EntriesOK /\ CpuOK /\ IdleOK /\ wild = FALSE /\ current \in Threads
  BY DEF CodeOK, CpuOK
<1>2. /\ Top = n[Len(n)] /\ Top \in Entry /\ EntryOK(Top, current, Len(n), Len(n))
      /\ Stacked(w, n, current)
  BY <1>1, TopEntry DEF Top, StacksOK
<1>3. Top # Fresh
  BY DEF Fresh
<1>4. /\ boot \in Live /\ Top.v \in Arriving /\ Top.address = Servant(Top.v)
      /\ Top.error = (Top.v \in ErrorVectors)
      /\ Top.v \in {PIC1_OFFSET, SYSCALL_INT} => boot = "run"
  BY <1>2, <1>3 DEF EntryOK
<1>5. Top.v \in Exceptions
  <2>1. Top.v \in Exceptions \cup {PIC1_OFFSET, SYSCALL_INT}
    BY <1>4, TableFacts
  <2>2. Top.v \notin {PIC1_OFFSET, SYSCALL_INT}
    BY <1>4 DEF Servant, PIC1_OFFSET, SYSCALL_INT, SPURIOUS, PAGE_FAULT, Calls
  <2> QED
    BY <2>1, <2>2
<1>6. "ERRORCODE" \in handler[Top.v].flags <=> Top.error
  BY <1>4, TableFacts
<1> DEFINE at == FrameAt(w, n)
<1>7. /\ at > 0 /\ w[at].kind = "iret" /\ (Top.error => w[Len(w) - 2].kind = "error")
      /\ at = Len(w) - IF Top.error THEN 3 ELSE 2
  BY <1>1, <1>2, TopWords DEF FrameAt
<1> HIDE DEF n, w, at
<1>8. report' = <<IF Top.error THEN "error" ELSE None, "iret">>
      /\ UNCHANGED <<tables, pic, boot, code>>
  BY <1>6, <1>7 DEF Generic, w
<1>9. CodeOK'
  <2>1. StacksOK' /\ EntriesOK' /\ CpuOK' /\ IdleOK' /\ wild' = FALSE
    BY <1>1, <1>8 DEF StacksOK, EntriesOK, EntryOK, Servant, CpuOK, IdleOK, code
  <2> QED
    BY <2>1 DEF CodeOK
<1>10. ReportExact'
  BY <1>5, <1>8 DEF ReportExact, Top, code
<1> QED
  BY <1>9, <1>10
-----------------------------------------------------------------------------
(* The steps *)

\* Before boot nothing is on the stacks.
LEMMA NothingStacked ==
    \A t : Stacked(<<>>, <<>>, t)
<1>1. {j \in 1 .. 1 - 1 : <<>>[j].error} = {}
  BY SMT
<1>2. Below(<<>>, 1) = 0
  BY <1>1, FS_EmptySet DEF Below
<1>3. <<>> \in Seq(Words) /\ <<>> \in Seq(Entry) /\ Len(<<>>) = 0
  BY EmptySeq
<1> QED
  BY <1>2, <1>3 DEF Stacked

LEMMA InitOK == Init => IInv
<1> SUFFICES ASSUME Init PROVE IInv
  OBVIOUS
<1>1. TablesOK
  BY DEF Init, TablesOK, Live, Addresses, Flags
<1>2. PicOK
  BY DEF Init, PicOK, Live
<1>3. StacksOK
  <2>1. <<>> \in Seq(Words) /\ <<>> \in Seq(Entry) /\ Len(<<>>) = 0
    BY EmptySeq
  <2>2. 0 <= MaxDepth
    BY IrqAssumption
  <2>3. \A t \in Threads : stack[t] = <<>> /\ nest[t] = <<>>
    BY DEF Init
  <2>4. stack \in [Threads -> Seq(Words)] /\ nest \in [Threads -> Seq(Entry)]
    BY <2>1 DEF Init
  <2> QED
    BY <2>1, <2>2, <2>3, <2>4, NothingStacked DEF StacksOK
<1>4. EntriesOK
  <2>1. \A t \in Threads : nest[t] = <<>> /\ Len(nest[t]) = 0
    BY DEF Init
  <2> QED
    BY <2>1 DEF EntriesOK
<1>5. CpuOK
  <2>1. Main \in Threads /\ nest[Main] = <<>> /\ Len(nest[Main]) = 0 /\ Own(Main, 0) \in Threads \X Nat
    BY DEF Init, Threads, Own
  <2>2. ModeAt(Main, 0) = "kernel"
    BY IrqAssumption DEF ModeAt, Mode
  <2> QED
    BY <2>1, <2>2 DEF Init, CpuOK, Rax
<1>6. IdleOK /\ wild = FALSE /\ ReportExact
  BY DEF Init, IdleOK, ReportExact, Threads
<1> QED
  BY <1>1, <1>2, <1>3, <1>4, <1>5, <1>6 DEF IInv, CodeOK

\* initialize_tasks() puts a new thread on every stack but that of the main one.
LEMMA TasksCode ==
    ASSUME IInv, initialize_tasks
    PROVE  CodeOK' /\ ReportExact'
<1>1. /\ boot = "paging" /\ boot' = "tasks" /\ report = <<>> /\ report' = <<>>
      /\ current = Main /\ nest[Main] = <<>>
      /\ UNCHANGED <<tables, pic, current, cpu, wild>>
      /\ stack' = [t \in Threads |->
                    IF t = Main THEN stack[t]
                    ELSE <<Frame(TRUE, Mode(t)), VectorWord(0), Regs(Own(t, 0), Own(t, 0))>>]
      /\ nest' = [t \in Threads |-> IF t = Main THEN <<>> ELSE <<Fresh>>]
  BY DEF initialize_tasks, BootStep
<1>2. Main \in Threads /\ StacksOK /\ CpuOK /\ IdleOK /\ wild = FALSE
  BY DEF Threads, IInv, CodeOK
<1>3. Fresh \in Entry /\ Fresh.error = FALSE /\ <<Fresh>> \in Seq(Entry) /\ Len(<<Fresh>>) = 1
  BY DEF Fresh, Entry, Vectors, Addresses
<1>4. nest'[Main] = <<>> /\ stack'[Main] = stack[Main]
  BY <1>1, <1>2
<1>5. ASSUME NEW t \in Threads, t # Main
      PROVE  /\ nest'[t] = <<Fresh>> /\ Stacked(stack'[t], nest'[t], t)
  <2> DEFINE F == Frame(TRUE, Mode(t))
             V == VectorWord(0)
             R == Regs(Own(t, 0), Own(t, 0))
  <2>1. /\ Stacked(<<>>, <<>>, t) /\ Len(<<>>) = 0 /\ Mode(t) = ModeAt(t, 0)
        /\ Own(t, 0) \in Rax /\ 0 \in Vectors
    BY NothingStacked DEF ModeAt, Rax, Own, Vectors
  <2>2. Stacked(<<>> \o (<<Frame(TRUE, ModeAt(t, Len(<<>>)))>> \o (IF Fresh.error THEN <<ErrorWord>> ELSE <<>>)
                            \o <<V, Regs(Own(t, Len(<<>>)), Own(t, 0))>>),
                Append(<<>>, Fresh), t)
    BY <1>3, <2>1, Push
  <2>3. <<Frame(TRUE, ModeAt(t, Len(<<>>)))>> = <<F>> /\ <<V, Regs(Own(t, Len(<<>>)), Own(t, 0))>> = <<V, R>>
    BY <2>1
  <2> HIDE DEF F, V, R
  <2>4. Stacked(<<>> \o (<<F>> \o <<>> \o <<V, R>>), Append(<<>>, Fresh), t)
    BY <1>3, <2>2, <2>3
  <2>5. <<>> \o (<<F>> \o <<>> \o <<V, R>>) = <<F, V, R>> /\ Append(<<>>, Fresh) = <<Fresh>>
    <3>1. <<F>> \in Seq({F, V, R}) /\ <<V, R>> \in Seq({F, V, R}) /\ <<F, V, R>> \in Seq({F, V, R})
      OBVIOUS
    <3>2. <<F>> \o <<>> = <<F>> /\ <<>> \o <<F, V, R>> = <<F, V, R>>
      BY <3>1, ConcatEmptySeq
    <3>3. <<F>> \o <<V, R>> = <<F, V, R>>
      <4> DEFINE S == {F, V, R}
                 z == <<F>> \o <<V, R>>
      <4>1. /\ Len(<<F>>) = 1 /\ Len(<<V, R>>) = 2 /\ Len(<<F, V, R>>) = 3
            /\ <<F>>[1] = F /\ <<V, R>>[1] = V /\ <<V, R>>[2] = R
            /\ <<F, V, R>>[1] = F /\ <<F, V, R>>[2] = V /\ <<F, V, R>>[3] = R
        OBVIOUS
      <4>2. /\ z \in Seq(S) /\ Len(z) = Len(<<F>>) + Len(<<V, R>>)
            /\ \A i \in 1 .. Len(<<F>>) + Len(<<V, R>>) :
                  z[i] = IF i <= Len(<<F>>) THEN <<F>>[i] ELSE <<V, R>>[i - Len(<<F>>)]
        BY <3>1, ConcatProperties
      <4> HIDE DEF z
      <4>3. Len(z) = 3 /\ z[1] = F /\ z[2] = V /\ z[3] = R
        BY <4>1, <4>2
      <4>4. \A i \in 1 .. Len(z) : z[i] = <<F, V, R>>[i]
        BY <4>1, <4>3
      <4>5. z = <<F, V, R>>
        BY <3>1, <4>1, <4>2, <4>3, <4>4, SeqEqual
      <4> QED
        BY <4>5 DEF z
    <3>4. Append(<<>>, Fresh) = <<Fresh>>
      OBVIOUS
    <3> QED
      BY <3>2, <3>3, <3>4
  <2>6. nest'[t] = <<Fresh>> /\ stack'[t] = <<F, V, R>>
    BY <1>1, <1>5 DEF F, V, R
  <2> QED
    BY <2>4, <2>5, <2>6
<1>6. StacksOK'
  <2>1. ASSUME NEW t \in Threads
        PROVE  Stacked(stack'[t], nest'[t], t) /\ Len(nest'[t]) <= MaxDepth
    <3>1. CASE t = Main
      BY <1>1, <1>2, <1>4, <3>1, IrqAssumption, EmptySeq DEF StacksOK
    <3>2. CASE t # Main
      <4>1. nest'[t] = <<Fresh>> /\ Stacked(stack'[t], nest'[t], t)
        BY <1>5, <3>2
      <4>2. Len(nest'[t]) = 1 /\ 1 <= MaxDepth
        BY <1>3, <4>1, IrqAssumption
      <4> QED
        BY <4>1, <4>2
    <3> QED
      BY <3>1, <3>2
  <2>2. \A t \in Threads : stack'[t] \in Seq(Words) /\ nest'[t] \in Seq(Entry)
    BY <2>1 DEF Stacked
  <2>3. stack' \in [Threads -> Seq(Words)] /\ nest' \in [Threads -> Seq(Entry)]
    BY <1>1, <2>2
  <2> QED
    BY <2>1, <2>3 DEF StacksOK, Stacked, Pushed, Saved
<1>7. EntriesOK'
  <2>1. SUFFICES ASSUME NEW t \in Threads, NEW i \in 1 .. Len(nest'[t])
                 PROVE  EntryOK(nest[t][i], t, i, Len(nest[t]))'
    BY DEF EntriesOK
  <2>2. t # Main
    BY <1>4
  <2>3. nest'[t] = <<Fresh>> /\ Len(nest'[t]) = 1 /\ i = 1
    <3>1. nest'[t] = <<Fresh>>
      BY <1>5, <2>2
    <3>2. Len(nest'[t]) = 1
      BY <1>3, <3>1
    <3> QED
      BY <3>1, <3>2
  <2>4. nest'[t][i] = Fresh
    BY <2>3
  <2> QED
    BY <2>2, <2>3, <2>4 DEF EntryOK, Fresh
<1>8. CpuOK'
  BY <1>1, <1>2, <1>4 DEF CpuOK, ModeAt, Mode, Own
<1>9. IdleOK'
  BY <1>1, <1>5, IrqAssumption DEF IdleOK, Threads
<1>10. wild' = FALSE /\ ReportExact'
  BY <1>1, <1>2 DEF ReportExact
<1> QED
  BY <1>6, <1>7, <1>8, <1>9, <1>10 DEF CodeOK

\* What the tables become.
LEMMA TablesSet ==
    ASSUME TablesOK, boot \in Live, boot' \in Live, NEW vs \in SUBSET Vectors,
           NEW address \in Addresses, NEW flags \in SUBSET Flags,
           set_irq_handler(vs, address, flags), 15 \notin vs,
           \A v \in vs : Servant(v)' = address /\ FlagsOf(v)' = flags,
           \A v \in Vectors \ vs : Servant(v)' = Servant(v) /\ FlagsOf(v)' = FlagsOf(v),
           "USER" \in flags => vs = {SYSCALL_INT} /\ boot' \in Calls,
           boot \in Calls => boot' \in Calls
    PROVE  TablesOK'
<1>1. /\ handler' = [v \in Vectors |-> IF v \in vs THEN [address |-> address, flags |-> flags]
                                                  ELSE handler[v]]
      /\ gate' = [v \in Vectors |-> IF v \in vs THEN [present |-> TRUE, dpl |-> Privilege(flags)]
                                               ELSE gate[v]]
      /\ Privilege(flags) \in {0, 3} /\ (Privilege(flags) = 3 => "USER" \in flags)
  BY DEF set_irq_handler, Privilege
<1>2. handler' \in [Vectors -> [address : Addresses, flags : SUBSET Flags]]
  BY <1>1 DEF TablesOK
<1>3. gate' \in [Vectors -> [present : BOOLEAN, dpl : {0, 3}]]
  BY <1>1 DEF TablesOK
<1>4. \A v \in Vectors \ {15} : /\ handler'[v].address = Servant(v)'
                                /\ handler'[v].flags = FlagsOf(v)'
                                /\ gate'[v].present
  BY <1>1 DEF TablesOK
<1>5. \A v \in Vectors : gate'[v].dpl = 3 => v = SYSCALL_INT /\ boot' \in Calls
  BY <1>1 DEF TablesOK
<1> QED
  BY <1>2, <1>3, <1>4, <1>5 DEF TablesOK, Servant, FlagsOf

\* The steps of initialize().
LEMMA BootOK ==
    ASSUME IInv, Boot
    PROVE  IInv'
<1>1. TablesOK /\ PicOK /\ CodeOK /\ ReportExact
  BY DEF IInv
<1>2. boot # "run" /\ nest[Main] = <<>>
  BY DEF Boot, initialize_pic, create_idt, set_handlers, enable_irq, initialize_virtual_memory,
         initialize_tasks, initialize_syscalls, pit_initialize, BootStep
<1>3. SYSCALL_INT \in Vectors /\ PAGE_FAULT \in Vectors /\ PIC1_OFFSET \in Vectors
      /\ SYSCALL_INT # 15 /\ PAGE_FAULT # 15 /\ PIC1_OFFSET # 15
  BY DEF SYSCALL_INT, PAGE_FAULT, PIC1_OFFSET, Vectors
<1>4. CASE initialize_pic
  <2>1. boot = "reset" /\ boot' = "pic" /\ UNCHANGED <<tables, code, report>>
        /\ mask' = <<Lines, Lines>> /\ irr' = {} /\ isr' = {}
    BY <1>4 DEF initialize_pic, BootStep
  <2>2. TablesOK'
    BY <1>1, <2>1 DEF TablesOK, Live, Calls, tables
  <2>3. PicOK'
    BY <2>1 DEF PicOK, Live
  <2> QED
    BY <1>1, <1>2, <2>1, <2>2, <2>3, BootCode DEF IInv
<1>5. CASE create_idt
  <2>1. boot = "pic" /\ boot' = "idt" /\ UNCHANGED <<handler, pic, code, report>>
        /\ gate' = [v \in Vectors |-> [present |-> FALSE, dpl |-> 0]]
    BY <1>5 DEF create_idt, BootStep
  <2>2. TablesOK'
    BY <1>1, <2>1 DEF TablesOK, Live
  <2>3. PicOK'
    BY <1>1, <2>1 DEF PicOK, Live, pic
  <2> QED
    BY <1>1, <1>2, <2>1, <2>2, <2>3, BootCode DEF IInv
<1>6. CASE set_handlers
  <2> DEFINE flags(v) == IF v \in ErrorVectors THEN {"ERRORCODE"} ELSE {}
             served(v) == CASE v = 15       -> handler[v]
                            [] v = SPURIOUS -> [address |-> "spurious", flags |-> {}]
                            [] OTHER        -> [address |-> "generic", flags |-> flags(v)]
  <2>1. boot = "idt" /\ boot' = "handlers" /\ UNCHANGED <<pic, code, report>>
        /\ handler' = [v \in Vectors |-> served(v)]
        /\ gate' = [v \in Vectors |-> IF v = 15 THEN gate[v]
                                      ELSE [present |-> TRUE, dpl |-> Privilege(flags(v))]]
    BY <1>6 DEF set_handlers, BootStep
  <2>2. \A v \in Vectors : Privilege(flags(v)) = 0 /\ flags(v) \in SUBSET Flags
    BY DEF Privilege, Flags
  <2>3. TablesOK'
    <3>1. gate' \in [Vectors -> [present : BOOLEAN, dpl : {0, 3}]]
          /\ \A v \in Vectors : gate'[v].dpl # 3 /\ (v # 15 => gate'[v].present)
      BY <1>1, <2>1, <2>2 DEF TablesOK, Calls
    <3>2. \A v \in Vectors : served(v) \in [address : Addresses, flags : SUBSET Flags]
      BY <1>1, <2>2 DEF TablesOK, Addresses
    <3>3. \A v \in Vectors \ {15} : served(v).address = Servant(v)' /\ served(v).flags = FlagsOf(v)'
      BY <2>1 DEF Servant, FlagsOf, SPURIOUS, Paging, Calls, ErrorVectors
    <3> HIDE DEF served
    <3>4. handler' \in [Vectors -> [address : Addresses, flags : SUBSET Flags]]
          /\ \A v \in Vectors : handler'[v] = served(v)
      BY <2>1, <3>2
    <3> QED
      BY <2>1, <3>1, <3>3, <3>4 DEF TablesOK, Live, Servant, FlagsOf
  <2>4. PicOK'
    BY <1>1, <2>1 DEF PicOK, Live, pic
  <2> QED
    BY <1>1, <1>2, <2>1, <2>3, <2>4, BootCode DEF IInv
<1>7. CASE enable_irq
  <2>1. boot = "handlers" /\ boot' = "enabled" /\ current = Main /\ cpu' = [cpu EXCEPT !.if = TRUE]
        /\ UNCHANGED <<tables, pic, current, stack, nest, wild, report>> /\ report = <<>>
    BY <1>7 DEF enable_irq, BootStep, pic
  <2>2. TablesOK'
    BY <1>1, <2>1 DEF TablesOK, Live, Calls, Servant, FlagsOf, Paging, tables
  <2>3. PicOK'
    BY <1>1, <2>1 DEF PicOK, Live, pic
  <2>4. StacksOK' /\ wild' = FALSE /\ ReportExact'
    BY <1>1, <2>1 DEF CodeOK, StacksOK, ReportExact
  <2>5. EntriesOK'
    <3>1. SUFFICES ASSUME NEW t \in Threads, NEW i \in 1 .. Len(nest[t])
                   PROVE  EntryOK(nest[t][i], t, i, Len(nest[t]))'
      BY <2>1 DEF EntriesOK
    <3>2. nest[t][i] = Fresh /\ i = 1 /\ Len(nest[t]) = 1 /\ t # Main
      BY <1>1, <1>2, AllFresh
    <3> QED
      BY <2>1, <3>2 DEF EntryOK, Fresh
  <2>6. CpuOK' /\ IdleOK'
    <3>1. CpuOK /\ IdleOK
      BY <1>1 DEF CodeOK
    <3>2. /\ cpu' \in [if : BOOLEAN, mode : {"user", "kernel"}, regs : Threads \X Nat, rax : Rax]
          /\ cpu'.mode = cpu.mode /\ cpu'.regs = cpu.regs /\ cpu'.rax = cpu.rax
      BY <2>1, <3>1 DEF CpuOK
    <3> QED
      BY <2>1, <3>1, <3>2 DEF CpuOK, IdleOK, ModeAt, Mode, Own
  <2> QED
    BY <2>2, <2>3, <2>4, <2>5, <2>6 DEF IInv, CodeOK
<1>8. CASE initialize_virtual_memory
  <2>1. boot = "enabled" /\ boot' = "paging" /\ UNCHANGED <<pic, code, report>>
        /\ set_irq_handler({PAGE_FAULT}, "page_fault", {"ERRORCODE"})
    BY <1>8 DEF initialize_virtual_memory, BootStep
  <2>2. TablesOK'
    <3>1. /\ boot \in Live /\ boot' \in Live /\ boot \notin Calls
          /\ "page_fault" \in Addresses /\ {"ERRORCODE"} \in SUBSET Flags /\ "USER" \notin {"ERRORCODE"}
      BY <2>1 DEF Live, Calls, Addresses, Flags
    <3>2. \A v \in {PAGE_FAULT} : Servant(v)' = "page_fault" /\ FlagsOf(v)' = {"ERRORCODE"}
      BY <2>1 DEF Servant, FlagsOf, PAGE_FAULT, SPURIOUS, ErrorVectors, Paging
    <3>3. \A v \in Vectors \ {PAGE_FAULT} : Servant(v)' = Servant(v) /\ FlagsOf(v)' = FlagsOf(v)
      BY <2>1 DEF Servant, FlagsOf, Calls, Paging
    <3> QED
      BY <1>1, <1>3, <2>1, <3>1, <3>2, <3>3, TablesSet
  <2>3. PicOK'
    BY <1>1, <2>1 DEF PicOK, Live, pic
  <2> QED
    BY <1>1, <1>2, <2>1, <2>2, <2>3, BootCode DEF IInv
<1>9. CASE initialize_tasks
  <2>1. boot = "paging" /\ boot' = "tasks" /\ UNCHANGED <<tables, pic>>
    BY <1>9 DEF initialize_tasks, BootStep
  <2>2. TablesOK'
    BY <1>1, <2>1 DEF TablesOK, Live, Calls, Servant, FlagsOf, Paging, tables
  <2>3. PicOK'
    BY <1>1, <2>1 DEF PicOK, Live, pic
  <2> QED
    BY <1>9, <2>2, <2>3, TasksCode DEF IInv
<1>10. CASE initialize_syscalls
  <2>1. boot = "tasks" /\ boot' = "syscalls" /\ UNCHANGED <<pic, code, report>>
        /\ set_irq_handler({SYSCALL_INT}, "syscall_int", {"RETVAL", "USER"})
    BY <1>10 DEF initialize_syscalls, BootStep
  <2>2. TablesOK'
    <3>1. /\ boot \in Live /\ boot' \in Live /\ boot' \in Calls
          /\ "syscall_int" \in Addresses /\ {"RETVAL", "USER"} \in SUBSET Flags
      BY <2>1 DEF Live, Calls, Addresses, Flags
    <3>2. \A v \in {SYSCALL_INT} : Servant(v)' = "syscall_int" /\ FlagsOf(v)' = {"RETVAL", "USER"}
      BY <2>1 DEF Servant, FlagsOf, SYSCALL_INT, PAGE_FAULT, SPURIOUS, ErrorVectors, Calls
    <3>3. \A v \in Vectors \ {SYSCALL_INT} : Servant(v)' = Servant(v) /\ FlagsOf(v)' = FlagsOf(v)
      BY <2>1 DEF Servant, FlagsOf, Calls, Paging
    <3> QED
      BY <1>1, <1>3, <2>1, <3>1, <3>2, <3>3, TablesSet
  <2>3. PicOK'
    BY <1>1, <2>1 DEF PicOK, Live, pic
  <2> QED
    BY <1>1, <1>2, <2>1, <2>2, <2>3, BootCode DEF IInv
<1>11. CASE pit_initialize /\ boot = "syscalls"
  <2>1. boot' = "timer" /\ UNCHANGED <<pic, code, report>>
        /\ set_irq_handler({PIC1_OFFSET}, "pit", {})
    BY <1>11 DEF pit_initialize, BootStep
  <2>2. TablesOK'
    <3>1. /\ boot \in Live /\ boot' \in Live /\ boot' \in Calls
          /\ "pit" \in Addresses /\ {} \in SUBSET Flags
      BY <1>11, <2>1 DEF Live, Calls, Addresses, Flags
    <3>2. \A v \in {PIC1_OFFSET} : Servant(v)' = "pit" /\ FlagsOf(v)' = {}
      BY <2>1 DEF Servant, FlagsOf, PIC1_OFFSET, SYSCALL_INT, PAGE_FAULT, SPURIOUS, ErrorVectors
    <3>3. \A v \in Vectors \ {PIC1_OFFSET} : Servant(v)' = Servant(v) /\ FlagsOf(v)' = FlagsOf(v)
      BY <1>11, <2>1 DEF Servant, FlagsOf, Calls, Paging
    <3> QED
      BY <1>1, <1>3, <2>1, <3>1, <3>2, <3>3, TablesSet
  <2>3. PicOK'
    BY <1>1, <1>11, <2>1 DEF PicOK, Live, pic
  <2> QED
    BY <1>1, <1>2, <2>1, <2>2, <2>3, BootCode DEF IInv
<1>12. CASE pit_initialize /\ boot # "syscalls"
  <2>1. boot = "timer" /\ boot' = "run" /\ UNCHANGED <<tables, irr, isr, code, report>>
        /\ mask' = [mask EXCEPT ![1] = SymDiff(@, {0})]
    BY <1>12 DEF pit_initialize, BootStep, pic_flip_irq
  <2>2. TablesOK'
    BY <1>1, <2>1 DEF TablesOK, Live, Calls, Servant, FlagsOf, Paging, tables
  <2>3. PicOK'
    <3>1. mask \in [1 .. 2 -> SUBSET Lines] /\ mask[1] = Lines /\ 0 \in Lines
      BY <1>1, <2>1 DEF PicOK, Live, Lines
    <3>2. SymDiff(mask[1], {0}) = Lines \ {0}
      BY <3>1 DEF SymDiff
    <3>3. mask' \in [1 .. 2 -> SUBSET Lines] /\ mask'[1] = Lines \ {0}
      BY <2>1, <3>1, <3>2
    <3> QED
      BY <1>1, <2>1, <3>3 DEF PicOK, Live
  <2> QED
    BY <1>1, <1>2, <2>1, <2>2, <2>3, BootCode DEF IInv
<1> QED
  BY <1>4, <1>5, <1>6, <1>7, <1>8, <1>9, <1>10, <1>11, <1>12 DEF Boot

\* Steps other than those of boot leave the tables alone.
LEMMA TablesKept ==
    ASSUME TablesOK, UNCHANGED <<tables, boot>>
    PROVE  TablesOK'
BY DEF TablesOK, Servant, FlagsOf, tables

\* Interrupts and exceptions.
LEMMA ExceptionOK ==
    ASSUME IInv, NEW v \in Raisable, Exception(v)
    PROVE  IInv'
<1>1. Enter(v, v \in HasErrorCode) /\ UNCHANGED pic
  BY DEF Exception
<1>2. v \in Arriving /\ v \notin {PIC1_OFFSET, SYSCALL_INT}
      /\ (v \in HasErrorCode) = (v \in ErrorVectors)
  BY IrqAssumption DEF Arriving, Exceptions, HasErrorCode, ErrorVectors, PIC1_OFFSET, SYSCALL_INT
<1>3. Enter(v, v \in ErrorVectors)
  BY <1>1, <1>2
<1>4. CodeOK' /\ ReportExact'
  BY <1>2, <1>3, EnterCode DEF IInv
<1>5. TablesOK' /\ PicOK'
  BY <1>1, TablesKept DEF Enter, IInv, PicOK, pic
<1> QED
  BY <1>4, <1>5 DEF IInv

LEMMA SoftwareIntOK ==
    ASSUME IInv, NEW n \in Software, SoftwareInt(n)
    PROVE  IInv'
<1>1. cpu.mode = "user" /\ UNCHANGED pic /\ n \in Vectors
      /\ IF gate[n].dpl = 3 THEN Enter(n, FALSE) ELSE Enter(13, TRUE)
  BY IrqAssumption DEF SoftwareInt
<1>2. boot = "run"
  BY <1>1, IrqAssumption DEF IInv, CodeOK, IdleOK, CpuOK, ModeAt, Mode
<1>3. \E v \in Arriving : Enter(v, v \in ErrorVectors)
  <2>1. CASE gate[n].dpl = 3
    <3>1. n = SYSCALL_INT
      BY <1>1, <2>1 DEF IInv, TablesOK
    <3>2. n \in Arriving /\ (n \in ErrorVectors) = FALSE
      BY <3>1 DEF Arriving, ErrorVectors, SYSCALL_INT
    <3> QED
      BY <1>1, <2>1, <3>2
  <2>2. CASE gate[n].dpl # 3
    <3>1. 13 \in Arriving /\ (13 \in ErrorVectors) = TRUE
      BY DEF Arriving, ErrorVectors, Exceptions
    <3> QED
      BY <1>1, <2>2, <3>1
  <2> QED
    BY <2>1, <2>2
<1>4. PICK v \in Arriving : Enter(v, v \in ErrorVectors)
  BY <1>3
<1>5. CodeOK' /\ ReportExact'
  BY <1>2, <1>4, EnterCode DEF IInv
<1>6. TablesOK' /\ PicOK'
  BY <1>1, <1>4, TablesKept DEF Enter, IInv, PicOK, pic
<1> QED
  BY <1>5, <1>6 DEF IInv

LEMMA DeliverOK ==
    ASSUME IInv, NEW line \in Lines, Deliver(line)
    PROVE  IInv'
<1>1. /\ line \in irr \ mask[1] /\ Enter(PIC1_OFFSET + line, FALSE)
      /\ irr' = irr \ {line} /\ isr' = isr \cup {line} /\ mask' = mask
  BY DEF Deliver
<1>2. boot = "run" /\ line = 0
  <2>1. boot \in Live
    BY <1>1 DEF Enter, Interruptible, IInv, TablesOK
  <2> QED
    BY <1>1, <2>1 DEF IInv, PicOK
<1>3. PIC1_OFFSET \in Arriving /\ (PIC1_OFFSET \in ErrorVectors) = FALSE /\ PIC1_OFFSET + line = PIC1_OFFSET
  BY <1>2 DEF Arriving, PIC1_OFFSET, ErrorVectors
<1>4. Enter(PIC1_OFFSET, PIC1_OFFSET \in ErrorVectors)
  BY <1>1, <1>3
<1>5. CodeOK' /\ ReportExact'
  BY <1>2, <1>3, <1>4, EnterCode DEF IInv
<1>6. TablesOK' /\ PicOK'
  BY <1>1, TablesKept DEF Enter, IInv, PicOK
<1> QED
  BY <1>5, <1>6 DEF IInv

LEMMA SpuriousOK ==
    ASSUME IInv, Spurious
    PROVE  IInv'
<1>1. Enter(SPURIOUS, FALSE) /\ UNCHANGED pic
  BY DEF Spurious
<1>2. /\ SPURIOUS \in Arriving /\ (SPURIOUS \in ErrorVectors) = FALSE
      /\ SPURIOUS \notin {PIC1_OFFSET, SYSCALL_INT}
  BY DEF Arriving, SPURIOUS, ErrorVectors, PIC1_OFFSET, SYSCALL_INT
<1>3. Enter(SPURIOUS, SPURIOUS \in ErrorVectors)
  BY <1>1, <1>2
<1>4. CodeOK' /\ ReportExact'
  BY <1>2, <1>3, EnterCode DEF IInv
<1>5. TablesOK' /\ PicOK'
  BY <1>1, TablesKept DEF Enter, IInv, PicOK, pic
<1> QED
  BY <1>4, <1>5 DEF IInv

\* The entry of the handler that runs.
LEMMA RunningEntry ==
    ASSUME IInv, NEW address, Running(address)
    PROVE  /\ report = <<>> /\ nest[current] # <<>> /\ Top.stage = "body" /\ Top.address = address
           /\ boot \in Live /\ Top.v \in Arriving /\ Top.address = Servant(Top.v)
           /\ Top.v \in {PIC1_OFFSET, SYSCALL_INT} => boot = "run"
<1>1. StacksOK /\ EntriesOK /\ current \in Threads
  BY DEF IInv, CodeOK, CpuOK
<1>2. report = <<>> /\ nest[current] # <<>> /\ Top.stage = "body" /\ Top.address = address
  BY DEF Running
<1>3. EntryOK(Top, current, Len(nest[current]), Len(nest[current])) /\ Top # Fresh
  BY <1>1, <1>2, TopEntry DEF Top, Fresh
<1> QED
  BY <1>2, <1>3 DEF EntryOK

\* The bodies of the handlers.
LEMMA BodyOK ==
    ASSUME IInv, Body
    PROVE  IInv'
<1>1. TablesOK /\ PicOK /\ CodeOK /\ ReportExact
  BY DEF IInv
<1>2. CASE generic_exception_handler
  <2>1. Running("generic") /\ Generic
    BY <1>2 DEF generic_exception_handler
  <2>2. CodeOK' /\ ReportExact'
    BY <1>1, <2>1, RunningEntry, GenericCode
  <2>3. TablesOK' /\ PicOK'
    BY <1>1, <2>1, TablesKept DEF Generic, PicOK, pic
  <2> QED
    BY <2>2, <2>3 DEF IInv
<1>3. CASE page_fault_handler
  <2>1. Running("page_fault") /\ ((ReturnFrom(Junk) /\ UNCHANGED pic) \/ Generic)
    BY <1>3 DEF page_fault_handler
  <2>2. CASE ReturnFrom(Junk) /\ UNCHANGED pic
    <3>1. Junk \in Rax
      BY DEF Rax
    <3>2. CodeOK' /\ ReportExact'
      BY <1>1, <2>1, <2>2, <3>1, RunningEntry, ReturnCode
    <3>3. TablesOK' /\ PicOK'
      BY <1>1, <2>2, TablesKept DEF ReturnFrom, PicOK, pic
    <3> QED
      BY <3>2, <3>3 DEF IInv
  <2>3. CASE Generic
    <3>1. CodeOK' /\ ReportExact'
      BY <1>1, <2>1, <2>3, RunningEntry, GenericCode
    <3>2. TablesOK' /\ PicOK'
      BY <1>1, <2>3, TablesKept DEF Generic, PicOK, pic
    <3> QED
      BY <3>1, <3>2 DEF IInv
  <2> QED
    BY <2>1, <2>2, <2>3
<1>4. CASE spurious_interrupt_handler
  <2>1. Running("spurious") /\ ReturnFrom(Junk) /\ UNCHANGED pic /\ Junk \in Rax
    BY <1>4 DEF spurious_interrupt_handler, Rax
  <2>2. CodeOK' /\ ReportExact'
    BY <1>1, <2>1, RunningEntry, ReturnCode
  <2>3. TablesOK' /\ PicOK'
    BY <1>1, <2>1, TablesKept DEF ReturnFrom, PicOK, pic
  <2> QED
    BY <2>2, <2>3 DEF IInv
<1>5. CASE pit_handler
  <2>1. Running("pit") /\ irq_eoi /\ UNCHANGED <<mask, irr>>
    BY <1>5 DEF pit_handler
  <2>2. PICK t \in Threads : Switch(t)
    BY <1>5 DEF pit_handler
  <2>3. boot = "run"
    BY <1>1, <2>1, RunningEntry, TableFacts
  <2>4. CodeOK' /\ ReportExact'
    BY <1>1, <2>1, <2>2, <2>3, RunningEntry, SwitchCode
  <2>5. UNCHANGED <<tables, boot>> /\ isr' \subseteq Lines
    BY <1>1, <2>1, <2>2 DEF Switch, irq_eoi, PicOK
  <2>6. TablesOK' /\ PicOK'
    BY <1>1, <2>1, <2>5, TablesKept DEF PicOK
  <2> QED
    BY <2>4, <2>6 DEF IInv
<1>6. CASE syscall_int_handler
  <2>1. Running("syscall_int") /\ UNCHANGED pic /\ (ReturnFrom(Result) \/ \E t \in Threads : Switch(t))
    BY <1>6 DEF syscall_int_handler
  <2>2. boot = "run"
    BY <1>1, <2>1, RunningEntry, TableFacts
  <2>3. CASE ReturnFrom(Result)
    <3>1. Result \in Rax
      BY DEF Rax
    <3>2. CodeOK' /\ ReportExact'
      BY <1>1, <2>1, <2>3, <3>1, RunningEntry, ReturnCode
    <3>3. TablesOK' /\ PicOK'
      BY <1>1, <2>1, <2>3, TablesKept DEF ReturnFrom, PicOK, pic
    <3> QED
      BY <3>2, <3>3 DEF IInv
  <2>4. ASSUME NEW t \in Threads, Switch(t)
        PROVE  IInv'
    <3>1. CodeOK' /\ ReportExact'
      BY <1>1, <2>1, <2>2, <2>4, RunningEntry, SwitchCode
    <3>2. TablesOK' /\ PicOK'
      BY <1>1, <2>1, <2>4, TablesKept DEF Switch, PicOK, pic
    <3> QED
      BY <3>1, <3>2 DEF IInv
  <2> QED
    BY <2>1, <2>3, <2>4
<1> QED
  BY <1>2, <1>3, <1>4, <1>5, <1>6 DEF Body

\* The exit code, and the start of a new thread.
LEMMA ReturnOK ==
    ASSUME IInv, Return
    PROVE  IInv'
<1> DEFINE n == nest[current]
           w == stack[current]
           k == Len(w)
<1>1. /\ TablesOK /\ PicOK /\ CodeOK /\ StacksOK /\ EntriesOK /\ CpuOK
      /\ current \in Threads /\ report = <<>> /\ n # <<>>
      /\ UNCHANGED <<tables, pic, boot, current, report>>
  BY DEF IInv, CodeOK, CpuOK, Return, Exit, leave_interrupt_handler, AtStage
<1>2. /\ Top = n[Len(n)] /\ Top = Last(n) /\ Top \in Entry /\ EntryOK(Top, current, Len(n), Len(n))
      /\ Stacked(w, n, current) /\ Len(n) > 0 /\ Len(n) \in Nat
  BY <1>1, TopEntry DEF Top, StacksOK
<1>3. /\ k \in Nat /\ k > 0 /\ w \in Seq(Words) /\ w[k] \in RegsWords
      /\ Len(n) = 1 => w[k].rax \in {Own(current, 0), Result}
  BY <1>1, <1>2, TopWords
<1>4. w[k].rax \in Rax
  BY <1>3 DEF RegsWords
<1>5. TablesOK' /\ PicOK'
  BY <1>1, TablesKept DEF PicOK, pic
<1>6. CodeOK' /\ ReportExact'
  <2>1. CASE leave_interrupt_handler
    <3>1. Top.stage = "leave" /\ Unwind(w, TRUE)
      BY <2>1 DEF leave_interrupt_handler, AtStage
    <3>2. Top.error = FALSE
      <4>1. Top = Fresh
        BY <1>2, <3>1 DEF EntryOK
      <4> QED
        BY <4>1 DEF Fresh
    <3>3. TRUE = ~Last(nest[current]).error
      BY <1>2, <3>2
    <3> QED
      BY <1>1, <1>3, <1>4, <3>1, <3>3, UnwindCode
  <2>2. CASE Exit
    <3> DEFINE flags == handler[Top.v].flags
               words == IF "RETVAL" \in flags THEN [w EXCEPT ![k].rax = cpu.rax] ELSE w
    <3>1. Top.stage = "exit" /\ Unwind(words, "ERRORCODE" \notin flags)
      BY <2>2 DEF Exit, AtStage
    <3>2. /\ boot \in Live /\ Top.v \in Arriving /\ Top.address = Servant(Top.v)
          /\ Top.error = (Top.v \in ErrorVectors)
      BY <1>2, <3>1 DEF EntryOK, Fresh
    <3>3. ("ERRORCODE" \notin flags) = ~Last(nest[current]).error
      <4>1. "ERRORCODE" \in flags <=> Top.v \in ErrorVectors
        BY <1>1, <3>2, TableFacts
      <4> QED
        BY <1>2, <3>2, <4>1
    <3>4. "RETVAL" \in flags => cpu.rax = Result
      <4>1. "RETVAL" \in flags => Top.address = "syscall_int"
        BY <1>1, <3>2, TableFacts
      <4> QED
        BY <1>1, <1>2, <3>1, <4>1 DEF CpuOK
    <3>5. /\ Len(words) = k /\ \A i \in 1 .. k - 1 : words[i] = w[i]
          /\ words[k].regs = w[k].regs /\ words[k].rax \in Rax
          /\ Len(n) = 1 => words[k].rax \in {Own(current, 0), Result}
      <4>1. CASE "RETVAL" \notin flags
        BY <1>3, <1>4, <4>1
      <4>2. CASE "RETVAL" \in flags
        <5> DEFINE r == [w[k] EXCEPT !.rax = cpu.rax]
        <5>1. r \in RegsWords /\ r.regs = w[k].regs /\ r.rax = Result
          BY <1>3, <3>4, <4>2 DEF RegsWords, Rax
        <5>2. RegsWords \subseteq Words
          BY DEF RegsWords, Words, Rax
        <5>3. words = [w EXCEPT ![k] = r]
          BY <1>3, <4>2
        <5> HIDE DEF r, words, k, w
        <5>4. /\ Len(words) = Len(w) /\ k \in 1 .. Len(w)
              /\ \A i \in 1 .. Len(w) : words[i] = IF i = k THEN r ELSE w[i]
          <6>1. k \in 1 .. Len(w) /\ r \in Words
            BY <1>3, <5>1, <5>2 DEF k
          <6> QED
            BY <1>3, <5>3, <6>1, ExceptSeq
        <5>5. words[k] = r /\ Len(words) = k /\ \A i \in 1 .. k - 1 : words[i] = w[i]
          BY <1>3, <5>4 DEF k
        <5>6. Result \in Rax
          BY DEF Rax
        <5> QED
          BY <5>1, <5>5, <5>6
      <4> QED
        BY <4>1, <4>2
    <3> HIDE DEF words, flags
    <3> QED
      BY <1>1, <3>1, <3>3, <3>5, UnwindCode
  <2> QED
    BY <2>1, <2>2 DEF Return
<1> QED
  BY <1>5, <1>6 DEF IInv

LEMMA NextOK == IInv /\ [Next]_vars => IInv'
<1> SUFFICES ASSUME IInv, [Next]_vars
             PROVE  IInv'
  OBVIOUS
<1>1. CASE Boot
  BY <1>1, BootOK
<1>2. CASE Body
  BY <1>2, BodyOK
<1>3. CASE Return
  BY <1>3, ReturnOK
<1>4. ASSUME NEW v \in Raisable, Exception(v)
      PROVE  IInv'
  BY <1>4, ExceptionOK
<1>5. ASSUME NEW n \in Software, SoftwareInt(n)
      PROVE  IInv'
  BY <1>5, SoftwareIntOK
<1>6. ASSUME NEW line \in {0, 1}, Request(line)
      PROVE  IInv'
  <2>1. irr' = irr \cup {line} /\ UNCHANGED <<tables, mask, isr, boot, code, report>>
    BY <1>6 DEF Request
  <2>2. PicOK'
    BY <2>1 DEF IInv, PicOK, Lines
  <2> QED
    BY <2>1, <2>2, TablesKept, CodeKept DEF IInv
<1>7. ASSUME NEW line \in Lines, Deliver(line)
      PROVE  IInv'
  BY <1>7, DeliverOK
<1>8. CASE Spurious
  BY <1>8, SpuriousOK
<1>9. CASE UNCHANGED vars
  <2>1. UNCHANGED <<tables, boot>> /\ UNCHANGED pic /\ UNCHANGED <<code, report, boot>>
    BY <1>9 DEF vars
  <2> QED
    BY <2>1, TablesKept, CodeKept DEF IInv, PicOK, pic
<1> QED
  BY <1>1, <1>2, <1>3, <1>4, <1>5, <1>6, <1>7, <1>8, <1>9 DEF Next

\* The inductive invariant: the tables as boot has left them, the words of each
\* entry on its stack, and the registers of the running code.
THEOREM Invariance == Spec => []IInv
<1> QED
  BY InitOK, NextOK, PTL DEF Spec
-----------------------------------------------------------------------------
(* The properties *)

\* The state keeps its types, and every word of a stack is one that the entry
\* code or initialize_tasks() pushed.
THEOREM TypeCorrect == Spec => []TypeOK
<1>1. IInv => TypeOK
  <2> SUFFICES ASSUME IInv PROVE TypeOK
    OBVIOUS
  <2>1. \A v \in Vectors : /\ handler[v].flags \subseteq {"ERRORCODE", "RETVAL", "USER"}
                           /\ gate[v] \in [present : BOOLEAN, dpl : {0, 3}]
    BY DEF IInv, TablesOK, Flags
  <2>2. mask \in Seq(SUBSET Lines) /\ irr \subseteq Lines /\ isr \subseteq Lines
    <3>1. mask \in [1 .. 2 -> SUBSET Lines] /\ irr \subseteq Lines /\ isr \subseteq Lines
      BY DEF IInv, PicOK
    <3>2. mask \in Seq(SUBSET Lines)
      BY <3>1, SeqDef, 2 \in Nat, Zenon
    <3> QED
      BY <3>1, <3>2
  <2>3. current \in Threads /\ cpu.if \in BOOLEAN /\ cpu.mode \in {"user", "kernel"}
    BY DEF IInv, CodeOK, CpuOK
  <2>4. \A t \in Threads : \A i \in DOMAIN stack[t] : stack[t][i] \in Words
    <3> TAKE t \in Threads
    <3>1. stack[t] \in Seq(Words)
      BY DEF IInv, CodeOK, StacksOK
    <3>2. DOMAIN stack[t] = 1 .. Len(stack[t])
      BY <3>1, LenProperties
    <3> QED
      BY <3>1, <3>2, ElementOfSeq
  <2>5. (\A t \in Threads : Len(nest[t]) <= MaxDepth) /\ wild \in BOOLEAN
    BY DEF IInv, CodeOK, StacksOK
  <2> QED
    BY <2>1, <2>2, <2>3, <2>4, <2>5 DEF TypeOK
<1> QED
  BY Invariance, <1>1, PTL

\* Through nested faults, new threads and switches the stack of every thread
\* holds exactly what its entries have pushed, and iretq finds its frame.
THEOREM StackCorrect == Spec => []StackExact
<1>1. IInv => StackExact
  <2> SUFFICES ASSUME IInv, NEW t \in Threads
               PROVE  /\ ~wild
                      /\ Len(stack[t]) = Below(nest[t], Depth(t) + 1)
                      /\ \A i \in DOMAIN nest[t] :
                            LET pushed == PushedBy(nest[t][i])
                            IN  \A k \in DOMAIN pushed :
                                   stack[t][Below(nest[t], i) + k].kind = pushed[k]
    BY DEF StackExact, IInv, CodeOK
  <2>1. ~wild /\ Stacked(stack[t], nest[t], t) /\ nest[t] \in Seq(Entry)
    BY DEF IInv, CodeOK, StacksOK
  <2>2. Len(stack[t]) = Below(nest[t], Depth(t) + 1)
    BY <2>1 DEF Stacked, Depth
  <2>3. ASSUME NEW i \in DOMAIN nest[t], NEW k \in DOMAIN PushedBy(nest[t][i])
        PROVE  stack[t][Below(nest[t], i) + k].kind = PushedBy(nest[t][i])[k]
    <3> DEFINE e == nest[t][i]
               b == Below(nest[t], i)
               p == PushedBy(e)
    <3>1. i \in 1 .. Len(nest[t])
      BY <2>1, LenProperties
    <3>2. Pushed(stack[t], b, e, t, i) /\ b \in Nat /\ e.error \in BOOLEAN
      BY <2>1, <3>1, BelowNext, ElementOfSeq, EntryFields DEF Stacked
    <3> HIDE DEF b, e
    <3>3. /\ p \in Seq({"iret", "error", "vector", "regs"})
          /\ Len(p) = IF e.error THEN 4 ELSE 3
          /\ p[1] = "iret" /\ (e.error => p[2] = "error")
          /\ p[IF e.error THEN 3 ELSE 2] = "vector" /\ p[IF e.error THEN 4 ELSE 3] = "regs"
      <4> DEFINE W == {"iret", "error", "vector", "regs"}
      <4>1. "iret" \in W /\ "error" \in W /\ "vector" \in W /\ "regs" \in W
        OBVIOUS
      <4> HIDE DEF W
      <4> QED
        BY <3>2, <4>1, EntryWords DEF PushedBy, W
    <3>4. CASE e.error
      <4>1. /\ p \in Seq({"iret", "error", "vector", "regs"}) /\ Len(p) = 4
            /\ p[1] = "iret" /\ p[2] = "error" /\ p[3] = "vector" /\ p[4] = "regs"
        BY <3>4, <3>3 DEF PushedBy
      <4>2. k \in 1 .. 4
        BY <4>1, LenProperties DEF e
      <4>3. Size(e) = 4 /\ b + 4 - 1 = b + 3
        BY <3>2, <3>4 DEF Size
      <4>4. /\ stack[t][b + 1].kind = "iret" /\ stack[t][b + 2].kind = "error"
            /\ stack[t][b + 3].kind = "vector" /\ stack[t][b + 4].kind = "regs"
        BY <3>2, <3>4, <4>3 DEF Pushed, Saved
      <4> HIDE DEF p
      <4>5. stack[t][b + k].kind = p[k]
        BY <4>1, <4>2, <4>4
      <4> QED
        BY <4>5 DEF p, b, e
    <3>5. CASE ~e.error
      <4>1. /\ p \in Seq({"iret", "error", "vector", "regs"}) /\ Len(p) = 3
            /\ p[1] = "iret" /\ p[2] = "vector" /\ p[3] = "regs"
        BY <3>5, <3>3 DEF PushedBy
      <4>2. k \in 1 .. 3
        BY <4>1, LenProperties DEF e
      <4>3. Size(e) = 3 /\ b + 3 - 1 = b + 2
        BY <3>2, <3>5 DEF Size
      <4>4. /\ stack[t][b + 1].kind = "iret"
            /\ stack[t][b + 2].kind = "vector" /\ stack[t][b + 3].kind = "regs"
        BY <3>2, <3>5, <4>3 DEF Pushed, Saved
      <4> HIDE DEF p
      <4>5. stack[t][b + k].kind = p[k]
        BY <4>1, <4>2, <4>4
      <4> QED
        BY <4>5 DEF p, b, e
    <3> QED
      BY <3>4, <3>5
  <2> QED
    BY <2>1, <2>2, <2>3
<1> QED
  BY Invariance, <1>1, PTL

\* Interrupted code finds its registers as they were; only a system call puts
\* something else in rax.
THEOREM RegistersCorrect == Spec => []RegistersExact
<1>1. IInv => RegistersExact
  BY DEF IInv, CodeOK, CpuOK, RegistersExact, Depth
<1> QED
  BY Invariance, <1>1, PTL

\* The report that halts the system is of an exception, and shows its error
\* code and its frame.
THEOREM ReportCorrect == Spec => []ReportExact
<1>1. IInv => ReportExact
  BY DEF IInv
<1> QED
  BY Invariance, <1>1, PTL
=============================================================================
