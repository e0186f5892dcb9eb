-------------------------- MODULE SchedulerProofs ---------------------------
(***************************************************************************)
(* Theorems about the scheduler for every heap: the list of tasks is one    *)
(* doubly linked ring, memory is neither shared nor lost, every task runs   *)
(* on its own stack, and the ring is the queue of RoundRobin.               *)
(***************************************************************************)
EXTENDS Scheduler, FiniteSetTheorems, SequenceTheorems, WellFoundedInduction, TLAPS

-----------------------------------------------------------------------------
(* Type correctness                                                        *)

LEMMA BlankType == Blank \in Registers
  BY SchedulerAssumption DEF Blank, Registers, Functions

\* The fields of every block have their types.
THEOREM TypeCorrect == Spec => []TypeOK
<1>1. Init => TypeOK
  BY BlankType DEF Init, TypeOK
<1>2. TypeOK /\ [Next]_vars => TypeOK'
  <2> SUFFICES ASSUME TypeOK, [Next]_vars PROVE TypeOK'
    OBVIOUS
  <2>1. CASE run
    BY <2>1 DEF run, TypeOK, Registers
  <2>2. CASE yield
    <3>1. Saved \in [Blocks -> Registers] /\ NextTask \in Blocks
      BY DEF Saved, NextTask, TypeOK
    <3> QED BY <3>1, <2>2 DEF yield, TypeOK
  <2>3. CASE return
    <3>1. next[cur] \in Blocks /\ prev[cur] \in Blocks
      BY DEF TypeOK
    <3>2. regs' \in [Blocks -> Registers] /\ cpu' \in Registers
      BY <2>3, <3>1, BlankType DEF return, TypeOK
    <3>3. heap' \in [Blocks -> {"free", "task", "stack"}]
      BY <2>3 DEF return, Freed, TypeOK
    <3> QED BY <2>3, <3>1, <3>2, <3>3 DEF return, NextAfterDelete, PrevAfterDelete, TypeOK
  <2>4. ASSUME NEW fn \in {"once", "loop"}, NEW stack \in Free, NEW task \in Free,
               coopSpawn(fn, stack, task)
        PROVE  TypeOK'
    <3>1. stack \in Blocks /\ task \in Blocks
      BY DEF Free
    <3>2. StartRegisters(fn, stack) \in Registers
      BY <3>1, SchedulerAssumption DEF StartRegisters, Registers, Functions
    <3> QED BY <2>4, <3>1, <3>2 DEF coopSpawn, NextAfterInsert, PrevAfterInsert, TypeOK
  <2>5. CASE NoMemory
    BY <2>5 DEF NoMemory, GiveBack, TypeOK, vars
  <2>6. CASE UNCHANGED vars
    BY <2>6 DEF TypeOK, vars
  <2> QED BY <2>1, <2>2, <2>3, <2>4, <2>5, <2>6 DEF Next, Spawned
<1> QED BY <1>1, <1>2, PTL DEF Spec

-----------------------------------------------------------------------------
(* What the three operations do to the list                                *)

LEMMA InsertTasks ==
  ASSUME TypeOK, NEW fn \in {"once", "loop"}, NEW stack \in Free, NEW task \in Free,
         coopSpawn(fn, stack, task)
  PROVE  /\ Tasks' = Tasks \cup {task} /\ task \notin Tasks /\ stack \notin Tasks
         /\ task \in Blocks /\ stack \in Blocks
  BY DEF coopSpawn, Tasks, Free, TypeOK

\* Only a task and its stack are freed, and the stack was no task.
LEMMA DeleteTasks ==
  ASSUME TypeOK, Linked, NoLeak, return
  PROVE  Tasks' = Tasks \ {cur}
<1>1. stackPtr[cur] \notin Tasks
  BY SchedulerAssumption DEF Linked, NoLeak, Tasks
<1> QED BY <1>1 DEF return, Freed, Tasks, TypeOK

LEMMA SameTasks ==
  ASSUME run \/ yield \/ NoMemory \/ UNCHANGED vars
  PROVE  Tasks' = Tasks /\ UNCHANGED <<next, prev, stackPtr, heap>>
  BY DEF run, yield, NoMemory, GiveBack, Tasks, vars

-----------------------------------------------------------------------------
(* Linked                                                                  *)

LEMMA LinkedInsert ==
  ASSUME TypeOK, Linked, NEW fn \in {"once", "loop"}, NEW stack \in Free, NEW task \in Free,
         coopSpawn(fn, stack, task)
  PROVE  Linked'
<1>1. Tasks' = Tasks \cup {task} /\ task \notin Tasks /\ cur' = cur /\ cur \in Tasks
  BY InsertTasks DEF coopSpawn, Linked
<1>2. next' = [next EXCEPT ![task] = next[cur], ![cur] = task]
  BY DEF coopSpawn, NextAfterInsert
<1>3. prev' = [prev EXCEPT ![task] = cur, ![next[cur]] = task]
  BY DEF coopSpawn, PrevAfterInsert
<1>4. next[cur] \in Tasks /\ Tasks \subseteq Blocks /\ task \in Blocks
  BY <1>1 DEF Linked, Tasks, Free
<1>5. /\ next'[task] = next[cur] /\ next'[cur] = task
      /\ \A t \in Tasks \ {cur} : next'[t] = next[t]
  BY <1>1, <1>2, <1>4 DEF TypeOK
<1>6. /\ prev'[task] = cur /\ prev'[next[cur]] = task
      /\ \A t \in Tasks \ {next[cur]} : prev'[t] = prev[t]
  BY <1>1, <1>3, <1>4 DEF TypeOK
<1>7. ASSUME NEW t \in Tasks'
      PROVE  /\ next'[t] \in Tasks' /\ prev'[t] \in Tasks'
             /\ next'[prev'[t]] = t /\ prev'[next'[t]] = t
  <2>1. CASE t = task
    BY <2>1, <1>1, <1>4, <1>5, <1>6
  <2>2. CASE t # task /\ t = cur
    BY <2>2, <1>1, <1>4, <1>5, <1>6 DEF Linked
  <2>3. CASE t # task /\ t # cur
    BY <2>3, <1>1, <1>4, <1>5, <1>6 DEF Linked
  <2> QED BY <2>1, <2>2, <2>3
<1> QED BY <1>1, <1>7 DEF Linked

LEMMA LinkedDelete ==
  ASSUME TypeOK, Linked, NoLeak, return
  PROVE  Linked'
<1>1. Tasks' = Tasks \ {cur} /\ cur \in Tasks /\ cur' = next[cur] /\ next[cur] # cur
  BY DeleteTasks DEF return, Linked
<1>2. /\ next[cur] \in Tasks /\ prev[cur] \in Tasks /\ prev[cur] # cur
      /\ next[prev[cur]] = cur /\ prev[next[cur]] = cur /\ Tasks \subseteq Blocks
  BY <1>1 DEF Linked, Tasks
<1>3. next'[prev[cur]] = next[cur] /\ \A t \in Tasks' \ {prev[cur]} : next'[t] = next[t]
  BY <1>1, <1>2 DEF return, NextAfterDelete, TypeOK
<1>4. prev'[next[cur]] = prev[cur] /\ \A t \in Tasks' \ {next[cur]} : prev'[t] = prev[t]
  BY <1>1, <1>2 DEF return, PrevAfterDelete, TypeOK
<1>5. ASSUME NEW t \in Tasks'
      PROVE  /\ next'[t] \in Tasks' /\ prev'[t] \in Tasks'
             /\ next'[prev'[t]] = t /\ prev'[next'[t]] = t
  <2>1. next[t] \in Tasks /\ prev[t] \in Tasks /\ next[prev[t]] = t /\ prev[next[t]] = t
    BY <1>1 DEF Linked
  <2>2. t # prev[cur] => next[t] # cur
    BY <2>1
  <2>3. t # next[cur] => prev[t] # cur
    BY <2>1
  <2> QED BY <1>1, <1>2, <1>3, <1>4, <2>1, <2>2, <2>3
<1> QED BY <1>1, <1>2, <1>5 DEF Linked

-----------------------------------------------------------------------------
(* OneRing                                                                 *)

LEMMA OneRingInsert ==
  ASSUME TypeOK, Linked, OneRing,
         NEW fn \in {"once", "loop"}, NEW stack \in Free, NEW task \in Free,
         coopSpawn(fn, stack, task)
  PROVE  OneRing'
<1> SUFFICES ASSUME NEW R \in SUBSET Tasks', R # {}, \A t \in R : next'[t] \in R
             PROVE  R = Tasks'
  BY DEF OneRing
<1>1. Tasks' = Tasks \cup {task} /\ task \notin Tasks /\ cur \in Tasks /\ next[cur] \in Tasks
  BY InsertTasks DEF Linked
<1>2. /\ next'[task] = next[cur] /\ next'[cur] = task
      /\ \A t \in Tasks \ {cur} : next'[t] = next[t]
  BY <1>1, InsertTasks DEF coopSpawn, NextAfterInsert, Tasks, TypeOK
<1> DEFINE S == R \ {task}
<1>3. S \in SUBSET Tasks
  BY <1>1
<1>4. S # {}
  BY <1>1, <1>2
<1>5. \A t \in S : next[t] \in S
  <2> SUFFICES ASSUME NEW t \in S PROVE next[t] \in S
    OBVIOUS
  <2>1. CASE t = cur
    <3>1. task \in R
      BY <2>1, <1>2
    <3> QED BY <2>1, <3>1, <1>1, <1>2
  <2>2. CASE t # cur
    BY <2>2, <1>1, <1>2, <1>3 DEF Linked
  <2> QED BY <2>1, <2>2
<1>6. S = Tasks
  BY <1>3, <1>4, <1>5 DEF OneRing
<1>7. task \in R
  BY <1>1, <1>2, <1>6
<1> QED BY <1>1, <1>6, <1>7

LEMMA OneRingDelete ==
  ASSUME TypeOK, Linked, NoLeak, OneRing, return
  PROVE  OneRing'
<1> SUFFICES ASSUME NEW R \in SUBSET Tasks', R # {}, \A t \in R : next'[t] \in R
             PROVE  R = Tasks'
  BY DEF OneRing
<1>1. Tasks' = Tasks \ {cur} /\ cur \in Tasks /\ next[cur] # cur
  BY DeleteTasks DEF return, Linked
<1>2. /\ prev[cur] \in Tasks /\ prev[cur] # cur /\ next[prev[cur]] = cur
      /\ next'[prev[cur]] = next[cur]
      /\ \A t \in Tasks' \ {prev[cur]} : next'[t] = next[t]
  BY <1>1 DEF return, NextAfterDelete, TypeOK, Linked, Tasks
<1>3. \A t \in R : t # prev[cur] => next[t] = next'[t]
  BY <1>1, <1>2
<1>4. CASE prev[cur] \in R
  <2> DEFINE S == R \cup {cur}
  <2>1. S \in SUBSET Tasks /\ S # {}
    BY <1>1
  <2>2. \A t \in S : next[t] \in S
    BY <1>2, <1>3, <1>4
  <2>3. S = Tasks
    BY <2>1, <2>2 DEF OneRing
  <2> QED BY <2>3, <1>1
<1>5. CASE prev[cur] \notin R
  <2>1. R \in SUBSET Tasks /\ cur \notin R
    BY <1>1
  <2>2. \A t \in R : next[t] \in R
    BY <1>3, <1>5
  <2> QED BY <2>1, <2>2, <1>1 DEF OneRing
<1> QED BY <1>4, <1>5

-----------------------------------------------------------------------------
(* NoLeak                                                                  *)

LEMMA NoLeakInsert ==
  ASSUME TypeOK, NoLeak, NEW fn \in {"once", "loop"}, NEW stack \in Free, NEW task \in Free,
         coopSpawn(fn, stack, task)
  PROVE  NoLeak'
<1>1. /\ Tasks' = Tasks \cup {task} /\ task \notin Tasks /\ stack # task
      /\ task \in Blocks /\ stack \in Blocks /\ Tasks \subseteq Blocks
  BY InsertTasks DEF coopSpawn, Tasks
<1>2. stackPtr'[task] = stack /\ \A t \in Tasks : stackPtr'[t] = stackPtr[t]
  BY <1>1 DEF coopSpawn, TypeOK
<1>3. heap'[stack] = "stack"
        /\ \A b \in Blocks \ {stack} : heap'[b] = "stack" <=> heap[b] = "stack"
  BY <1>1 DEF coopSpawn, TypeOK, Free
<1>4. heap[stack] # "stack"
  BY DEF Free
<1>5. ASSUME NEW b \in Blocks, heap'[b] = "stack"
      PROVE  \E t \in Tasks' : stackPtr'[t] = b
  BY <1>1, <1>2, <1>3, <1>5 DEF NoLeak
<1>6. ASSUME NEW t \in Tasks', stackPtr'[t] # NoStack
      PROVE  /\ heap'[stackPtr'[t]] = "stack"
             /\ \A u \in Tasks' : stackPtr'[u] = stackPtr'[t] => u = t
  <2>1. \A u \in Tasks : stackPtr[u] # stack
    BY <1>4, SchedulerAssumption, <1>1 DEF NoLeak
  <2>2. \A u \in Tasks : stackPtr[u] # NoStack => stackPtr[u] \in Blocks
    BY <1>1 DEF TypeOK
  <2>3. CASE t = task
    BY <2>1, <2>3, <1>1, <1>2, <1>3
  <2>4. CASE t # task
    BY <2>1, <2>2, <2>4, <1>1, <1>2, <1>3, <1>6 DEF NoLeak
  <2> QED BY <2>3, <2>4
<1> QED BY <1>5, <1>6 DEF NoLeak

LEMMA NoLeakDelete ==
  ASSUME TypeOK, Linked, NoLeak, return
  PROVE  NoLeak'
<1>1. Tasks' = Tasks \ {cur} /\ cur \in Tasks /\ Tasks \subseteq Blocks
  BY DeleteTasks DEF Linked, Tasks
<1>2. \A t \in Tasks' : stackPtr'[t] = stackPtr[t]
  BY <1>1 DEF return, TypeOK
<1>3. \A b \in Blocks : heap'[b] = IF b \in {cur, stackPtr[cur]} THEN "free" ELSE heap[b]
  BY DEF return, Freed
<1>4. ASSUME NEW b \in Blocks, heap'[b] = "stack"
      PROVE  \E t \in Tasks' : stackPtr'[t] = b
  <2>1. heap[b] = "stack" /\ b # stackPtr[cur]
    BY <1>3, <1>4
  <2>2. PICK t \in Tasks : stackPtr[t] = b
    BY <2>1 DEF NoLeak
  <2> QED BY <1>1, <1>2, <2>1, <2>2
<1>5. ASSUME NEW t \in Tasks', stackPtr'[t] # NoStack
      PROVE  /\ heap'[stackPtr'[t]] = "stack"
             /\ \A u \in Tasks' : stackPtr'[u] = stackPtr'[t] => u = t
  <2>1. stackPtr[t] = stackPtr'[t] /\ t \in Tasks /\ t # cur /\ stackPtr[t] \in Blocks
    BY <1>1, <1>2, <1>5 DEF TypeOK
  <2>2. heap[stackPtr[t]] = "stack" /\ stackPtr[t] # cur /\ stackPtr[t] # stackPtr[cur]
    BY <2>1, <1>1, <1>5 DEF NoLeak, Tasks
  <2> QED BY <1>1, <1>2, <1>3, <1>5, <2>1, <2>2 DEF NoLeak
<1> QED BY <1>4, <1>5 DEF NoLeak

-----------------------------------------------------------------------------
(* The ring                                                                *)

RingInv == TypeOK /\ Linked /\ OneRing /\ NoLeak

LEMMA RingInit == Init => RingInv
<1> SUFFICES ASSUME Init PROVE RingInv
  OBVIOUS
<1>1. PICK task \in Blocks :
        /\ cur = task
        /\ next = [b \in Blocks |-> b] /\ prev = [b \in Blocks |-> b]
        /\ heap = [b \in Blocks |-> IF b = task THEN "task" ELSE "free"]
  BY DEF Init
<1>2. Tasks = {task}
  BY <1>1 DEF Tasks
<1>3. TypeOK
  BY BlankType DEF Init, TypeOK
<1>4. Linked
  BY <1>1, <1>2 DEF Linked
<1>5. OneRing
  BY <1>2 DEF OneRing
<1>6. NoLeak
  BY <1>1, <1>2 DEF NoLeak, Init
<1> QED BY <1>3, <1>4, <1>5, <1>6 DEF RingInv

LEMMA RingNext == RingInv /\ TypeOK' /\ [Next]_vars => RingInv'
<1> SUFFICES ASSUME TypeOK, Linked, OneRing, NoLeak, TypeOK', [Next]_vars
             PROVE  Linked' /\ OneRing' /\ NoLeak'
  BY DEF RingInv
<1>1. CASE run \/ yield \/ NoMemory \/ UNCHANGED vars
  <2>1. Tasks' = Tasks /\ UNCHANGED <<next, prev, stackPtr, heap>>
    BY <1>1, SameTasks
  <2>2. cur' \in Tasks
    BY <1>1 DEF run, yield, NextTask, NoMemory, vars, Linked
  <2> QED BY <2>1, <2>2 DEF Linked, OneRing, NoLeak
<1>2. CASE return
  BY <1>2, LinkedDelete, OneRingDelete, NoLeakDelete
<1>3. ASSUME NEW fn \in {"once", "loop"}, NEW stack \in Free, NEW task \in Free,
             coopSpawn(fn, stack, task)
      PROVE  Linked' /\ OneRing' /\ NoLeak'
  BY <1>3, LinkedInsert, OneRingInsert, NoLeakInsert
<1> QED BY <1>1, <1>2, <1>3 DEF Next, Spawned

LEMMA RingAlways == Spec => []RingInv
  BY TypeCorrect, RingInit, RingNext, PTL DEF Spec

\* However tasks start others, yield and end, their list stays linked in both
\* directions and no task falls out of it: yielding reaches every one.
THEOREM RingIntact == Spec => []Ring
  BY RingAlways, PTL DEF RingInv, Ring

\* Every stack in use belongs to exactly one task.
THEOREM MemoryIsOwned == Spec => []NoLeak
  BY RingAlways, PTL DEF RingInv

-----------------------------------------------------------------------------
(* Registers                                                               *)

LEMMA OwnStackNext == RingInv /\ RingInv' /\ OwnStack /\ [Next]_vars => OwnStack'
<1> SUFFICES ASSUME TypeOK, Linked, NoLeak, OwnStack, [Next]_vars, Linked'
             PROVE  OwnStack'
  BY DEF RingInv
<1>1. cur \in Tasks /\ next[cur] \in Tasks /\ Tasks \subseteq Blocks
  BY DEF Linked, Tasks
<1>2. CASE run
  <2>1. cpu'.sp = cpu.sp /\ Tasks' = Tasks /\ UNCHANGED <<cur, stackPtr, regs>>
    BY <1>2 DEF run, TypeOK, Registers, Tasks
  <2> QED BY <2>1 DEF OwnStack
<1>3. CASE yield
  <2>1. Tasks' = Tasks /\ stackPtr' = stackPtr /\ cur' = next[cur] /\ cpu' = regs'[cur']
    BY <1>3 DEF yield, NextTask, Tasks
  <2>2. regs'[cur] = cpu /\ \A t \in Tasks \ {cur} : regs'[t] = regs[t]
    BY <1>1, <1>3 DEF yield, Saved, TypeOK
  <2>3. \A t \in Tasks : regs'[t].sp = stackPtr[t]
    BY <1>1, <2>2 DEF OwnStack
  <2> QED BY <1>1, <2>1, <2>3 DEF OwnStack
<1>4. CASE return
  <2>1. Tasks' = Tasks \ {cur} /\ cur' = next[cur] /\ next[cur] # cur /\ cpu' = regs[next[cur]]
    BY <1>4, DeleteTasks DEF return
  <2>2. \A t \in Tasks \ {cur} : stackPtr'[t] = stackPtr[t] /\ regs'[t] = regs[t]
    BY <1>1, <1>4 DEF return, TypeOK
  <2> QED BY <1>1, <2>1, <2>2 DEF OwnStack
<1>5. ASSUME NEW fn \in {"once", "loop"}, NEW stack \in Free, NEW task \in Free,
             coopSpawn(fn, stack, task)
      PROVE  OwnStack'
  <2>1. Tasks' = Tasks \cup {task} /\ task \notin Tasks /\ task \in Blocks
    BY <1>5, InsertTasks
  <2>2. regs'[task].sp = stack /\ stackPtr'[task] = stack /\ UNCHANGED <<cur, cpu>>
    BY <1>5, <2>1 DEF coopSpawn, StartRegisters, TypeOK
  <2>3. \A t \in Tasks : stackPtr'[t] = stackPtr[t] /\ regs'[t] = regs[t]
    BY <1>1, <1>5, <2>1 DEF coopSpawn, TypeOK
  <2> QED BY <1>1, <2>1, <2>2, <2>3 DEF OwnStack
<1>6. CASE NoMemory \/ UNCHANGED vars
  <2>1. Tasks' = Tasks /\ UNCHANGED <<cur, cpu, stackPtr, regs>>
    BY <1>6 DEF NoMemory, GiveBack, Tasks, vars
  <2> QED BY <2>1 DEF OwnStack
<1> QED BY <1>2, <1>3, <1>4, <1>5, <1>6 DEF Next, Spawned

\* After every switch the processor is on the stack of the task it runs, and the stack
\* pointer that every other task will get back is its own.
THEOREM StacksAreOwn == Spec => []OwnStack
<1>1. Init => OwnStack
  BY DEF Init, OwnStack, Blank, Tasks
<1> QED BY <1>1, OwnStackNext, RingAlways, PTL DEF Spec

-----------------------------------------------------------------------------
(* The last task                                                           *)

\* The program's own task is always there: it never returns.
MainStays == \E t \in Tasks : RegistersOf(t).fn = "main"

LEMMA MainStaysNext == RingInv /\ MainStays /\ [Next]_vars => MainStays'
<1> SUFFICES ASSUME TypeOK, Linked, NoLeak, MainStays, [Next]_vars PROVE MainStays'
  BY DEF RingInv
<1>1. PICK t \in Tasks : RegistersOf(t).fn = "main"
  BY DEF MainStays
<1>2. cur \in Tasks /\ next[cur] \in Tasks /\ Tasks \subseteq Blocks
  BY DEF Linked, Tasks
<1>3. CASE run
  <2>1. cpu'.fn = cpu.fn /\ Tasks' = Tasks /\ UNCHANGED <<cur, regs>>
    BY <1>3 DEF run, TypeOK, Registers, Tasks
  <2> QED BY <1>1, <2>1 DEF MainStays, RegistersOf
<1>4. CASE yield
  <2>1. Tasks' = Tasks /\ cur' = next[cur] /\ cpu' = regs'[cur']
    BY <1>4 DEF yield, NextTask, Tasks
  <2>2. regs'[cur] = cpu /\ \A u \in Tasks \ {cur} : regs'[u] = regs[u]
    BY <1>2, <1>4 DEF yield, Saved, TypeOK
  <2> QED BY <1>1, <1>2, <2>1, <2>2 DEF MainStays, RegistersOf
<1>5. CASE return
  <2>1. Tasks' = Tasks \ {cur} /\ cur' = next[cur] /\ cpu' = regs[next[cur]] /\ cpu.fn = "once"
        /\ next[cur] # cur
    BY <1>5, DeleteTasks DEF return, Ends
  <2>2. \A u \in Tasks \ {cur} : regs'[u] = regs[u]
    BY <1>2, <1>5 DEF return, TypeOK
  <2>3. t # cur
    BY <1>1, <2>1 DEF RegistersOf
  <2> QED BY <1>1, <2>1, <2>2, <2>3 DEF MainStays, RegistersOf
<1>6. ASSUME NEW fn \in {"once", "loop"}, NEW stack \in Free, NEW task \in Free,
             coopSpawn(fn, stack, task)
      PROVE  MainStays'
  <2>1. Tasks' = Tasks \cup {task} /\ task \notin Tasks /\ task \in Blocks
    BY <1>6, InsertTasks
  <2>2. UNCHANGED <<cur, cpu>> /\ \A u \in Tasks : regs'[u] = regs[u]
    BY <1>2, <1>6, <2>1 DEF coopSpawn, TypeOK
  <2> QED BY <1>1, <2>1, <2>2 DEF MainStays, RegistersOf
<1>7. CASE NoMemory \/ UNCHANGED vars
  <2>1. Tasks' = Tasks /\ UNCHANGED <<cur, cpu, regs>>
    BY <1>7 DEF NoMemory, GiveBack, Tasks, vars
  <2> QED BY <1>1, <2>1 DEF MainStays, RegistersOf
<1> QED BY <1>3, <1>4, <1>5, <1>6, <1>7 DEF Next, Spawned

\* coopSchedule() never comes to the endless loop in which the last task's end halts
\* the board: a task that can end is never alone on the ring.
THEOREM BoardNeverHalts == Spec => []NeverHalts
<1>1. Init => MainStays
  BY DEF Init, MainStays, RegistersOf, Blank, Tasks
<1>2. RingInv /\ MainStays => NeverHalts
  <2> SUFFICES ASSUME Linked, OneRing, MainStays, cpu.fn = "once", next[cur] = cur PROVE FALSE
    BY DEF RingInv, NeverHalts
  <2>1. {cur} = Tasks
    <3>1. {cur} \in SUBSET Tasks /\ {cur} # {} /\ \A t \in {cur} : next[t] \in {cur}
      BY DEF Linked
    <3> QED BY <3>1 DEF OneRing
  <2> QED BY <2>1 DEF MainStays, RegistersOf
<1> QED BY <1>1, <1>2, MainStaysNext, RingAlways, PTL DEF Spec

-----------------------------------------------------------------------------
(* Following the ring                                                      *)

LEMMA HasMin ==
  ASSUME NEW T \in SUBSET Nat, T # {}
  PROVE  \E m \in T : \A x \in T : m <= x
<1> DEFINE R == {ss \in Nat \X Nat : ss[1] < ss[2]}
<1>1. IsWellFoundedOn(R, Nat)
  BY NatLessThanWellFounded DEF OpToRel
<1> HIDE DEF R
<1>2. PICK m \in T : \A x \in T : ~(<<x, m>> \in R)
  BY <1>1, WFMin
<1>3. \A x \in T : ~(x < m)
  BY <1>2 DEF R
<1> QED BY <1>3

\* Induction, for a set of numbers.
LEMMA Inductive ==
  ASSUME NEW S, 0 \in S, \A n \in Nat : n \in S => n + 1 \in S
  PROVE  Nat \subseteq S
<1> DEFINE T == Nat \ S
<1>1. ASSUME T # {} PROVE FALSE
  <2>1. PICK m \in T : \A x \in T : m <= x
    BY <1>1, HasMin
  <2>2. m \in Nat \ {0} /\ m - 1 \in Nat /\ (m - 1) + 1 = m /\ ~(m <= m - 1)
    <3>1. m \in Nat /\ m # 0
      OBVIOUS
    <3> QED BY <3>1
  <2>3. m - 1 \in S
    BY <2>1, <2>2
  <2> QED BY <2>2, <2>3
<1> QED BY <1>1

\* The path from c along f.
Path(f, c) == CHOOSE p : p = [i \in Nat |-> IF i = 0 THEN c ELSE f[p[i - 1]]]

LEMMA FollowingIs == Following = Path(next, cur) /\ Following' = Path(next', cur')
  BY DEF Following, Path

\* A path up to its k-th place; any two agree.
Start(g, f, c, k) ==
  /\ g = [i \in 0..k |-> g[i]] /\ g[0] = c
  /\ \A i \in 0..(k - 1) : g[i + 1] = f[g[i]]

LEMMA StartsAgree ==
  ASSUME NEW f, NEW c, NEW g, NEW h, NEW k \in Nat, NEW l \in Nat, k <= l,
         Start(g, f, c, k), Start(h, f, c, l), NEW i \in 0..k
  PROVE  g[i] = h[i]
<1> DEFINE S == {n \in Nat : n <= k => g[n] = h[n]}
<1>1. 0 \in S
  BY DEF Start
<1>2. ASSUME NEW n \in Nat, n \in S PROVE n + 1 \in S
  <2>1. ASSUME n + 1 <= k PROVE g[n + 1] = h[n + 1]
    <3>1. n \in 0..(k - 1) /\ n \in 0..(l - 1) /\ n <= k
      BY <2>1
    <3> QED BY <1>2, <3>1 DEF Start
  <2> QED BY <2>1
<1> HIDE DEF S
<1>3. Nat \subseteq S
  BY <1>1, <1>2, Inductive
<1> QED BY <1>3 DEF S

LEMMA StartExists ==
  ASSUME NEW f, NEW c, NEW k \in Nat
  PROVE  \E g : Start(g, f, c, k)
<1> DEFINE S == {n \in Nat : \E g : Start(g, f, c, n)}
<1>1. 0 \in S
  <2> DEFINE g == [i \in 0..0 |-> c]
  <2>1. Start(g, f, c, 0)
    BY DEF Start
  <2> QED BY <2>1
<1>2. ASSUME NEW n \in Nat, n \in S PROVE n + 1 \in S
  <2>1. PICK g : Start(g, f, c, n)
    BY <1>2
  <2> DEFINE h == [i \in 0..(n + 1) |-> IF i = n + 1 THEN f[g[n]] ELSE g[i]]
  <2>2. h[0] = c
    BY <2>1 DEF Start
  <2>3. ASSUME NEW i \in 0..((n + 1) - 1) PROVE h[i + 1] = f[h[i]]
    <3>1. i \in 0..n /\ i # n + 1 /\ i \in 0..(n + 1) /\ i + 1 \in 0..(n + 1)
      OBVIOUS
    <3>2. h[i] = g[i]
      BY <3>1
    <3>3. CASE i = n
      BY <3>1, <3>2, <3>3
    <3>4. CASE i # n
      <4>1. i \in 0..(n - 1) /\ i + 1 # n + 1
        BY <3>1, <3>4
      <4>2. h[i + 1] = g[i + 1] /\ g[i + 1] = f[g[i]]
        BY <2>1, <3>1, <4>1 DEF Start
      <4> QED BY <3>2, <4>2
    <3> QED BY <3>3, <3>4
  <2>4. h = [i \in 0..(n + 1) |-> h[i]]
    OBVIOUS
  <2> HIDE DEF h
  <2>5. Start(h, f, c, n + 1)
    BY <2>2, <2>3, <2>4 DEF Start
  <2> QED BY <2>5
<1> HIDE DEF S
<1>3. Nat \subseteq S
  BY <1>1, <1>2, Inductive
<1> QED BY <1>3 DEF S

LEMMA PathIs ==
  ASSUME NEW f, NEW c
  PROVE  Path(f, c)[0] = c /\ \A i \in Nat : Path(f, c)[i + 1] = f[Path(f, c)[i]]
<1> DEFINE g(k) == CHOOSE g : Start(g, f, c, k)
           p == [i \in Nat |-> g(i)[i]]
<1>1. \A k \in Nat : Start(g(k), f, c, k)
  BY StartExists
<1> HIDE DEF g
<1>2. p[0] = c
  BY <1>1 DEF Start
<1>3. ASSUME NEW i \in Nat PROVE p[i + 1] = f[p[i]]
  <2>1. g(i + 1)[i + 1] = f[g(i + 1)[i]]
    <3>1. i + 1 \in Nat /\ i \in 0..((i + 1) - 1)
      OBVIOUS
    <3>2. Start(g(i + 1), f, c, i + 1)
      BY <1>1, <3>1
    <3> QED BY <3>1, <3>2 DEF Start
  <2>2. g(i)[i] = g(i + 1)[i]
    <3>1. i + 1 \in Nat /\ i <= i + 1 /\ i \in 0..i
      OBVIOUS
    <3>2. Start(g(i), f, c, i) /\ Start(g(i + 1), f, c, i + 1)
      BY <1>1, <3>1
    <3> QED BY <3>1, <3>2, StartsAgree
  <2> QED BY <2>1, <2>2
<1>4. p = [i \in Nat |-> IF i = 0 THEN c ELSE f[p[i - 1]]]
  <2>1. ASSUME NEW i \in Nat PROVE p[i] = IF i = 0 THEN c ELSE f[p[i - 1]]
    <3>1. CASE i = 0
      BY <1>2, <3>1
    <3>2. CASE i # 0
      <4>1. i - 1 \in Nat /\ (i - 1) + 1 = i
        BY <3>2
      <4> HIDE DEF p
      <4>2. p[i] = f[p[i - 1]]
        BY <1>3, <4>1
      <4> QED BY <3>2, <4>2
    <3> QED BY <3>1, <3>2
  <2>2. p = [i \in Nat |-> p[i]]
    OBVIOUS
  <2> HIDE DEF p
  <2> QED BY <2>1, <2>2, Zenon
<1> DEFINE q == Path(f, c)
<1> HIDE DEF p
<1>5. q = [i \in Nat |-> IF i = 0 THEN c ELSE f[q[i - 1]]]
  BY <1>4 DEF Path
<1> HIDE DEF q
<1>6. q[0] = c
  BY <1>5
<1>7. ASSUME NEW i \in Nat PROVE q[i + 1] = f[q[i]]
  <2>1. i + 1 \in Nat /\ i + 1 # 0 /\ (i + 1) - 1 = i
    OBVIOUS
  <2> QED BY <1>5, <2>1
<1> QED BY <1>6, <1>7 DEF q

\* p counts the set T off: n of them, once each, then c again.
Counts(p, n, T, c) ==
  /\ n \in Nat \ {0} /\ p[0] = c /\ p[n] = c
  /\ \A i \in Nat : p[i] \in T
  /\ \A i, j \in 0..(n - 1) : p[i] = p[j] => i = j
  /\ \A t \in T : \E i \in 0..(n - 1) : p[i] = t

LEMMA CountsAll ==
  ASSUME NEW T, NEW p, NEW n, NEW c, Counts(p, n, T, c)
  PROVE  Cardinality(T) = n /\ IsFiniteSet(T)
<1> DEFINE g == [i \in 1..n |-> p[i - 1]]
<1>1. n \in Nat /\ \A i \in 1..n : i - 1 \in 0..(n - 1) /\ i - 1 \in Nat
  BY DEF Counts
<1>2. g \in Injection(1..n, T)
  <2>1. \A i \in 1..n : g[i] \in T
    BY <1>1 DEF Counts
  <2>2. \A i, j \in 1..n : g[i] = g[j] => i = j
    <3>1. ASSUME NEW i \in 1..n, NEW j \in 1..n, g[i] = g[j] PROVE i = j
      <4>1. i - 1 = j - 1
        BY <1>1, <3>1 DEF Counts
      <4> QED BY <1>1, <4>1
    <3> QED BY <3>1
  <2> QED BY <2>1, <2>2 DEF Injection, IsInjective
<1>3. g \in Surjection(1..n, T)
  <2>1. ASSUME NEW t \in T PROVE \E i \in 1..n : g[i] = t
    <3>1. PICK i \in 0..(n - 1) : p[i] = t
      BY DEF Counts
    <3>2. i + 1 \in 1..n /\ (i + 1) - 1 = i
      BY <1>1
    <3> QED BY <3>1, <3>2
  <2>2. g \in [1..n -> T]
    BY <1>1 DEF Counts
  <2> QED BY <2>1, <2>2 DEF Surjection
<1>4. ExistsBijection(1..n, T)
  BY <1>2, <1>3 DEF ExistsBijection, Bijection
<1> QED BY <1>1, <1>4, FS_CountingElements, FS_NatBijection

\* A ring, followed from one of its members: it comes back to that one when it has
\* seen all.
LEMMA RingCounts ==
  ASSUME NEW T, NEW f, NEW b, NEW c \in T,
         \A t \in T : f[t] \in T /\ b[t] \in T /\ f[b[t]] = t /\ b[f[t]] = t,
         \A S \in SUBSET T : S # {} /\ (\A t \in S : f[t] \in S) => S = T
  PROVE  Counts(Path(f, c), Cardinality(T), T, c)
<1> DEFINE p == Path(f, c)
<1>1. p[0] = c /\ \A i \in Nat : p[i + 1] = f[p[i]]
  BY PathIs
<1> HIDE DEF p
<1>2. \A i \in Nat : p[i] \in T
  <2> DEFINE S == {i \in Nat : p[i] \in T}
  <2>1. 0 \in S
    BY <1>1
  <2>2. \A i \in Nat : i \in S => i + 1 \in S
    BY <1>1
  <2> HIDE DEF S
  <2>3. Nat \subseteq S
    BY <2>1, <2>2, Inductive
  <2> QED BY <2>3 DEF S
<1>3. PICK i \in Nat : p[i] = b[c]
  <2> DEFINE S == {p[i] : i \in Nat}
  <2>1. S \in SUBSET T /\ S # {}
    BY <1>2
  <2>2. ASSUME NEW t \in S PROVE f[t] \in S
    <3>1. PICK i \in Nat : t = p[i]
      OBVIOUS
    <3>2. f[t] = p[i + 1] /\ i + 1 \in Nat
      BY <1>1, <3>1
    <3> QED BY <3>2
  <2> HIDE DEF S
  <2>3. S = T
    BY <2>1, <2>2
  <2> QED BY <2>3 DEF S
<1> DEFINE R == {j \in Nat : j # 0 /\ p[j] = c}
<1>4. PICK n \in R : \A j \in R : n <= j
  <2>1. i + 1 \in R
    <3>1. p[i + 1] = c
      BY <1>1, <1>3
    <3> QED BY <3>1
  <2> HIDE DEF R
  <2>2. R \in SUBSET Nat /\ R # {}
    BY <2>1 DEF R
  <2> QED BY <2>2, HasMin
<1>5. n \in Nat \ {0} /\ p[n] = c /\ \A j \in 1..(n - 1) : p[j] # c
  <2>1. n \in Nat \ {0} /\ p[n] = c
    OBVIOUS
  <2>2. ASSUME NEW j \in 1..(n - 1), p[j] = c PROVE FALSE
    <3>1. j \in R /\ ~(n <= j)
      BY <2>1, <2>2
    <3> QED BY <1>4, <3>1
  <2> QED BY <2>1, <2>2
<1>6. ASSUME NEW t \in T PROVE \E j \in 0..(n - 1) : p[j] = t
  <2> DEFINE S == {p[j] : j \in 0..(n - 1)}
  <2>1. S \in SUBSET T /\ S # {}
    <3>1. 0 \in 0..(n - 1) /\ \A j \in 0..(n - 1) : j \in Nat
      BY <1>5
    <3> QED BY <1>2, <3>1
  <2>2. ASSUME NEW u \in S PROVE f[u] \in S
    <3>1. PICK j \in 0..(n - 1) : u = p[j]
      OBVIOUS
    <3>2. f[u] = p[j + 1]
      BY <1>1, <3>1
    <3>3. CASE j = n - 1
      <4>1. j + 1 = n /\ 0 \in 0..(n - 1)
        BY <1>5, <3>3
      <4> QED BY <1>1, <1>5, <3>2, <4>1
    <3>4. CASE j # n - 1
      <4>1. j + 1 \in 0..(n - 1)
        BY <1>5, <3>4
      <4> QED BY <3>2, <4>1
    <3> QED BY <3>3, <3>4
  <2> HIDE DEF S
  <2>3. S = T
    BY <2>1, <2>2
  <2> QED BY <2>3 DEF S
<1>7. ASSUME NEW j \in 0..(n - 1), NEW k \in 0..(n - 1), j < k, p[j] = p[k]
      PROVE  FALSE
  <2> DEFINE D == {x \in Nat : \E y \in 0..(n - 1) : x < y /\ p[x] = p[y]}
  <2>1. j \in D
    BY <1>7
  <2>2. PICK x \in D : \A y \in D : x <= y
    <3> HIDE DEF D
    <3>1. D \in SUBSET Nat
      BY DEF D
    <3> QED BY <2>1, <3>1, HasMin
  <2>3. PICK y \in 0..(n - 1) : x < y /\ p[x] = p[y]
    OBVIOUS
  <2>4. CASE x = 0
    <3>1. y \in 1..(n - 1)
      BY <2>3, <2>4
    <3> QED BY <1>1, <1>5, <2>3, <2>4, <3>1
  <2>5. CASE x # 0
    <3>1. x - 1 \in Nat /\ y - 1 \in Nat /\ (x - 1) + 1 = x /\ (y - 1) + 1 = y
          /\ y - 1 \in 0..(n - 1) /\ x - 1 < y - 1 /\ ~(x <= x - 1)
      BY <1>5, <2>3, <2>5
    <3>2. p[x] = f[p[x - 1]] /\ p[y] = f[p[y - 1]]
      BY <1>1, <3>1
    <3>3. p[x - 1] \in T /\ p[y - 1] \in T
      BY <1>2, <3>1
    <3>4. p[x - 1] = p[y - 1]
      <4> DEFINE u == p[x - 1]
                 v == p[y - 1]
      <4>1. u \in T /\ v \in T /\ f[u] = f[v]
        BY <2>3, <3>2, <3>3
      <4> HIDE DEF u, v
      <4>2. b[f[u]] = u /\ b[f[v]] = v
        BY <4>1
      <4> QED BY <4>1, <4>2 DEF u, v
    <3>5. x - 1 \in D
      BY <3>1, <3>4
    <3> QED BY <2>2, <3>1, <3>5
  <2> QED BY <2>4, <2>5
<1>8. \A j, k \in 0..(n - 1) : p[j] = p[k] => j = k
  <2>1. ASSUME NEW j \in 0..(n - 1), NEW k \in 0..(n - 1), p[j] = p[k] PROVE j = k
    <3>1. ~(j < k) /\ ~(k < j)
      BY <1>7, <2>1
    <3> QED BY <1>5, <3>1
  <2> QED BY <2>1
<1>9. Counts(p, n, T, c)
  BY <1>1, <1>2, <1>5, <1>6, <1>8 DEF Counts
<1>10. Cardinality(T) = n
  BY <1>9, CountsAll
<1> QED BY <1>9, <1>10 DEF p

\* The path that is told by its first k places.
LEMMA PathAgrees ==
  ASSUME NEW f, NEW c, NEW k \in Nat, NEW q, q[0] = c,
         \A i \in Nat : i < k => q[i + 1] = f[q[i]], NEW i \in 0..k
  PROVE  Path(f, c)[i] = q[i]
<1> DEFINE p == Path(f, c)
           S == {n \in Nat : n <= k => p[n] = q[n]}
<1>1. p[0] = c /\ \A n \in Nat : p[n + 1] = f[p[n]]
  BY PathIs
<1> HIDE DEF p
<1>2. 0 \in S
  BY <1>1
<1>3. ASSUME NEW n \in Nat, n \in S PROVE n + 1 \in S
  <2>1. ASSUME n + 1 <= k PROVE p[n + 1] = q[n + 1]
    <3>1. n < k /\ n <= k
      BY <2>1
    <3>2. p[n] = q[n] /\ p[n + 1] = f[p[n]] /\ q[n + 1] = f[q[n]]
      BY <1>1, <1>3, <3>1
    <3> QED BY <3>2
  <2> QED BY <2>1
<1> HIDE DEF S
<1>4. Nat \subseteq S
  BY <1>2, <1>3, Inductive
<1> QED BY <1>4 DEF S, p

\* The ring as the queue shows it.
ProcessIn(c, k, r, t) ==
  LET own == IF t = c THEN k ELSE r[t] IN [task |-> t, fn |-> own.fn, at |-> own.at]
ProcessOf(t) == ProcessIn(cur, cpu, regs, t)

LEMMA QueueIs ==
  /\ Queue = [i \in 1..Cardinality(Tasks) |-> ProcessOf(Following[i - 1])]
  /\ Queue' = [i \in 1..Cardinality(Tasks') |-> ProcessOf(Following[i - 1])']
  BY DEF Queue, ProcessOf, ProcessIn, RegistersOf

LEMMA RingFollows ==
  ASSUME RingInv
  PROVE  /\ Counts(Following, Cardinality(Tasks), Tasks, cur)
         /\ \A i \in Nat : Following[i + 1] = next[Following[i]]
<1>1. cur \in Tasks
      /\ \A t \in Tasks : next[t] \in Tasks /\ prev[t] \in Tasks
                          /\ next[prev[t]] = t /\ prev[next[t]] = t
  BY DEF RingInv, Linked
<1>2. \A S \in SUBSET Tasks : S # {} /\ (\A t \in S : next[t] \in S) => S = Tasks
  BY DEF RingInv, OneRing
<1>3. Counts(Path(next, cur), Cardinality(Tasks), Tasks, cur)
  BY <1>1, <1>2, RingCounts
<1> QED BY <1>3, FollowingIs, PathIs

\* The queue: the tasks of the ring, the running one first.
LEMMA QueueHas ==
  ASSUME RingInv
  PROVE  /\ Cardinality(Tasks) \in Nat \ {0} /\ Len(Queue) = Cardinality(Tasks)
         /\ DOMAIN Queue = 1..Cardinality(Tasks)
         /\ \A i \in 1..Cardinality(Tasks) : Queue[i] = ProcessOf(Following[i - 1])
         /\ Head(Queue) = ProcessOf(cur)
         /\ RR!Names = Tasks
<1> DEFINE n == Cardinality(Tasks)
           Q == Queue
<1>1. Counts(Following, n, Tasks, cur)
  BY RingFollows
<1> HIDE DEF n
<1>2. n \in Nat \ {0} /\ Following[0] = cur
  BY <1>1 DEF Counts
<1>3. Q = [i \in 1..n |-> ProcessOf(Following[i - 1])]
  BY QueueIs DEF n
<1> HIDE DEF Q
<1>4. Len(Q) = n /\ DOMAIN Q = 1..n /\ \A i \in 1..n : Q[i] = ProcessOf(Following[i - 1])
  BY <1>2, <1>3
<1>5. Head(Q) = ProcessOf(cur)
  <2>1. Head(Q) = Q[1] /\ 1 \in 1..n /\ 1 - 1 = 0
    BY <1>2, <1>3
  <2> QED BY <1>2, <1>4, <2>1
<1>6. \A t : ProcessOf(t).task = t
  BY DEF ProcessOf, ProcessIn
<1>7. {Q[i].task : i \in DOMAIN Q} = Tasks
  <2>1. ASSUME NEW i \in DOMAIN Q PROVE Q[i].task \in Tasks
    <3>1. i \in 1..n /\ i - 1 \in Nat
      BY <1>2, <1>4
    <3> QED BY <1>1, <1>4, <1>6, <3>1 DEF Counts
  <2>2. ASSUME NEW t \in Tasks PROVE \E i \in DOMAIN Q : Q[i].task = t
    <3>1. PICK j \in 0..(n - 1) : Following[j] = t
      BY <1>1 DEF Counts
    <3>2. j + 1 \in 1..n /\ (j + 1) - 1 = j
      BY <1>2
    <3>3. Q[j + 1] = ProcessOf(Following[j])
      BY <1>4, <3>2
    <3> QED BY <1>4, <1>6, <3>1, <3>2, <3>3
  <2> QED BY <2>1, <2>2
<1> QED BY <1>2, <1>4, <1>5, <1>7 DEF n, Q, RR!Names

-----------------------------------------------------------------------------
(* Every step is a step of the queue                                       *)

Processes == [task : Blocks, fn : Functions, at : 0..LastPoint]

LEMMA QueueTypes ==
  ASSUME RingInv
  PROVE  Queue \in Seq(Processes)
<1> DEFINE n == Cardinality(Tasks)
<1>1. Counts(Following, n, Tasks, cur)
  BY RingFollows
<1>2. Len(Queue) = n /\ DOMAIN Queue = 1..n /\ n \in Nat
      /\ \A i \in 1..n : Queue[i] = ProcessOf(Following[i - 1])
  BY QueueHas
<1> HIDE DEF n
<1>3. ASSUME NEW t \in Tasks PROVE ProcessOf(t) \in Processes
  <2>1. regs[t] \in Registers /\ cpu \in Registers /\ t \in Blocks
    BY DEF RingInv, TypeOK, Tasks
  <2> QED BY <2>1 DEF ProcessOf, ProcessIn, Processes, Registers
<1>4. \A i \in 1..n : Following[i - 1] \in Tasks
  <2>1. \A i \in 1..n : i - 1 \in Nat
    BY <1>2
  <2> QED BY <1>1, <2>1 DEF Counts
<1>5. \A i \in 1..n : ProcessOf(Following[i - 1]) \in Processes
  BY <1>3, <1>4
<1>6. [i \in 1..n |-> ProcessOf(Following[i - 1])] \in Seq(Processes)
  BY <1>2, <1>5
<1> QED BY <1>6, QueueIs DEF n

\* The sequences that the queue's operations make.
LEMMA QueueOps ==
  ASSUME NEW S, NEW Q \in Seq(S), NEW R \in Seq(S), Q # <<>>
  PROVE  /\ /\ Len(R) = Len(Q) /\ R[Len(Q)] = Q[1]
            /\ \A i \in 1..(Len(Q) - 1) : R[i] = Q[i + 1]
            => R = Append(Tail(Q), Head(Q))
         /\ /\ Len(R) = Len(Q) - 1
            /\ \A i \in 1..(Len(Q) - 1) : R[i] = Q[i + 1]
            => R = Tail(Q)
         /\ /\ Len(R) = Len(Q) + 1 /\ R[1] = Q[1]
            /\ \A i \in 2..Len(Q) : R[i + 1] = Q[i]
            => R = <<Head(Q), R[2]>> \o Tail(Q)
<1>1. /\ Len(Q) \in Nat \ {0} /\ Head(Q) = Q[1] /\ Head(Q) \in S /\ Tail(Q) \in Seq(S)
      /\ Len(Tail(Q)) = Len(Q) - 1 /\ \A i \in 1..(Len(Q) - 1) : Tail(Q)[i] = Q[i + 1]
  BY HeadTailProperties, LenProperties, EmptySeq
<1> DEFINE T == Tail(Q)
           h == Head(Q)
<1> HIDE DEF T, h
<1>2. T \in Seq(S) /\ h \in S /\ Len(T) = Len(Q) - 1 /\ h = Q[1]
      /\ \A i \in 1..(Len(Q) - 1) : T[i] = Q[i + 1]
  BY <1>1 DEF T, h
<1>3. ASSUME Len(R) = Len(Q), R[Len(Q)] = Q[1],
             \A i \in 1..(Len(Q) - 1) : R[i] = Q[i + 1]
      PROVE  R = Append(T, h)
  <2> DEFINE A == Append(T, h)
  <2>1. A \in Seq(S) /\ Len(A) = Len(T) + 1 /\ A[Len(T) + 1] = h
        /\ \A i \in 1..Len(T) : A[i] = T[i]
    BY <1>2, AppendProperties
  <2> HIDE DEF A
  <2>2. Len(A) = Len(R) /\ Len(T) + 1 = Len(Q)
    BY <1>1, <1>2, <1>3, <2>1
  <2>3. ASSUME NEW i \in 1..Len(R) PROVE R[i] = A[i]
    <3>1. CASE i = Len(Q)
      BY <1>2, <1>3, <2>1, <2>2, <3>1
    <3>2. CASE i # Len(Q)
      <4>1. i \in 1..(Len(Q) - 1) /\ i \in 1..Len(T)
        <5>1. Len(Q) \in Nat \ {0} /\ Len(T) = Len(Q) - 1 /\ Len(R) = Len(Q)
          BY <1>1, <1>2, <1>3
        <5> HIDE DEF T
        <5> QED BY <3>2, <5>1
      <4> QED BY <1>2, <1>3, <2>1, <4>1
    <3> QED BY <3>1, <3>2
  <2> QED BY <2>1, <2>2, <2>3, SeqEqual DEF A
<1>4. ASSUME Len(R) = Len(Q) - 1, \A i \in 1..(Len(Q) - 1) : R[i] = Q[i + 1]
      PROVE  R = T
  <2>1. Len(T) = Len(R) /\ \A i \in 1..Len(R) : R[i] = T[i]
    BY <1>2, <1>4
  <2> QED BY <1>2, <2>1, SeqEqual
<1>5. ASSUME Len(R) = Len(Q) + 1, R[1] = Q[1], \A i \in 2..Len(Q) : R[i + 1] = Q[i]
      PROVE  R = <<h, R[2]>> \o T
  <2>1. R[2] \in S
    <3>1. 2 \in 1..Len(R)
      BY <1>1, <1>5
    <3> QED BY <3>1, ElementOfSeq
  <2> DEFINE P == <<h, R[2]>>
             A == P \o T
  <2>2. P \in Seq(S) /\ Len(P) = 2 /\ P[1] = h /\ P[2] = R[2]
    BY <1>2, <2>1
  <2> HIDE DEF P
  <2>3. /\ A \in Seq(S) /\ Len(A) = Len(P) + Len(T)
        /\ \A i \in 1..(Len(P) + Len(T)) : A[i] = IF i <= Len(P) THEN P[i] ELSE T[i - Len(P)]
    BY <1>2, <2>2, ConcatProperties
  <2> HIDE DEF A
  <2>4. Len(A) = Len(R)
    BY <1>1, <1>2, <1>5, <2>2, <2>3
  <2>5. ASSUME NEW i \in 1..Len(R) PROVE R[i] = A[i]
    <3>1. CASE i = 1 \/ i = 2
      <4>1. i <= Len(P) /\ i \in 1..(Len(P) + Len(T))
        BY <2>2, <2>3, <2>4, <3>1
      <4>2. A[i] = P[i]
        BY <2>3, <4>1
      <4> QED BY <1>2, <1>5, <2>2, <3>1, <4>2
    <3>2. CASE i # 1 /\ i # 2
      <4>1. ~(i <= Len(P)) /\ i \in 1..(Len(P) + Len(T)) /\ i - 1 \in 2..Len(Q)
            /\ (i - 1) + 1 = i /\ i - 2 \in 1..(Len(Q) - 1) /\ (i - 2) + 1 = i - 1
        BY <1>1, <1>5, <2>2, <2>3, <2>4, <3>2
      <4>2. A[i] = T[i - 2] /\ T[i - 2] = Q[i - 1]
        BY <1>2, <2>2, <2>3, <4>1
      <4>3. R[i] = Q[i - 1]
        BY <1>5, <4>1
      <4> QED BY <4>2, <4>3
    <3> QED BY <3>1, <3>2
  <2> QED BY <2>3, <2>4, <2>5, SeqEqual DEF A, P
<1>6. T = Tail(Q) /\ h = Head(Q)
  BY DEF T, h
<1> QED BY <1>3, <1>4, <1>5, <1>6

\* What is known of ring and queue in every state, n tasks being on the ring.
QueueOfRing(n) ==
  /\ n = Cardinality(Tasks) /\ n \in Nat \ {0}
  /\ Counts(Following, n, Tasks, cur) /\ \A i \in Nat : Following[i + 1] = next[Following[i]]
  /\ Queue \in Seq(Processes) /\ Len(Queue) = n
  /\ \A i \in 1..n : Queue[i] = ProcessOf(Following[i - 1])

LEMMA QueueNow == RingInv => QueueOfRing(Cardinality(Tasks))
  BY RingFollows, QueueHas, QueueTypes DEF QueueOfRing

LEMMA QueueThen == RingInv' => QueueOfRing(Cardinality(Tasks))'
  BY QueueNow, PTL

LEMMA RunStep ==
  ASSUME RingInv, RingInv', run
  PROVE  RR!Run
<1> DEFINE n == Cardinality(Tasks)
           Q == Queue
<1>1. PICK m \in 0..LastPoint : cpu' = [cpu EXCEPT !.at = m]
  BY DEF run
<1>2. UNCHANGED <<cur, next, prev, stackPtr, regs, heap>> /\ Tasks' = Tasks
      /\ Following' = Following
  BY FollowingIs DEF run, Tasks
<1>3. QueueOfRing(n)
  BY QueueNow
<1>4. n \in Nat \ {0}
  BY <1>3 DEF QueueOfRing
<1> HIDE DEF n
<1>5. Q = [i \in 1..n |-> ProcessOf(Following[i - 1])]
      /\ Q' = [i \in 1..n |-> ProcessOf(Following[i - 1])']
  BY <1>2, QueueIs DEF n
<1>6. ProcessOf(cur)' = [ProcessOf(cur) EXCEPT !.at = m]
  <2>1. cpu \in Registers
    BY DEF RingInv, TypeOK
  <2>2. cpu'.fn = cpu.fn /\ cpu'.at = m
    BY <1>1, <2>1 DEF Registers
  <2> QED BY <1>2, <2>2 DEF ProcessOf, ProcessIn
<1>7. ASSUME NEW i \in 1..n,
               i # 1 PROVE ProcessOf(Following[i - 1])' = ProcessOf(Following[i - 1])
  <2>1. Following[i - 1] # cur
    <3>1. i - 1 \in 0..(n - 1) /\ 0 \in 0..(n - 1) /\ i - 1 # 0
      BY <1>4, <1>7
    <3> QED BY <1>3, <3>1 DEF QueueOfRing, Counts
  <2> QED BY <1>2, <2>1 DEF ProcessOf, ProcessIn
<1>8. 1 \in 1..n /\ n \in Nat /\ Following[1 - 1] = cur /\ Following'[1 - 1] = cur
  <2>1. 1 - 1 = 0
    OBVIOUS
  <2> QED BY <1>2, <1>3, <2>1 DEF QueueOfRing, Counts
<1>9. ProcessOf(Following[1 - 1])' = ProcessOf(cur)' /\ Q[1] = ProcessOf(cur)
  <2>1. (Following[1 - 1])' = cur'
    BY <1>2, <1>8
  <2> QED BY <1>5, <1>8, <2>1 DEF ProcessOf, ProcessIn
<1>10. Q' = [Q EXCEPT ![1].at = m]
  <2> DEFINE new(i) == ProcessOf(Following[i - 1])'
             old(i) == ProcessOf(Following[i - 1])
  <2>1. Q = [i \in 1..n |-> old(i)] /\ Q' = [i \in 1..n |-> new(i)]
    BY <1>5
  <2>2. new(1) = [old(1) EXCEPT !.at = m] /\ \A i \in 1..n : i # 1 => new(i) = old(i)
    BY <1>5, <1>6, <1>7, <1>8, <1>9
  <2> HIDE DEF new, old, Q
  <2>3. [Q EXCEPT ![1].at = m] =
          [i \in 1..n |-> IF i = 1 THEN [old(1) EXCEPT !.at = m] ELSE old(i)]
    BY <1>8, <2>1
  <2>4. \A i \in 1..n : new(i) = IF i = 1 THEN [old(1) EXCEPT !.at = m] ELSE old(i)
    BY <2>2
  <2> QED BY <2>1, <2>3, <2>4
<1> QED BY <1>1, <1>10 DEF RR!Run

LEMMA YieldStep ==
  ASSUME RingInv, RingInv', yield
  PROVE  RR!Yield
<1> DEFINE n == Cardinality(Tasks)
           Q == Queue
           R == Queue'
<1>1. Tasks' = Tasks /\ next' = next /\ cur' = next[cur] /\ regs' = Saved /\ cpu' = regs'[cur']
  BY DEF yield, NextTask, Tasks
<1>2. QueueOfRing(n)
  BY QueueNow
<1>3. QueueOfRing(n)'
  BY QueueThen
<1>4. n \in Nat \ {0} /\ n' = n
  BY <1>1, <1>2 DEF QueueOfRing
<1>5. \A i \in Nat : Following'[i] = Following[i + 1]
  <2> DEFINE q == [i \in Nat |-> Following[i + 1]]
  <2>1. q[0] = next[cur]
    <3>1. 0 \in Nat /\ Following[0] = cur /\ 0 + 1 = 1
      BY <1>2 DEF QueueOfRing, Counts
    <3> QED BY <1>2, <3>1 DEF QueueOfRing
  <2>2. ASSUME NEW i \in Nat PROVE q[i + 1] = next[q[i]]
    BY <1>2 DEF QueueOfRing
  <2>3. ASSUME NEW i \in Nat PROVE Path(next, next[cur])[i] = q[i]
    <3>1. i \in 0..i
      OBVIOUS
    <3> HIDE DEF q
    <3> QED BY <2>1, <2>2, <3>1, PathAgrees
  <2> QED BY <1>1, <2>3, FollowingIs
<1>6. \A t \in Tasks : ProcessIn(cur', cpu', regs', t) = ProcessOf(t)
  <2>1. regs'[cur] = cpu /\ \A t \in Tasks \ {cur} : regs'[t] = regs[t]
    BY <1>1 DEF RingInv, TypeOK, Saved, Tasks
  <2> QED BY <1>1, <2>1 DEF ProcessOf, ProcessIn
<1> HIDE DEF n
<1>7. /\ Q \in Seq(Processes) /\ Len(Q) = n /\ \A i \in 1..n : Q[i] = ProcessOf(Following[i - 1])
      /\ R \in Seq(Processes) /\ Len(R) = n
      /\ \A i \in 1..n : R[i] = ProcessOf(Following[i - 1])'
  BY <1>2, <1>3, <1>4 DEF QueueOfRing, Processes
<1> HIDE DEF Q, R
<1>8. \A i \in 1..n : R[i] = ProcessOf(Following[i])
  <2>1. ASSUME NEW i \in 1..n PROVE R[i] = ProcessOf(Following[i])
    <3>1. i - 1 \in Nat /\ (i - 1) + 1 = i /\ i \in Nat
      BY <1>4
    <3>2. Following'[i - 1] = Following[i]
      BY <1>5, <3>1
    <3>3. Following[i] \in Tasks
      BY <1>2, <3>1 DEF QueueOfRing, Counts
    <3>4. ProcessOf(Following[i - 1])' = ProcessIn(cur', cpu', regs', Following[i])
      BY <3>2 DEF ProcessOf
    <3>5. ProcessOf(Following[i - 1])' = ProcessOf(Following[i])
      BY <1>6, <3>3, <3>4
    <3> QED BY <1>7, <3>5
  <2> QED BY <2>1
<1>9. R[n] = Q[1] /\ \A i \in 1..(n - 1) : R[i] = Q[i + 1]
  <2>1. n \in 1..n /\ 1 \in 1..n /\ 1 - 1 = 0
    BY <1>4
  <2>2. Following[n] = cur /\ Following[0] = cur
    BY <1>2 DEF QueueOfRing, Counts
  <2>3. R[n] = Q[1]
    BY <1>7, <1>8, <2>1, <2>2
  <2>4. ASSUME NEW i \in 1..(n - 1) PROVE R[i] = Q[i + 1]
    <3>1. i \in 1..n /\ i + 1 \in 1..n /\ (i + 1) - 1 = i
      BY <1>4
    <3> QED BY <1>7, <1>8, <3>1
  <2> QED BY <2>3, <2>4
<1>10. Q # <<>>
  BY <1>4, <1>7, EmptySeq
<1>11. R = Append(Tail(Q), Head(Q))
  BY <1>7, <1>9, <1>10, QueueOps
<1> QED BY <1>11 DEF RR!Yield, Q, R

LEMMA ReturnStep ==
  ASSUME RingInv, RingInv', return
  PROVE  RR!Return
<1> DEFINE n == Cardinality(Tasks)
           Q == Queue
           R == Queue'
           F == Following
<1>1. /\ Tasks' = Tasks \ {cur} /\ cur \in Tasks /\ next[cur] # cur /\ cpu.fn = "once"
      /\ cur' = next[cur] /\ cpu' = regs[next[cur]]
      /\ regs' = [regs EXCEPT ![cur] = Blank] /\ next' = NextAfterDelete
  BY DeleteTasks DEF return, RingInv, Linked, Ends
<1>2. QueueOfRing(n)
  BY QueueNow
<1>3. QueueOfRing(n)'
  BY QueueThen
<1>4. n \in Nat \ {0} /\ n' = n - 1 /\ n - 1 \in Nat \ {0}
  <2>1. IsFiniteSet(Tasks) /\ n \in Nat \ {0}
    BY <1>2, CountsAll DEF QueueOfRing
  <2>2. Cardinality(Tasks \ {cur}) = n - 1
    BY <1>1, <2>1, FS_RemoveElement
  <2>3. n' = n - 1
    BY <1>1, <2>2
  <2>4. n' \in Nat \ {0}
    BY <1>3 DEF QueueOfRing
  <2> QED BY <2>1, <2>3, <2>4
<1> HIDE DEF n
<1>5. F[0] = cur /\ F[n] = cur /\ (\A i \in Nat : F[i] \in Tasks /\ F[i + 1] = next[F[i]])
      /\ \A i, j \in 0..(n - 1) : F[i] = F[j] => i = j
  BY <1>2 DEF QueueOfRing, Counts
<1>6. next \in [Blocks -> Blocks] /\ regs \in [Blocks -> Registers] /\ Tasks \subseteq Blocks
      /\ prev[cur] \in Tasks /\ next[prev[cur]] = cur
  BY <1>1 DEF RingInv, TypeOK, Tasks, Linked
<1>7. \A t \in Tasks : t # cur /\ next[t] # cur => next'[t] = next[t]
  BY <1>1, <1>6 DEF NextAfterDelete
<1>8. \A t \in Tasks \ {cur} : ProcessIn(cur', cpu', regs', t) = ProcessOf(t)
  BY <1>1, <1>6 DEF ProcessOf, ProcessIn
<1> HIDE DEF F
<1>9. \A i \in 0..(n - 2) : Following'[i] = F[i + 1]
  <2> DEFINE q == [i \in Nat |-> F[i + 1]]
             k == n - 2
  <2>1. k \in Nat
    BY <1>4
  <2>2. q[0] = next[cur]
    <3>1. 0 \in Nat /\ 0 + 1 = 1
      OBVIOUS
    <3> QED BY <1>5, <3>1
  <2>3. ASSUME NEW i \in Nat, i < k PROVE q[i + 1] = next'[q[i]]
    <3>1. i + 1 \in 0..(n - 1) /\ (i + 1) + 1 \in 0..(n - 1) /\ 0 \in 0..(n - 1)
          /\ i + 1 # 0 /\ (i + 1) + 1 # 0 /\ i + 1 \in Nat
      BY <1>4, <2>3
    <3>2. F[i + 1] # cur /\ F[(i + 1) + 1] # cur
      BY <1>5, <3>1
    <3>3. next[F[i + 1]] = F[(i + 1) + 1] /\ F[i + 1] \in Tasks
      BY <1>5, <3>1
    <3>4. next'[F[i + 1]] = F[(i + 1) + 1]
      BY <1>7, <3>2, <3>3
    <3> QED BY <3>1, <3>4
  <2>4. \A i \in 0..k : q[i] = F[i + 1]
    BY <2>1
  <2> HIDE DEF q, k
  <2>5. ASSUME NEW i \in 0..k PROVE Path(next', next[cur])[i] = q[i]
    BY <2>1, <2>2, <2>3, PathAgrees
  <2>6. Following' = Path(next', next[cur])
    BY <1>1, FollowingIs
  <2> QED BY <2>4, <2>5, <2>6 DEF k
<1>10. /\ Q \in Seq(Processes) /\ Len(Q) = n /\ \A i \in 1..n : Q[i] = ProcessOf(F[i - 1])
       /\ R \in Seq(Processes) /\ Len(R) = n - 1
       /\ \A i \in 1..(n - 1) : R[i] = ProcessOf(Following[i - 1])'
  BY <1>2, <1>3, <1>4 DEF QueueOfRing, Processes, F
<1> HIDE DEF Q, R
<1>11. ASSUME NEW i \in 1..(n - 1) PROVE R[i] = Q[i + 1]
  <2>1. i - 1 \in 0..(n - 2) /\ (i - 1) + 1 = i /\ i + 1 \in 1..n /\ (i + 1) - 1 = i /\ i \in Nat
        /\ i \in 0..(n - 1) /\ 0 \in 0..(n - 1) /\ i # 0
    BY <1>4
  <2>2. F[i] \in Tasks /\ F[i] # cur
    BY <1>5, <2>1
  <2>3. Following'[i - 1] = F[i]
    BY <1>9, <2>1
  <2>4. R[i] = ProcessIn(cur', cpu', regs', F[i])
    BY <1>10, <2>3 DEF ProcessOf
  <2>5. R[i] = ProcessOf(F[i])
    BY <1>8, <2>2, <2>4
  <2> QED BY <1>10, <2>1, <2>5
<1>12. Q # <<>>
  BY <1>4, <1>10, EmptySeq
<1>13. R = Tail(Q)
  BY <1>10, <1>11, <1>12, QueueOps
<1>14. Head(Q).fn = "once"
  <2>1. Head(Q) = ProcessOf(cur)
    BY QueueHas DEF Q
  <2> QED BY <1>1, <2>1 DEF ProcessOf, ProcessIn
<1> QED BY <1>13, <1>14 DEF RR!Return, Q, R

LEMMA SpawnStep ==
  ASSUME RingInv, RingInv', NEW fn \in {"once", "loop"}, NEW stack \in Free, NEW task \in Free,
         coopSpawn(fn, stack, task)
  PROVE  RR!Start
<1> DEFINE n == Cardinality(Tasks)
           Q == Queue
           R == Queue'
           F == Following
<1>1. /\ Tasks' = Tasks \cup {task} /\ task \notin Tasks /\ task \in Blocks
      /\ cur \in Tasks /\ cur' = cur /\ cpu' = cpu
      /\ regs' = [regs EXCEPT ![task] = StartRegisters(fn, stack)]
      /\ next' = NextAfterInsert(task)
  BY InsertTasks DEF coopSpawn, RingInv, Linked
<1>2. QueueOfRing(n)
  BY QueueNow
<1>3. QueueOfRing(n)'
  BY QueueThen
<1>4. n \in Nat \ {0} /\ n' = n + 1
  <2>1. IsFiniteSet(Tasks) /\ n \in Nat \ {0}
    BY <1>2, CountsAll DEF QueueOfRing
  <2>2. Cardinality(Tasks \cup {task}) = n + 1
    BY <1>1, <2>1, FS_AddElement
  <2> QED BY <1>1, <2>1, <2>2
<1> HIDE DEF n
<1>5. F[0] = cur /\ (\A i \in Nat : F[i] \in Tasks /\ F[i + 1] = next[F[i]])
      /\ \A i, j \in 0..(n - 1) : F[i] = F[j] => i = j
  BY <1>2 DEF QueueOfRing, Counts
<1>6. next \in [Blocks -> Blocks] /\ regs \in [Blocks -> Registers] /\ Tasks \subseteq Blocks
  BY DEF RingInv, TypeOK, Tasks
<1>7. /\ next'[cur] = task /\ next'[task] = next[cur]
      /\ \A t \in Tasks : t # cur => next'[t] = next[t]
  BY <1>1, <1>6 DEF NextAfterInsert
<1>8. /\ \A t \in Tasks : ProcessIn(cur', cpu', regs', t) = ProcessOf(t)
      /\ ProcessIn(cur', cpu', regs', task) = [task |-> task, fn |-> fn, at |-> 0]
  BY <1>1, <1>6 DEF ProcessOf, ProcessIn, StartRegisters
<1> HIDE DEF F
<1>9. Following'[0] = cur /\ Following'[1] = task
        /\ \A i \in 1..(n - 1) : Following'[i + 1] = F[i]
  <2> DEFINE q == [i \in Nat |-> IF i = 0 THEN cur ELSE IF i = 1 THEN task ELSE F[i - 1]]
  <2>1. q[0] = cur /\ q[1] = task /\ \A i \in 1..(n - 1) : q[i + 1] = F[i]
    <3>1. \A i \in 1..(n - 1) : i + 1 # 0 /\ i + 1 # 1 /\ (i + 1) - 1 = i /\ i + 1 \in Nat
      BY <1>4
    <3> QED BY <3>1
  <2>2. ASSUME NEW i \in Nat, i < n PROVE q[i + 1] = next'[q[i]]
    <3>1. CASE i = 0
      BY <1>7, <2>1, <3>1
    <3>2. CASE i = 1
      <4>1. q[1 + 1] = F[1] /\ F[1] = next[cur]
        <5>1. 1 \in 1..(n - 1) /\ 0 + 1 = 1 /\ 0 \in Nat
          BY <1>4, <2>2, <3>2
        <5> QED BY <1>5, <2>1, <5>1
      <4> QED BY <1>7, <2>1, <3>2, <4>1
    <3>3. CASE i # 0 /\ i # 1
      <4>1. i - 1 \in 1..(n - 1) /\ i \in 1..(n - 1) /\ (i - 1) + 1 = i /\ i - 1 \in Nat
            /\ i - 1 \in 0..(n - 1) /\ 0 \in 0..(n - 1) /\ i - 1 # 0
        BY <1>4, <2>2, <3>3
      <4>2. q[i] = F[i - 1] /\ q[i + 1] = F[i] /\ F[i] = next[F[i - 1]]
        BY <1>5, <2>1, <4>1
      <4>3. F[i - 1] \in Tasks /\ F[i - 1] # cur
        BY <1>5, <4>1
      <4> QED BY <1>7, <4>2, <4>3
    <3> QED BY <3>1, <3>2, <3>3
  <2> HIDE DEF q
  <2>3. ASSUME NEW i \in 0..n PROVE Path(next', cur)[i] = q[i]
    BY <1>4, <2>1, <2>2, PathAgrees
  <2>4. Following' = Path(next', cur)
    BY <1>1, FollowingIs
  <2>5. 0 \in 0..n /\ 1 \in 0..n /\ \A i \in 1..(n - 1) : i + 1 \in 0..n
    BY <1>4
  <2> QED BY <2>1, <2>3, <2>4, <2>5
<1>10. /\ Q \in Seq(Processes) /\ Len(Q) = n /\ \A i \in 1..n : Q[i] = ProcessOf(F[i - 1])
       /\ R \in Seq(Processes) /\ Len(R) = n + 1
       /\ \A i \in 1..(n + 1) : R[i] = ProcessOf(Following[i - 1])'
  BY <1>2, <1>3, <1>4 DEF QueueOfRing, Processes, F
<1> HIDE DEF Q, R
<1>11. R[1] = Q[1] /\ R[2] = [task |-> task, fn |-> fn, at |-> 0]
  <2>1. 1 \in 1..(n + 1) /\ 2 \in 1..(n + 1) /\ 1 - 1 = 0 /\ 2 - 1 = 1 /\ 1 \in 1..n
    BY <1>4
  <2>2. R[1] = ProcessIn(cur', cpu', regs', cur) /\ R[2] = ProcessIn(cur', cpu', regs', task)
    BY <1>9, <1>10, <2>1 DEF ProcessOf
  <2>3. Q[1] = ProcessOf(cur)
    BY <1>5, <1>10, <2>1
  <2> QED BY <1>1, <1>8, <2>2, <2>3
<1>12. ASSUME NEW i \in 2..n PROVE R[i + 1] = Q[i]
  <2>1. i - 1 \in 1..(n - 1) /\ (i - 1) + 1 = i /\ i + 1 \in 1..(n + 1) /\ (i + 1) - 1 = i
        /\ i \in 1..n /\ i - 1 \in Nat
    BY <1>4
  <2>2. Following'[i] = F[i - 1] /\ F[i - 1] \in Tasks
    BY <1>5, <1>9, <2>1
  <2>3. R[i + 1] = ProcessIn(cur', cpu', regs', F[i - 1])
    BY <1>10, <2>1, <2>2 DEF ProcessOf
  <2> QED BY <1>8, <1>10, <2>1, <2>2, <2>3
<1>13. Q # <<>>
  BY <1>4, <1>10, EmptySeq
<1>14. R = <<Head(Q), R[2]>> \o Tail(Q)
  BY <1>10, <1>11, <1>12, <1>13, QueueOps
<1>15. task \in Blocks \ RR!Names
  BY <1>1, QueueHas
<1> QED BY <1>11, <1>14, <1>15 DEF RR!Start, RR!Process, Q, R

LEMMA QueueInit == Init => RR!Init
<1> SUFFICES ASSUME Init PROVE RR!Init
  OBVIOUS
<1>1. RingInv
  BY RingInit
<1>2. PICK t \in Blocks : cur = t /\ heap = [b \in Blocks |-> IF b = t THEN "task" ELSE "free"]
  BY DEF Init
<1>3. Tasks = {t}
  BY <1>2 DEF Tasks
<1>4. Cardinality(Tasks) = 1
  BY <1>3, FS_Singleton
<1>5. Queue = [i \in 1..1 |-> ProcessOf(Following[i - 1])]
        /\ Queue[1] = ProcessOf(Following[1 - 1])
  BY <1>4, QueueIs
<1>6. Following[1 - 1] = t
  <2>1. 1 - 1 = 0
    OBVIOUS
  <2> QED BY <1>1, <1>2, <2>1, RingFollows DEF Counts
<1>7. ProcessOf(t) = [task |-> t, fn |-> "main", at |-> 0]
  BY <1>2 DEF Init, Blank, ProcessOf, ProcessIn
<1>8. Queue = <<[task |-> t, fn |-> "main", at |-> 0]>>
  <2> DEFINE x == [task |-> t, fn |-> "main", at |-> 0]
             Q == Queue
  <2>1. Q = [i \in 1..1 |-> Q[i]] /\ Q[1] = x
    BY <1>5, <1>6, <1>7
  <2> HIDE DEF x, Q
  <2>2. Q = <<x>>
    BY <2>1
  <2> QED BY <2>2 DEF x, Q
<1> QED BY <1>2, <1>8 DEF RR!Init, RR!Process

LEMMA QueueNext == RingInv /\ RingInv' /\ [Next]_vars => [RR!Next]_Queue
<1> SUFFICES ASSUME RingInv, RingInv', [Next]_vars PROVE [RR!Next]_Queue
  OBVIOUS
<1>1. CASE run
  BY <1>1, RunStep DEF RR!Next
<1>2. CASE yield
  BY <1>2, YieldStep DEF RR!Next
<1>3. CASE return
  BY <1>3, ReturnStep DEF RR!Next
<1>4. ASSUME NEW fn \in {"once", "loop"}, NEW stack \in Free, NEW task \in Free,
             coopSpawn(fn, stack, task)
      PROVE  RR!Next
  BY <1>4, SpawnStep DEF RR!Next
<1>5. CASE NoMemory \/ UNCHANGED vars
  <2>1. UNCHANGED vars
    BY <1>5 DEF NoMemory, GiveBack, vars
  <2>2. UNCHANGED <<cur, next, cpu, regs>> /\ Tasks' = Tasks
    BY <2>1 DEF vars, Tasks
  <2>3. Following' = Following
    BY <2>2, FollowingIs
  <2>4. Queue' = Queue
    BY <2>2, <2>3, QueueIs DEF ProcessOf
  <2> QED BY <2>4
<1> QED BY <1>1, <1>2, <1>3, <1>4, <1>5 DEF Next, Spawned

\* The library is the queue that RoundRobin describes, for any heap: its first process
\* runs, yielding puts it behind all others, and every one goes on where it stopped.
THEOREM RoundRobinImplemented == Spec => ImplementsRoundRobin
<1>1. RingInv /\ RingInv' /\ [Next]_vars => [RR!Next]_Queue
  BY QueueNext
<1> QED BY <1>1, QueueInit, RingAlways, PTL DEF Spec, ImplementsRoundRobin, RR!Spec
=============================================================================
