----------------------------- MODULE Scheduler ------------------------------
(***************************************************************************)
(* The cooperative scheduler (libraries/Scheduler): tasks on a circular     *)
(* doubly linked list, each with a stack and a place for its registers from *)
(* the heap.                                                               *)
(*                                                                         *)
(* The registers are what matters of them: which function a task is in, how *)
(* far it got, and on which stack.                                         *)
(***************************************************************************)
EXTENDS Naturals, FiniteSets, Sequences

CONSTANTS
  Blocks,       \* what malloc() can return
  NoStack,      \* the null pointer
  LastPoint     \* bound: a task is at one of the points 0..LastPoint of its function

ASSUME SchedulerAssumption == NoStack \notin Blocks /\ LastPoint \in Nat

VARIABLES
  cur,                      \* the running task
  next, prev, stackPtr, regs,          \* the fields of the tasks
  cpu,                      \* the registers of the processor
  heap                      \* what a block is used for

vars == <<cur, next, prev, stackPtr, regs, cpu, heap>>

\* The program's loop(), a function given to start(), and one given to startLoop(),
\* which calls it for ever.
Functions == {"main", "once", "loop"}
Registers == [fn : Functions, at : 0..LastPoint, sp : Blocks \cup {NoStack}]

Blank == [fn |-> "main", at |-> 0, sp |-> NoStack]

Tasks == {b \in Blocks : heap[b] = "task"}
Free  == {b \in Blocks : heap[b] = "free"}

TypeOK ==
  /\ cur \in Blocks
  /\ next \in [Blocks -> Blocks] /\ prev \in [Blocks -> Blocks]
  /\ stackPtr \in [Blocks -> Blocks \cup {NoStack}]
  /\ regs \in [Blocks -> Registers] /\ cpu \in Registers
  /\ heap \in [Blocks -> {"free", "task", "stack"}]

\* coopInit(), called before main(): the program itself is the only task.  It runs on
\* the stack that the processor starts with.
Init ==
  /\ cpu = Blank
  /\ \E task \in Blocks :
       /\ cur = task
       /\ next = [b \in Blocks |-> b] /\ prev = [b \in Blocks |-> b]
       /\ heap = [b \in Blocks |-> IF b = task THEN "task" ELSE "free"]
  /\ stackPtr = [b \in Blocks |-> NoStack]
  /\ regs = [b \in Blocks |-> Blank]

-----------------------------------------------------------------------------
(* coopSpawn(), called by the running task                                 *)

\* Mutant: the stack is kept when there is no memory for the task.
Mut_KeepStack(stack) == [heap EXCEPT ![stack] = "stack"]

\* Without memory for the task its stack is given back.
GiveBack(stack) == heap

NoMemory ==
  \/ UNCHANGED vars
  \/ \E stack \in Free :
       heap' = GiveBack(stack) /\ UNCHANGED <<cur, next, prev, stackPtr, regs, cpu>>

\* Mutants: the new task is not linked backwards; it starts on the stack of
\* its maker.
Mut_PrevAfterInsert(task) == [prev EXCEPT ![task] = cur]
Mut_StartRegisters(fn, stack) == [fn |-> fn, at |-> 0, sp |-> cpu.sp]

StartRegisters(fn, stack) == [fn |-> fn, at |-> 0, sp |-> stack]
NextAfterInsert(task) == [next EXCEPT ![task] = next[cur], ![cur] = task]
PrevAfterInsert(task) == [prev EXCEPT ![task] = cur, ![next[cur]] = task]

coopSpawn(fn, stack, task) ==
  /\ stack # task
  /\ heap' = [heap EXCEPT ![stack] = "stack", ![task] = "task"]
  /\ stackPtr' = [stackPtr EXCEPT ![task] = stack]
  /\ regs' = [regs EXCEPT ![task] = StartRegisters(fn, stack)]
  /\ next' = NextAfterInsert(task)
  /\ prev' = PrevAfterInsert(task)
  /\ UNCHANGED <<cur, cpu>>

Spawned == \E fn \in {"once", "loop"}, stack, task \in Free : coopSpawn(fn, stack, task)

-----------------------------------------------------------------------------
(* Switching                                                               *)

\* Mutants: the current registers are not saved; the next task does not get its turn.
Mut_Saved == regs
Mut_NextTask == cur

\* coopDoYield(): save the registers, ...
Saved == [regs EXCEPT ![cur] = cpu]
\* ... and coopSchedule(0).
NextTask == next[cur]

yield ==
  /\ regs' = Saved
  /\ cur' = NextTask
  /\ cpu' = regs'[cur']
  /\ UNCHANGED <<next, prev, stackPtr, heap>>

\* A task that comes back to coopTaskStart(): neither main() nor startLoopHelper() do.
Ends(fn) == fn = "once"

\* Its blocks are freed and it is taken off the list.  What is left in a freed block is
\* of no account: it is modelled as an empty task.
Freed == [b \in Blocks |-> IF b \in {cur, stackPtr[cur]} THEN "free" ELSE heap[b]]
NextAfterDelete == [next EXCEPT ![prev[cur]] = next[cur], ![cur] = cur]
PrevAfterDelete == [prev EXCEPT ![next[cur]] = prev[cur], ![cur] = cur]

\* coopSchedule(1), which would hang for the last task.
return ==
  /\ Ends(cpu.fn)
  /\ next[cur] # cur
  /\ heap' = Freed
  /\ next' = NextAfterDelete
  /\ prev' = PrevAfterDelete
  /\ cur' = next[cur]
  /\ cpu' = regs[next[cur]]
  /\ stackPtr' = [stackPtr EXCEPT ![cur] = NoStack]
  /\ regs' = [regs EXCEPT ![cur] = Blank]

\* The running task goes on in its own function, or round its loop.
run ==
  /\ \E n \in 0..LastPoint : cpu' = [cpu EXCEPT !.at = n]
  /\ UNCHANGED <<cur, next, prev, stackPtr, regs, heap>>

Next == run \/ yield \/ return \/ Spawned \/ NoMemory

Spec == Init /\ [][Next]_vars

-----------------------------------------------------------------------------
(* Properties                                                              *)

Linked ==
  /\ cur \in Tasks
  /\ \A t \in Tasks :
       /\ next[t] \in Tasks /\ prev[t] \in Tasks
       /\ next[prev[t]] = t /\ prev[next[t]] = t

OneRing ==
  \A S \in SUBSET Tasks : S # {} /\ (\A t \in S : next[t] \in S) => S = Tasks

\* The list of tasks is linked in both directions, across every insertion and the
\* deletion of the task that is running, and is one ring: who follows it from
\* anywhere comes to every task.
Ring == Linked /\ OneRing

\* All memory in use belongs to a task, and each stack to one, although a task frees
\* the stack it runs on and a failed spawn leaves nothing behind.
NoLeak ==
  /\ \A b \in Blocks : heap[b] = "stack" => \E t \in Tasks : stackPtr[t] = b
  /\ \A t \in Tasks :
       stackPtr[t] # NoStack =>
         /\ heap[stackPtr[t]] = "stack"
         /\ \A u \in Tasks : stackPtr[u] = stackPtr[t] => u = t

\* Every task, running or not, is on its own stack.
OwnStack ==
  /\ cpu.sp = stackPtr[cur]
  /\ \A t \in Tasks \ {cur} : regs[t].sp = stackPtr[t]

\* "Halt if last task died" (coopSchedule) never happens: the program's own task
\* outlives all others.
NeverHalts == cpu.fn = "once" => next[cur] # cur

\* The library is a round robin: the ring, read from the running task on, is a queue
\* whose members go on where they stopped.
Following[i \in Nat] == IF i = 0 THEN cur ELSE next[Following[i - 1]]
RegistersOf(t) == IF t = cur THEN cpu ELSE regs[t]
Queue ==
  [i \in 1..Cardinality(Tasks) |->
     LET t == Following[i - 1]
     IN  [task |-> t, fn |-> RegistersOf(t).fn, at |-> RegistersOf(t).at]]

RR == INSTANCE RoundRobin WITH Tasks <- Blocks, queue <- Queue
ImplementsRoundRobin == RR!Spec

\* Every task gets its turn when every running task yields or ends, and tasks are not
\* started for ever: a new one is put in front of those that wait.
FairSpec == Spec /\ WF_vars(yield \/ return) /\ <>[][~Spawned]_vars
EveryTaskRuns == \A t \in Blocks : heap[t] = "task" ~> cur = t
=============================================================================
