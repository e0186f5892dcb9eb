----------------------------- MODULE RoundRobin -----------------------------
(***************************************************************************)
(* What the Scheduler library promises: a queue of processes, of which the  *)
(* first one runs.  It goes to the end of the queue when it yields, and     *)
(* every process goes on where it stopped.                                  *)
(***************************************************************************)
EXTENDS Naturals, Sequences

CONSTANTS
  Tasks,        \* the names that processes can have
  LastPoint     \* a process is at one of the points 0..LastPoint of its code

VARIABLE queue

Process(t, fn, at) == [task |-> t, fn |-> fn, at |-> at]

Init == \E t \in Tasks : queue = <<Process(t, "main", 0)>>

Names == {queue[i].task : i \in DOMAIN queue}

\* The running process starts another one, which is the next to run.
Start ==
  \E t \in Tasks \ Names, fn \in {"once", "loop"} :
    queue' = <<Head(queue), Process(t, fn, 0)>> \o Tail(queue)

\* It goes on, within its function or round its loop ...
Run == \E n \in 0..LastPoint : queue' = [queue EXCEPT ![1].at = n]

\* ... lets the others run ...
Yield == queue' = Append(Tail(queue), Head(queue))

\* ... or is done.
Return == Head(queue).fn = "once" /\ queue' = Tail(queue)

Next == Start \/ Run \/ Yield \/ Return

Spec == Init /\ [][Next]_queue
=============================================================================
