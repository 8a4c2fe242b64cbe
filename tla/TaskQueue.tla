----------------------------- MODULE TaskQueue -----------------------------
(***************************************************************************)
(* What the hand-off between the epoll loop and the worker pool promises:  *)
(* a first-in first-out queue of tasks, each taken by exactly one worker,  *)
(* which stays open until the server shuts down.  The mutex, the condition *)
(* variable and the stop tokens that implement it are in WorkerPool; the   *)
(* server built on top of it (EpollServer) uses Push, Pop and Release.      *)
(***************************************************************************)
EXTENDS Naturals, Sequences

CONSTANTS
  Tasks,    \* what a queue entry (a worker_params record) may be
  Workers,  \* the threads of the pool
  NoTask    \* not a task: running[w] when worker w has none

VARIABLES
  pending,  \* tasks submitted and not yet taken, oldest first
  running,  \* running[w] is the task worker w is busy with
  closed,   \* the producer has left its loop
  retired   \* the workers that have returned from consumer()

vars == <<pending, running, closed, retired>>

TypeOK ==
  /\ pending \in Seq(Tasks)
  /\ running \in [Workers -> Tasks \cup {NoTask}]
  /\ closed \in BOOLEAN
  /\ retired \in SUBSET Workers

Init ==
  /\ pending = <<>>
  /\ running = [w \in Workers |-> NoTask]
  /\ closed = FALSE
  /\ retired = {}

\* The effect of the three operations on the queue and on the workers.
Push(t) == pending' = Append(pending, t) /\ UNCHANGED running

Pop(w) ==
  /\ running[w] = NoTask
  /\ pending # <<>>
  /\ running' = [running EXCEPT ![w] = Head(pending)]
  /\ pending' = Tail(pending)

Release(w) ==
  /\ running[w] # NoTask
  /\ running' = [running EXCEPT ![w] = NoTask]
  /\ UNCHANGED pending

\* The producer appends a task.
Submit(t) == ~closed /\ Push(t) /\ UNCHANGED <<closed, retired>>

\* An idle worker that has not left takes the oldest task.
Take(w) == w \notin retired /\ Pop(w) /\ UNCHANGED <<closed, retired>>

Complete(w) == Release(w) /\ UNCHANGED <<closed, retired>>

Close ==
  /\ ~closed
  /\ closed' = TRUE
  /\ UNCHANGED <<pending, running, retired>>

\* A worker leaves the pool only after the queue is closed and only between
\* two tasks; what is still pending then may never be taken.
Retire(w) ==
  /\ closed
  /\ running[w] = NoTask
  /\ w \notin retired
  /\ retired' = retired \cup {w}
  /\ UNCHANGED <<pending, running, closed>>

Next ==
  \/ \E t \in Tasks : Submit(t)
  \/ \E w \in Workers : Take(w) \/ Complete(w) \/ Retire(w)
  \/ Close

Spec == Init /\ [][Next]_vars
=============================================================================
