-------------------------- MODULE WorkerPoolProofs --------------------------
(***************************************************************************)
(* Proofs about WorkerPool, for every pool size and any number of tasks:   *)
(* type correctness, the safety properties of the hand-off, and that the   *)
(* pool implements TaskQueue.                                              *)
(***************************************************************************)
EXTENDS WorkerPool, SequenceTheorems, TLAPS

-----------------------------------------------------------------------------
(* The inductive invariant, one part per idea. *)

\* The mutex is held exactly by the thread whose program counter says so.
LockInv ==
  /\ \A w \in Workers : pc[w] \in Locked <=> mutex = w
  /\ mpc = "push" <=> mutex = Main

\* What a worker learnt from its predicate still holds while it has the mutex.
PredicateInv ==
  \A w \in Workers :
    /\ pc[w] = "sleep" => queue = <<>>
    /\ pc[w] = "woke" => queue # <<>> \/ stop[w]
    /\ pc[w] = "get" => queue # <<>>

\* The queue holds the most recent tasks, in order; the workers hold older ones.
QueueInv ==
  /\ Len(queue) <= pushed
  /\ mpc = "push" => pushed < MaxTasks
  /\ \A i \in DOMAIN queue : queue[i] = pushed - Len(queue) + i
  /\ \A w \in Workers :
       /\ pc[w] \in Busy <=> task[w] # NoTask
       /\ task[w] <= pushed - Len(queue)
  /\ \A v, w \in Workers : v # w /\ task[v] = task[w] => task[v] = NoTask

\* How far the loop over stops has come.
StopInv ==
  /\ \A w \in Workers : stop[w] => mpc \in ShutDown
  /\ \A w \in Workers : pc[w] = "done" => stop[w]
  /\ mpc = "stop" => \A w \in Workers : w < index => stop[w]
  /\ mpc = "wake" => index <= PoolSize /\ \A w \in Workers : w <= index => stop[w]
  /\ mpc \in {"join", "exit"} => \A w \in Workers : stop[w]

\* After the last notify_all the wait set is empty, and only the worker that
\* holds the mutex can still enter it.
AllNotified ==
  \/ mpc = "stop" /\ index = PoolSize + 1
  \/ mpc \in {"join", "exit"}

OversleptInv ==
  AllNotified =>
    \A v, w \in Workers :
      pc[v] \in {"sleep", "asleep"} /\ pc[w] \in {"sleep", "asleep"} => v = w

IInv ==
  /\ TypeOK
  /\ LockInv
  /\ PredicateInv
  /\ NoMissedTask
  /\ QueueInv
  /\ StopInv
  /\ OversleptInv

-----------------------------------------------------------------------------
(* The steps of Next, by the thread that takes them. *)

WorkerStep(w) == Worker(w) \/ SpuriousWake(w)
ProducerStep == BeginPush \/ Push \/ NotifyAll
ShutdownStep ==
  LeaveLoop \/ RequestStop \/ WakeForStop \/ BeginJoin \/ Join \/ Exit

LEMMA Steps ==
  Next <=> (\E w \in Workers : WorkerStep(w)) \/ ProducerStep \/ ShutdownStep
BY DEF Next, WorkerStep, ProducerStep, ShutdownStep, MainStep

LEMMA InitInv == Init => IInv
<1>1. SUFFICES ASSUME Init PROVE IInv
  OBVIOUS
<1>2. TypeOK
  BY <1>1, PoolSizeAssumption, MaxTasksAssumption
  DEF Init, TypeOK, WorkerPC, MainPC, NoTask, Unlocked
<1>3. LockInv /\ PredicateInv /\ NoMissedTask
  BY <1>1 DEF Init, LockInv, PredicateInv, NoMissedTask, Locked, Workers,
              Unlocked, Main
<1>4. QueueInv /\ StopInv /\ OversleptInv
  BY <1>1, PoolSizeAssumption
  DEF Init, QueueInv, StopInv, OversleptInv, AllNotified, Busy, NoTask, Workers
<1>5. QED
  BY <1>2, <1>3, <1>4 DEF IInv

\* What front() and pop(), and push(), do to the ranks in the queue.
LEMMA PopRank ==
  ASSUME NEW q \in Seq(1..MaxTasks), q # <<>>
  PROVE  /\ Len(q) >= 1 /\ Len(Tail(q)) = Len(q) - 1
         /\ Head(q) = q[1]
         /\ \A i \in 1..Len(q) - 1 : Tail(q)[i] = q[i + 1]
BY HeadTailProperties, EmptySeq

LEMMA PushRank ==
  ASSUME NEW q \in Seq(1..MaxTasks), NEW t \in 1..MaxTasks
  PROVE  /\ Len(Append(q, t)) = Len(q) + 1
         /\ Append(q, t)[Len(q) + 1] = t
         /\ \A i \in 1..Len(q) : Append(q, t)[i] = q[i]
         /\ DOMAIN Append(q, t) = 1..Len(q) + 1
BY AppendProperties, LenProperties

LEMMA TypeStep == ASSUME IInv, [Next]_vars PROVE TypeOK'
<1> USE PoolSizeAssumption, MaxTasksAssumption
    DEF IInv, TypeOK, Workers, WorkerPC, MainPC, Main, Unlocked, NoTask
<1>1. ASSUME NEW w \in Workers, StartEngine(w) PROVE TypeOK'
  BY <1>1 DEF StartEngine, Goto, mainVars
<1>2. ASSUME NEW w \in Workers, TestLoop(w) PROVE TypeOK'
  BY <1>2 DEF TestLoop, Goto, mainVars
<1>3. ASSUME NEW w \in Workers, Lock(w) PROVE TypeOK'
  BY <1>3 DEF Lock, Goto, mainVars
<1>4. ASSUME NEW w \in Workers, TestPredicate(w) PROVE TypeOK'
  BY <1>4 DEF TestPredicate, Goto, mainVars
<1>5. ASSUME NEW w \in Workers, Sleep(w) PROVE TypeOK'
  BY <1>5 DEF Sleep, Goto, mainVars
<1>6. ASSUME NEW w \in Workers, SpuriousWake(w) PROVE TypeOK'
  BY <1>6 DEF SpuriousWake, Goto, mainVars
<1>7. ASSUME NEW w \in Workers, CheckStop(w) PROVE TypeOK'
  BY <1>7 DEF CheckStop, Goto, mainVars
<1>8. ASSUME NEW w \in Workers, Get(w) PROVE TypeOK'
  BY <1>8 DEF Get, Goto, mainVars, PredicateInv
<1>9. ASSUME NEW w \in Workers, Serve(w) PROVE TypeOK'
  BY <1>9 DEF Serve, Goto, mainVars
<1>10. ASSUME NEW w \in Workers, Arm(w) PROVE TypeOK'
  BY <1>10 DEF Arm, Goto, mainVars
<1>11. CASE BeginPush
  BY <1>11 DEF BeginPush, workerVars
<1>12. CASE Push
  BY <1>12 DEF Push, workerVars, QueueInv
<1>13. CASE NotifyAll
  BY <1>13 DEF NotifyAll, WakeAll
<1>14. CASE LeaveLoop
  <2>1. index' = 1 /\ 1 \in 1..PoolSize + 1
    BY <1>14 DEF LeaveLoop
  <2>2. QED
    BY <2>1, <1>14 DEF LeaveLoop, workerVars
<1>15. CASE RequestStop
  BY <1>15 DEF RequestStop, workerVars
<1>16. CASE WakeForStop
  BY <1>16 DEF WakeForStop, WakeAll, StopInv
<1>17. CASE BeginJoin
  BY <1>17 DEF BeginJoin, workerVars
<1>18. CASE Join
  BY <1>18 DEF Join, workerVars
<1>19. CASE Exit
  BY <1>19 DEF Exit, workerVars
<1>20. CASE UNCHANGED vars
  BY <1>20 DEF vars, workerVars, mainVars
<1>21. QED
  BY <1>1, <1>2, <1>3, <1>4, <1>5, <1>6, <1>7, <1>8, <1>9, <1>10, <1>11, <1>12, <1>13, <1>14, <1>15, <1>16, <1>17, <1>18, <1>19, <1>20 DEF Next, Worker, MainStep

LEMMA LockStep == ASSUME IInv, [Next]_vars PROVE LockInv'
<1> USE DEF IInv, TypeOK, LockInv, Locked, Workers, Main, Unlocked
<1>1. ASSUME NEW w \in Workers, StartEngine(w) PROVE LockInv'
  BY <1>1 DEF StartEngine, Goto, mainVars
<1>2. ASSUME NEW w \in Workers, TestLoop(w) PROVE LockInv'
  BY <1>2 DEF TestLoop, Goto, mainVars
<1>3. ASSUME NEW w \in Workers, Lock(w) PROVE LockInv'
  BY <1>3 DEF Lock, Goto, mainVars
<1>4. ASSUME NEW w \in Workers, TestPredicate(w) PROVE LockInv'
  BY <1>4 DEF TestPredicate, Goto, mainVars
<1>5. ASSUME NEW w \in Workers, Sleep(w) PROVE LockInv'
  BY <1>5 DEF Sleep, Goto, mainVars
<1>6. ASSUME NEW w \in Workers, SpuriousWake(w) PROVE LockInv'
  BY <1>6 DEF SpuriousWake, Goto, mainVars
<1>7. ASSUME NEW w \in Workers, CheckStop(w) PROVE LockInv'
  BY <1>7 DEF CheckStop, Goto, mainVars
<1>8. ASSUME NEW w \in Workers, Get(w) PROVE LockInv'
  BY <1>8 DEF Get, Goto, mainVars
<1>9. ASSUME NEW w \in Workers, Serve(w) PROVE LockInv'
  BY <1>9 DEF Serve, Goto, mainVars
<1>10. ASSUME NEW w \in Workers, Arm(w) PROVE LockInv'
  BY <1>10 DEF Arm, Goto, mainVars
<1>11. CASE BeginPush
  BY <1>11 DEF BeginPush, workerVars
<1>12. CASE Push
  BY <1>12 DEF Push, workerVars
<1>13. CASE NotifyAll
  BY <1>13 DEF NotifyAll, WakeAll
<1>14. CASE LeaveLoop
  BY <1>14 DEF LeaveLoop, workerVars
<1>15. CASE RequestStop
  BY <1>15 DEF RequestStop, workerVars
<1>16. CASE WakeForStop
  BY <1>16 DEF WakeForStop, WakeAll
<1>17. CASE BeginJoin
  BY <1>17 DEF BeginJoin, workerVars
<1>18. CASE Join
  BY <1>18 DEF Join, workerVars
<1>19. CASE Exit
  BY <1>19 DEF Exit, workerVars
<1>20. CASE UNCHANGED vars
  BY <1>20 DEF vars, workerVars, mainVars
<1>21. QED
  BY <1>1, <1>2, <1>3, <1>4, <1>5, <1>6, <1>7, <1>8, <1>9, <1>10, <1>11, <1>12, <1>13, <1>14, <1>15, <1>16, <1>17, <1>18, <1>19, <1>20 DEF Next, Worker, MainStep

LEMMA PredicateStep == ASSUME IInv, [Next]_vars PROVE PredicateInv' /\ NoMissedTask'
<1> USE DEF IInv, TypeOK, LockInv, PredicateInv, NoMissedTask, Locked, Workers, Main, Unlocked
<1>1. ASSUME NEW w \in Workers, StartEngine(w) PROVE PredicateInv' /\ NoMissedTask'
  BY <1>1 DEF StartEngine, Goto, mainVars
<1>2. ASSUME NEW w \in Workers, TestLoop(w) PROVE PredicateInv' /\ NoMissedTask'
  BY <1>2 DEF TestLoop, Goto, mainVars
<1>3. ASSUME NEW w \in Workers, Lock(w) PROVE PredicateInv' /\ NoMissedTask'
  BY <1>3 DEF Lock, Goto, mainVars
<1>4. ASSUME NEW w \in Workers, TestPredicate(w) PROVE PredicateInv' /\ NoMissedTask'
  BY <1>4 DEF TestPredicate, Goto, mainVars
<1>5. ASSUME NEW w \in Workers, Sleep(w) PROVE PredicateInv' /\ NoMissedTask'
  BY <1>5 DEF Sleep, Goto, mainVars
<1>6. ASSUME NEW w \in Workers, SpuriousWake(w) PROVE PredicateInv' /\ NoMissedTask'
  BY <1>6 DEF SpuriousWake, Goto, mainVars
<1>7. ASSUME NEW w \in Workers, CheckStop(w) PROVE PredicateInv' /\ NoMissedTask'
  BY <1>7 DEF CheckStop, Goto, mainVars
<1>8. ASSUME NEW w \in Workers, Get(w) PROVE PredicateInv' /\ NoMissedTask'
  BY <1>8 DEF Get, Goto, mainVars
<1>9. ASSUME NEW w \in Workers, Serve(w) PROVE PredicateInv' /\ NoMissedTask'
  BY <1>9 DEF Serve, Goto, mainVars
<1>10. ASSUME NEW w \in Workers, Arm(w) PROVE PredicateInv' /\ NoMissedTask'
  BY <1>10 DEF Arm, Goto, mainVars
<1>11. CASE BeginPush
  BY <1>11 DEF BeginPush, workerVars
<1>12. CASE Push
  BY <1>12 DEF Push, workerVars
<1>13. CASE NotifyAll
  BY <1>13 DEF NotifyAll, WakeAll
<1>14. CASE LeaveLoop
  BY <1>14 DEF LeaveLoop, workerVars
<1>15. CASE RequestStop
  BY <1>15 DEF RequestStop, workerVars
<1>16. CASE WakeForStop
  BY <1>16 DEF WakeForStop, WakeAll
<1>17. CASE BeginJoin
  BY <1>17 DEF BeginJoin, workerVars
<1>18. CASE Join
  BY <1>18 DEF Join, workerVars
<1>19. CASE Exit
  BY <1>19 DEF Exit, workerVars
<1>20. CASE UNCHANGED vars
  BY <1>20 DEF vars, workerVars, mainVars
<1>21. QED
  BY <1>1, <1>2, <1>3, <1>4, <1>5, <1>6, <1>7, <1>8, <1>9, <1>10, <1>11, <1>12, <1>13, <1>14, <1>15, <1>16, <1>17, <1>18, <1>19, <1>20 DEF Next, Worker, MainStep

LEMMA QueueStep == ASSUME IInv, [Next]_vars PROVE QueueInv'
<1> USE MaxTasksAssumption
    DEF IInv, TypeOK, QueueInv, Busy, Workers, NoTask
<1>1. ASSUME NEW w \in Workers, StartEngine(w) PROVE QueueInv'
  BY <1>1 DEF StartEngine, Goto, mainVars
<1>2. ASSUME NEW w \in Workers, TestLoop(w) PROVE QueueInv'
  BY <1>2 DEF TestLoop, Goto, mainVars
<1>3. ASSUME NEW w \in Workers, Lock(w) PROVE QueueInv'
  BY <1>3 DEF Lock, Goto, mainVars
<1>4. ASSUME NEW w \in Workers, TestPredicate(w) PROVE QueueInv'
  BY <1>4 DEF TestPredicate, Goto, mainVars
<1>5. ASSUME NEW w \in Workers, Sleep(w) PROVE QueueInv'
  BY <1>5 DEF Sleep, Goto, mainVars
<1>6. ASSUME NEW w \in Workers, SpuriousWake(w) PROVE QueueInv'
  BY <1>6 DEF SpuriousWake, Goto, mainVars
<1>7. ASSUME NEW w \in Workers, CheckStop(w) PROVE QueueInv'
  BY <1>7 DEF CheckStop, Goto, mainVars
<1>8. ASSUME NEW w \in Workers, Get(w) PROVE QueueInv'
  <2> DEFINE taken == pushed - Len(queue) + 1
  <2>1. /\ queue # <<>>
        /\ queue' = Tail(queue)
        /\ task' = [task EXCEPT ![w] = Head(queue)]
        /\ pc' = [pc EXCEPT ![w] = "serve"]
        /\ UNCHANGED <<pushed, mpc>>
    BY <1>8 DEF Get, Goto, PredicateInv, mainVars
  <2>2. Head(queue) = taken /\ Len(queue') = Len(queue) - 1 /\ Len(queue) >= 1
    BY <2>1, PopRank
  <2>3. \A i \in DOMAIN queue' : queue'[i] = pushed' - Len(queue') + i
    <3>1. \A i \in 1..Len(queue) - 1 : queue'[i] = queue[i + 1]
      BY <2>1, PopRank
    <3>2. QED
      BY <3>1, <2>1, <2>2
  <2>4. taken # NoTask /\ \A v \in Workers : task[v] # taken
    BY <2>2
  <2>5. \A u, v \in Workers : u # v /\ task'[u] = task'[v] => task'[u] = NoTask
    BY <2>1, <2>2, <2>4
  <2>6. ASSUME NEW v \in Workers
        PROVE  /\ pc'[v] \in Busy <=> task'[v] # NoTask
               /\ task'[v] <= pushed' - Len(queue')
    <3>1. pc'[w] = "serve" /\ task'[w] = taken
      BY <2>1, <2>2
    <3>2. v # w => pc'[v] = pc[v] /\ task'[v] = task[v]
      BY <2>1
    <3>3. /\ pc[v] \in Busy <=> task[v] # NoTask
          /\ task[v] <= pushed - Len(queue)
          /\ task[v] \in Int /\ pushed \in Int /\ Len(queue) \in Int
      OBVIOUS
    <3>4. pushed' = pushed /\ Len(queue') = Len(queue) - 1 /\ taken # NoTask
      BY <2>1, <2>2, <2>4
    <3> HIDE DEF IInv, TypeOK, QueueInv, Workers, NoTask
    <3>5. CASE v = w
      BY <3>1, <3>3, <3>4, <3>5
    <3>6. CASE v # w
      BY <3>2, <3>3, <3>4, <3>6
    <3>7. QED
      BY <3>5, <3>6
  <2>7. Len(queue') <= pushed' /\ (mpc' = "push" => pushed' < MaxTasks)
    BY <2>1, <2>2
  <2> HIDE DEF IInv, TypeOK, Workers, NoTask, Busy, taken
  <2>8. QED
    BY <2>3, <2>5, <2>6, <2>7
<1>9. ASSUME NEW w \in Workers, Serve(w) PROVE QueueInv'
  BY <1>9 DEF Serve, Goto, mainVars
<1>10. ASSUME NEW w \in Workers, Arm(w) PROVE QueueInv'
  BY <1>10 DEF Arm, Goto, mainVars
<1>11. CASE BeginPush
  BY <1>11 DEF BeginPush, workerVars
<1>12. CASE Push
  <2>1. /\ queue' = Append(queue, pushed + 1)
        /\ pushed' = pushed + 1
        /\ mpc' = "notify"
        /\ UNCHANGED <<pc, task>>
    BY <1>12 DEF Push, workerVars
  <2>2. pushed + 1 \in 1..MaxTasks
    BY <1>12 DEF Push
  <2>3. Len(queue') = Len(queue) + 1
    BY <2>1, <2>2, PushRank
  <2>4. \A i \in DOMAIN queue' : queue'[i] = pushed' - Len(queue') + i
    <3>1. /\ queue'[Len(queue) + 1] = pushed + 1
          /\ \A i \in 1..Len(queue) : queue'[i] = queue[i]
      BY <2>1, <2>2, PushRank
    <3>2. DOMAIN queue' = 1..Len(queue) + 1
      BY <2>1, <2>2, PushRank
    <3>3. /\ \A i \in 1..Len(queue) : queue[i] = pushed - Len(queue) + i
          /\ pushed \in Nat /\ Len(queue) \in Nat
      OBVIOUS
    <3> HIDE DEF IInv, TypeOK, QueueInv
    <3>4. QED
      BY <3>1, <3>2, <3>3, <2>1, <2>3
  <2>5. QED
    BY <2>1, <2>3, <2>4
<1>13. CASE NotifyAll
  BY <1>13 DEF NotifyAll, WakeAll
<1>14. CASE LeaveLoop
  BY <1>14 DEF LeaveLoop, workerVars
<1>15. CASE RequestStop
  BY <1>15 DEF RequestStop, workerVars
<1>16. CASE WakeForStop
  BY <1>16 DEF WakeForStop, WakeAll
<1>17. CASE BeginJoin
  BY <1>17 DEF BeginJoin, workerVars
<1>18. CASE Join
  BY <1>18 DEF Join, workerVars
<1>19. CASE Exit
  BY <1>19 DEF Exit, workerVars
<1>20. CASE UNCHANGED vars
  BY <1>20 DEF vars, workerVars, mainVars
<1>21. QED
  BY <1>1, <1>2, <1>3, <1>4, <1>5, <1>6, <1>7, <1>8, <1>9, <1>10, <1>11, <1>12, <1>13, <1>14, <1>15, <1>16, <1>17, <1>18, <1>19, <1>20 DEF Next, Worker, MainStep

LEMMA StopStep == ASSUME IInv, [Next]_vars PROVE StopInv' /\ OversleptInv'
<1> USE PoolSizeAssumption
    DEF IInv, TypeOK, StopInv, OversleptInv, AllNotified, ShutDown, Workers
<1>1. ASSUME NEW w \in Workers, StartEngine(w) PROVE StopInv' /\ OversleptInv'
  BY <1>1 DEF StartEngine, Goto, mainVars
<1>2. ASSUME NEW w \in Workers, TestLoop(w) PROVE StopInv' /\ OversleptInv'
  BY <1>2 DEF TestLoop, Goto, mainVars
<1>3. ASSUME NEW w \in Workers, Lock(w) PROVE StopInv' /\ OversleptInv'
  BY <1>3 DEF Lock, Goto, mainVars
<1>4. ASSUME NEW w \in Workers, TestPredicate(w) PROVE StopInv' /\ OversleptInv'
  BY <1>4 DEF TestPredicate, Goto, mainVars, LockInv, Locked
<1>5. ASSUME NEW w \in Workers, Sleep(w) PROVE StopInv' /\ OversleptInv'
  BY <1>5 DEF Sleep, Goto, mainVars
<1>6. ASSUME NEW w \in Workers, SpuriousWake(w) PROVE StopInv' /\ OversleptInv'
  BY <1>6 DEF SpuriousWake, Goto, mainVars
<1>7. ASSUME NEW w \in Workers, CheckStop(w) PROVE StopInv' /\ OversleptInv'
  BY <1>7 DEF CheckStop, Goto, mainVars
<1>8. ASSUME NEW w \in Workers, Get(w) PROVE StopInv' /\ OversleptInv'
  BY <1>8 DEF Get, Goto, mainVars
<1>9. ASSUME NEW w \in Workers, Serve(w) PROVE StopInv' /\ OversleptInv'
  BY <1>9 DEF Serve, Goto, mainVars
<1>10. ASSUME NEW w \in Workers, Arm(w) PROVE StopInv' /\ OversleptInv'
  BY <1>10 DEF Arm, Goto, mainVars
<1>11. CASE BeginPush
  BY <1>11 DEF BeginPush, workerVars
<1>12. CASE Push
  BY <1>12 DEF Push, workerVars
<1>13. CASE NotifyAll
  BY <1>13 DEF NotifyAll, WakeAll
<1>14. CASE LeaveLoop
  <2>1. mpc' = "stop" /\ index' = 1 /\ UNCHANGED <<pc, stop>>
    BY <1>14 DEF LeaveLoop, workerVars
  <2>2. StopInv'
    BY <2>1
  <2>3. OversleptInv'
    <3>1. AllNotified' => Workers = {}
      BY <2>1
    <3>2. QED
      BY <3>1
  <2>4. QED
    BY <2>2, <2>3
<1>15. CASE RequestStop
  BY <1>15 DEF RequestStop, workerVars
<1>16. CASE WakeForStop
  BY <1>16 DEF WakeForStop, WakeAll, LockInv, Locked
<1>17. CASE BeginJoin
  BY <1>17 DEF BeginJoin, workerVars
<1>18. CASE Join
  BY <1>18 DEF Join, workerVars
<1>19. CASE Exit
  BY <1>19 DEF Exit, workerVars
<1>20. CASE UNCHANGED vars
  BY <1>20 DEF vars, workerVars, mainVars
<1>21. QED
  BY <1>1, <1>2, <1>3, <1>4, <1>5, <1>6, <1>7, <1>8, <1>9, <1>10, <1>11, <1>12, <1>13, <1>14, <1>15, <1>16, <1>17, <1>18, <1>19, <1>20 DEF Next, Worker, MainStep

LEMMA Inductive == IInv /\ [Next]_vars => IInv'
BY TypeStep, LockStep, PredicateStep, QueueStep, StopStep DEF IInv

LEMMA Invariance == Spec => []IInv
BY InitInv, Inductive, PTL DEF Spec

-----------------------------------------------------------------------------
(* The theorems. *)

\* The variables keep their types: the task a worker holds was pushed, and the
\* loops over stops and over the pool stay within it.
THEOREM TypeCorrectness == Spec => []TypeOK
<1>1. IInv => TypeOK
  BY DEF IInv
<1>2. QED
  BY <1>1, Invariance, PTL

\* m_queue.front() is never called on an empty queue.
THEOREM FrontDefined == Spec => []FrontNonEmpty
<1>1. IInv => FrontNonEmpty
  BY DEF IInv, PredicateInv, FrontNonEmpty
<1>2. QED
  BY <1>1, Invariance, PTL

\* No worker sleeps on a queued task once notify_all has been called for it.
THEOREM NoLostWakeup == Spec => []NoMissedTask
<1>1. IInv => NoMissedTask
  BY DEF IInv
<1>2. QED
  BY <1>1, Invariance, PTL

\* A task is held by one worker, and is no longer queued then.
THEOREM UniqueHolder == Spec => []HeldOnce
<1>1. IInv => HeldOnce
  <2>1. SUFFICES ASSUME IInv PROVE HeldOnce
    OBVIOUS
  <2>2. \A v, w \in Workers : v # w /\ task[v] = task[w] => task[v] = NoTask
    BY <2>1 DEF IInv, QueueInv
  <2>3. ASSUME NEW w \in Workers, NEW i \in DOMAIN queue
        PROVE  queue[i] # task[w]
    <3>1. queue[i] = pushed - Len(queue) + i /\ task[w] <= pushed - Len(queue)
      BY <2>1 DEF IInv, QueueInv
    <3>2. /\ i \in Int /\ i > 0
          /\ task[w] \in Int /\ pushed \in Int /\ Len(queue) \in Int
      BY <2>1, MaxTasksAssumption DEF IInv, TypeOK
    <3>3. QED
      BY <3>1, <3>2
  <2>4. QED
    BY <2>2, <2>3 DEF HeldOnce
<1>2. QED
  BY <1>1, Invariance, PTL

\* However the shutdown loop races with the pool, it leaves at most one worker
\* asleep.
THEOREM OneOverslept == Spec => []AtMostOneOverslept
<1>1. IInv => AtMostOneOverslept
  BY DEF IInv, OversleptInv, AllNotified, AtMostOneOverslept
<1>2. QED
  BY <1>1, Invariance, PTL

-----------------------------------------------------------------------------
(* Refinement. *)

Retired == {v \in Workers : pc[v] = "done"}

LEMMA RetiredSame ==
  ASSUME TypeOK, NEW w \in Workers, NEW to, pc' = [pc EXCEPT ![w] = to],
         pc[w] # "done", to # "done"
  PROVE  Retired' = Retired
BY DEF TypeOK, Retired

LEMMA RetiredOneMore ==
  ASSUME TypeOK, NEW w \in Workers, pc' = [pc EXCEPT ![w] = "done"]
  PROVE  Retired' = Retired \cup {w}
BY DEF TypeOK, Retired

LEMMA RetiredAfterWake ==
  ASSUME TypeOK, WakeAll PROVE Retired' = Retired
BY DEF TypeOK, Retired, WakeAll

LEMMA WorkerRefines ==
  ASSUME IInv, NEW w \in Workers, WorkerStep(w)
  PROVE  [Queue!Next]_(Queue!vars)
<1> USE DEF IInv
<1>1. TypeOK
  OBVIOUS
<1>2. CASE Get(w)
  <2>1. /\ queue # <<>> /\ task[w] = NoTask /\ pc[w] = "get"
        /\ task' = [task EXCEPT ![w] = Head(queue)]
        /\ queue' = Tail(queue)
        /\ pc' = [pc EXCEPT ![w] = "serve"]
        /\ mpc' = mpc
    BY <1>2 DEF Get, Goto, mainVars, PredicateInv, QueueInv, Busy
  <2>2. Retired' = Retired
    BY <1>1, <2>1, RetiredSame
  <2>3. Queue!Take(w)
    BY <2>1, <2>2 DEF Queue!Take, Queue!Pop, Retired
  <2>4. QED
    BY <2>3 DEF Queue!Next
<1>3. CASE Arm(w)
  <2>1. /\ task[w] # NoTask /\ pc[w] = "arm"
        /\ task' = [task EXCEPT ![w] = NoTask]
        /\ pc' = [pc EXCEPT ![w] = "while"]
        /\ UNCHANGED <<queue, mpc>>
    BY <1>3 DEF Arm, Goto, mainVars, QueueInv, Busy
  <2>2. Retired' = Retired
    BY <1>1, <2>1, RetiredSame
  <2>3. Queue!Complete(w)
    BY <2>1, <2>2 DEF Queue!Complete, Queue!Release, Retired
  <2>4. QED
    BY <2>3 DEF Queue!Next
<1>4. CASE stop[w] /\ (CheckStop(w) \/ TestLoop(w))
  <2>1. /\ pc[w] \in {"woke", "while"}
        /\ pc' = [pc EXCEPT ![w] = "done"]
        /\ UNCHANGED <<queue, task, mpc>>
    BY <1>4 DEF CheckStop, TestLoop, Goto, mainVars
  <2>2. mpc \in ShutDown /\ task[w] = NoTask /\ w \notin Retired
    BY <1>4, <2>1 DEF StopInv, QueueInv, Busy, Retired
  <2>3. Retired' = Retired \cup {w}
    BY <1>1, <2>1, RetiredOneMore
  <2>4. Queue!Retire(w)
    BY <2>1, <2>2, <2>3 DEF Queue!Retire, Retired
  <2>5. QED
    BY <2>4 DEF Queue!Next
<1>5. CASE /\ \/ StartEngine(w) \/ TestLoop(w) \/ Lock(w) \/ TestPredicate(w)
              \/ Sleep(w) \/ CheckStop(w) \/ Serve(w) \/ SpuriousWake(w)
           /\ ~(stop[w] /\ (CheckStop(w) \/ TestLoop(w)))
  <2>1. /\ pc[w] # "done"
        /\ \E to \in WorkerPC \ {"done"} : pc' = [pc EXCEPT ![w] = to]
        /\ UNCHANGED <<queue, task, mpc>>
    BY <1>5 DEF StartEngine, TestLoop, Lock, TestPredicate, Sleep, CheckStop,
                Serve, SpuriousWake, Goto, mainVars, WorkerPC
  <2>2. Retired' = Retired
    BY <1>1, <2>1, RetiredSame
  <2>3. QED
    BY <2>1, <2>2 DEF Queue!vars, Retired
<1>6. QED
  BY <1>2, <1>3, <1>4, <1>5 DEF WorkerStep, Worker

\* The pool, with its mutex, condition variable and stop tokens, implements
\* the first-in first-out queue of TaskQueue, shutdown included.
THEOREM Refinement == Spec => ImplementsTaskQueue
<1>1. Init => Queue!Init
  BY DEF Init, Queue!Init, ShutDown
<1>2. ASSUME IInv, [Next]_vars PROVE [Queue!Next]_(Queue!vars)
  <2>1. TypeOK
    BY <1>2 DEF IInv
  <2>2. CASE Push
    <3>1. pushed + 1 \in 1..MaxTasks
      <4>1. pushed \in Nat /\ pushed < MaxTasks
        BY <1>2, <2>2, MaxTasksAssumption DEF Push, IInv, TypeOK, QueueInv
      <4>2. QED
        BY <4>1, MaxTasksAssumption
    <3>2. Queue!Submit(pushed + 1)
      BY <2>2 DEF Push, Queue!Submit, Queue!Push, workerVars, ShutDown
    <3>3. QED
      BY <3>1, <3>2 DEF Queue!Next
  <2>3. CASE BeginPush \/ NotifyAll
    <3>1. Retired' = Retired /\ UNCHANGED <<queue, task>>
      BY <2>1, <2>3, RetiredAfterWake
      DEF BeginPush, NotifyAll, workerVars, Retired
    <3>2. QED
      BY <2>3, <3>1 DEF BeginPush, NotifyAll, Queue!vars, Retired, ShutDown
  <2>4. CASE LeaveLoop
    <3>1. Queue!Close
      BY <2>4 DEF LeaveLoop, Queue!Close, workerVars, ShutDown
    <3>2. QED
      BY <3>1 DEF Queue!Next
  <2>5. CASE RequestStop \/ WakeForStop \/ BeginJoin \/ Join \/ Exit
    <3>1. Retired' = Retired /\ UNCHANGED <<queue, task>>
      BY <2>1, <2>5, RetiredAfterWake
      DEF RequestStop, WakeForStop, BeginJoin, Join, Exit, workerVars, Retired
    <3>2. QED
      BY <2>5, <3>1 DEF RequestStop, WakeForStop, BeginJoin, Join, Exit,
                        Queue!vars, Retired, ShutDown
  <2>6. CASE UNCHANGED vars
    BY <2>6 DEF vars, workerVars, mainVars, Queue!vars
  <2>7. QED
    BY <1>2, <2>2, <2>3, <2>4, <2>5, <2>6, Steps, WorkerRefines
    DEF ProducerStep, ShutdownStep
<1>3. QED
  BY <1>1, <1>2, Invariance, PTL DEF Spec, Queue!Spec, ImplementsTaskQueue
=============================================================================
