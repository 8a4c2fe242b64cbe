---------------------------- MODULE WorkerPool -----------------------------
(***************************************************************************)
(* The worker pool of main.cpp: consumer(), the producer side of           *)
(* start_epoll() and the shutdown sequence of start_server(), at the       *)
(* granularity of the mutex m_mutex, the condition variable m_cond and the *)
(* stop tokens.                                                            *)
(*                                                                         *)
(* The main thread pushes worker_params on m_queue under m_mutex and calls *)
(* notify_all after it has released it.  Each worker waits on m_cond with  *)
(* a predicate that reads the queue and its own stop token.  The stop      *)
(* flags are set, and the last notifications sent, WITHOUT the mutex.      *)
(*                                                                         *)
(* A task is named by its rank: the n-th push is task n.                   *)
(***************************************************************************)
EXTENDS Integers, Sequences, FiniteSets

CONSTANTS
  PoolSize,   \* env::pool_size(), the number of worker threads
  MaxTasks,   \* bound: the number of tasks the main thread pushes
  MaySignal   \* whether SIGTERM, SIGINT or SIGQUIT may arrive

ASSUME PoolSizeAssumption == PoolSize \in Nat
ASSUME MaxTasksAssumption == MaxTasks \in Nat
ASSUME MaySignalAssumption == MaySignal \in BOOLEAN

Workers == 1..PoolSize
Main == 0
Unlocked == -1
NoTask == 0

VARIABLES
  queue,    \* m_queue
  mutex,    \* m_mutex: the thread that holds it, or Unlocked
  pc,       \* pc[w]: where worker w is in consumer()
  task,     \* task[w]: its local params, from pop() to epoll_ctl()
  stop,     \* stop[w]: stops[w].stop_requested()
  mpc,      \* where the main thread is
  index,    \* the worker the shutdown or join loop of main is at
  pushed,   \* how many tasks were pushed so far
  buffers   \* the request objects of start_epoll's map still exist

workerVars == <<pc, task>>
mainVars == <<mpc, index, stop, pushed, buffers>>
vars == <<queue, mutex, workerVars, mainVars>>

\* "asleep" is the wait set of m_cond; "pred" to "get" run under m_mutex.
WorkerPC == {"init", "while", "lock", "pred", "sleep", "asleep",
             "woke", "get", "serve", "arm", "done"}
Locked == {"pred", "sleep", "woke", "get"}
Busy == {"serve", "arm"}

MainPC == {"poll", "push", "notify", "stop", "wake", "join", "exit"}
ShutDown == {"stop", "wake", "join", "exit"}

Init ==
  /\ queue = <<>>
  /\ mutex = Unlocked
  /\ pc = [w \in Workers |-> "init"]
  /\ task = [w \in Workers |-> NoTask]
  /\ stop = [w \in Workers |-> FALSE]
  /\ mpc = "poll"
  /\ index = 1
  /\ pushed = 0
  /\ buffers = TRUE

Goto(w, from, to) ==
  /\ pc[w] = from
  /\ pc' = [pc EXCEPT ![w] = to]

-----------------------------------------------------------------------------
(* consumer(), one action per step another thread can observe. *)

\* mse::init() on the new thread.
StartEngine(w) ==
  /\ Goto(w, "init", "while")
  /\ UNCHANGED <<queue, mutex, task, mainVars>>

\* while (!tok.stop_requested())
TestLoop(w) ==
  /\ Goto(w, "while", IF stop[w] THEN "done" ELSE "lock")
  /\ UNCHANGED <<queue, mutex, task, mainVars>>

\* std::unique_lock, and the re-acquisition inside wait() after a wake-up.
Lock(w) ==
  /\ mutex = Unlocked
  /\ Goto(w, "lock", "pred")
  /\ mutex' = w
  /\ UNCHANGED <<queue, task, mainVars>>

\* Mutant: the lock is released between the predicate and the wait.
TestPredicateThenUnlock(w) ==
  /\ Goto(w, "pred", IF queue # <<>> \/ stop[w] THEN "woke" ELSE "sleep")
  /\ mutex' = IF queue # <<>> \/ stop[w] THEN mutex ELSE Unlocked
  /\ UNCHANGED <<queue, task, mainVars>>

\* Mutant: the predicate does not look at the stop token.
TestPredicateIgnoresStop(w) ==
  /\ Goto(w, "pred", IF queue # <<>> THEN "woke" ELSE "sleep")
  /\ UNCHANGED <<queue, mutex, task, mainVars>>

\* The predicate of m_cond.wait, evaluated with the mutex held.
TestPredicate(w) ==
  /\ Goto(w, "pred", IF queue # <<>> \/ stop[w] THEN "woke" ELSE "sleep")
  /\ UNCHANGED <<queue, mutex, task, mainVars>>

\* m_cond.wait releases the mutex and enters the wait set in one step.
Sleep(w) ==
  /\ Goto(w, "sleep", "asleep")
  /\ mutex' = Unlocked
  /\ UNCHANGED <<queue, task, mainVars>>

\* A condition variable may wake a waiter for no reason.
SpuriousWake(w) ==
  /\ Goto(w, "asleep", "lock")
  /\ UNCHANGED <<queue, mutex, task, mainVars>>

\* Mutant: the lock is released before front() and pop().
CheckStopThenUnlock(w) ==
  /\ Goto(w, "woke", IF stop[w] THEN "done" ELSE "get")
  /\ mutex' = Unlocked
  /\ UNCHANGED <<queue, task, mainVars>>

\* A worker told to stop leaves the loop even if tasks are queued.
CheckStop(w) ==
  /\ Goto(w, "woke", IF stop[w] THEN "done" ELSE "get")
  /\ mutex' = IF stop[w] THEN Unlocked ELSE mutex
  /\ UNCHANGED <<queue, task, mainVars>>

\* Mutant: front() without pop().
GetWithoutPop(w) ==
  /\ Goto(w, "get", "serve")
  /\ task' = [task EXCEPT ![w] = Head(queue)]
  /\ mutex' = Unlocked
  /\ UNCHANGED <<queue, mainVars>>

\* Mutant: the newest task is taken first.
GetNewest(w) ==
  /\ Goto(w, "get", "serve")
  /\ task' = [task EXCEPT ![w] = queue[Len(queue)]]
  /\ queue' = SubSeq(queue, 1, Len(queue) - 1)
  /\ mutex' = Unlocked
  /\ UNCHANGED mainVars

\* front(), pop() and unlock().
Get(w) ==
  /\ Goto(w, "get", "serve")
  /\ task' = [task EXCEPT ![w] = Head(queue)]
  /\ queue' = Tail(queue)
  /\ mutex' = Unlocked
  /\ UNCHANGED mainVars

\* mse::http_server(params.fd, params.req), which uses the request object.
Serve(w) ==
  /\ Goto(w, "serve", "arm")
  /\ UNCHANGED <<queue, mutex, task, mainVars>>

\* epoll_ctl(..., EPOLL_CTL_MOD, ...): the end of the task.
Arm(w) ==
  /\ Goto(w, "arm", "while")
  /\ task' = [task EXCEPT ![w] = NoTask]
  /\ UNCHANGED <<queue, mutex, mainVars>>

-----------------------------------------------------------------------------
(* The main thread. *)

\* The epoll loop has a complete request: std::scoped_lock lock {m_mutex}.
BeginPush ==
  /\ mpc = "poll"
  /\ pushed < MaxTasks
  /\ mutex = Unlocked
  /\ mutex' = Main
  /\ mpc' = "push"
  /\ UNCHANGED <<queue, workerVars, index, stop, pushed, buffers>>

\* m_queue.push(wp); the scoped lock is released at the end of the block.
Push ==
  /\ mpc = "push"
  /\ queue' = Append(queue, pushed + 1)
  /\ pushed' = pushed + 1
  /\ mutex' = Unlocked
  /\ mpc' = "notify"
  /\ UNCHANGED <<workerVars, index, stop, buffers>>

\* m_cond.notify_all() empties the wait set.
WakeAll == pc' = [w \in Workers |-> IF pc[w] = "asleep" THEN "lock" ELSE pc[w]]

\* Mutant: the notification after push() is forgotten.
NotifyNobody ==
  /\ mpc = "notify"
  /\ mpc' = "poll"
  /\ UNCHANGED <<queue, mutex, workerVars, index, stop, pushed, buffers>>

NotifyAll ==
  /\ mpc = "notify"
  /\ WakeAll
  /\ mpc' = "poll"
  /\ UNCHANGED <<queue, mutex, task, index, stop, pushed, buffers>>

\* A signal ends the epoll loop; start_epoll returns and its local map of
\* request objects is destroyed, whatever the workers are doing.
LeaveLoop ==
  /\ MaySignal
  /\ mpc = "poll"
  /\ mpc' = "stop"
  /\ index' = 1
  /\ buffers' = FALSE
  /\ UNCHANGED <<queue, mutex, workerVars, stop, pushed>>

\* Mutant: the loop over stops runs one step too far.
RequestStopOnePast ==
  /\ mpc = "stop"
  /\ index <= PoolSize + 1
  /\ stop' = [stop EXCEPT ![index] = TRUE]
  /\ mpc' = "wake"
  /\ UNCHANGED <<queue, mutex, workerVars, index, pushed, buffers>>

\* s.request_stop(), without the mutex.
RequestStop ==
  /\ mpc = "stop"
  /\ index <= PoolSize
  /\ stop' = [stop EXCEPT ![index] = TRUE]
  /\ mpc' = "wake"
  /\ UNCHANGED <<queue, mutex, workerVars, index, pushed, buffers>>

\* Mutant: notify_one instead of notify_all.
WakeOneForStop ==
  /\ mpc = "wake"
  /\ \/ \E w \in Workers : Goto(w, "asleep", "lock")
     \/ (\A w \in Workers : pc[w] # "asleep") /\ pc' = pc
  /\ mpc' = "stop"
  /\ index' = index + 1
  /\ UNCHANGED <<queue, mutex, task, stop, pushed, buffers>>

\* m_cond.notify_all(), without the mutex.
WakeForStop ==
  /\ mpc = "wake"
  /\ WakeAll
  /\ mpc' = "stop"
  /\ index' = index + 1
  /\ UNCHANGED <<queue, mutex, task, stop, pushed, buffers>>

\* start_server returns: the vector of jthreads is destroyed.
BeginJoin ==
  /\ mpc = "stop"
  /\ index > PoolSize
  /\ mpc' = "join"
  /\ index' = 1
  /\ UNCHANGED <<queue, mutex, workerVars, stop, pushed, buffers>>

\* The destructor of a jthread joins its thread.
Join ==
  /\ mpc = "join"
  /\ index <= PoolSize
  /\ pc[index] = "done"
  /\ index' = index + 1
  /\ UNCHANGED <<queue, mutex, workerVars, mpc, stop, pushed, buffers>>

\* main() logs "shutting down..." and returns.
Exit ==
  /\ mpc = "join"
  /\ index > PoolSize
  /\ mpc' = "exit"
  /\ UNCHANGED <<queue, mutex, workerVars, index, stop, pushed, buffers>>

-----------------------------------------------------------------------------
Worker(w) ==
  \/ StartEngine(w) \/ TestLoop(w) \/ Lock(w) \/ TestPredicate(w) \/ Sleep(w)
  \/ CheckStop(w) \/ Get(w) \/ Serve(w) \/ Arm(w)

\* What the main thread does once it has started to push or to shut down.
MainStep ==
  \/ Push \/ NotifyAll
  \/ RequestStop \/ WakeForStop \/ BeginJoin \/ Join \/ Exit

Next ==
  \/ \E w \in Workers : Worker(w) \/ SpuriousWake(w)
  \/ BeginPush \/ LeaveLoop \/ MainStep

Spec == Init /\ [][Next]_vars

\* Threads that can run do run.  Nobody promises that a request or a signal
\* arrives, nor that a spurious wake-up ever happens.
Fairness ==
  /\ \A w \in Workers : WF_vars(Worker(w))
  /\ WF_vars(MainStep)

FairSpec == Spec /\ Fairness

-----------------------------------------------------------------------------
(* Properties. *)

\* The variables keep their types: a worker's task is a pushed task and the
\* shutdown loops of start_server stay within the pool.
TypeOK ==
  /\ queue \in Seq(1..MaxTasks)
  /\ mutex \in Workers \cup {Main, Unlocked}
  /\ pc \in [Workers -> WorkerPC]
  /\ task \in [Workers -> 0..MaxTasks]
  /\ stop \in [Workers -> BOOLEAN]
  /\ mpc \in MainPC
  /\ index \in 1..PoolSize + 1
  /\ pushed \in 0..MaxTasks
  /\ buffers \in BOOLEAN

\* A worker that calls m_queue.front() never finds the queue empty, although
\* notify_all wakes every worker for a single task.
FrontNonEmpty == \A w \in Workers : pc[w] = "get" => queue # <<>>

\* No wake-up is lost between push() and wait(): a worker is in the wait set
\* while a task is queued only until the notification that follows push().
NoMissedTask ==
  \A w \in Workers : pc[w] = "asleep" /\ queue # <<>> => mpc = "notify"

\* A request is served by one worker: no two workers hold the same task and no
\* worker holds a task that is still queued.
HeldOnce ==
  /\ \A v, w \in Workers : v # w /\ task[v] = task[w] => task[v] = NoTask
  /\ \A w \in Workers, i \in DOMAIN queue : queue[i] # task[w]

\* The stop flags are set outside the mutex, so a worker between its predicate
\* and its wait can miss every notification of the shutdown loop.  It is the
\* only one: of the others none is asleep when start_server joins the pool.
AtMostOneOverslept ==
  mpc \in {"join", "exit"} =>
    \A v, w \in Workers : pc[v] = "asleep" /\ pc[w] = "asleep" => v = w

\* What shutdown does achieve: the process exits, or every worker has left but
\* one, which missed its notification and sleeps until a spurious wake-up.
ShutdownEndsOrOneSleeps ==
  mpc = "stop" ~> \/ mpc = "exit"
                  \/ \E w \in Workers :
                       /\ pc[w] = "asleep"
                       /\ \A v \in Workers \ {w} : pc[v] = "done"

\* The pool implements the queue the server relies on: first in, first out,
\* each task taken once, workers retire only after the loop was left.
Queue == INSTANCE TaskQueue WITH
  Tasks   <- 1..MaxTasks,
  pending <- queue,
  running <- task,
  closed  <- mpc \in ShutDown,
  retired <- {w \in Workers : pc[w] = "done"}

ImplementsTaskQueue == Queue!Spec

\* As long as no signal arrives every request that was pushed is served: it
\* leaves the queue and the worker that took it reaches the end of the task.
EveryTaskServed ==
  \A t \in 1..MaxTasks :
    pushed >= t ~> \/ mpc \in ShutDown
                  \/ /\ \A i \in DOMAIN queue : queue[i] # t
                     /\ \A w \in Workers : task[w] # t

\* "shutdown workers" (main.cpp:322): once the loop is left every worker is
\* told to stop, joined, and the process exits.
ShutdownCompletes == mpc = "stop" ~> mpc = "exit"

\* No memory error (README.md:143): a worker that runs http_server uses a
\* request object that start_epoll has not destroyed.
ServesLiveRequest == \A w \in Workers : pc[w] = "serve" => buffers
=============================================================================
