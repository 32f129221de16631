----------------------------- MODULE ThreadPool -----------------------------
(***************************************************************************)
(* src/src/threadpool/ThreadPool: workers that share a queue of tasks      *)
(* under a mutex and sleep on a condition variable, threads that call      *)
(* enqueue, and the owner that calls shutdown (or the destructor, which    *)
(* does nothing else).                                                     *)
(*                                                                         *)
(* One action is what happens between two points at which another thread   *)
(* can see or change something.  `stop' is atomic and is read and written  *)
(* outside the mutex too, so a worker's reads of it are separate steps; a  *)
(* critical section is one step as far as it only touches the queue.       *)
(* The mutex and the condition variable are external: wait releases the    *)
(* mutex and starts to wait in one step, a notification wakes threads that *)
(* are waiting at that moment and is lost on the others, and wait may      *)
(* return for no reason.  A task returns; what it does is external.        *)
(*                                                                         *)
(* The Bug operators are plausible mistakes in the definition after them.  *)
(* No action uses one; the mutants of PROJECT.json put them in its place,  *)
(* to see that a property notices.                                         *)
(***************************************************************************)
EXTENDS Naturals, Sequences

CONSTANTS
  Workers,     \* the worker threads
  Tasks,       \* the tasks; each is enqueued by one call of its own thread
  Free,        \* the mutex has no holder
  NoTask,      \* a worker has no task
  MaxSpurious  \* bound: how often wait returns for no reason

ASSUME WorkersAssumption  == Workers # {}
ASSUME FreeAssumption     == Free \notin Workers
ASSUME NoTaskAssumption   == NoTask \notin Tasks
ASSUME SpuriousAssumption == MaxSpurious \in Nat

VARIABLES
  queue_mutex, \* its holder, or Free
  tasks,       \* the queue
  stop,
  pc, task,    \* per worker: where it is, its local `task'
  call,        \* per task: where the call of enqueue is
  owner,       \* where the thread that calls shutdown is
  done,        \* history: the tasks that have returned
  late,        \* history: the tasks pushed when stop was already set
  spurious     \* number of spurious wakeups so far

poolvars == <<queue_mutex, tasks, stop>>
vars == <<poolvars, pc, task, call, owner, done, late, spurious>>

Init ==
  /\ queue_mutex = Free /\ tasks = <<>> /\ stop = FALSE
  /\ pc = [w \in Workers |-> "lock"]
  /\ task = [w \in Workers |-> NoTask]
  /\ call = [t \in Tasks |-> "none"]
  /\ owner = "working"
  /\ done = {} /\ late = {}
  /\ spurious = 0
-----------------------------------------------------------------------------
(* The worker. *)

Goto(w, label) == pc' = [pc EXCEPT ![w] = label]

(* Take the mutex: at the top of the loop, and on the way out of wait. *)
Lock(w) ==
  /\ pc[w] = "lock" /\ queue_mutex = Free
  /\ queue_mutex' = w
  /\ Goto(w, "test")
  /\ UNCHANGED <<tasks, stop, task, call, owner, done, late, spurious>>

(* The predicate of wait ... *)
BugTestsStopOnly == stop
SomethingToDo == stop \/ tasks # <<>>

(* ... holds: wait returns with the mutex held. *)
Proceed(w) ==
  /\ pc[w] = "test" /\ SomethingToDo
  /\ Goto(w, "ready")
  /\ UNCHANGED <<poolvars, task, call, owner, done, late, spurious>>

(* ... does not hold: the worker goes on to wait, the mutex still held. *)
DecideToWait(w) ==
  /\ pc[w] = "test" /\ ~SomethingToDo
  /\ Goto(w, "park")
  /\ UNCHANGED <<poolvars, task, call, owner, done, late, spurious>>

(* Release the mutex and wait, in one step. *)
Park(w) ==
  /\ pc[w] = "park"
  /\ queue_mutex' = Free
  /\ Goto(w, "waiting")
  /\ UNCHANGED <<tasks, stop, task, call, owner, done, late, spurious>>

WakeSpuriously(w) ==
  /\ pc[w] = "waiting" /\ spurious < MaxSpurious
  /\ Goto(w, "lock")
  /\ spurious' = spurious + 1
  /\ UNCHANGED <<poolvars, task, call, owner, done, late>>

BugExitsEarly == stop
MayExit == stop /\ tasks = <<>>

Exit(w) ==
  /\ pc[w] = "ready" /\ MayExit
  /\ queue_mutex' = Free
  /\ Goto(w, "exited")
  /\ UNCHANGED <<tasks, stop, task, call, owner, done, late, spurious>>

(* task = move(tasks.front()); tasks.pop() *)
BugFrontAfterPop == IF Len(tasks) > 1 THEN tasks[2] ELSE NoTask
BugLastFirst == tasks[Len(tasks)]
Front == Head(tasks)

BugNoPop == tasks
Popped == Tail(tasks)

Take(w) ==
  /\ pc[w] = "ready" /\ ~MayExit
  /\ task' = [task EXCEPT ![w] = Front]
  /\ tasks' = Popped
  /\ queue_mutex' = Free
  /\ Goto(w, "run")
  /\ UNCHANGED <<stop, call, owner, done, late, spurious>>

(* task() returned; the local is destroyed at the end of the iteration. *)
Run(w) ==
  /\ pc[w] = "run"
  /\ done' = done \cup {task[w]}
  /\ task' = [task EXCEPT ![w] = NoTask]
  /\ Goto(w, "lock")
  /\ UNCHANGED <<poolvars, call, owner, late, spurious>>

Worker(w) ==
  \/ Lock(w) \/ Proceed(w) \/ DecideToWait(w) \/ Park(w)
  \/ Take(w) \/ Run(w) \/ Exit(w)
-----------------------------------------------------------------------------
(* enqueue: push under the mutex, then notify_one without it. *)

Push(t) ==
  /\ call[t] = "none" /\ queue_mutex = Free
  /\ tasks' = Append(tasks, t)
  /\ call' = [call EXCEPT ![t] = "notify"]
  /\ late' = IF stop THEN late \cup {t} ELSE late
  /\ UNCHANGED <<queue_mutex, stop, pc, task, owner, done, spurious>>

Waiting == {w \in Workers : pc[w] = "waiting"}

BugNotifyNone == pc' = pc
NotifyOne ==
  IF Waiting = {} THEN pc' = pc ELSE \E w \in Waiting : Goto(w, "lock")

Notify(t) ==
  /\ call[t] = "notify"
  /\ NotifyOne
  /\ call' = [call EXCEPT ![t] = "returned"]
  /\ UNCHANGED <<poolvars, task, owner, done, late, spurious>>

(* shutdown: the flag and the notification without the mutex, then join. *)

SetStop ==
  /\ owner = "working"
  /\ stop' = TRUE
  /\ owner' = "stopping"
  /\ UNCHANGED <<queue_mutex, tasks, pc, task, call, done, late, spurious>>

NotifyAll ==
  /\ owner = "stopping"
  /\ pc' = [w \in Workers |-> IF w \in Waiting THEN "lock" ELSE pc[w]]
  /\ owner' = "joining"
  /\ UNCHANGED <<poolvars, task, call, done, late, spurious>>

Join ==
  /\ owner = "joining"
  /\ \A w \in Workers : pc[w] = "exited"
  /\ owner' = "joined"
  /\ UNCHANGED <<poolvars, pc, task, call, done, late, spurious>>

Next ==
  \/ \E w \in Workers : Worker(w) \/ WakeSpuriously(w)
  \/ \E t \in Tasks : Push(t) \/ Notify(t)
  \/ SetStop \/ NotifyAll \/ Join

Spec == Init /\ [][Next]_vars

(* Threads run: the workers, a call of enqueue that has pushed its task,   *)
(* and shutdown once it is called.  Nobody has to call anything, and wait  *)
(* need not ever return for no reason.                                     *)
Fairness ==
  /\ \A w \in Workers : WF_vars(Worker(w))
  /\ \A t \in Tasks : WF_vars(Notify(t))
  /\ WF_vars(NotifyAll) /\ WF_vars(Join)

FairSpec == Spec /\ Fairness
-----------------------------------------------------------------------------
InQueue(t)   == \E i \in DOMAIN tasks : tasks[i] = t
RunningTasks == {task[w] : w \in {v \in Workers : pc[v] = "run"}}
Pushed       == {t \in Tasks : call[t] # "none"}

(* Types; a worker has a task exactly while it runs one.                   *)
TypeOK ==
  /\ queue_mutex \in Workers \cup {Free}
  /\ tasks \in Seq(Tasks)
  /\ stop \in BOOLEAN
  /\ pc \in [Workers -> {"lock", "test", "park", "waiting", "ready", "run", "exited"}]
  /\ task \in [Workers -> Tasks \cup {NoTask}]
  /\ \A w \in Workers : task[w] \in Tasks <=> pc[w] = "run"
  /\ call \in [Tasks -> {"none", "notify", "returned"}]
  /\ owner \in {"working", "stopping", "joining", "joined"}
  /\ done \subseteq Tasks /\ late \subseteq Tasks
  /\ spurious \in 0..MaxSpurious

(* Each task that was pushed is in one place: once in the queue, with one  *)
(* worker, or done.  Nothing is lost, run twice or run unasked.            *)
EveryTaskOnce ==
  /\ \A i, j \in DOMAIN tasks : tasks[i] = tasks[j] => i = j
  /\ \A v, w \in Workers : (pc[v] = "run" /\ task[v] = task[w]) => v = w
  /\ \A t \in Tasks : ~(InQueue(t) /\ t \in RunningTasks \cup done)
  /\ RunningTasks \cap done = {}
  /\ \A t \in Tasks : t \in Pushed <=> (InQueue(t) \/ t \in RunningTasks \cup done)

(* While there is a task in the queue, some worker is awake to find it or  *)
(* somebody is still about to wake one: enqueue, which notifies after it   *)
(* released the mutex, loses no wakeup.                                    *)
NoTaskSleptThrough ==
  tasks # <<>> =>
    \/ \E w \in Workers : pc[w] \in {"lock", "test", "ready", "run"}
    \/ \E t \in Tasks : call[t] = "notify"
    \/ \A w \in Workers : pc[w] = "exited"

(* When shutdown returns, every task pushed before it was called is done.  *)
DrainedAtJoin == owner = "joined" => Pushed \ late \subseteq done

(* The pool implements the abstract executor.                              *)
Abstract == INSTANCE TaskExecutor WITH
  queue    <- tasks,
  running  <- RunningTasks,
  finished <- done,
  closed   <- stop,
  promised <- Pushed \ late,
  ended    <- owner = "joined"

ImplementsExecutor == Abstract!Spec

(* A task pushed before shutdown is called is run, whatever else happens.  *)
TasksRun ==
  \A t \in Tasks : (t \in Pushed \ late) ~> (t \in done)

(* "Graceful shutdown handling" (README.md:60): shutdown returns.          *)
ShutdownReturns == (owner = "stopping") ~> (owner = "joined")
=============================================================================
