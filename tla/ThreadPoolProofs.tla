-------------------------- MODULE ThreadPoolProofs --------------------------
(***************************************************************************)
(* What module ThreadPool promises, proved for any number of workers and   *)
(* of tasks, and any number of spurious wakeups.                           *)
(***************************************************************************)
EXTENDS ThreadPool, TLAPS

(* What the queue is after a push and after a pop. *)
Holds(q, x) == \E i \in DOMAIN q : q[i] = x
Distinct(q) == \A i, j \in DOMAIN q : q[i] = q[j] => i = j

LEMMA PushedQueue ==
  ASSUME NEW S, NEW q \in Seq(S), NEW e \in S
  PROVE  /\ Append(q, e) \in Seq(S)
         /\ Append(q, e) # <<>>
         /\ \A x : Holds(Append(q, e), x) <=> (Holds(q, x) \/ x = e)
         /\ (Distinct(q) /\ ~Holds(q, e)) => Distinct(Append(q, e))
<1> DEFINE p == Append(q, e)
<1>1. /\ p \in Seq(S) /\ Len(p) = Len(q) + 1
      /\ DOMAIN p = 1..(Len(q) + 1) /\ DOMAIN q = 1..Len(q)
      /\ Len(q) \in Nat
      /\ \A i \in 1..Len(q) : p[i] = q[i]
      /\ p[Len(q) + 1] = e
  OBVIOUS
<1>2. p # <<>>
  BY <1>1
<1>3. ASSUME NEW x PROVE Holds(p, x) <=> (Holds(q, x) \/ x = e)
  <2>1. ASSUME Holds(p, x) PROVE Holds(q, x) \/ x = e
    BY <1>1, <2>1 DEF Holds
  <2>2. ASSUME Holds(q, x) PROVE Holds(p, x)
    BY <1>1, <2>2 DEF Holds
  <2>3. Holds(p, e)
    BY <1>1 DEF Holds
  <2> QED BY <2>1, <2>2, <2>3
<1>4. ASSUME Distinct(q), ~Holds(q, e) PROVE Distinct(p)
  BY <1>1, <1>4 DEF Distinct, Holds
<1> QED BY <1>1, <1>2, <1>3, <1>4

LEMMA PoppedQueue ==
  ASSUME NEW S, NEW q \in Seq(S), q # <<>>
  PROVE  /\ Tail(q) \in Seq(S)
         /\ Head(q) \in S /\ Holds(q, Head(q))
         /\ \A x : Holds(q, x) <=> (Holds(Tail(q), x) \/ x = Head(q))
         /\ Distinct(q) => Distinct(Tail(q)) /\ ~Holds(Tail(q), Head(q))
<1> DEFINE p == Tail(q)
<1>1. /\ p \in Seq(S) /\ Len(p) = Len(q) - 1
      /\ DOMAIN p = 1..(Len(q) - 1) /\ DOMAIN q = 1..Len(q)
      /\ Len(q) \in Nat /\ Len(q) >= 1
      /\ \A i \in 1..(Len(q) - 1) : p[i] = q[i + 1]
      /\ Head(q) = q[1] /\ q[1] \in S
  OBVIOUS
<1>2. Holds(q, Head(q))
  BY <1>1 DEF Holds
<1>3. ASSUME NEW x, Holds(q, x) PROVE Holds(p, x) \/ x = Head(q)
  <2>1. PICK i \in 1..Len(q) : q[i] = x
    BY <1>1, <1>3 DEF Holds
  <2>2. CASE i = 1
    BY <1>1, <2>1, <2>2
  <2>3. CASE i # 1
    <3>1. i - 1 \in 1..(Len(q) - 1) /\ p[i - 1] = x
      BY <1>1, <2>1, <2>3
    <3> QED BY <1>1, <3>1 DEF Holds
  <2> QED BY <2>2, <2>3
<1>4. ASSUME NEW x, Holds(p, x) PROVE Holds(q, x)
  <2>1. PICK i \in 1..(Len(q) - 1) : q[i + 1] = x
    BY <1>1, <1>4 DEF Holds
  <2>2. i + 1 \in 1..Len(q)
    BY <1>1
  <2> QED BY <1>1, <2>1, <2>2 DEF Holds
<1>5. ASSUME Distinct(q) PROVE Distinct(p) /\ ~Holds(p, Head(q))
  BY <1>1, <1>5 DEF Distinct, Holds
<1> QED BY <1>1, <1>2, <1>3, <1>4, <1>5
-----------------------------------------------------------------------------
(* The mutex is held by the one worker inside its critical section; a      *)
(* worker that leaves wait has a reason to; one that goes on to wait has   *)
(* found the queue empty, and it still is.                                 *)
Inside == {"test", "park", "ready"}

MutexInv == \A w \in Workers : pc[w] \in Inside <=> queue_mutex = w

ReasonInv ==
  \A w \in Workers :
    /\ pc[w] = "ready" => SomethingToDo
    /\ pc[w] = "park" => tasks = <<>>

CoreInv == TypeOK /\ MutexInv /\ ReasonInv

LEMMA CoreInvInit == Init => CoreInv
<1> SUFFICES ASSUME Init PROVE CoreInv
  OBVIOUS
<1>1. tasks \in Seq(Tasks)
  BY DEF Init
<1>2. TypeOK
  <2>1. spurious \in 0..MaxSpurious
    BY SpuriousAssumption DEF Init
  <2> QED BY <1>1, <2>1, NoTaskAssumption DEF Init, TypeOK
<1>3. MutexInv /\ ReasonInv
  BY FreeAssumption DEF Init, MutexInv, ReasonInv, Inside
<1> QED BY <1>2, <1>3 DEF CoreInv

LEMMA CoreInvStep == CoreInv /\ [Next]_vars => CoreInv'
<1> SUFFICES ASSUME CoreInv, [Next]_vars
             PROVE  CoreInv'
  OBVIOUS
<1> USE FreeAssumption, NoTaskAssumption, SpuriousAssumption
    DEF CoreInv, TypeOK, MutexInv, ReasonInv, Inside, SomethingToDo
<1>1. ASSUME NEW w \in Workers, Lock(w) PROVE CoreInv'
  BY <1>1 DEF Lock, Goto
<1>2. ASSUME NEW w \in Workers, Proceed(w) PROVE CoreInv'
  BY <1>2 DEF Proceed, Goto, poolvars
<1>3. ASSUME NEW w \in Workers, DecideToWait(w) PROVE CoreInv'
  BY <1>3 DEF DecideToWait, Goto, poolvars
<1>4. ASSUME NEW w \in Workers, Park(w) PROVE CoreInv'
  BY <1>4 DEF Park, Goto
<1>5. ASSUME NEW w \in Workers, Take(w) PROVE CoreInv'
  <2>1. tasks # <<>>
    BY <1>5 DEF Take, MayExit
  <2>2. Head(tasks) \in Tasks /\ Tail(tasks) \in Seq(Tasks)
    BY <2>1, PoppedQueue
  <2>3. /\ queue_mutex = w /\ queue_mutex' = Free
        /\ pc' = [pc EXCEPT ![w] = "run"]
        /\ task' = [task EXCEPT ![w] = Head(tasks)]
        /\ tasks' = Tail(tasks)
        /\ UNCHANGED <<stop, call, owner, done, late, spurious>>
    BY <1>5 DEF Take, Goto, Front, Popped
  <2>4. TypeOK'
    BY <2>2, <2>3
  <2>5. MutexInv' /\ ReasonInv'
    BY <2>3
  <2> QED BY <2>4, <2>5
<1>6. ASSUME NEW w \in Workers, Run(w) PROVE CoreInv'
  BY <1>6 DEF Run, Goto, poolvars
<1>7. ASSUME NEW w \in Workers, Exit(w) PROVE CoreInv'
  BY <1>7 DEF Exit, Goto
<1>8. ASSUME NEW w \in Workers, WakeSpuriously(w) PROVE CoreInv'
  BY <1>8 DEF WakeSpuriously, Goto, poolvars
<1>9. ASSUME NEW t \in Tasks, Push(t) PROVE CoreInv'
  <2>1. /\ Append(tasks, t) \in Seq(Tasks)
        /\ Append(tasks, t) # <<>>
    BY PushedQueue
  <2> QED BY <1>9, <2>1 DEF Push
<1>10. ASSUME NEW t \in Tasks, Notify(t) PROVE CoreInv'
  BY <1>10 DEF Notify, NotifyOne, Waiting, Goto, poolvars
<1>11. CASE SetStop
  BY <1>11 DEF SetStop
<1>12. CASE NotifyAll
  BY <1>12 DEF NotifyAll, Waiting, poolvars
<1>13. CASE Join
  BY <1>13 DEF Join, poolvars
<1>14. CASE UNCHANGED vars
  BY <1>14 DEF vars, poolvars
<1> QED
  BY <1>1, <1>2, <1>3, <1>4, <1>5, <1>6, <1>7, <1>8, <1>9, <1>10, <1>11,
     <1>12, <1>13, <1>14 DEF Next, Worker

(* Every variable keeps its type, and a worker has a task exactly while it *)
(* runs one.                                                               *)
THEOREM TypeCorrect == Spec => []TypeOK
<1>1. CoreInv => TypeOK
  BY DEF CoreInv
<1> QED
  BY <1>1, CoreInvInit, CoreInvStep, PTL DEF Spec
-----------------------------------------------------------------------------
(* Every task is in one place.                                             *)
Runs(t) == \E w \in Workers : pc[w] = "run" /\ task[w] = t

LEMMA PlacesRestated ==
  /\ \A t : t \in RunningTasks <=> Runs(t)
  /\ \A t : InQueue(t) <=> Holds(tasks, t)
BY DEF RunningTasks, Runs, InQueue, Holds

(* EveryTaskOnce, one place after the other. *)
QueuedOnce == Distinct(tasks)
RunByOne   == \A v, w \in Workers :
                (pc[v] = "run" /\ task[v] = task[w]) => v = w
OnePlace   == \A t \in Tasks :
                /\ ~(Holds(tasks, t) /\ (Runs(t) \/ t \in done))
                /\ ~(Runs(t) /\ t \in done)
SomePlace  == \A t \in Tasks :
                call[t] # "none" <=> (Holds(tasks, t) \/ Runs(t) \/ t \in done)

PlaceInv == QueuedOnce /\ RunByOne /\ OnePlace /\ SomePlace

LEMMA PlaceInvIsEveryTaskOnce ==
  ASSUME TypeOK
  PROVE  EveryTaskOnce <=> PlaceInv
<1>1. \A t : t \in RunningTasks => t \in Tasks
  BY PlacesRestated DEF Runs, TypeOK
<1>2. QueuedOnce <=> \A i, j \in DOMAIN tasks : tasks[i] = tasks[j] => i = j
  BY DEF QueuedOnce, Distinct
<1> QED
  BY <1>1, <1>2, PlacesRestated
     DEF EveryTaskOnce, PlaceInv, RunByOne, OnePlace, SomePlace, Pushed, TypeOK

LEMMA PlaceInvInit == Init => PlaceInv
BY DEF Init, PlaceInv, QueuedOnce, RunByOne, OnePlace, SomePlace,
       Distinct, Holds, Runs

(* A step by which no task moves. *)
LEMMA PlaceInvQuietStep ==
  ASSUME PlaceInv,
         UNCHANGED <<tasks, task, call, done>>,
         \A w \in Workers : pc'[w] = "run" <=> pc[w] = "run"
  PROVE  PlaceInv'
BY DEF PlaceInv, QueuedOnce, RunByOne, OnePlace, SomePlace, Distinct, Holds, Runs

LEMMA PlaceInvPush ==
  ASSUME CoreInv, PlaceInv, NEW t \in Tasks, Push(t)
  PROVE  PlaceInv'
<1>1. /\ tasks' = Append(tasks, t)
      /\ call' = [call EXCEPT ![t] = "notify"]
      /\ call[t] = "none"
      /\ UNCHANGED <<pc, task, done>>
  BY DEF Push
<1>2. tasks \in Seq(Tasks) /\ call \in [Tasks -> {"none", "notify", "returned"}]
  BY DEF CoreInv, TypeOK
<1>3. ~Holds(tasks, t) /\ ~Runs(t) /\ t \notin done
  BY <1>1 DEF PlaceInv, SomePlace
<1>4. /\ \A x : Holds(tasks, x)' <=> (Holds(tasks, x) \/ x = t)
      /\ Distinct(tasks)'
  BY <1>1, <1>2, <1>3, PushedQueue DEF PlaceInv, QueuedOnce
<1>5. \A x : Runs(x)' <=> Runs(x)
  BY <1>1 DEF Runs
<1>6. QueuedOnce' /\ RunByOne'
  BY <1>1, <1>4 DEF PlaceInv, QueuedOnce, RunByOne
<1>7. OnePlace' /\ SomePlace'
  BY <1>1, <1>2, <1>3, <1>4, <1>5 DEF PlaceInv, OnePlace, SomePlace
<1> QED BY <1>6, <1>7 DEF PlaceInv

LEMMA PlaceInvTake ==
  ASSUME CoreInv, PlaceInv, NEW w \in Workers, Take(w)
  PROVE  PlaceInv'
<1> DEFINE t == Head(tasks)
<1>1. tasks # <<>>
  BY DEF Take, MayExit, CoreInv, ReasonInv, SomethingToDo
<1>2. /\ pc[w] = "ready"
      /\ pc' = [pc EXCEPT ![w] = "run"]
      /\ task' = [task EXCEPT ![w] = t]
      /\ tasks' = Tail(tasks)
      /\ UNCHANGED <<call, done>>
  BY DEF Take, Goto, Front, Popped
<1>3. TypeOK
  BY DEF CoreInv
<1>4. /\ t \in Tasks /\ Holds(tasks, t)
      /\ \A x : Holds(tasks, x) <=> (Holds(tasks', x) \/ x = t)
      /\ Distinct(tasks)' /\ ~Holds(tasks', t)
  <2>1. tasks \in Seq(Tasks) /\ Distinct(tasks)
    BY <1>3 DEF TypeOK, PlaceInv, QueuedOnce
  <2>2. /\ t \in Tasks /\ Holds(tasks, t)
        /\ \A x : Holds(tasks, x) <=> (Holds(Tail(tasks), x) \/ x = t)
        /\ Distinct(Tail(tasks)) /\ ~Holds(Tail(tasks), t)
    BY <1>1, <2>1, PoppedQueue
  <2>3. \A x : Holds(tasks', x) <=> Holds(Tail(tasks), x)
    BY <1>2 DEF Holds
  <2>4. Distinct(tasks)' <=> Distinct(Tail(tasks))
    BY <1>2 DEF Distinct
  <2> QED BY <2>2, <2>3, <2>4
<1> HIDE DEF t
<1>5. ~Runs(t) /\ t \notin done
  BY <1>4 DEF PlaceInv, OnePlace
<1>6. \A x : Runs(x)' <=> (Runs(x) \/ x = t)
  BY <1>2, <1>3 DEF Runs, TypeOK
<1>7. RunByOne'
  <2> SUFFICES ASSUME NEW u \in Workers, NEW v \in Workers,
                      pc'[u] = "run", task'[u] = task'[v]
               PROVE  u = v
    BY DEF RunByOne
  <2>1. \A x \in Workers : pc'[x] = "run" <=> (pc[x] = "run" \/ x = w)
    BY <1>2, <1>3 DEF TypeOK
  <2>2. \A x \in Workers : task'[x] = IF x = w THEN t ELSE task[x]
    BY <1>2, <1>3 DEF TypeOK
  <2>3. \A x \in Workers : task[x] # t
    BY <1>3, <1>4, <1>5 DEF Runs, TypeOK
  <2>4. CASE u = w
    BY <2>2, <2>3, <2>4
  <2>5. CASE u # w
    BY <2>1, <2>2, <2>3, <2>5 DEF PlaceInv, RunByOne
  <2> QED BY <2>4, <2>5
<1>8. OnePlace'
  <2> SUFFICES ASSUME NEW x \in Tasks
               PROVE  /\ ~(Holds(tasks', x) /\ (Runs(x)' \/ x \in done'))
                      /\ ~(Runs(x)' /\ x \in done')
    BY DEF OnePlace
  <2>1. CASE x = t
    BY <1>2, <1>4, <1>5, <2>1
  <2>2. CASE x # t
    BY <1>2, <1>4, <1>6, <2>2 DEF PlaceInv, OnePlace
  <2> QED BY <2>1, <2>2
<1>9. SomePlace'
  BY <1>2, <1>4, <1>6 DEF PlaceInv, SomePlace
<1> QED BY <1>4, <1>7, <1>8, <1>9 DEF PlaceInv, QueuedOnce

LEMMA PlaceInvRun ==
  ASSUME CoreInv, PlaceInv, NEW w \in Workers, Run(w)
  PROVE  PlaceInv'
<1> DEFINE t == task[w]
<1>1. /\ pc[w] = "run"
      /\ pc' = [pc EXCEPT ![w] = "lock"]
      /\ task' = [task EXCEPT ![w] = NoTask]
      /\ done' = done \cup {t}
      /\ UNCHANGED <<tasks, call>>
  BY DEF Run, Goto, poolvars
<1>2. TypeOK /\ t \in Tasks
  BY <1>1 DEF CoreInv, TypeOK
<1>3. Runs(t)
  BY <1>1 DEF Runs
<1>4. \A x : Runs(x)' <=> (Runs(x) /\ x # t)
  BY <1>1, <1>2 DEF Runs, TypeOK, PlaceInv, RunByOne
<1>5. RunByOne'
  <2> SUFFICES ASSUME NEW u \in Workers, NEW v \in Workers,
                      pc'[u] = "run", task'[u] = task'[v]
               PROVE  u = v
    BY DEF RunByOne
  <2>1. u # w /\ pc[u] = "run" /\ task'[u] = task[u] /\ task[u] # NoTask
    BY <1>1, <1>2, NoTaskAssumption DEF TypeOK
  <2>2. v # w /\ task'[v] = task[v]
    BY <1>1, <1>2, <2>1 DEF TypeOK
  <2> QED BY <2>1, <2>2 DEF PlaceInv, RunByOne
<1> HIDE DEF t
<1>6. \A x : Holds(tasks, x)' <=> Holds(tasks, x)
  BY <1>1 DEF Holds
<1>7. OnePlace' /\ SomePlace'
  BY <1>1, <1>3, <1>4, <1>6 DEF PlaceInv, OnePlace, SomePlace
<1> QED BY <1>1, <1>5, <1>7 DEF PlaceInv, QueuedOnce

(* The steps by which no task moves are quiet. *)
LEMMA QuietSteps ==
  ASSUME CoreInv,
         \/ \E w \in Workers : \/ Lock(w) \/ Proceed(w) \/ DecideToWait(w)
                               \/ Park(w) \/ Exit(w) \/ WakeSpuriously(w)
         \/ SetStop \/ NotifyAll \/ Join
         \/ UNCHANGED vars
  PROVE  /\ UNCHANGED <<tasks, task, call, done>>
         /\ \A w \in Workers : pc'[w] = "run" <=> pc[w] = "run"
<1> USE DEF CoreInv, TypeOK
<1>1. CASE \E w \in Workers : \/ Lock(w) \/ Proceed(w) \/ DecideToWait(w)
                              \/ Park(w) \/ Exit(w) \/ WakeSpuriously(w)
  BY <1>1 DEF Lock, Proceed, DecideToWait, Park, Exit, WakeSpuriously, Goto, poolvars
<1>2. CASE SetStop \/ NotifyAll \/ Join
  BY <1>2 DEF SetStop, NotifyAll, Join, Waiting, poolvars
<1>3. CASE UNCHANGED vars
  BY <1>3 DEF vars, poolvars
<1> QED BY <1>1, <1>2, <1>3

LEMMA PlaceInvStep == CoreInv /\ PlaceInv /\ [Next]_vars => PlaceInv'
<1> SUFFICES ASSUME CoreInv, PlaceInv, [Next]_vars
             PROVE  PlaceInv'
  OBVIOUS
<1>1. CASE \/ \E w \in Workers : \/ Lock(w) \/ Proceed(w) \/ DecideToWait(w)
                                 \/ Park(w) \/ Exit(w) \/ WakeSpuriously(w)
           \/ SetStop \/ NotifyAll \/ Join
           \/ UNCHANGED vars
  BY <1>1, QuietSteps, PlaceInvQuietStep
<1>2. ASSUME NEW w \in Workers, Take(w) \/ Run(w) PROVE PlaceInv'
  BY <1>2, PlaceInvTake, PlaceInvRun
<1>3. ASSUME NEW t \in Tasks, Push(t) PROVE PlaceInv'
  BY <1>3, PlaceInvPush
<1>4. ASSUME NEW t \in Tasks, Notify(t) PROVE PlaceInv'
  <2>1. /\ UNCHANGED <<tasks, task, done>>
        /\ \A w \in Workers : pc'[w] = "run" <=> pc[w] = "run"
    BY <1>4 DEF Notify, NotifyOne, Goto, Waiting, poolvars, CoreInv, TypeOK
  <2>2. \A x \in Tasks : call'[x] # "none" <=> call[x] # "none"
    BY <1>4 DEF Notify, CoreInv, TypeOK
  <2> QED
    BY <2>1, <2>2 DEF PlaceInv, QueuedOnce, RunByOne, OnePlace, SomePlace,
                      Distinct, Holds, Runs
<1> QED
  BY <1>1, <1>2, <1>3, <1>4 DEF Next, Worker

(* No task is lost, run twice or run unasked, however the threads are      *)
(* interleaved.                                                            *)
THEOREM TasksRunOnce == Spec => []EveryTaskOnce
<1>1. CoreInv /\ PlaceInv => EveryTaskOnce
  BY PlaceInvIsEveryTaskOnce DEF CoreInv
<1> QED
  BY <1>1, CoreInvInit, CoreInvStep, PlaceInvInit, PlaceInvStep, PTL DEF Spec
-----------------------------------------------------------------------------
(* No wakeup of enqueue is lost.  A worker that is about to wait holds the *)
(* mutex and has seen an empty queue, so the push comes after it waits,    *)
(* and the notification after the push.                                    *)
Awake == {"lock", "test", "ready", "run"}

LEMMA WakeInvStep == CoreInv /\ NoTaskSleptThrough /\ [Next]_vars
                       => NoTaskSleptThrough'
<1> SUFFICES ASSUME CoreInv, NoTaskSleptThrough, [Next]_vars, tasks' # <<>>
             PROVE  \/ \E w \in Workers : pc'[w] \in Awake
                    \/ \E t \in Tasks : call'[t] = "notify"
                    \/ \A w \in Workers : pc'[w] = "exited"
  BY DEF NoTaskSleptThrough, Awake
<1> USE DEF Awake
<1>1. TypeOK
  BY DEF CoreInv
<1>2. ASSUME NEW w \in Workers, pc'[w] \in Awake
      PROVE  \E x \in Workers : pc'[x] \in Awake
  BY <1>2
<1>3. ASSUME NEW w \in Workers, Lock(w) \/ Proceed(w) \/ Take(w) \/ Run(w)
                                        \/ WakeSpuriously(w)
      PROVE  pc'[w] \in Awake
  BY <1>1, <1>3 DEF Lock, Proceed, Take, Run, WakeSpuriously, Goto, TypeOK
<1>4. ASSUME NEW w \in Workers, DecideToWait(w) \/ Park(w) \/ Exit(w)
      PROVE  FALSE
  BY <1>4 DEF DecideToWait, Park, Exit, SomethingToDo, MayExit, poolvars,
              CoreInv, ReasonInv
<1>5. ASSUME NEW t \in Tasks, Push(t)
      PROVE  call'[t] = "notify"
  BY <1>1, <1>5 DEF Push, TypeOK
<1>6. ASSUME NEW t \in Tasks, Notify(t)
      PROVE  \/ \E w \in Workers : pc'[w] \in Awake
             \/ \A w \in Workers : pc'[w] = "exited"
  <2>1. tasks # <<>> /\ NotifyOne
    BY <1>6 DEF Notify, poolvars
  <2>2. CASE Waiting = {}
    <3>1. pc' = pc
      BY <2>1, <2>2 DEF NotifyOne
    <3>2. \A w \in Workers : pc[w] # "waiting" /\ pc[w] # "park"
      BY <2>1, <2>2 DEF Waiting, CoreInv, ReasonInv
    <3> QED
      <4>1. CASE \E w \in Workers : pc[w] # "exited"
        BY <1>1, <3>1, <3>2, <4>1 DEF TypeOK
      <4>2. CASE \A w \in Workers : pc[w] = "exited"
        BY <3>1, <4>2
      <4> QED BY <4>1, <4>2
  <2>3. CASE Waiting # {}
    <3>1. PICK w \in Waiting : Goto(w, "lock")
      BY <2>1, <2>3 DEF NotifyOne
    <3>2. w \in Workers /\ pc'[w] \in Awake
      BY <1>1, <3>1 DEF Waiting, Goto, TypeOK
    <3> QED BY <3>2
  <2> QED BY <2>2, <2>3
<1>7. CASE SetStop \/ Join \/ UNCHANGED vars
  BY <1>7 DEF SetStop, Join, vars, poolvars, NoTaskSleptThrough
<1>8. CASE NotifyAll
  <2>1. /\ tasks # <<>> /\ call' = call
        /\ \A w \in Workers : pc[w] \in Awake \cup {"exited"} => pc'[w] = pc[w]
    BY <1>1, <1>8 DEF NotifyAll, Waiting, poolvars, TypeOK
  <2> QED BY <2>1 DEF NoTaskSleptThrough
<1> QED
  BY <1>2, <1>3, <1>4, <1>5, <1>6, <1>7, <1>8 DEF Next, Worker

(* While a task is queued, somebody is awake to find it or about to wake   *)
(* somebody: enqueue loses no wakeup (shutdown does).                      *)
THEOREM NoWakeupLost == Spec => []NoTaskSleptThrough
<1>1. Init => NoTaskSleptThrough
  BY DEF Init, NoTaskSleptThrough
<1> QED
  BY <1>1, CoreInvInit, CoreInvStep, WakeInvStep, PTL DEF Spec
-----------------------------------------------------------------------------
(* What the exit of a worker means: only tasks pushed too late are left.   *)
DrainInv ==
  /\ stop <=> owner # "working"
  /\ \A w \in Workers : pc[w] = "exited" => stop
  /\ (\E w \in Workers : pc[w] = "exited") =>
       \A t \in Tasks : Holds(tasks, t) => t \in late
  /\ owner = "joined" => \A w \in Workers : pc[w] = "exited"
  /\ \A t \in late : call[t] # "none"

LEMMA DrainInvInit == Init => DrainInv
BY WorkersAssumption DEF Init, DrainInv

LEMMA DrainInvStep == CoreInv /\ DrainInv /\ [Next]_vars => DrainInv'
<1> SUFFICES ASSUME CoreInv, DrainInv, [Next]_vars
             PROVE  DrainInv'
  OBVIOUS
<1>1. TypeOK
  BY DEF CoreInv
<1>2. ASSUME NEW w \in Workers,
             Lock(w) \/ Proceed(w) \/ DecideToWait(w) \/ Park(w) \/ WakeSpuriously(w)
      PROVE  DrainInv'
  <2>1. UNCHANGED <<tasks, stop, call, owner, late>>
    BY <1>2 DEF Lock, Proceed, DecideToWait, Park, WakeSpuriously, poolvars
  <2>2. \A x \in Workers : pc'[x] = "exited" <=> pc[x] = "exited"
    BY <1>1, <1>2
       DEF Lock, Proceed, DecideToWait, Park, WakeSpuriously, Goto, TypeOK
  <2> QED BY <2>1, <2>2 DEF DrainInv
<1>3. ASSUME NEW w \in Workers, Run(w) PROVE DrainInv'
  <2>1. UNCHANGED <<tasks, stop, call, owner, late>>
    BY <1>3 DEF Run, poolvars
  <2>2. \A x \in Workers : pc'[x] = "exited" <=> pc[x] = "exited"
    BY <1>1, <1>3 DEF Run, Goto, TypeOK
  <2> QED BY <2>1, <2>2 DEF DrainInv
<1>4. ASSUME NEW w \in Workers, Take(w) PROVE DrainInv'
  <2>1. tasks # <<>> /\ tasks \in Seq(Tasks)
    BY <1>1, <1>4 DEF Take, MayExit, CoreInv, ReasonInv, SomethingToDo, TypeOK
  <2>2. /\ tasks' = Tail(tasks)
        /\ UNCHANGED <<stop, call, owner, late>>
        /\ pc[w] = "ready" /\ pc' = [pc EXCEPT ![w] = "run"]
    BY <1>4 DEF Take, Popped, Goto
  <2>3. \A x : Holds(tasks', x) => Holds(tasks, x)
    BY <2>1, <2>2, PoppedQueue
  <2>4. \A x \in Workers : pc'[x] = "exited" <=> pc[x] = "exited"
    BY <1>1, <2>2 DEF TypeOK
  <2> QED BY <2>2, <2>3, <2>4 DEF DrainInv
<1>5. ASSUME NEW w \in Workers, Exit(w) PROVE DrainInv'
  <2>1. /\ stop /\ tasks = <<>> /\ pc[w] = "ready"
        /\ UNCHANGED <<tasks, stop, call, owner, late>>
        /\ pc' = [pc EXCEPT ![w] = "exited"]
    BY <1>5 DEF Exit, MayExit, Goto
  <2>2. \A t : ~Holds(tasks', t)
    BY <2>1 DEF Holds
  <2> QED BY <1>1, <2>1, <2>2 DEF DrainInv, TypeOK
<1>6. ASSUME NEW t \in Tasks, Push(t) PROVE DrainInv'
  <2>1. /\ tasks' = Append(tasks, t)
        /\ call' = [call EXCEPT ![t] = "notify"]
        /\ late' = IF stop THEN late \cup {t} ELSE late
        /\ UNCHANGED <<stop, pc, owner>>
    BY <1>6 DEF Push
  <2>2. \A x : Holds(tasks', x) => (Holds(tasks, x) \/ x = t)
    BY <1>1, <2>1, PushedQueue DEF TypeOK
  <2> QED BY <1>1, <2>1, <2>2 DEF DrainInv, TypeOK
<1>7. ASSUME NEW t \in Tasks, Notify(t) PROVE DrainInv'
  <2>1. /\ UNCHANGED <<tasks, stop, owner, late>>
        /\ call' = [call EXCEPT ![t] = "returned"]
    BY <1>7 DEF Notify, poolvars
  <2>2. \A x \in Workers : pc'[x] = "exited" <=> pc[x] = "exited"
    BY <1>1, <1>7 DEF Notify, NotifyOne, Waiting, Goto, TypeOK
  <2> QED BY <1>1, <2>1, <2>2 DEF DrainInv, TypeOK
<1>8. CASE SetStop
  BY <1>8 DEF SetStop, DrainInv, Holds
<1>9. CASE NotifyAll
  <2>1. UNCHANGED <<tasks, stop, call, late>> /\ owner = "stopping" /\ owner' = "joining"
    BY <1>9 DEF NotifyAll, poolvars
  <2>2. \A x \in Workers : pc'[x] = "exited" <=> pc[x] = "exited"
    BY <1>1, <1>9 DEF NotifyAll, Waiting, TypeOK
  <2> QED BY <2>1, <2>2 DEF DrainInv
<1>10. CASE Join
  BY <1>10 DEF Join, poolvars, DrainInv, Holds
<1>11. CASE UNCHANGED vars
  BY <1>11 DEF vars, poolvars, DrainInv, Holds
<1> QED
  BY <1>2, <1>3, <1>4, <1>5, <1>6, <1>7, <1>8, <1>9, <1>10, <1>11 DEF Next, Worker

IInv == CoreInv /\ PlaceInv /\ DrainInv

LEMMA IInvInductive == Spec => []IInv
BY CoreInvInit, CoreInvStep, PlaceInvInit, PlaceInvStep, DrainInvInit,
   DrainInvStep, PTL DEF Spec, IInv

(* When every worker has exited, nothing promised is left. *)
LEMMA AllExited ==
  ASSUME IInv, \A w \in Workers : pc[w] = "exited"
  PROVE  RunningTasks = {} /\ Pushed \ late \subseteq done
<1>1. \A t : ~Runs(t)
  BY DEF Runs
<1>2. \A t \in Tasks : Holds(tasks, t) => t \in late
  BY WorkersAssumption DEF IInv, DrainInv
<1> QED
  BY <1>1, <1>2, PlacesRestated DEF IInv, PlaceInv, SomePlace, Pushed

(* When shutdown returns, what was pushed before it is done.               *)
THEOREM ShutdownDrains == Spec => []DrainedAtJoin
<1>1. IInv => DrainedAtJoin
  BY AllExited DEF DrainedAtJoin, IInv, DrainInv
<1> QED
  BY <1>1, IInvInductive, PTL
-----------------------------------------------------------------------------
(* The pool implements the abstract executor.  Taking a task from the      *)
(* queue is the abstract start, its return the abstract end, and what the  *)
(* mutex and the condition variable do is invisible.                       *)
LEMMA AbstractInit == Init => Abstract!Init
BY DEF Init, Abstract!Init, RunningTasks, Pushed

LEMMA AbstractQuietStep ==
  ASSUME UNCHANGED <<tasks, task, done, stop, late>>,
         \A w \in Workers : pc'[w] = "run" <=> pc[w] = "run",
         \A t \in Tasks : call'[t] = "none" <=> call[t] = "none",
         owner' = "joined" <=> owner = "joined"
  PROVE  UNCHANGED Abstract!exvars
<1>1. RunningTasks' = RunningTasks
  BY DEF RunningTasks
<1>2. Pushed' = Pushed
  BY DEF Pushed
<1> QED BY <1>1, <1>2 DEF Abstract!exvars

LEMMA AbstractPush ==
  ASSUME IInv, NEW t \in Tasks, Push(t)
  PROVE  Abstract!Submit(t)
<1>1. TypeOK
  BY DEF IInv, CoreInv
<1>2. /\ call[t] = "none" /\ call' = [call EXCEPT ![t] = "notify"]
      /\ tasks' = Append(tasks, t)
      /\ late' = IF stop THEN late \cup {t} ELSE late
      /\ UNCHANGED <<stop, pc, task, owner, done>>
  BY DEF Push
<1>3. ~InQueue(t) /\ t \notin RunningTasks \cup done
  BY <1>2, PlacesRestated DEF IInv, PlaceInv, SomePlace
<1>4. t \notin Pushed /\ t \notin late
  BY <1>2 DEF Pushed, IInv, DrainInv
<1>5. Pushed' = Pushed \cup {t}
  BY <1>1, <1>2 DEF Pushed, TypeOK
<1>6. (Pushed \ late)' = IF stop THEN Pushed \ late ELSE (Pushed \ late) \cup {t}
  BY <1>2, <1>4, <1>5
<1>7. RunningTasks' = RunningTasks
  BY <1>2 DEF RunningTasks
<1> QED
  BY <1>2, <1>3, <1>6, <1>7 DEF Abstract!Submit, Abstract!InQueue, InQueue

LEMMA AbstractTake ==
  ASSUME IInv, NEW w \in Workers, Take(w)
  PROVE  Abstract!Begin
<1>1. TypeOK
  BY DEF IInv, CoreInv
<1>2. /\ pc[w] = "ready" /\ pc' = [pc EXCEPT ![w] = "run"]
      /\ task' = [task EXCEPT ![w] = Head(tasks)]
      /\ tasks' = Tail(tasks)
      /\ UNCHANGED <<stop, call, owner, done, late>>
  BY DEF Take, Goto, Front, Popped
<1>3. tasks # <<>>
  BY DEF Take, MayExit, IInv, CoreInv, ReasonInv, SomethingToDo
<1>4. owner # "joined"
  BY <1>2 DEF IInv, DrainInv
<1>5. RunningTasks' = RunningTasks \cup {Head(tasks)}
  <2>1. \A x : Runs(x)' <=> (Runs(x) \/ x = Head(tasks))
    BY <1>1, <1>2 DEF Runs, TypeOK
  <2>2. \A x : x \in RunningTasks' <=> Runs(x)'
    BY DEF RunningTasks, Runs
  <2> QED BY <2>1, <2>2, PlacesRestated
<1>6. Pushed' = Pushed
  BY <1>2 DEF Pushed
<1> QED BY <1>2, <1>3, <1>4, <1>5, <1>6 DEF Abstract!Begin

LEMMA AbstractRun ==
  ASSUME IInv, NEW w \in Workers, Run(w)
  PROVE  task[w] \in Tasks /\ Abstract!Finish(task[w])
<1>1. TypeOK
  BY DEF IInv, CoreInv
<1>2. /\ pc[w] = "run" /\ pc' = [pc EXCEPT ![w] = "lock"]
      /\ task' = [task EXCEPT ![w] = NoTask]
      /\ done' = done \cup {task[w]}
      /\ UNCHANGED <<tasks, stop, call, owner, late>>
  BY DEF Run, Goto, poolvars
<1>3. task[w] \in Tasks /\ Runs(task[w])
  BY <1>1, <1>2 DEF TypeOK, Runs
<1>4. RunningTasks' = RunningTasks \ {task[w]}
  <2>1. \A x : Runs(x)' <=> (Runs(x) /\ x # task[w])
    BY <1>1, <1>2 DEF Runs, TypeOK, IInv, PlaceInv, RunByOne
  <2>2. \A x : x \in RunningTasks' <=> Runs(x)'
    BY DEF RunningTasks, Runs
  <2> QED BY <2>1, <2>2, PlacesRestated
<1>5. Pushed' = Pushed
  BY <1>2 DEF Pushed
<1> QED BY <1>2, <1>3, <1>4, <1>5, PlacesRestated DEF Abstract!Finish

LEMMA AbstractStep == IInv /\ [Next]_vars => [Abstract!Next]_(Abstract!exvars)
<1> SUFFICES ASSUME IInv, [Next]_vars
             PROVE  [Abstract!Next]_(Abstract!exvars)
  OBVIOUS
<1>1. TypeOK /\ CoreInv
  BY DEF IInv, CoreInv
<1>2. ASSUME NEW w \in Workers, \/ Lock(w) \/ Proceed(w) \/ DecideToWait(w)
                                \/ Park(w) \/ Exit(w) \/ WakeSpuriously(w)
      PROVE  UNCHANGED Abstract!exvars
  <2>1. UNCHANGED <<stop, late, owner>>
    BY <1>2 DEF Lock, Proceed, DecideToWait, Park, Exit, WakeSpuriously, poolvars
  <2> QED BY <1>1, <1>2, <2>1, QuietSteps, AbstractQuietStep
<1>3. ASSUME NEW w \in Workers, Take(w) PROVE Abstract!Next
  BY <1>3, AbstractTake DEF Abstract!Next
<1>4. ASSUME NEW w \in Workers, Run(w) PROVE Abstract!Next
  <2>1. PICK t \in Tasks : Abstract!Finish(t)
    BY <1>4, AbstractRun
  <2> QED BY <2>1 DEF Abstract!Next
<1>5. ASSUME NEW t \in Tasks, Push(t) PROVE Abstract!Next
  <2>1. Abstract!Submit(t)
    BY <1>5, AbstractPush
  <2> QED BY <2>1 DEF Abstract!Next
<1>6. ASSUME NEW t \in Tasks, Notify(t) PROVE UNCHANGED Abstract!exvars
  <2>1. UNCHANGED <<tasks, task, done, stop, late, owner>>
    BY <1>6 DEF Notify, poolvars
  <2>2. \A w \in Workers : pc'[w] = "run" <=> pc[w] = "run"
    BY <1>1, <1>6 DEF Notify, NotifyOne, Waiting, Goto, TypeOK
  <2>3. \A x \in Tasks : call'[x] = "none" <=> call[x] = "none"
    BY <1>1, <1>6 DEF Notify, TypeOK
  <2> QED BY <2>1, <2>2, <2>3, AbstractQuietStep
<1>7. CASE SetStop
  <2>1. ~stop /\ owner = "working"
    BY <1>7 DEF SetStop, IInv, DrainInv
  <2>2. RunningTasks' = RunningTasks /\ Pushed' = Pushed
    BY <1>7 DEF SetStop, RunningTasks, Pushed
  <2>3. Abstract!Close
    BY <1>7, <2>1, <2>2 DEF SetStop, Abstract!Close
  <2> QED BY <2>3 DEF Abstract!Next
<1>8. CASE NotifyAll
  <2>1. UNCHANGED <<stop, late>> /\ owner # "joined" /\ owner' # "joined"
    BY <1>8 DEF NotifyAll, poolvars
  <2> QED BY <1>1, <1>8, <2>1, QuietSteps, AbstractQuietStep
<1>9. CASE Join
  <2>1. RunningTasks = {} /\ Pushed \ late \subseteq done
    BY <1>9, AllExited DEF Join
  <2>2. stop /\ owner = "joining" /\ owner' = "joined"
    BY <1>9 DEF Join, IInv, DrainInv
  <2>3. RunningTasks' = RunningTasks /\ Pushed' = Pushed
    BY <1>9 DEF Join, RunningTasks, Pushed
  <2>4. Abstract!End
    BY <1>9, <2>1, <2>2, <2>3 DEF Join, poolvars, Abstract!End
  <2> QED BY <2>4 DEF Abstract!Next
<1>10. CASE UNCHANGED vars
  <2>1. UNCHANGED <<stop, late, owner>>
    BY <1>10 DEF vars, poolvars
  <2> QED BY <1>1, <1>10, <2>1, QuietSteps, AbstractQuietStep DEF vars
<1> QED
  BY <1>2, <1>3, <1>4, <1>5, <1>6, <1>7, <1>8, <1>9, <1>10 DEF Next, Worker

(* Tasks start in the order of their enqueue calls, each once, and the     *)
(* pool ends only when what was promised is done.                          *)
THEOREM ExecutorRefinement == Spec => ImplementsExecutor
<1> QED
  BY AbstractInit, IInvInductive, AbstractStep, PTL
     DEF ImplementsExecutor, Abstract!Spec, Spec
=============================================================================
