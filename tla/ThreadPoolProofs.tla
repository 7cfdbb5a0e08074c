--------------------------- MODULE ThreadPoolProofs ---------------------------
(***************************************************************************)
(* Safety of the worker pool for every number of threads and of tasks.     *)
(* The inductive invariant IInv says which task is where: the tasks that   *)
(* have left the list are 1..Started, a busy worker holds one of them that *)
(* nobody else holds, and the execution count of every task is determined  *)
(* by its place.  The safety properties of ThreadPool follow from it.      *)
(***************************************************************************)
EXTENDS ThreadPool, SequenceTheorems, FiniteSetTheorems, TLAPS

Started == submitted - Len(queue)
Running(t) == \E w \in Workers : worker[w] = "run" /\ current[w] = t

\* The list holds the youngest accepted tasks, oldest first.
QueueShape ==
    /\ Len(queue) <= submitted
    /\ \A i \in 1..Len(queue) : queue[i] = Started + i

\* A busy worker holds a started task, and it alone holds it.
Ownership ==
    /\ \A w \in Busy : current[w] \in 1..Started
    /\ \A v, w \in Busy : current[v] = current[w] => v = w

RunCount ==
    \A t \in Tasks : runs[t] = IF t > Started \/ Running(t) THEN 0 ELSE 1

\* Threads are started in index order; nobody adds a task before all of them
\* are, so a pool that was never complete never had a task.
Lifetimes ==
    /\ \A w \in Workers : worker[w] = "unborn" <=> w > created
    /\ created < NumThreads =>
          submitted = 0 /\ client \in {"create", "join", "freed", "crashed"}
    /\ client = "create" => ~stop /\ created < NumThreads
    /\ stop <=> client \in {"join", "freed", "crashed"}

\* A worker leaves only a stopped pool whose list is empty, and the client
\* frees only what every started worker has left.
Departures ==
    /\ \A w \in Workers : worker[w] = "exited" => stop /\ queue = <<>>
    /\ \A w \in Workers : w <= joined /\ w <= created => worker[w] = "exited"
    /\ joined > 0 => stop
    /\ client = "freed" => joined = NumThreads

ReturnedIsQuiet == client = "returned" => queue_size = 0 /\ active_tasks = 0

\* Once the pool is stopped nobody sleeps on pool->notify.
StoppedIsAwake == stop => \A w \in Workers : worker[w] # "notify"

IInv ==
    /\ TypeOK
    /\ CountersExact
    /\ QueueShape
    /\ Ownership
    /\ RunCount
    /\ Lifetimes
    /\ Departures
    /\ ReturnedIsQuiet
    /\ StoppedIsAwake
    /\ IdleClientHasWork
    /\ NoTaskWaitsBesideASleeper

-----------------------------------------------------------------------------

LEMMA BusyIsFinite == IsFiniteSet(Busy) /\ IsFiniteSet(Fetchers)
<1>1. IsFiniteSet(Workers)
  BY FS_Interval, PoolAssumption DEF Workers
<1>2. Busy \subseteq Workers /\ Fetchers \subseteq Workers
  BY DEF Busy, Fetchers
<1> QED BY <1>1, <1>2, FS_Subset

LEMMA CardBusy ==
    /\ Cardinality(Busy) \in Nat /\ Cardinality(Fetchers) \in Nat
    /\ Cardinality(Busy') \in Nat /\ Cardinality(Fetchers') \in Nat
<1>1. IsFiniteSet(Workers)
  BY FS_Interval, PoolAssumption DEF Workers
<1>2. /\ Busy \subseteq Workers /\ Fetchers \subseteq Workers
      /\ Busy' \subseteq Workers /\ Fetchers' \subseteq Workers
  BY DEF Busy, Fetchers
<1>3. /\ IsFiniteSet(Busy) /\ IsFiniteSet(Fetchers)
      /\ IsFiniteSet(Busy') /\ IsFiniteSet(Fetchers')
  BY <1>1, <1>2, FS_Subset
<1> QED BY <1>3, FS_CardinalityType

LEMMA InitIInv == Init => IInv
<1> SUFFICES ASSUME Init PROVE IInv
  OBVIOUS
<1>1. Busy = {} /\ Cardinality(Busy) = 0
  <2>1. Busy = {} BY DEF Init, Busy
  <2> QED BY <2>1, FS_EmptySet
<1>2. TypeOK
  <2>1. queue \in Seq(Tasks) BY DEF Init
  <2>2. runs \in [Tasks -> Nat] BY DEF Init
  <2>3. worker \in [Workers -> WorkerState] BY DEF Init, WorkerState
  <2>4. current \in [Workers -> Tasks \union {NoTask}] BY DEF Init
  <2>5. client \in ClientState BY DEF Init, ClientState
  <2>6. queue_size \in Nat /\ active_tasks \in Nat BY DEF Init
  <2>7. created \in 0..NumThreads /\ joined \in 0..NumThreads
        /\ submitted \in 0..MaxTasks
    BY PoolAssumption DEF Init
  <2>8. stop \in BOOLEAN BY DEF Init
  <2> QED BY <2>1, <2>2, <2>3, <2>4, <2>5, <2>6, <2>7, <2>8 DEF TypeOK
<1>3. CountersExact /\ QueueShape
  BY <1>1 DEF Init, CountersExact, QueueShape
<1>4. Ownership /\ RunCount
  BY <1>1 DEF Init, Ownership, RunCount, Started, Running, Tasks
<1>5. Lifetimes /\ Departures
  BY PoolAssumption DEF Init, Lifetimes, Departures, Workers
<1>6. ReturnedIsQuiet /\ StoppedIsAwake /\ IdleClientHasWork
      /\ NoTaskWaitsBesideASleeper
  BY DEF Init, ReturnedIsQuiet, StoppedIsAwake, IdleClientHasWork,
         NoTaskWaitsBesideASleeper
<1> QED BY <1>2, <1>3, <1>4, <1>5, <1>6 DEF IInv

-----------------------------------------------------------------------------
(* One lemma per action: it preserves the inductive invariant. *)

\* thread_pool_create starts one more thread
LEMMA CreateThreadStep ==
    ASSUME IInv, CreateThread
    PROVE  IInv'
<1> USE PoolAssumption DEF IInv, TypeOK, WorkerState, ClientState, Workers,
          Tasks, NoTask, CreateThread
<1>1. CountersExact'
  <2>1. created + 1 \in Workers /\ worker[created + 1] = "unborn"
    BY DEF Lifetimes
  <2>2. Busy' = Busy BY <2>1 DEF Busy
  <2> QED BY <2>2 DEF CountersExact
<1>2. TypeOK'
  <2>1. (/\ queue \in Seq(Tasks)
        /\ queue_size \in Nat)'
    BY DEF CountersExact, QueueShape
  <2>2. (/\ worker \in [Workers -> WorkerState]
        /\ current \in [Workers -> Tasks \union {NoTask}])'
    BY DEF Lifetimes
  <2>3. (runs \in [Tasks -> Nat])'
    BY DEF Ownership, Busy, Started
  <2>4. (/\ client \in ClientState
        /\ stop \in BOOLEAN)'
    OBVIOUS
  <2>5. (/\ created \in 0..NumThreads
        /\ joined \in 0..NumThreads
        /\ submitted \in 0..MaxTasks)'
    BY DEF Lifetimes
  <2>6. (active_tasks \in Nat)' BY <1>1, CardBusy DEF CountersExact
  <2> QED BY <2>1, <2>2, <2>3, <2>4, <2>5, <2>6
<1>3. QueueShape'
  BY DEF QueueShape, Started
<1>4. Ownership'
  BY DEF Ownership, Busy, Started, QueueShape
<1>5. RunCount'
  <2>1. created + 1 \in Workers /\ worker[created + 1] = "unborn"
    BY DEF Lifetimes
  <2>2. \A t \in Tasks : Running(t)' <=> Running(t) BY <2>1 DEF Running
  <2> QED BY <2>2 DEF RunCount, Started
<1>6. Lifetimes'
  BY DEF Lifetimes, Departures
<1>7. Departures'
  BY DEF Departures, Lifetimes, QueueShape
<1>8. ReturnedIsQuiet'
  BY DEF ReturnedIsQuiet, CountersExact
<1>9. StoppedIsAwake'
  BY DEF StoppedIsAwake, Lifetimes
<1>10. IdleClientHasWork'
  BY DEF IdleClientHasWork, CountersExact
<1>11. NoTaskWaitsBesideASleeper'
  <2>1. Len(queue') = 0 BY DEF QueueShape, Lifetimes
  <2>2. Cardinality(Fetchers') \in Nat BY CardBusy
  <2> QED BY <2>1, <2>2 DEF NoTaskWaitsBesideASleeper
<1> QED BY <1>1, <1>2, <1>3, <1>4, <1>5, <1>6, <1>7, <1>8, <1>9, <1>10, <1>11

\* pthread_create fails in the middle of the loop
LEMMA CreateFailsStep ==
    ASSUME IInv, CreateFails
    PROVE  IInv'
<1> USE PoolAssumption DEF IInv, TypeOK, WorkerState, ClientState, Workers,
          Tasks, NoTask, CreateFails, BeginDestroy, BroadcastNotify
<1>1. CountersExact'
  <2>1. Busy' = Busy BY DEF Busy
  <2> QED BY <2>1 DEF CountersExact
<1>2. TypeOK'
  <2>1. (/\ queue \in Seq(Tasks)
        /\ queue_size \in Nat)'
    BY DEF CountersExact, QueueShape
  <2>2. (/\ worker \in [Workers -> WorkerState]
        /\ current \in [Workers -> Tasks \union {NoTask}])'
    BY DEF Lifetimes
  <2>3. (runs \in [Tasks -> Nat])'
    BY DEF Ownership, Busy, Started
  <2>4. (/\ client \in ClientState
        /\ stop \in BOOLEAN)'
    OBVIOUS
  <2>5. (/\ created \in 0..NumThreads
        /\ joined \in 0..NumThreads
        /\ submitted \in 0..MaxTasks)'
    BY DEF Lifetimes
  <2>6. (active_tasks \in Nat)' BY <1>1, CardBusy DEF CountersExact
  <2> QED BY <2>1, <2>2, <2>3, <2>4, <2>5, <2>6
<1>3. QueueShape'
  BY DEF QueueShape, Started
<1>4. Ownership'
  BY DEF Ownership, Busy, Started, QueueShape
<1>5. RunCount'
  BY DEF RunCount, Running, Started, Ownership, Busy, QueueShape
<1>6. Lifetimes'
  BY DEF Lifetimes, Departures
<1>7. Departures'
  BY DEF Departures, Lifetimes, QueueShape
<1>8. ReturnedIsQuiet'
  BY DEF ReturnedIsQuiet, CountersExact
<1>9. StoppedIsAwake'
  BY DEF StoppedIsAwake, Lifetimes
<1>10. IdleClientHasWork'
  BY DEF IdleClientHasWork, CountersExact
<1>11. NoTaskWaitsBesideASleeper'
  BY DEF NoTaskWaitsBesideASleeper
<1> QED BY <1>1, <1>2, <1>3, <1>4, <1>5, <1>6, <1>7, <1>8, <1>9, <1>10, <1>11

\* thread_pool_add_task
LEMMA AddTaskStep ==
    ASSUME IInv, AddTask
    PROVE  IInv'
<1> USE PoolAssumption DEF IInv, TypeOK, WorkerState, ClientState, Workers,
          Tasks, NoTask, AddTask, SignalNotify
<1>1. CountersExact'
  <2>1. Busy' = Busy BY DEF Busy
  <2> QED BY <2>1 DEF CountersExact
<1>2. TypeOK'
  <2>1. (/\ queue \in Seq(Tasks)
        /\ queue_size \in Nat)'
    BY DEF CountersExact, QueueShape
  <2>2. (/\ worker \in [Workers -> WorkerState]
        /\ current \in [Workers -> Tasks \union {NoTask}])'
    BY DEF Lifetimes
  <2>3. (runs \in [Tasks -> Nat])'
    BY DEF Ownership, Busy, Started
  <2>4. (/\ client \in ClientState
        /\ stop \in BOOLEAN)'
    OBVIOUS
  <2>5. (/\ created \in 0..NumThreads
        /\ joined \in 0..NumThreads
        /\ submitted \in 0..MaxTasks)'
    BY DEF Lifetimes
  <2>6. (active_tasks \in Nat)' BY <1>1, CardBusy DEF CountersExact
  <2> QED BY <2>1, <2>2, <2>3, <2>4, <2>5, <2>6
<1>3. QueueShape'
  BY DEF QueueShape, Started
<1>4. Ownership'
  <2>1. Started' = Started BY DEF Started
  <2>2. Busy' = Busy BY DEF Busy
  <2> QED BY <2>1, <2>2 DEF Ownership
<1>5. RunCount'
  <2>1. Started' = Started BY DEF Started
  <2>2. \A t \in Tasks : Running(t)' <=> Running(t) BY DEF Running
  <2> QED BY <2>1, <2>2 DEF RunCount
<1>6. Lifetimes'
  BY DEF Lifetimes, Departures
<1>7. Departures'
  BY DEF Departures, Lifetimes, QueueShape
<1>8. ReturnedIsQuiet'
  BY DEF ReturnedIsQuiet, CountersExact
<1>9. StoppedIsAwake'
  BY DEF StoppedIsAwake, Lifetimes
<1>10. IdleClientHasWork'
  BY DEF IdleClientHasWork, CountersExact
<1>11. NoTaskWaitsBesideASleeper'
  <2>1. Len(queue') = Len(queue) + 1 /\ Len(queue) \in Nat OBVIOUS
  <2>2. CASE \E v \in Workers : worker[v] = "notify"
    <3>1. PICK v \in Workers : /\ worker[v] = "notify"
                              /\ worker' = [worker EXCEPT ![v] = "fetch"]
      BY <2>2
    <3>2. Fetchers' = Fetchers \union {v} /\ v \notin Fetchers
      BY <3>1 DEF Fetchers
    <3>3. Cardinality(Fetchers') = Cardinality(Fetchers) + 1
      BY <3>2, BusyIsFinite, FS_AddElement
    <3>4. Len(queue) <= Cardinality(Fetchers)
      BY <2>2 DEF NoTaskWaitsBesideASleeper
    <3>5. Len(queue') <= Cardinality(Fetchers')
      BY <2>1, <3>3, <3>4, CardBusy
    <3> QED BY <3>5 DEF NoTaskWaitsBesideASleeper
  <2>3. CASE ~\E v \in Workers : worker[v] = "notify"
    BY <2>3 DEF NoTaskWaitsBesideASleeper
  <2> QED BY <2>2, <2>3
<1> QED BY <1>1, <1>2, <1>3, <1>4, <1>5, <1>6, <1>7, <1>8, <1>9, <1>10, <1>11

\* a turn of the loop of thread_pool_wait
LEMMA WaitStep ==
    ASSUME IInv, Wait
    PROVE  IInv'
<1> USE PoolAssumption DEF IInv, TypeOK, WorkerState, ClientState, Workers,
          Tasks, NoTask, Wait
<1>1. CountersExact'
  <2>1. Busy' = Busy BY DEF Busy
  <2> QED BY <2>1 DEF CountersExact
<1>2. TypeOK'
  <2>1. (/\ queue \in Seq(Tasks)
        /\ queue_size \in Nat)'
    BY DEF CountersExact, QueueShape
  <2>2. (/\ worker \in [Workers -> WorkerState]
        /\ current \in [Workers -> Tasks \union {NoTask}])'
    BY DEF Lifetimes
  <2>3. (runs \in [Tasks -> Nat])'
    BY DEF Ownership, Busy, Started
  <2>4. (/\ client \in ClientState
        /\ stop \in BOOLEAN)'
    OBVIOUS
  <2>5. (/\ created \in 0..NumThreads
        /\ joined \in 0..NumThreads
        /\ submitted \in 0..MaxTasks)'
    BY DEF Lifetimes
  <2>6. (active_tasks \in Nat)' BY <1>1, CardBusy DEF CountersExact
  <2> QED BY <2>1, <2>2, <2>3, <2>4, <2>5, <2>6
<1>3. QueueShape'
  BY DEF QueueShape, Started
<1>4. Ownership'
  BY DEF Ownership, Busy, Started, QueueShape
<1>5. RunCount'
  BY DEF RunCount, Running, Started, Ownership, Busy, QueueShape
<1>6. Lifetimes'
  BY DEF Lifetimes, Departures
<1>7. Departures'
  BY DEF Departures, Lifetimes, QueueShape
<1>8. ReturnedIsQuiet'
  BY DEF ReturnedIsQuiet, CountersExact
<1>9. StoppedIsAwake'
  BY DEF StoppedIsAwake, Lifetimes
<1>10. IdleClientHasWork'
  BY DEF IdleClientHasWork, CountersExact
<1>11. NoTaskWaitsBesideASleeper'
  BY DEF NoTaskWaitsBesideASleeper, Fetchers
<1> QED BY <1>1, <1>2, <1>3, <1>4, <1>5, <1>6, <1>7, <1>8, <1>9, <1>10, <1>11

\* thread_pool_destroy stops the pool
LEMMA DestroyStep ==
    ASSUME IInv, Destroy
    PROVE  IInv'
<1> USE PoolAssumption DEF IInv, TypeOK, WorkerState, ClientState, Workers,
          Tasks, NoTask, Destroy, BeginDestroy, BroadcastNotify
<1>1. CountersExact'
  <2>1. Busy' = Busy BY DEF Busy
  <2> QED BY <2>1 DEF CountersExact
<1>2. TypeOK'
  <2>1. (/\ queue \in Seq(Tasks)
        /\ queue_size \in Nat)'
    BY DEF CountersExact, QueueShape
  <2>2. (/\ worker \in [Workers -> WorkerState]
        /\ current \in [Workers -> Tasks \union {NoTask}])'
    BY DEF Lifetimes
  <2>3. (runs \in [Tasks -> Nat])'
    BY DEF Ownership, Busy, Started
  <2>4. (/\ client \in ClientState
        /\ stop \in BOOLEAN)'
    OBVIOUS
  <2>5. (/\ created \in 0..NumThreads
        /\ joined \in 0..NumThreads
        /\ submitted \in 0..MaxTasks)'
    BY DEF Lifetimes
  <2>6. (active_tasks \in Nat)' BY <1>1, CardBusy DEF CountersExact
  <2> QED BY <2>1, <2>2, <2>3, <2>4, <2>5, <2>6
<1>3. QueueShape'
  BY DEF QueueShape, Started
<1>4. Ownership'
  BY DEF Ownership, Busy, Started, QueueShape
<1>5. RunCount'
  BY DEF RunCount, Running, Started, Ownership, Busy, QueueShape
<1>6. Lifetimes'
  BY DEF Lifetimes, Departures
<1>7. Departures'
  BY DEF Departures, Lifetimes, QueueShape
<1>8. ReturnedIsQuiet'
  BY DEF ReturnedIsQuiet, CountersExact
<1>9. StoppedIsAwake'
  BY DEF StoppedIsAwake, Lifetimes
<1>10. IdleClientHasWork'
  BY DEF IdleClientHasWork, CountersExact
<1>11. NoTaskWaitsBesideASleeper'
  BY DEF NoTaskWaitsBesideASleeper
<1> QED BY <1>1, <1>2, <1>3, <1>4, <1>5, <1>6, <1>7, <1>8, <1>9, <1>10, <1>11

\* it joins a thread that has exited
LEMMA JoinThreadStep ==
    ASSUME IInv, JoinThread
    PROVE  IInv'
<1> USE PoolAssumption DEF IInv, TypeOK, WorkerState, ClientState, Workers,
          Tasks, NoTask, JoinThread
<1>1. CountersExact'
  <2>1. Busy' = Busy BY DEF Busy
  <2> QED BY <2>1 DEF CountersExact
<1>2. TypeOK'
  <2>1. (/\ queue \in Seq(Tasks)
        /\ queue_size \in Nat)'
    BY DEF CountersExact, QueueShape
  <2>2. (/\ worker \in [Workers -> WorkerState]
        /\ current \in [Workers -> Tasks \union {NoTask}])'
    BY DEF Lifetimes
  <2>3. (runs \in [Tasks -> Nat])'
    BY DEF Ownership, Busy, Started
  <2>4. (/\ client \in ClientState
        /\ stop \in BOOLEAN)'
    OBVIOUS
  <2>5. (/\ created \in 0..NumThreads
        /\ joined \in 0..NumThreads
        /\ submitted \in 0..MaxTasks)'
    BY DEF Lifetimes
  <2>6. (active_tasks \in Nat)' BY <1>1, CardBusy DEF CountersExact
  <2> QED BY <2>1, <2>2, <2>3, <2>4, <2>5, <2>6
<1>3. QueueShape'
  BY DEF QueueShape, Started
<1>4. Ownership'
  BY DEF Ownership, Busy, Started, QueueShape
<1>5. RunCount'
  BY DEF RunCount, Running, Started, Ownership, Busy, QueueShape
<1>6. Lifetimes'
  BY DEF Lifetimes, Departures
<1>7. Departures'
  BY DEF Departures, Lifetimes, QueueShape
<1>8. ReturnedIsQuiet'
  BY DEF ReturnedIsQuiet, CountersExact
<1>9. StoppedIsAwake'
  BY DEF StoppedIsAwake, Lifetimes
<1>10. IdleClientHasWork'
  BY DEF IdleClientHasWork, CountersExact
<1>11. NoTaskWaitsBesideASleeper'
  BY DEF NoTaskWaitsBesideASleeper, Fetchers
<1> QED BY <1>1, <1>2, <1>3, <1>4, <1>5, <1>6, <1>7, <1>8, <1>9, <1>10, <1>11

\* it joins a thread that never started
LEMMA JoinUnbornStep ==
    ASSUME IInv, JoinUnborn
    PROVE  IInv'
<1> USE PoolAssumption DEF IInv, TypeOK, WorkerState, ClientState, Workers,
          Tasks, NoTask, JoinUnborn
<1>1. CountersExact'
  <2>1. Busy' = Busy BY DEF Busy
  <2> QED BY <2>1 DEF CountersExact
<1>2. TypeOK'
  <2>1. (/\ queue \in Seq(Tasks)
        /\ queue_size \in Nat)'
    BY DEF CountersExact, QueueShape
  <2>2. (/\ worker \in [Workers -> WorkerState]
        /\ current \in [Workers -> Tasks \union {NoTask}])'
    BY DEF Lifetimes
  <2>3. (runs \in [Tasks -> Nat])'
    BY DEF Ownership, Busy, Started
  <2>4. (/\ client \in ClientState
        /\ stop \in BOOLEAN)'
    OBVIOUS
  <2>5. (/\ created \in 0..NumThreads
        /\ joined \in 0..NumThreads
        /\ submitted \in 0..MaxTasks)'
    BY DEF Lifetimes
  <2>6. (active_tasks \in Nat)' BY <1>1, CardBusy DEF CountersExact
  <2> QED BY <2>1, <2>2, <2>3, <2>4, <2>5, <2>6
<1>3. QueueShape'
  BY DEF QueueShape, Started
<1>4. Ownership'
  BY DEF Ownership, Busy, Started, QueueShape
<1>5. RunCount'
  BY DEF RunCount, Running, Started, Ownership, Busy, QueueShape
<1>6. Lifetimes'
  BY DEF Lifetimes, Departures
<1>7. Departures'
  BY DEF Departures, Lifetimes, QueueShape
<1>8. ReturnedIsQuiet'
  BY DEF ReturnedIsQuiet, CountersExact
<1>9. StoppedIsAwake'
  BY DEF StoppedIsAwake, Lifetimes
<1>10. IdleClientHasWork'
  BY DEF IdleClientHasWork, CountersExact
<1>11. NoTaskWaitsBesideASleeper'
  BY DEF NoTaskWaitsBesideASleeper, Fetchers
<1> QED BY <1>1, <1>2, <1>3, <1>4, <1>5, <1>6, <1>7, <1>8, <1>9, <1>10, <1>11

\* it frees the pool
LEMMA FreePoolStep ==
    ASSUME IInv, FreePool
    PROVE  IInv'
<1> USE PoolAssumption DEF IInv, TypeOK, WorkerState, ClientState, Workers,
          Tasks, NoTask, FreePool
<1>1. CountersExact'
  <2>1. Busy' = Busy BY DEF Busy
  <2>2. queue = <<>>
    BY DEF Departures, Lifetimes, QueueShape
  <2> QED BY <2>1, <2>2 DEF CountersExact
<1>2. TypeOK'
  <2>1. (/\ queue \in Seq(Tasks)
        /\ queue_size \in Nat)'
    BY DEF CountersExact, QueueShape
  <2>2. (/\ worker \in [Workers -> WorkerState]
        /\ current \in [Workers -> Tasks \union {NoTask}])'
    BY DEF Lifetimes
  <2>3. (runs \in [Tasks -> Nat])'
    BY DEF Ownership, Busy, Started
  <2>4. (/\ client \in ClientState
        /\ stop \in BOOLEAN)'
    OBVIOUS
  <2>5. (/\ created \in 0..NumThreads
        /\ joined \in 0..NumThreads
        /\ submitted \in 0..MaxTasks)'
    BY DEF Lifetimes
  <2>6. (active_tasks \in Nat)' BY <1>1, CardBusy DEF CountersExact
  <2> QED BY <2>1, <2>2, <2>3, <2>4, <2>5, <2>6
<1>3. QueueShape'
  BY DEF QueueShape, Started
<1>4. Ownership'
  BY DEF Ownership, Busy, Started, QueueShape
<1>5. RunCount'
  <2>1. queue' = queue BY DEF Departures, Lifetimes, QueueShape
  <2> QED BY <2>1 DEF RunCount, Running, Started
<1>6. Lifetimes'
  BY DEF Lifetimes, Departures
<1>7. Departures'
  BY DEF Departures, Lifetimes, QueueShape
<1>8. ReturnedIsQuiet'
  BY DEF ReturnedIsQuiet, CountersExact
<1>9. StoppedIsAwake'
  BY DEF StoppedIsAwake, Lifetimes
<1>10. IdleClientHasWork'
  BY DEF IdleClientHasWork, CountersExact
<1>11. NoTaskWaitsBesideASleeper'
  <2>1. queue' = queue BY DEF Departures, Lifetimes, QueueShape
  <2> QED BY <2>1 DEF NoTaskWaitsBesideASleeper, Fetchers
<1> QED BY <1>1, <1>2, <1>3, <1>4, <1>5, <1>6, <1>7, <1>8, <1>9, <1>10, <1>11

\* a worker finds no task
LEMMA SleepStep ==
    ASSUME IInv, NEW w \in Workers, Sleep(w)
    PROVE  IInv'
<1> USE PoolAssumption DEF IInv, TypeOK, WorkerState, ClientState, Workers,
          Tasks, NoTask, Sleep
<1>1. CountersExact'
  <2>1. Busy' = Busy BY DEF Busy
  <2> QED BY <2>1 DEF CountersExact
<1>2. TypeOK'
  <2>1. (/\ queue \in Seq(Tasks)
        /\ queue_size \in Nat)'
    BY DEF CountersExact, QueueShape
  <2>2. (/\ worker \in [Workers -> WorkerState]
        /\ current \in [Workers -> Tasks \union {NoTask}])'
    BY DEF Lifetimes
  <2>3. (runs \in [Tasks -> Nat])'
    BY DEF Ownership, Busy, Started
  <2>4. (/\ client \in ClientState
        /\ stop \in BOOLEAN)'
    OBVIOUS
  <2>5. (/\ created \in 0..NumThreads
        /\ joined \in 0..NumThreads
        /\ submitted \in 0..MaxTasks)'
    BY DEF Lifetimes
  <2>6. (active_tasks \in Nat)' BY <1>1, CardBusy DEF CountersExact
  <2> QED BY <2>1, <2>2, <2>3, <2>4, <2>5, <2>6
<1>3. QueueShape'
  BY DEF QueueShape, Started
<1>4. Ownership'
  BY DEF Ownership, Busy, Started, QueueShape
<1>5. RunCount'
  BY DEF RunCount, Running, Started, Ownership, Busy, QueueShape
<1>6. Lifetimes'
  BY DEF Lifetimes, Departures
<1>7. Departures'
  BY DEF Departures, Lifetimes, QueueShape
<1>8. ReturnedIsQuiet'
  BY DEF ReturnedIsQuiet, CountersExact
<1>9. StoppedIsAwake'
  BY DEF StoppedIsAwake, Lifetimes
<1>10. IdleClientHasWork'
  BY DEF IdleClientHasWork, CountersExact
<1>11. NoTaskWaitsBesideASleeper'
  BY CardBusy DEF NoTaskWaitsBesideASleeper
<1> QED BY <1>1, <1>2, <1>3, <1>4, <1>5, <1>6, <1>7, <1>8, <1>9, <1>10, <1>11

\* a worker leaves the stopped pool
LEMMA ExitStep ==
    ASSUME IInv, NEW w \in Workers, Exit(w)
    PROVE  IInv'
<1> USE PoolAssumption DEF IInv, TypeOK, WorkerState, ClientState, Workers,
          Tasks, NoTask, Exit
<1>1. CountersExact'
  <2>1. Busy' = Busy BY DEF Busy
  <2> QED BY <2>1 DEF CountersExact
<1>2. TypeOK'
  <2>1. (/\ queue \in Seq(Tasks)
        /\ queue_size \in Nat)'
    BY DEF CountersExact, QueueShape
  <2>2. (/\ worker \in [Workers -> WorkerState]
        /\ current \in [Workers -> Tasks \union {NoTask}])'
    BY DEF Lifetimes
  <2>3. (runs \in [Tasks -> Nat])'
    BY DEF Ownership, Busy, Started
  <2>4. (/\ client \in ClientState
        /\ stop \in BOOLEAN)'
    OBVIOUS
  <2>5. (/\ created \in 0..NumThreads
        /\ joined \in 0..NumThreads
        /\ submitted \in 0..MaxTasks)'
    BY DEF Lifetimes
  <2>6. (active_tasks \in Nat)' BY <1>1, CardBusy DEF CountersExact
  <2> QED BY <2>1, <2>2, <2>3, <2>4, <2>5, <2>6
<1>3. QueueShape'
  BY DEF QueueShape, Started
<1>4. Ownership'
  BY DEF Ownership, Busy, Started, QueueShape
<1>5. RunCount'
  BY DEF RunCount, Running, Started, Ownership, Busy, QueueShape
<1>6. Lifetimes'
  BY DEF Lifetimes, Departures
<1>7. Departures'
  BY DEF Departures, Lifetimes, QueueShape
<1>8. ReturnedIsQuiet'
  BY DEF ReturnedIsQuiet, CountersExact
<1>9. StoppedIsAwake'
  BY DEF StoppedIsAwake, Lifetimes
<1>10. IdleClientHasWork'
  BY DEF IdleClientHasWork, CountersExact
<1>11. NoTaskWaitsBesideASleeper'
  BY CardBusy DEF NoTaskWaitsBesideASleeper
<1> QED BY <1>1, <1>2, <1>3, <1>4, <1>5, <1>6, <1>7, <1>8, <1>9, <1>10, <1>11

\* a worker takes the head of the list
LEMMA TakeStep ==
    ASSUME IInv, NEW w \in Workers, Take(w)
    PROVE  IInv'
<1> USE PoolAssumption DEF IInv, TypeOK, WorkerState, ClientState, Workers,
          Tasks, NoTask, Take
<1>1. CountersExact'
  <2>1. Busy' = Busy \union {w} /\ w \notin Busy BY DEF Busy
  <2>2. Cardinality(Busy') = Cardinality(Busy) + 1
    BY <2>1, BusyIsFinite, FS_AddElement
  <2>3. Len(queue') = Len(queue) - 1 OBVIOUS
  <2> QED BY <2>2, <2>3 DEF CountersExact
<1>2. TypeOK'
  <2>1. (/\ queue \in Seq(Tasks)
        /\ queue_size \in Nat)'
    BY DEF CountersExact, QueueShape
  <2>2. (/\ worker \in [Workers -> WorkerState]
        /\ current \in [Workers -> Tasks \union {NoTask}])'
    <3>1. Head(queue) \in Tasks OBVIOUS
    <3>2. worker' \in [Workers -> WorkerState] OBVIOUS
    <3>3. current' \in [Workers -> Tasks \union {NoTask}] BY <3>1
    <3> QED BY <3>2, <3>3
  <2>3. (runs \in [Tasks -> Nat])'
    BY DEF Ownership, Busy, Started
  <2>4. (/\ client \in ClientState
        /\ stop \in BOOLEAN)'
    OBVIOUS
  <2>5. (/\ created \in 0..NumThreads
        /\ joined \in 0..NumThreads
        /\ submitted \in 0..MaxTasks)'
    BY DEF Lifetimes
  <2>6. (active_tasks \in Nat)' BY <1>1, CardBusy DEF CountersExact
  <2> QED BY <2>1, <2>2, <2>3, <2>4, <2>5, <2>6
<1>3. QueueShape'
  BY DEF QueueShape, Started
<1>4. Ownership'
  <2>1. Started' = Started + 1 BY DEF Started
  <2>2. Started \in Nat BY DEF Started, QueueShape
  <2>3. current'[w] = Started + 1 BY DEF QueueShape, Started
  <2>4. Busy' = Busy \union {w} /\ w \notin Busy BY DEF Busy
  <2>5. \A v \in Busy : current'[v] = current[v] BY <2>4 DEF Busy
  <2>6. Busy \subseteq Workers BY DEF Busy
  <2>7. \A v \in Busy' : current'[v] \in 1..Started'
    BY <2>1, <2>2, <2>3, <2>4, <2>5, <2>6 DEF Ownership
  <2>8. \A v \in Busy : current'[v] # current'[w]
    BY <2>2, <2>3, <2>4, <2>5, <2>6 DEF Ownership
  <2>9. \A u, v \in Busy' : current'[u] = current'[v] => u = v
    BY <2>4, <2>5, <2>6, <2>8 DEF Ownership
  <2> QED BY <2>7, <2>9 DEF Ownership
<1>5. RunCount'
  <2>1. Started' = Started + 1 BY DEF Started
  <2>2. Started \in Nat BY DEF Started, QueueShape
  <2>3. current'[w] = Started + 1 BY DEF QueueShape, Started
  <2>4. \A t \in Tasks : Running(t)' <=> Running(t) \/ t = Started + 1
    BY <2>3 DEF Running
  <2> QED BY <2>1, <2>2, <2>4 DEF RunCount
<1>6. Lifetimes'
  BY DEF Lifetimes, Departures
<1>7. Departures'
  BY DEF Departures, Lifetimes, QueueShape
<1>8. ReturnedIsQuiet'
  BY DEF ReturnedIsQuiet, CountersExact
<1>9. StoppedIsAwake'
  BY DEF StoppedIsAwake, Lifetimes
<1>10. IdleClientHasWork'
  BY DEF IdleClientHasWork, CountersExact
<1>11. NoTaskWaitsBesideASleeper'
  <2>1. Fetchers' = Fetchers \ {w} /\ w \in Fetchers BY DEF Fetchers
  <2>2. Cardinality(Fetchers') = Cardinality(Fetchers) - 1
    BY <2>1, BusyIsFinite, FS_RemoveElement
  <2>3. Len(queue') = Len(queue) - 1 /\ Len(queue) \in Nat OBVIOUS
  <2> SUFFICES ASSUME NEW v \in Workers, worker'[v] = "notify"
               PROVE  Len(queue') <= Cardinality(Fetchers')
    BY DEF NoTaskWaitsBesideASleeper
  <2>4. worker[v] = "notify" OBVIOUS
  <2>5. Len(queue) <= Cardinality(Fetchers)
    BY <2>4 DEF NoTaskWaitsBesideASleeper
  <2> QED BY <2>2, <2>3, <2>5, CardBusy
<1> QED BY <1>1, <1>2, <1>3, <1>4, <1>5, <1>6, <1>7, <1>8, <1>9, <1>10, <1>11

\* a worker executes its task
LEMMA RunStep ==
    ASSUME IInv, NEW w \in Workers, Run(w)
    PROVE  IInv'
<1> USE PoolAssumption DEF IInv, TypeOK, WorkerState, ClientState, Workers,
          Tasks, NoTask, Run
<1>1. CountersExact'
  <2>1. Busy' = Busy BY DEF Busy
  <2> QED BY <2>1 DEF CountersExact
<1>2. TypeOK'
  <2>1. (/\ queue \in Seq(Tasks)
        /\ queue_size \in Nat)'
    BY DEF CountersExact, QueueShape
  <2>2. (/\ worker \in [Workers -> WorkerState]
        /\ current \in [Workers -> Tasks \union {NoTask}])'
    BY DEF Lifetimes
  <2>3. (runs \in [Tasks -> Nat])'
    BY DEF Ownership, Busy, Started
  <2>4. (/\ client \in ClientState
        /\ stop \in BOOLEAN)'
    OBVIOUS
  <2>5. (/\ created \in 0..NumThreads
        /\ joined \in 0..NumThreads
        /\ submitted \in 0..MaxTasks)'
    BY DEF Lifetimes
  <2>6. (active_tasks \in Nat)' BY <1>1, CardBusy DEF CountersExact
  <2> QED BY <2>1, <2>2, <2>3, <2>4, <2>5, <2>6
<1>3. QueueShape'
  BY DEF QueueShape, Started
<1>4. Ownership'
  BY DEF Ownership, Busy, Started, QueueShape
<1>5. RunCount'
  BY DEF RunCount, Running, Started, Ownership, Busy, QueueShape
<1>6. Lifetimes'
  BY DEF Lifetimes, Departures
<1>7. Departures'
  BY DEF Departures, Lifetimes, QueueShape
<1>8. ReturnedIsQuiet'
  BY DEF ReturnedIsQuiet, CountersExact
<1>9. StoppedIsAwake'
  BY DEF StoppedIsAwake, Lifetimes
<1>10. IdleClientHasWork'
  BY DEF IdleClientHasWork, CountersExact
<1>11. NoTaskWaitsBesideASleeper'
  BY DEF NoTaskWaitsBesideASleeper, Fetchers
<1> QED BY <1>1, <1>2, <1>3, <1>4, <1>5, <1>6, <1>7, <1>8, <1>9, <1>10, <1>11

\* a worker is done with its task
LEMMA FinishStep ==
    ASSUME IInv, NEW w \in Workers, Finish(w)
    PROVE  IInv'
<1> USE PoolAssumption DEF IInv, TypeOK, WorkerState, ClientState, Workers,
          Tasks, NoTask, Finish, BroadcastIdle
<1>1. CountersExact'
  <2>1. Busy' = Busy \ {w} /\ w \in Busy BY DEF Busy
  <2>2. Cardinality(Busy') = Cardinality(Busy) - 1
    BY <2>1, BusyIsFinite, FS_RemoveElement
  <2> QED BY <2>2 DEF CountersExact
<1>2. TypeOK'
  <2>1. (/\ queue \in Seq(Tasks)
        /\ queue_size \in Nat)'
    BY DEF CountersExact, QueueShape
  <2>2. (/\ worker \in [Workers -> WorkerState]
        /\ current \in [Workers -> Tasks \union {NoTask}])'
    BY DEF Lifetimes
  <2>3. (runs \in [Tasks -> Nat])'
    BY DEF Ownership, Busy, Started
  <2>4. (/\ client \in ClientState
        /\ stop \in BOOLEAN)'
    OBVIOUS
  <2>5. (/\ created \in 0..NumThreads
        /\ joined \in 0..NumThreads
        /\ submitted \in 0..MaxTasks)'
    BY DEF Lifetimes
  <2>6. (active_tasks \in Nat)' BY <1>1, CardBusy DEF CountersExact
  <2> QED BY <2>1, <2>2, <2>3, <2>4, <2>5, <2>6
<1>3. QueueShape'
  BY DEF QueueShape, Started
<1>4. Ownership'
  BY DEF Ownership, Busy, Started, QueueShape
<1>5. RunCount'
  BY DEF RunCount, Running, Started, Ownership, Busy, QueueShape
<1>6. Lifetimes'
  BY DEF Lifetimes, Departures
<1>7. Departures'
  BY DEF Departures, Lifetimes, QueueShape
<1>8. ReturnedIsQuiet'
  <2>1. w \in Busy BY DEF Busy
  <2>2. active_tasks # 0
    BY <2>1, BusyIsFinite, FS_EmptySet DEF CountersExact
  <2> QED BY <2>2 DEF ReturnedIsQuiet
<1>9. StoppedIsAwake'
  BY DEF StoppedIsAwake, Lifetimes
<1>10. IdleClientHasWork'
  BY DEF IdleClientHasWork, CountersExact
<1>11. NoTaskWaitsBesideASleeper'
  <2>1. Fetchers' = Fetchers \union {w} /\ w \notin Fetchers
    BY DEF Fetchers
  <2>2. Cardinality(Fetchers') = Cardinality(Fetchers) + 1
    BY <2>1, BusyIsFinite, FS_AddElement
  <2>3. (\E v \in Workers : worker'[v] = "notify")
        => \E v \in Workers : worker[v] = "notify"
    OBVIOUS
  <2> QED BY <2>2, <2>3, CardBusy DEF NoTaskWaitsBesideASleeper
<1> QED BY <1>1, <1>2, <1>3, <1>4, <1>5, <1>6, <1>7, <1>8, <1>9, <1>10, <1>11

\* a condition variable returns spuriously
LEMMA SpuriousWakeStep ==
    ASSUME IInv, SpuriousWake
    PROVE  IInv'
<1> USE PoolAssumption DEF IInv, TypeOK, WorkerState, ClientState, Workers,
          Tasks, NoTask, SpuriousWake
<1>1. CountersExact'
  <2>1. Busy' = Busy BY DEF Busy
  <2> QED BY <2>1 DEF CountersExact
<1>2. TypeOK'
  <2>1. (/\ queue \in Seq(Tasks)
        /\ queue_size \in Nat)'
    BY DEF CountersExact, QueueShape
  <2>2. (/\ worker \in [Workers -> WorkerState]
        /\ current \in [Workers -> Tasks \union {NoTask}])'
    BY DEF Lifetimes
  <2>3. (runs \in [Tasks -> Nat])'
    BY DEF Ownership, Busy, Started
  <2>4. (/\ client \in ClientState
        /\ stop \in BOOLEAN)'
    OBVIOUS
  <2>5. (/\ created \in 0..NumThreads
        /\ joined \in 0..NumThreads
        /\ submitted \in 0..MaxTasks)'
    BY DEF Lifetimes
  <2>6. (active_tasks \in Nat)' BY <1>1, CardBusy DEF CountersExact
  <2> QED BY <2>1, <2>2, <2>3, <2>4, <2>5, <2>6
<1>3. QueueShape'
  BY DEF QueueShape, Started
<1>4. Ownership'
  BY DEF Ownership, Busy, Started, QueueShape
<1>5. RunCount'
  BY DEF RunCount, Running, Started, Ownership, Busy, QueueShape
<1>6. Lifetimes'
  BY DEF Lifetimes, Departures
<1>7. Departures'
  BY DEF Departures, Lifetimes, QueueShape
<1>8. ReturnedIsQuiet'
  BY DEF ReturnedIsQuiet, CountersExact
<1>9. StoppedIsAwake'
  BY DEF StoppedIsAwake, Lifetimes
<1>10. IdleClientHasWork'
  BY DEF IdleClientHasWork, CountersExact
<1>11. NoTaskWaitsBesideASleeper'
  <2>1. ASSUME NEW v \in Workers, worker[v] = "notify",
               worker' = [worker EXCEPT ![v] = "fetch"]
        PROVE  NoTaskWaitsBesideASleeper'
    <3>1. Fetchers' = Fetchers \union {v} /\ v \notin Fetchers
      BY <2>1 DEF Fetchers
    <3>2. Cardinality(Fetchers') = Cardinality(Fetchers) + 1
      BY <3>1, BusyIsFinite, FS_AddElement
    <3> QED BY <2>1, <3>2, CardBusy DEF NoTaskWaitsBesideASleeper
  <2>2. CASE UNCHANGED worker
    BY <2>2 DEF NoTaskWaitsBesideASleeper, Fetchers
  <2> QED BY <2>1, <2>2
<1> QED BY <1>1, <1>2, <1>3, <1>4, <1>5, <1>6, <1>7, <1>8, <1>9, <1>10, <1>11

-----------------------------------------------------------------------------
(* The theorems *)

LEMMA StutterStep == ASSUME IInv, UNCHANGED vars PROVE IInv'
<1> SUFFICES /\ TypeOK' /\ CountersExact' /\ QueueShape' /\ Ownership'
             /\ RunCount' /\ Lifetimes' /\ Departures' /\ ReturnedIsQuiet'
             /\ StoppedIsAwake' /\ IdleClientHasWork'
             /\ NoTaskWaitsBesideASleeper'
  BY DEF IInv
<1> USE DEF IInv, vars
<1>1. TypeOK' BY DEF TypeOK
<1>2. Busy' = Busy /\ Fetchers' = Fetchers /\ Started' = Started
  BY DEF Busy, Fetchers, Started
<1>3. CountersExact' BY <1>2 DEF CountersExact
<1>4. QueueShape' /\ Ownership' BY <1>2 DEF QueueShape, Ownership
<1>5. RunCount' BY <1>2 DEF RunCount, Running
<1>6. Lifetimes' /\ Departures' BY DEF Lifetimes, Departures
<1>7. ReturnedIsQuiet' /\ StoppedIsAwake' /\ IdleClientHasWork'
  BY DEF ReturnedIsQuiet, StoppedIsAwake, IdleClientHasWork
<1>8. NoTaskWaitsBesideASleeper' BY <1>2 DEF NoTaskWaitsBesideASleeper
<1> QED BY <1>1, <1>3, <1>4, <1>5, <1>6, <1>7, <1>8

\* The invariant from which every safety property of the pool follows: it
\* holds of each state thread_pool.c can reach, for any number of threads.
THEOREM Invariance == Spec => []IInv
<1>1. IInv /\ [Next]_vars => IInv'
  BY CreateThreadStep, CreateFailsStep, AddTaskStep, WaitStep, DestroyStep,
     JoinThreadStep, JoinUnbornStep, FreePoolStep, SleepStep, ExitStep,
     TakeStep, RunStep, FinishStep, SpuriousWakeStep, StutterStep
     DEF Next, WorkerStep, Terminated
<1> QED BY InitIInv, <1>1, PTL DEF Spec

\* Every variable of the pool keeps its type: in particular queue_size and
\* active_tasks, which are unsigned in the code, never go below zero.
THEOREM TypeCorrect == Spec => []TypeOK
<1>1. IInv => TypeOK BY DEF IInv
<1> QED BY <1>1, Invariance, PTL

\* The counters thread_pool_wait relies on are exact outside the lock.
THEOREM CountersCorrect == Spec => []CountersExact
<1>1. IInv => CountersExact BY DEF IInv
<1> QED BY <1>1, Invariance, PTL

\* No task function is executed twice, however many workers compete for it.
THEOREM NoTaskRunsTwice == Spec => []AtMostOnce
<1>1. IInv => AtMostOnce BY DEF IInv, RunCount, AtMostOnce
<1> QED BY <1>1, Invariance, PTL

\* When nothing is queued and nobody is busy, everything accepted has run.
LEMMA QuietMeansDone ==
    ASSUME IInv, queue = <<>>, Busy = {}
    PROVE  \A t \in 1..submitted : runs[t] = 1
<1>1. Started = submitted BY DEF Started, IInv, TypeOK
<1>2. \A t \in Tasks : ~Running(t) BY DEF Running, Busy
<1>3. 1..submitted \subseteq Tasks
  BY PoolAssumption DEF IInv, TypeOK, Tasks
<1> QED BY <1>1, <1>2, <1>3 DEF IInv, RunCount, TypeOK

\* thread_pool_wait returns only after every task added so far has been run to
\* the end, which is what lets its callers free the batch the tasks work on.
THEOREM WaitIsABarrier == Spec => []WaitMeansDone
<1>1. IInv => WaitMeansDone
  <2> SUFFICES ASSUME IInv, client = "returned"
               PROVE  \A t \in 1..submitted : runs[t] = 1
    BY DEF WaitMeansDone
  <2>1. queue_size = 0 /\ active_tasks = 0 BY DEF IInv, ReturnedIsQuiet
  <2>2. queue = <<>> BY <2>1, EmptySeq DEF IInv, CountersExact, TypeOK
  <2>3. Busy = {}
    BY <2>1, BusyIsFinite, FS_EmptySet DEF IInv, CountersExact
  <2> QED BY <2>2, <2>3, QuietMeansDone
<1> QED BY <1>1, Invariance, PTL

\* thread_pool_destroy, called with or without a wait, drops no task: workers
\* leave a stopped pool only when its list is empty.
THEOREM DestroyDropsNothing == Spec => []DestroyDrains
<1>1. IInv => DestroyDrains
  <2> SUFFICES ASSUME IInv, client = "freed"
               PROVE  \A t \in 1..submitted : runs[t] = 1
    BY DEF DestroyDrains
  <2> USE PoolAssumption DEF IInv, TypeOK, Lifetimes, Departures, Workers
  <2>1. \A w \in Workers : worker[w] \in {"exited", "unborn"} OBVIOUS
  <2>2. Busy = {} BY <2>1 DEF Busy
  <2>3. queue = <<>> BY DEF QueueShape
  <2> QED BY <2>2, <2>3, QuietMeansDone
<1> QED BY <1>1, Invariance, PTL

\* No wake-up is lost: neither a worker nor the client sleeps beside work
\* that nobody is on the way to do.
THEOREM NoLostWakeUp == Spec => [](NoTaskWaitsBesideASleeper /\ IdleClientHasWork)
<1>1. IInv => NoTaskWaitsBesideASleeper /\ IdleClientHasWork BY DEF IInv
<1> QED BY <1>1, Invariance, PTL

-----------------------------------------------------------------------------
(* Refinement *)

Executed == {t \in Tasks : runs[t] > 0}

\* With nothing queued and nobody busy the abstract group is done.
LEMMA QuietIsAllDone ==
    ASSUME IInv, queue = <<>>, Busy = {}
    PROVE  Executed = 1..submitted
<1>1. Started = submitted BY DEF Started, IInv, TypeOK
<1>2. \A t \in Tasks : ~Running(t) BY DEF Running, Busy
<1>3. 1..submitted \subseteq Tasks
  BY PoolAssumption DEF IInv, TypeOK, Tasks
<1>4. \A t \in Tasks : runs[t] > 0 <=> t <= submitted
  BY <1>1, <1>2, PoolAssumption DEF IInv, RunCount, TypeOK, Tasks
<1> QED BY <1>3, <1>4 DEF Executed, Tasks

LEMMA ReturnedIsAllDone ==
    ASSUME IInv, queue_size = 0, active_tasks = 0
    PROVE  Executed = 1..submitted
<1>1. queue = <<>> BY EmptySeq DEF IInv, CountersExact, TypeOK
<1>2. Busy = {} BY BusyIsFinite, FS_EmptySet DEF IInv, CountersExact
<1> QED BY <1>1, <1>2, QuietIsAllDone

\* The abstract variables, as the refinement mapping sees them.
LEMMA GroupStep == ASSUME IInv, [Next]_vars
                   PROVE  [Group!GroupNext]_(Group!groupVars)
<1> DEFINE c == CASE client = "returned" -> "told"
                  [] client = "freed"    -> "closed"
                  [] OTHER               -> "open"
           same == c' = c /\ Executed' = Executed
<1> USE DEF Group!GroupNext, Group!groupVars, Executed
<1>1. CASE CreateThread \/ CreateFails
  <2>1. c = "open" /\ c' = "open"
    BY <1>1 DEF CreateThread, CreateFails, BeginDestroy
  <2> QED BY <1>1, <2>1 DEF CreateThread, CreateFails, BeginDestroy
<1>2. CASE AddTask
  <2>1. c # "closed" /\ c' = "open" BY <1>2 DEF AddTask
  <2>2. submitted' - Len(queue') = submitted - Len(queue)
    BY <1>2 DEF AddTask, IInv, TypeOK
  <2>3. Group!Accept BY <1>2, <2>1, <2>2 DEF AddTask, Group!Accept
  <2> QED BY <2>3
<1>3. CASE Wait
  <2>1. CASE queue_size > 0 \/ active_tasks > 0
    <3>1. c = "open" /\ c' = "open" BY <1>3, <2>1 DEF Wait
    <3> QED BY <1>3, <3>1 DEF Wait
  <2>2. CASE ~(queue_size > 0 \/ active_tasks > 0)
    <3>1. c = "open" /\ c' = "told" BY <1>3, <2>2 DEF Wait
    <3>2. Executed = 1..submitted
      BY <2>2, ReturnedIsAllDone DEF IInv, TypeOK
    <3>3. Group!Tell
      BY <1>3, <3>1, <3>2 DEF Wait, Group!Tell, Group!AllDone
    <3> QED BY <3>3
  <2> QED BY <2>1, <2>2
<1>4. CASE Destroy
  <2>1. CASE client = "ready"
    BY <1>4, <2>1 DEF Destroy, BeginDestroy
  <2>2. CASE client = "returned"
    <3>1. Group!Release BY <1>4, <2>2 DEF Destroy, BeginDestroy, Group!Release
    <3> QED BY <3>1
  <2> QED BY <1>4, <2>1, <2>2 DEF Destroy
<1>5. CASE JoinThread \/ JoinUnborn
  <2>1. c = "open" /\ c' = "open" BY <1>5 DEF JoinThread, JoinUnborn
  <2> QED BY <1>5, <2>1 DEF JoinThread, JoinUnborn
<1>6. CASE FreePool
  <2> USE PoolAssumption DEF IInv, TypeOK, Lifetimes, Departures, Workers
  <2>1. \A w \in Workers : worker[w] \in {"exited", "unborn"}
    BY <1>6 DEF FreePool
  <2>2. Busy = {} BY <2>1 DEF Busy
  <2>3. queue = <<>> BY <1>6 DEF QueueShape, FreePool
  <2>4. Executed = 1..submitted BY <2>2, <2>3, QuietIsAllDone
  <2>5. c = "open" /\ c' = "closed" BY <1>6 DEF FreePool
  <2>6. Group!Close
    BY <1>6, <2>3, <2>4, <2>5 DEF FreePool, Group!Close, Group!AllDone
  <2> QED BY <2>6
<1>7. ASSUME NEW w \in Workers, Take(w)
      PROVE  Group!Start
  <2>1. /\ submitted' - Len(queue') = submitted - Len(queue) + 1
        /\ submitted - Len(queue) < submitted
    BY <1>7 DEF Take, IInv, TypeOK
  <2> QED BY <1>7, <2>1 DEF Take, Group!Start
<1>8. ASSUME NEW w \in Workers, Run(w)
      PROVE  Group!Execute
  <2> DEFINE t == current[w]
  <2>1. t \in 1..Started /\ t \in Tasks /\ runs[t] = 0
    BY <1>8, PoolAssumption
       DEF Run, IInv, TypeOK, Ownership, Busy, RunCount, Running, Tasks,
           Started, QueueShape
  <2>2. Executed' = Executed \union {t}
    BY <1>8, <2>1 DEF Run, IInv, TypeOK
  <2> QED BY <1>8, <2>1, <2>2 DEF Run, Group!Execute, Started
<1>9. ASSUME NEW w \in Workers, Sleep(w) \/ Exit(w) \/ Finish(w)
      PROVE  UNCHANGED Group!groupVars
  <2>1. c' = c BY <1>9 DEF Sleep, Exit, Finish, BroadcastIdle
  <2> QED BY <1>9, <2>1 DEF Sleep, Exit, Finish
<1>10. CASE SpuriousWake
  <2>1. c' = c BY <1>10 DEF SpuriousWake
  <2> QED BY <1>10, <2>1 DEF SpuriousWake
<1>11. CASE UNCHANGED vars
  BY <1>11 DEF vars
<1> QED
  BY <1>1, <1>2, <1>3, <1>4, <1>5, <1>6, <1>7, <1>8, <1>9, <1>10, <1>11
     DEF Next, WorkerStep, Terminated

\* The pool, for any number of threads, is a group of tasks that start in the
\* order they were added, run once each, and are all done when the client is
\* told so or has released the pool.
THEOREM PoolImplementsTaskGroup == Spec => ImplementsTaskGroup
<1>1. Init => Group!GroupInit
  <2> SUFFICES ASSUME Init PROVE Group!GroupInit
    OBVIOUS
  <2>1. {t \in Tasks : runs[t] > 0} = {} BY DEF Init
  <2>2. submitted = 0 /\ Len(queue) = 0 BY EmptySeq DEF Init
  <2>3. client = "create" BY DEF Init
  <2>4. submitted - Len(queue) = 0 BY <2>2
  <2>5. (CASE client = "returned" -> "told"
           [] client = "freed"    -> "closed"
           [] OTHER               -> "open") = "open"
    BY <2>3
  <2> QED BY <2>1, <2>2, <2>4, <2>5, Zenon DEF Group!GroupInit
<1>2. IInv /\ [Next]_vars => [Group!GroupNext]_(Group!groupVars)
  BY GroupStep
<1> QED BY <1>1, <1>2, Invariance, PTL DEF Spec, ImplementsTaskGroup, Group!GroupSpec

=============================================================================
