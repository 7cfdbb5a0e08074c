------------------------------ MODULE ThreadPool ------------------------------
(***************************************************************************)
(* The worker pool of src/src/utils/thread_pool.c: one client thread (the  *)
(* main thread of the linker and of the command dispatcher) creates the    *)
(* pool, adds tasks, waits for them and destroys the pool; the workers     *)
(* fetch tasks from a FIFO list under pool->lock.                          *)
(*                                                                         *)
(* A critical section of pool->lock is one action: the mutex makes it      *)
(* atomic.  pthread_cond_wait splits it: the thread enters a wait state,   *)
(* is moved out of it by a signal, a broadcast or spuriously, and then     *)
(* runs the section again from the loop's test.                            *)
(***************************************************************************)
EXTENDS Naturals, Sequences, FiniteSets

CONSTANTS NumThreads,   \* the num_threads argument of thread_pool_create
          MaxTasks      \* bound on the tasks the client adds

ASSUME PoolAssumption == NumThreads \in Nat \ {0} /\ MaxTasks \in Nat

Workers == 1..NumThreads
Tasks   == 1..MaxTasks     \* tasks, numbered in the order they are added
NoTask  == 0

VARIABLES
    queue,         \* task_queue_head .. task_queue_tail, head first
    queue_size,    \* pool->queue_size
    active_tasks,  \* pool->active_tasks
    stop,          \* pool->stop
    worker,        \* where each worker stands in worker_thread_routine
    current,       \* the worker's local variable task
    client,        \* where the client stands in the pool's interface
    created,       \* threads pthread_create has started, in index order
    joined,        \* threads thread_pool_destroy has joined, in index order
    submitted,     \* tasks accepted by thread_pool_add_task
    runs           \* how often each task's function has been executed

vars == <<queue, queue_size, active_tasks, stop, worker, current, client,
          created, joined, submitted, runs>>

WorkerState == {"unborn", "fetch", "notify", "run", "finish", "exited"}
ClientState == {"create", "ready", "idle", "rewait", "returned", "join",
                "freed", "crashed"}

TypeOK ==
    /\ queue \in Seq(Tasks)
    /\ queue_size \in Nat
    /\ active_tasks \in Nat
    /\ stop \in BOOLEAN
    /\ worker \in [Workers -> WorkerState]
    /\ current \in [Workers -> Tasks \union {NoTask}]
    /\ client \in ClientState
    /\ created \in 0..NumThreads
    /\ joined \in 0..NumThreads
    /\ submitted \in 0..MaxTasks
    /\ runs \in [Tasks -> Nat]

Init ==
    /\ queue = <<>>
    /\ queue_size = 0
    /\ active_tasks = 0
    /\ stop = FALSE
    /\ worker = [w \in Workers |-> "unborn"]
    /\ current = [w \in Workers |-> NoTask]
    /\ client = "create"
    /\ created = 0
    /\ joined = 0
    /\ submitted = 0
    /\ runs = [t \in Tasks |-> 0]

-----------------------------------------------------------------------------
(* Condition variables *)

\* Mutant of BroadcastNotify: pthread_cond_signal for pthread_cond_broadcast.
WakeFirst(wstate) ==
    [w \in Workers |->
        IF wstate[w] = "notify" /\ \A v \in 1..w-1 : wstate[v] # "notify"
        THEN "fetch" ELSE wstate[w]]

\* pthread_cond_broadcast(&pool->notify)
BroadcastNotify(wstate) ==
    [w \in Workers |-> IF wstate[w] = "notify" THEN "fetch" ELSE wstate[w]]

\* Mutant of SignalNotify: the signal is forgotten.
NotifyNobody == UNCHANGED worker

\* pthread_cond_signal(&pool->notify): some waiter wakes, if there is one
SignalNotify ==
    IF \E w \in Workers : worker[w] = "notify"
    THEN \E w \in Workers :
            /\ worker[w] = "notify"
            /\ worker' = [worker EXCEPT ![w] = "fetch"]
    ELSE UNCHANGED worker

\* Mutant of BroadcastIdle: the broadcast is forgotten.
WakeNoClient == UNCHANGED client

\* pthread_cond_broadcast(&pool->idle): the client is the only waiter
BroadcastIdle == client' = IF client = "idle" THEN "rewait" ELSE client

-----------------------------------------------------------------------------
(* The client *)

\* One turn of the pthread_create loop that succeeds.
CreateThread ==
    /\ client = "create"
    /\ created' = created + 1
    /\ worker' = [worker EXCEPT ![created + 1] = "fetch"]
    /\ client' = IF created + 1 = NumThreads THEN "ready" ELSE "create"
    /\ UNCHANGED <<queue, queue_size, active_tasks, stop, current, joined,
                   submitted, runs>>

\* thread_pool_destroy up to its first unlock.
BeginDestroy ==
    /\ stop' = TRUE
    /\ worker' = BroadcastNotify(worker)
    /\ client' = "join"
    /\ UNCHANGED <<queue, queue_size, active_tasks, current, created, joined,
                   submitted, runs>>

\* pthread_create fails: thread_pool_create calls thread_pool_destroy.
CreateFails == client = "create" /\ BeginDestroy

\* The pool is freed by thread_pool_destroy, so the client cannot add a task
\* to a stopped pool: the early return of thread_pool_add_task is the guard.
AddTask ==
    /\ client \in {"ready", "returned"}
    /\ submitted < MaxTasks
    /\ ~stop
    /\ submitted' = submitted + 1
    /\ queue' = Append(queue, submitted + 1)
    /\ queue_size' = queue_size + 1
    /\ SignalNotify
    /\ client' = "ready"
    /\ UNCHANGED <<active_tasks, stop, current, created, joined, runs>>

\* The loop of thread_pool_wait: return, or wait on pool->idle.
Wait ==
    /\ client \in {"ready", "rewait"}
    /\ client' = IF queue_size > 0 \/ active_tasks > 0 THEN "idle"
                 ELSE "returned"
    /\ UNCHANGED <<queue, queue_size, active_tasks, stop, worker, current,
                   created, joined, submitted, runs>>

Destroy == client \in {"ready", "returned"} /\ BeginDestroy

\* pthread_join of a thread that was started: blocks until it has exited.
JoinThread ==
    /\ client = "join"
    /\ joined < created
    /\ worker[joined + 1] = "exited"
    /\ joined' = joined + 1
    /\ UNCHANGED <<queue, queue_size, active_tasks, stop, worker, current,
                   client, created, submitted, runs>>

\* pthread_join of a pthread_t that was never filled in (calloc's zero), which
\* POSIX leaves undefined: it returns an error, or it faults.
JoinUnborn ==
    /\ client = "join"
    /\ joined >= created
    /\ joined < NumThreads
    /\ \/ joined' = joined + 1 /\ UNCHANGED client
       \/ client' = "crashed" /\ UNCHANGED joined
    /\ UNCHANGED <<queue, queue_size, active_tasks, stop, worker, current,
                   created, submitted, runs>>

\* The rest of thread_pool_destroy: tasks still in the list are dropped.
FreePool ==
    /\ client = "join"
    /\ joined = NumThreads
    /\ client' = "freed"
    /\ queue' = <<>>
    /\ UNCHANGED <<queue_size, active_tasks, stop, worker, current, created,
                   joined, submitted, runs>>

-----------------------------------------------------------------------------
(* A worker *)

\* while (queue empty && !stop) pthread_cond_wait(&pool->notify, ...)
Sleep(w) ==
    /\ worker[w] = "fetch"
    /\ queue = <<>>
    /\ ~stop
    /\ worker' = [worker EXCEPT ![w] = "notify"]
    /\ UNCHANGED <<queue, queue_size, active_tasks, stop, current, client,
                   created, joined, submitted, runs>>

\* Mutant of Exit: stop is obeyed before the list is empty.
ExitAtOnce(w) ==
    /\ worker[w] = "fetch"
    /\ stop
    /\ worker' = [worker EXCEPT ![w] = "exited"]
    /\ UNCHANGED <<queue, queue_size, active_tasks, stop, current, client,
                   created, joined, submitted, runs>>

Exit(w) ==
    /\ worker[w] = "fetch"
    /\ queue = <<>>
    /\ stop
    /\ worker' = [worker EXCEPT ![w] = "exited"]
    /\ UNCHANGED <<queue, queue_size, active_tasks, stop, current, client,
                   created, joined, submitted, runs>>

\* Mutant of Take: task_queue_head is not moved on.
TakeStale(w) ==
    /\ worker[w] = "fetch"
    /\ queue # <<>>
    /\ current' = [current EXCEPT ![w] = Head(queue)]
    /\ queue_size' = queue_size - 1
    /\ active_tasks' = active_tasks + 1
    /\ worker' = [worker EXCEPT ![w] = "run"]
    /\ UNCHANGED <<queue, stop, client, created, joined, submitted, runs>>

\* Mutant of Take: the task is not counted as active.
TakeUncounted(w) ==
    /\ worker[w] = "fetch"
    /\ queue # <<>>
    /\ current' = [current EXCEPT ![w] = Head(queue)]
    /\ queue' = Tail(queue)
    /\ queue_size' = queue_size - 1
    /\ worker' = [worker EXCEPT ![w] = "run"]
    /\ UNCHANGED <<active_tasks, stop, client, created, joined, submitted, runs>>

Take(w) ==
    /\ worker[w] = "fetch"
    /\ queue # <<>>
    /\ current' = [current EXCEPT ![w] = Head(queue)]
    /\ queue' = Tail(queue)
    /\ queue_size' = queue_size - 1
    /\ active_tasks' = active_tasks + 1
    /\ worker' = [worker EXCEPT ![w] = "run"]
    /\ UNCHANGED <<stop, client, created, joined, submitted, runs>>

\* task->function(task->arg), outside the lock
Run(w) ==
    /\ worker[w] = "run"
    /\ runs' = [runs EXCEPT ![current[w]] = @ + 1]
    /\ worker' = [worker EXCEPT ![w] = "finish"]
    /\ UNCHANGED <<queue, queue_size, active_tasks, stop, current, client,
                   created, joined, submitted>>

Finish(w) ==
    /\ worker[w] = "finish"
    /\ active_tasks' = active_tasks - 1
    /\ current' = [current EXCEPT ![w] = NoTask]
    /\ worker' = [worker EXCEPT ![w] = "fetch"]
    /\ IF active_tasks' = 0 /\ queue_size = 0
       THEN BroadcastIdle
       ELSE UNCHANGED client
    /\ UNCHANGED <<queue, queue_size, stop, created, joined, submitted, runs>>

\* POSIX allows a spurious return of pthread_cond_wait.
SpuriousWake ==
    /\ \/ \E w \in Workers :
             /\ worker[w] = "notify"
             /\ worker' = [worker EXCEPT ![w] = "fetch"]
             /\ UNCHANGED client
       \/ /\ client = "idle"
          /\ client' = "rewait"
          /\ UNCHANGED worker
    /\ UNCHANGED <<queue, queue_size, active_tasks, stop, current, created,
                   joined, submitted, runs>>

-----------------------------------------------------------------------------

WorkerStep(w) == Sleep(w) \/ Exit(w) \/ Take(w) \/ Run(w) \/ Finish(w)

\* The client inside thread_pool_wait after a wake-up, or inside destroy.
ClientResumes ==
    \/ client = "rewait" /\ Wait
    \/ JoinThread
    \/ JoinUnborn
    \/ FreePool

\* thread_pool_destroy has freed the pool, or the process has died.
Terminated == client \in {"freed", "crashed"} /\ UNCHANGED vars

Next ==
    \/ CreateThread \/ CreateFails
    \/ AddTask \/ Wait \/ Destroy
    \/ JoinThread \/ JoinUnborn \/ FreePool
    \/ \E w \in Workers : WorkerStep(w)
    \/ SpuriousWake
    \/ Terminated

Spec == Init /\ [][Next]_vars

\* The operating system schedules every runnable thread; a client that calls
\* into the pool is not obliged to call again.
Fairness ==
    /\ \A w \in Workers : WF_vars(WorkerStep(w))
    /\ WF_vars(ClientResumes)

FairSpec == Spec /\ Fairness

-----------------------------------------------------------------------------
(* Properties *)

Busy     == {w \in Workers : worker[w] \in {"run", "finish"}}
Fetchers == {w \in Workers : worker[w] = "fetch"}

\* The two counters thread_pool_wait reads agree, outside every critical
\* section, with the task list and with the workers that hold a task.
CountersExact ==
    /\ queue_size = Len(queue)
    /\ active_tasks = Cardinality(Busy)

\* No task is ever executed twice, whoever fetches it.
AtMostOnce == \A t \in Tasks : runs[t] <= 1

\* When thread_pool_wait returns, every task added so far has been executed to
\* the end: link_package reads ctx->errors and frees ctx on the strength of it.
WaitMeansDone ==
    client = "returned" => \A t \in 1..submitted : runs[t] = 1

\* Destroying a pool without waiting first still executes every accepted task:
\* workers leave only when the list is empty, so the final clean-up loop of
\* thread_pool_destroy never drops work.
DestroyDrains ==
    client = "freed" => \A t \in 1..submitted : runs[t] = 1

\* No lost wake-up on pool->notify: one pthread_cond_signal per task is enough,
\* because while any worker sleeps there is a woken worker for every task that
\* is queued; no task ever waits beside a sleeper nobody will wake.
NoTaskWaitsBesideASleeper ==
    (\E w \in Workers : worker[w] = "notify") =>
        Len(queue) <= Cardinality(Fetchers)

\* No lost wake-up on pool->idle: the client sleeps in thread_pool_wait only
\* while there is work left whose last Finish will wake it.
IdleClientHasWork == client = "idle" => queue_size > 0 \/ active_tasks > 0

\* Every accepted task is eventually executed, and thread_pool_wait and
\* thread_pool_destroy return.
TasksRun == \A t \in Tasks : submitted >= t ~> runs[t] = 1
WaitReturns == client \in {"idle", "rewait"} ~> client = "returned"
DestroyReturns == client = "join" ~> client \in {"freed", "crashed"}

-----------------------------------------------------------------------------
(* What the pool implements *)

Group == INSTANCE TaskGroup WITH
    accepted <- submitted,
    started  <- submitted - Len(queue),
    executed <- {t \in Tasks : runs[t] > 0},
    client   <- CASE client = "returned" -> "told"
                  [] client = "freed"    -> "closed"
                  [] OTHER               -> "open"

\* The pool of thread_pool.c implements the task group its header describes:
\* tasks start in FIFO order, run once, and "wait returned" and "destroyed"
\* are reached only with every accepted task executed.
ImplementsTaskGroup == Group!GroupSpec

=============================================================================
