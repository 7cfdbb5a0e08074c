------------------------------ MODULE LinkBatch -------------------------------
(***************************************************************************)
(* Pass 2 of link_package (src/src/core/linker/linker_ops.c): the files of *)
(* one package are handed to the io_uring driver, and otherwise to the     *)
(* tasks of a worker pool, each of which claims files from a shared atomic *)
(* index until there are none left, or to a serial loop.                   *)
(*                                                                         *)
(* The pool is the task group of TaskGroup, which ThreadPool implements;   *)
(* every step of this module is a step of that group or leaves it alone.   *)
(* What linking one file does to the file system is the subject of the     *)
(* module Linker; here a file is linked, or not yet, or ignored.           *)
(***************************************************************************)
EXTENDS TaskGroup, Integers, FiniteSets

CONSTANTS NumFiles      \* pkg_files->count

ASSUME BatchAssumption == NumFiles \in Nat /\ MaxTasks \in Nat \ {0}

Files == 1..NumFiles
Tasks == 1..MaxTasks
NoFile == 0

VARIABLES
    phase,       \* where link_package stands in pass 2
    next,        \* batch.current_index
    task,        \* where each pool task stands in atomic_link_worker
    claimed,     \* the file a task has claimed
    processed,   \* how often native_link_cb has been called for each file
    ignored,     \* files an ignore pattern matches
    linked,      \* files whose target path is a link to them
    failed,      \* files for which some attempt was counted as an error
    errors,      \* ctx->errors
    short,       \* io_uring_enter came back before the whole batch was done
    result       \* what link_package returns

batchVars == <<phase, next, task, claimed, processed, ignored, linked, failed,
               errors, short, result>>
vars == <<groupVars, batchVars>>

Phase == {"probe", "choose", "serial", "submit", "wait", "release", "finish",
          "returned"}

TypeOK ==
    /\ phase \in Phase
    /\ next \in 0..NumFiles + MaxTasks
    /\ task \in [Tasks -> {"queued", "claim", "link", "done"}]
    /\ claimed \in [Tasks -> Files \union {NoFile}]
    /\ processed \in [Files -> Nat]
    /\ ignored \subseteq Files
    /\ linked \subseteq Files
    /\ failed \subseteq Files
    /\ errors \in Nat
    /\ short \in BOOLEAN
    /\ result \in {-1, 0, 1}       \* 1: not returned yet

Init ==
    /\ GroupInit
    /\ phase = "probe"
    /\ next = 0
    /\ task = [t \in Tasks |-> "queued"]
    /\ claimed = [t \in Tasks |-> NoFile]
    /\ processed = [f \in Files |-> 0]
    /\ ignored \in SUBSET Files
    /\ linked \in SUBSET (Files \ ignored)    \* from an earlier run
    /\ failed = {}
    /\ errors = 0
    /\ short = FALSE
    /\ result = 1

Wanted == Files \ ignored

-----------------------------------------------------------------------------
(* The io_uring driver *)

\* io_uring_is_supported returns false, or io_uring_link_batch cannot set its
\* ring up.
UringUnavailable ==
    /\ phase = "probe"
    /\ phase' = "choose"
    /\ UNCHANGED <<groupVars, next, task, claimed, processed, ignored, linked,
                   failed, errors, short, result>>

\* io_uring_link_batch runs: the files in good get their link, those in bad are
\* counted as errors.  io_uring_enter may submit fewer entries, or return before
\* all are completed: its result is looked at only for being negative, and files
\* without a completion are in neither set.  The driver's own result is made
\* from ctx->errors alone.
UringBatch ==
    /\ phase = "probe"
    /\ \E good, bad \in SUBSET (Wanted \ linked) :
          /\ good \intersect bad = {}
          /\ linked' = linked \union good
          /\ failed' = failed \union bad
          /\ errors' = errors + Cardinality(bad)
          /\ short' = (good \union bad # Wanted \ linked)
          /\ phase' = IF errors' = 0 THEN "finish" ELSE "choose"
    /\ UNCHANGED <<groupVars, next, task, claimed, processed, ignored, result>>

-----------------------------------------------------------------------------
(* The fallback *)

\* Mutant of NativeLink: a failure is not counted.
NativeLinkSilent(f) ==
    /\ processed' = [processed EXCEPT ![f] = @ + 1]
    /\ linked' \in {linked, linked \union ({f} \ ignored)}
    /\ UNCHANGED <<failed, errors>>

\* native_link_cb: nothing for an ignored or an already linked file, otherwise
\* the link is made or an error is counted.
NativeLink(f) ==
    /\ processed' = [processed EXCEPT ![f] = @ + 1]
    /\ IF f \in ignored \union linked
       THEN UNCHANGED <<linked, failed, errors>>
       ELSE \/ linked' = linked \union {f} /\ UNCHANGED <<failed, errors>>
            \/ /\ failed' = failed \union {f}
               /\ errors' = errors + 1
               /\ UNCHANGED linked

\* A pool is made outside of a worker thread for two files or more; it may
\* fail to be made.
ChooseDriver ==
    /\ phase = "choose"
    /\ \/ NumFiles >= 2 /\ phase' = "submit"
       \/ phase' = "serial"
    /\ UNCHANGED <<groupVars, next, task, claimed, processed, ignored, linked,
                   failed, errors, short, result>>

\* One turn of the serial loop; its index i is next here.
SerialLink ==
    /\ phase = "serial"
    /\ IF next < NumFiles
       THEN /\ NativeLink(next + 1)
            /\ next' = next + 1
            /\ UNCHANGED phase
       ELSE /\ phase' = "finish"
            /\ UNCHANGED <<next, processed, linked, failed, errors>>
    /\ UNCHANGED <<groupVars, task, claimed, ignored, short, result>>

\* thread_pool_add_task(pool, atomic_link_worker, &batch), once per thread.
SubmitTask ==
    /\ phase = "submit"
    /\ Accept
    /\ phase' = IF accepted' = MaxTasks THEN "wait" ELSE "submit"
    /\ UNCHANGED <<next, task, claimed, processed, ignored, linked, failed,
                   errors, short, result>>

\* Mutant of WaitReturns: the result is read without waiting for the pool.
WaitSkipped ==
    /\ phase = "wait"
    /\ client' = "told"
    /\ phase' = "release"
    /\ UNCHANGED <<accepted, started, executed, next, task, claimed, processed,
                   ignored, linked, failed, errors, short, result>>

\* thread_pool_wait returns.
WaitReturns ==
    /\ phase = "wait"
    /\ Tell
    /\ phase' = "release"
    /\ UNCHANGED <<next, task, claimed, processed, ignored, linked, failed,
                   errors, short, result>>

\* thread_pool_destroy
ReleasePool ==
    /\ phase = "release"
    /\ Release \/ Close
    /\ phase' = IF client' = "closed" THEN "finish" ELSE "release"
    /\ UNCHANGED <<next, task, claimed, processed, ignored, linked, failed,
                   errors, short, result>>

\* int result = (pctx.errors == 0) ? 0 : -1
Return ==
    /\ phase = "finish"
    /\ result' = IF errors = 0 THEN 0 ELSE -1
    /\ phase' = "returned"
    /\ UNCHANGED <<groupVars, next, task, claimed, processed, ignored, linked,
                   failed, errors, short>>

-----------------------------------------------------------------------------
(* atomic_link_worker, in task t of the pool *)

StartTask(t) ==
    /\ t = started + 1
    /\ Start
    /\ task' = [task EXCEPT ![t] = "claim"]
    /\ UNCHANGED <<phase, next, claimed, processed, ignored, linked, failed,
                   errors, short, result>>

\* Mutant of Claim: a load and a store for atomic_fetch_add, so that another
\* task's increment may be lost.
ClaimTorn(t) ==
    /\ task[t] = "claim"
    /\ next < NumFiles
    /\ next' \in {next, next + 1}
    /\ claimed' = [claimed EXCEPT ![t] = next + 1]
    /\ task' = [task EXCEPT ![t] = "link"]
    /\ UNCHANGED <<groupVars, phase, processed, ignored, linked, failed,
                   errors, short, result>>

\* Mutant of Claim: idx > total for idx >= total.
ClaimPastEnd(t) ==
    /\ task[t] = "claim"
    /\ next <= NumFiles
    /\ next' = next + 1
    /\ claimed' = [claimed EXCEPT ![t] = next + 1]
    /\ task' = [task EXCEPT ![t] = "link"]
    /\ UNCHANGED <<groupVars, phase, processed, ignored, linked, failed,
                   errors, short, result>>

\* idx = atomic_fetch_add(&batch->current_index, 1)
Claim(t) ==
    /\ task[t] = "claim"
    /\ next < NumFiles
    /\ next' = next + 1
    /\ claimed' = [claimed EXCEPT ![t] = next + 1]
    /\ task' = [task EXCEPT ![t] = "link"]
    /\ UNCHANGED <<groupVars, phase, processed, ignored, linked, failed,
                   errors, short, result>>

LinkClaimed(t) ==
    /\ task[t] = "link"
    /\ NativeLink(claimed[t])
    /\ claimed' = [claimed EXCEPT ![t] = NoFile]
    /\ task' = [task EXCEPT ![t] = "claim"]
    /\ UNCHANGED <<groupVars, phase, next, ignored, short, result>>

\* Mutant of TaskEnds: idx == total for idx >= total.
TaskEndsAtTotal(t) ==
    /\ task[t] = "claim"
    /\ next = NumFiles
    /\ next' = next + 1
    /\ task' = [task EXCEPT ![t] = "done"]
    /\ t \in (1..started) \ executed
    /\ executed' = executed \union {t}
    /\ UNCHANGED <<accepted, started, client, phase, claimed, processed,
                   ignored, linked, failed, errors, short, result>>

\* idx >= total: the task function returns.
TaskEnds(t) ==
    /\ task[t] = "claim"
    /\ next >= NumFiles
    /\ next' = next + 1
    /\ task' = [task EXCEPT ![t] = "done"]
    /\ t \in (1..started) \ executed
    /\ executed' = executed \union {t}
    /\ UNCHANGED <<accepted, started, client, phase, claimed, processed,
                   ignored, linked, failed, errors, short, result>>

-----------------------------------------------------------------------------

TaskStep(t) == StartTask(t) \/ Claim(t) \/ LinkClaimed(t) \/ TaskEnds(t)

ClientStep ==
    \/ UringUnavailable \/ UringBatch \/ ChooseDriver \/ SerialLink
    \/ SubmitTask \/ WaitReturns \/ ReleasePool \/ Return

Returned == phase = "returned" /\ UNCHANGED vars

Next == ClientStep \/ (\E t \in Tasks : TaskStep(t)) \/ Returned

Spec == Init /\ [][Next]_vars

\* The pool runs every task it has accepted (TasksRun of ThreadPool), and
\* link_package itself never waits for anything else.
FairSpec == Spec /\ WF_vars(ClientStep) /\ \A t \in Tasks : WF_vars(TaskStep(t))

-----------------------------------------------------------------------------
(* Properties *)

\* The drivers share one index and no lock: still no file is handed to
\* native_link_cb by two tasks, which would make both of them back up, replace
\* or create the same target path.
ProcessedOnce == \A f \in Files : processed[f] <= 1

\* When the pool has told link_package that it is done, every file has been
\* processed: the counters that decide the result are final, and the batch,
\* which lives on the stack of link_package, is no longer in use.
BarrierCoversBatch ==
    phase \in {"release", "finish"} /\ accepted > 0 =>
        /\ \A f \in Files : processed[f] = 1
        /\ \A t \in Tasks : task[t] = "done"

\* link_package returns 0 only if every file that is not ignored is linked,
\* unless the ring came back early.
SuccessMeansLinked == result = 0 /\ ~short => Wanted \subseteq linked

\* A fallback after a failed io_uring batch is seamless
\* (docs/decisions/ADR-007: "falls back seamlessly to the POSIX worker pool"):
\* link_package reports a failure only if some file is not linked.
FallbackIsSeamless == result = -1 => ~(Wanted \subseteq linked)

\* link_package returns, whichever driver it ends up with.
LinkReturns == <>(phase = "returned")

=============================================================================
