--------------------------- MODULE LinkBatchProofs ----------------------------
(***************************************************************************)
(* Safety of pass 2 of link_package for every number of files and of pool  *)
(* tasks.  The inductive invariant IInv says how the shared index, the     *)
(* files the tasks have claimed and the calls of native_link_cb hang       *)
(* together: the files up to the index are the ones that were processed,   *)
(* but for those a task has claimed and not yet linked.                    *)
(***************************************************************************)
EXTENDS LinkBatch, FiniteSetTheorems, TLAPS

Claims(f) == \E t \in Tasks : task[t] = "link" /\ claimed[t] = f

\* The pool: tasks start in order, and their places in atomic_link_worker
\* agree with what the group knows of them.
GroupShape ==
    /\ accepted \in 0..MaxTasks
    /\ started \in 0..accepted
    /\ executed \subseteq 1..started
    /\ client \in {"open", "told", "closed"}
    /\ \A t \in Tasks : task[t] = "queued" <=> t > started
    /\ \A t \in Tasks : task[t] = "done" <=> t \in executed

\* Only the pool driver adds tasks, and it goes on when all of them are done.
PhaseShape ==
    /\ phase \in {"probe", "choose", "serial"} => accepted = 0
    /\ phase \in {"wait", "release"} => accepted = MaxTasks
    /\ phase = "release" => executed = 1..accepted
    /\ phase \in {"finish", "returned"} => executed = 1..accepted
    /\ phase \in {"finish", "returned"} /\ accepted > 0 => accepted = MaxTasks

\* Each task increments the index once more than it claims files.
IndexShape ==
    /\ phase \in {"probe", "choose"} => next = 0
    /\ next <= NumFiles + Cardinality(executed)
    /\ executed # {} => next > NumFiles

ClaimShape ==
    /\ \A t \in Tasks : task[t] = "link" => claimed[t] \in 1..next /\ claimed[t] \in Files
    /\ \A t, u \in Tasks :
          task[t] = "link" /\ task[u] = "link" /\ claimed[t] = claimed[u] => t = u

ProcessCount ==
    \A f \in Files : processed[f] = IF f > next \/ Claims(f) THEN 0 ELSE 1

\* The counter of errors tells whether a processed file is missing.
ErrorsTell ==
    errors = 0 => \A f \in Files : processed[f] = 1 => f \in ignored \union linked

ResultTells ==
    /\ phase \in {"finish", "returned"} /\ errors = 0 /\ ~short => Wanted \subseteq linked
    /\ result = 0 => phase = "returned" /\ errors = 0

IInv ==
    /\ TypeOK
    /\ GroupShape
    /\ PhaseShape
    /\ IndexShape
    /\ ClaimShape
    /\ ProcessCount
    /\ ErrorsTell
    /\ ResultTells

\* A set of tasks has at most MaxTasks elements.
LEMMA CardTasks ==
    ASSUME NEW n \in 0..MaxTasks, NEW S \in SUBSET (1..n)
    PROVE  IsFiniteSet(S) /\ Cardinality(S) \in Nat /\ Cardinality(S) <= MaxTasks
<1> USE BatchAssumption
<1>1. S \subseteq 1..MaxTasks OBVIOUS
<1>2. IsFiniteSet(1..MaxTasks) /\ Cardinality(1..MaxTasks) = MaxTasks
  <2>1. IsFiniteSet(1..MaxTasks) BY FS_Interval
  <2>2. Cardinality(1..MaxTasks) = IF 1 > MaxTasks THEN 0 ELSE MaxTasks - 1 + 1
    BY FS_Interval
  <2> QED BY <2>1, <2>2
<1>3. IsFiniteSet(S) /\ Cardinality(S) <= Cardinality(1..MaxTasks)
  BY <1>1, <1>2, FS_Subset
<1>4. Cardinality(S) \in Nat BY <1>3, FS_CardinalityType
<1> QED BY <1>2, <1>3, <1>4

\* When every task is done, every file has been processed.
LEMMA DoneMeansProcessed ==
    ASSUME IInv, accepted = MaxTasks, executed = 1..accepted
    PROVE  /\ \A t \in Tasks : task[t] = "done"
           /\ \A f \in Files : processed[f] = 1
<1> USE BatchAssumption DEF IInv, Tasks, Files
<1>1. \A t \in Tasks : task[t] = "done" BY DEF GroupShape
<1>2. 1 \in executed OBVIOUS
<1>3. next > NumFiles BY <1>2 DEF IndexShape
<1>4. \A f \in Files : ~Claims(f) BY <1>1 DEF Claims
<1>5. next \in Nat BY DEF TypeOK
<1> QED BY <1>1, <1>3, <1>4, <1>5 DEF ProcessCount

LEMMA InitIInv == Init => IInv
<1> SUFFICES ASSUME Init PROVE IInv
  OBVIOUS
<1> USE BatchAssumption DEF Init, GroupInit
<1>1. executed = {} /\ Cardinality(executed) = 0 BY FS_EmptySet
<1>2. TypeOK
  <2>1. phase \in Phase BY DEF Phase
  <2>2. next \in 0..NumFiles + MaxTasks OBVIOUS
  <2>3. task \in [Tasks -> {"queued", "claim", "link", "done"}] OBVIOUS
  <2>4. claimed \in [Tasks -> Files \union {NoFile}] OBVIOUS
  <2>5. processed \in [Files -> Nat] OBVIOUS
  <2>6. ignored \subseteq Files /\ linked \subseteq Files /\ failed \subseteq Files
    OBVIOUS
  <2>7. errors \in Nat /\ result \in {-1, 0, 1} OBVIOUS
  <2>8. short \in BOOLEAN OBVIOUS
  <2> QED BY <2>1, <2>2, <2>3, <2>4, <2>5, <2>6, <2>7, <2>8 DEF TypeOK
<1>3. GroupShape BY DEF GroupShape, Tasks
<1>4. PhaseShape BY DEF PhaseShape
<1>5. IndexShape BY <1>1 DEF IndexShape
<1>6. ClaimShape BY DEF ClaimShape
<1>7. ProcessCount BY DEF ProcessCount, Claims, Files
<1>8. ErrorsTell BY DEF ErrorsTell
<1>9. ResultTells BY DEF ResultTells
<1> QED BY <1>2, <1>3, <1>4, <1>5, <1>6, <1>7, <1>8, <1>9 DEF IInv

-----------------------------------------------------------------------------
(* One lemma per action: it preserves the inductive invariant. *)

\* no ring: the drivers of the fallback take over
LEMMA UringUnavailableStep ==
    ASSUME IInv, UringUnavailable
    PROVE  IInv'
<1> USE BatchAssumption DEF IInv, UringUnavailable, groupVars
<1>1. TypeOK' BY DEF TypeOK, Phase
<1>2. GroupShape' BY DEF GroupShape
<1>3. PhaseShape' BY DEF PhaseShape
<1>4. IndexShape' BY DEF IndexShape
<1>5. ClaimShape' BY DEF ClaimShape
<1>6. ProcessCount' BY DEF ProcessCount, Claims
<1>7. ErrorsTell' BY DEF ErrorsTell
<1>8. ResultTells' BY DEF ResultTells, Wanted
<1> QED BY <1>1, <1>2, <1>3, <1>4, <1>5, <1>6, <1>7, <1>8

\* the io_uring driver has run
LEMMA UringBatchStep ==
    ASSUME IInv, UringBatch
    PROVE  IInv'
<1> USE BatchAssumption DEF IInv, groupVars
<1> PICK good \in SUBSET (Wanted \ linked), bad \in SUBSET (Wanted \ linked) :
          /\ good \intersect bad = {}
          /\ linked' = linked \union good
          /\ failed' = failed \union bad
          /\ errors' = errors + Cardinality(bad)
          /\ short' = (good \union bad # Wanted \ linked)
          /\ phase' = IF errors' = 0 THEN "finish" ELSE "choose"
  BY DEF UringBatch
<1>1. phase = "probe"
      /\ UNCHANGED <<groupVars, next, task, claimed, processed, ignored, result>>
  BY DEF UringBatch
<1>2. IsFiniteSet(bad) /\ Cardinality(bad) \in Nat
  <2>1. IsFiniteSet(Files) BY FS_Interval DEF Files
  <2>2. bad \subseteq Files BY DEF Wanted
  <2> QED BY <2>1, <2>2, FS_Subset, FS_CardinalityType
<1>3. TypeOK'
  <2>1. linked' \subseteq Files /\ failed' \subseteq Files BY DEF TypeOK, Wanted
  <2>2. errors' \in Nat BY <1>2 DEF TypeOK
  <2>3. short' \in BOOLEAN OBVIOUS
  <2>4. phase' \in Phase BY DEF Phase
  <2> QED BY <1>1, <2>1, <2>2, <2>3, <2>4 DEF TypeOK
<1>4. GroupShape' BY <1>1 DEF GroupShape
<1>5. executed = 1..accepted /\ accepted = 0
  BY <1>1 DEF GroupShape, PhaseShape
<1>6. PhaseShape' BY <1>1, <1>5 DEF PhaseShape
<1>7. IndexShape' BY <1>1 DEF IndexShape
<1>8. ClaimShape' BY <1>1 DEF ClaimShape
<1>9. ProcessCount' BY <1>1 DEF ProcessCount, Claims
<1>10. ErrorsTell'
  <2>1. errors' = 0 => errors = 0 BY <1>2 DEF TypeOK
  <2> QED BY <1>1, <2>1 DEF ErrorsTell
<1>11. ResultTells'
  <2>1. errors' = 0 => bad = {} BY <1>2, FS_EmptySet DEF TypeOK
  <2>2. Wanted' = Wanted BY <1>1 DEF Wanted
  <2>3. result' # 0 BY <1>1 DEF ResultTells
  <2> QED BY <2>1, <2>2, <2>3 DEF ResultTells
<1> QED BY <1>3, <1>4, <1>6, <1>7, <1>8, <1>9, <1>10, <1>11

\* a pool, or the serial loop
LEMMA ChooseDriverStep ==
    ASSUME IInv, ChooseDriver
    PROVE  IInv'
<1> USE BatchAssumption DEF IInv, ChooseDriver, groupVars
<1>1. TypeOK' BY DEF TypeOK, Phase
<1>2. GroupShape' BY DEF GroupShape
<1>3. PhaseShape' BY DEF PhaseShape
<1>4. IndexShape' BY DEF IndexShape
<1>5. ClaimShape' BY DEF ClaimShape
<1>6. ProcessCount' BY DEF ProcessCount, Claims
<1>7. ErrorsTell' BY DEF ErrorsTell
<1>8. ResultTells' BY DEF ResultTells, Wanted
<1> QED BY <1>1, <1>2, <1>3, <1>4, <1>5, <1>6, <1>7, <1>8

\* What native_link_cb does to the parts that speak of one file.
LEMMA NativeLinkEffect ==
    ASSUME IInv, NEW f \in Files, NativeLink(f), UNCHANGED ignored
    PROVE  /\ processed' = [processed EXCEPT ![f] = @ + 1]
           /\ processed' \in [Files -> Nat]
           /\ linked' \subseteq Files /\ linked \subseteq linked'
           /\ failed' \subseteq Files
           /\ errors' \in Nat /\ (errors' = 0 => errors = 0)
           /\ errors' = 0 => f \in ignored \union linked'
<1> USE DEF IInv, TypeOK, NativeLink
<1>1. processed' = [processed EXCEPT ![f] = @ + 1]
      /\ processed' \in [Files -> Nat]
  OBVIOUS
<1>2. CASE f \in ignored \union linked BY <1>1, <1>2
<1>3. CASE f \notin ignored \union linked BY <1>1, <1>3
<1> QED BY <1>2, <1>3

\* one turn of the serial loop
LEMMA SerialLinkStep ==
    ASSUME IInv, SerialLink
    PROVE  IInv'
<1> USE BatchAssumption DEF IInv, groupVars
<1>1. /\ phase = "serial" /\ next \in Nat
      /\ UNCHANGED <<groupVars, task, claimed, ignored, short, result>>
  BY DEF SerialLink, TypeOK
<1>2. executed = {} /\ Cardinality(executed) = 0 /\ accepted = 0 /\ next <= NumFiles
  <2>1. accepted = 0 BY <1>1 DEF PhaseShape
  <2>2. executed = {} BY <2>1 DEF GroupShape
  <2>3. Cardinality(executed) = 0 BY <2>2, FS_EmptySet
  <2> QED BY <1>1, <2>1, <2>2, <2>3 DEF IndexShape
<1>3. \A t \in Tasks : task[t] = "queued" BY <1>2 DEF GroupShape, Tasks
<1>4. \A f \in Files : ~Claims(f) /\ ~Claims(f)'
  BY <1>1, <1>3 DEF Claims
<1>5. GroupShape' BY <1>1 DEF GroupShape
<1>6. ClaimShape' BY <1>1, <1>3 DEF ClaimShape
<1>7. CASE next < NumFiles
  <2>1. /\ NativeLink(next + 1) /\ next' = next + 1 /\ phase' = "serial"
        /\ next + 1 \in Files
    BY <1>1, <1>7 DEF SerialLink, Files
  <2> DEFINE f == next + 1
  <2>2. /\ processed' = [processed EXCEPT ![f] = @ + 1]
        /\ processed' \in [Files -> Nat]
        /\ linked' \subseteq Files /\ linked \subseteq linked'
        /\ failed' \subseteq Files
        /\ errors' \in Nat /\ (errors' = 0 => errors = 0)
        /\ errors' = 0 => f \in ignored \union linked'
    BY <1>1, <2>1, NativeLinkEffect
  <2>3. TypeOK' BY <1>1, <1>7, <2>1, <2>2 DEF TypeOK
  <2>4. PhaseShape' BY <1>1, <2>1 DEF PhaseShape
  <2>5. IndexShape' BY <1>1, <1>2, <1>7, <2>1 DEF IndexShape
  <2>6. ProcessCount'
    <3> SUFFICES ASSUME NEW g \in Files
                 PROVE  processed'[g] = IF g > next' THEN 0 ELSE 1
      BY <1>4 DEF ProcessCount
    <3>1. processed[g] = IF g > next THEN 0 ELSE 1 BY <1>4 DEF ProcessCount
    <3>2. g \in Nat BY DEF Files
    <3> QED BY <1>1, <2>1, <2>2, <3>1, <3>2 DEF TypeOK
  <2>7. ErrorsTell' BY <1>1, <2>2 DEF ErrorsTell, TypeOK
  <2>8. ResultTells' BY <1>1, <2>1 DEF ResultTells
  <2> QED BY <1>5, <1>6, <2>3, <2>4, <2>5, <2>6, <2>7, <2>8
<1>8. CASE ~(next < NumFiles)
  <2>1. phase' = "finish" /\ UNCHANGED <<next, processed, linked, failed, errors>>
    BY <1>8 DEF SerialLink
  <2>2. TypeOK' BY <1>1, <2>1 DEF TypeOK, Phase
  <2>3. PhaseShape' BY <1>1, <1>2, <2>1 DEF PhaseShape
  <2>4. IndexShape' BY <1>1, <2>1 DEF IndexShape
  <2>5. ProcessCount' BY <1>1, <2>1 DEF ProcessCount, Claims
  <2>6. ErrorsTell' BY <1>1, <2>1 DEF ErrorsTell
  <2>7. ResultTells'
    <3>1. \A f \in Files : processed[f] = 1
      BY <1>1, <1>2, <1>4, <1>8 DEF ProcessCount, Files
    <3> QED BY <1>1, <2>1, <3>1 DEF ErrorsTell, ResultTells, Wanted
  <2> QED BY <1>5, <1>6, <2>2, <2>3, <2>4, <2>5, <2>6, <2>7
<1> QED BY <1>7, <1>8

\* one more task for the pool
LEMMA SubmitTaskStep ==
    ASSUME IInv, SubmitTask
    PROVE  IInv'
<1> USE BatchAssumption DEF IInv, SubmitTask, Accept
<1>1. TypeOK' BY DEF TypeOK, Phase
<1>2. GroupShape' BY DEF GroupShape
<1>3. PhaseShape' BY DEF PhaseShape, GroupShape
<1>4. IndexShape' BY DEF IndexShape
<1>5. ClaimShape' BY DEF ClaimShape
<1>6. ProcessCount' BY DEF ProcessCount, Claims
<1>7. ErrorsTell' BY DEF ErrorsTell
<1>8. ResultTells' BY DEF ResultTells
<1> QED BY <1>1, <1>2, <1>3, <1>4, <1>5, <1>6, <1>7, <1>8

\* thread_pool_wait returns
LEMMA WaitReturnsStep ==
    ASSUME IInv, WaitReturns
    PROVE  IInv'
<1> USE BatchAssumption DEF IInv, WaitReturns, Tell, AllDone
<1>1. TypeOK' BY DEF TypeOK, Phase
<1>2. GroupShape' BY DEF GroupShape
<1>3. PhaseShape' BY DEF PhaseShape
<1>4. IndexShape' BY DEF IndexShape
<1>5. ClaimShape' BY DEF ClaimShape
<1>6. ProcessCount' BY DEF ProcessCount, Claims
<1>7. ErrorsTell' BY DEF ErrorsTell
<1>8. ResultTells' BY DEF ResultTells
<1> QED BY <1>1, <1>2, <1>3, <1>4, <1>5, <1>6, <1>7, <1>8

\* thread_pool_destroy
LEMMA ReleasePoolStep ==
    ASSUME IInv, ReleasePool
    PROVE  IInv'
<1> USE BatchAssumption DEF IInv, ReleasePool, Release, Close
<1>1. TypeOK' BY DEF TypeOK, Phase
<1>2. GroupShape' BY DEF GroupShape
<1>3. PhaseShape' BY DEF PhaseShape
<1>4. IndexShape' BY DEF IndexShape
<1>5. ClaimShape' BY DEF ClaimShape
<1>6. ProcessCount' BY DEF ProcessCount, Claims
<1>7. ErrorsTell' BY DEF ErrorsTell
<1>8. ResultTells'
  <2>1. \A f \in Files : processed[f] = 1 BY DoneMeansProcessed DEF PhaseShape
  <2> QED BY <2>1 DEF ErrorsTell, ResultTells, Wanted
<1> QED BY <1>1, <1>2, <1>3, <1>4, <1>5, <1>6, <1>7, <1>8

\* link_package returns
LEMMA ReturnStep ==
    ASSUME IInv, Return
    PROVE  IInv'
<1> USE BatchAssumption DEF IInv, Return, groupVars
<1>1. TypeOK' BY DEF TypeOK, Phase
<1>2. GroupShape' BY DEF GroupShape
<1>3. PhaseShape' BY DEF PhaseShape
<1>4. IndexShape' BY DEF IndexShape
<1>5. ClaimShape' BY DEF ClaimShape
<1>6. ProcessCount' BY DEF ProcessCount, Claims
<1>7. ErrorsTell' BY DEF ErrorsTell
<1>8. ResultTells' BY DEF ResultTells, Wanted
<1> QED BY <1>1, <1>2, <1>3, <1>4, <1>5, <1>6, <1>7, <1>8

\* a worker begins a task
LEMMA StartTaskStep ==
    ASSUME IInv, NEW t \in Tasks, StartTask(t)
    PROVE  IInv'
<1> USE BatchAssumption DEF IInv, StartTask, Start, Tasks
<1>1. TypeOK' BY DEF TypeOK
<1>2. t \notin executed /\ task[t] = "queued" BY DEF GroupShape
<1>3. GroupShape' BY <1>2 DEF GroupShape, TypeOK
<1>4. PhaseShape' BY DEF PhaseShape
<1>5. IndexShape' BY DEF IndexShape
<1>6. \A u \in Tasks : task'[u] = "link" <=> task[u] = "link"
  BY <1>2 DEF TypeOK
<1>7. ClaimShape' BY <1>6 DEF ClaimShape
<1>8. ProcessCount' BY <1>6 DEF ProcessCount, Claims
<1>9. ErrorsTell' BY DEF ErrorsTell
<1>10. ResultTells' BY DEF ResultTells, Wanted
<1> QED BY <1>1, <1>3, <1>4, <1>5, <1>7, <1>8, <1>9, <1>10

\* a task claims the next file
LEMMA ClaimStep ==
    ASSUME IInv, NEW t \in Tasks, Claim(t)
    PROVE  IInv'
<1> USE BatchAssumption DEF IInv, Claim, groupVars
<1>1. next \in Nat /\ next + 1 \in Files BY DEF TypeOK, Files
<1>2. TypeOK' BY <1>1 DEF TypeOK
<1>3. GroupShape' BY DEF GroupShape, TypeOK
<1>4. PhaseShape' BY DEF PhaseShape
<1>5. phase \notin {"probe", "choose"}
  BY DEF PhaseShape, GroupShape, Tasks
<1>6. executed = {}
  BY <1>1 DEF IndexShape
<1>7. Cardinality(executed) = 0 BY <1>6, FS_EmptySet
<1>8. IndexShape' BY <1>1, <1>5, <1>6, <1>7 DEF IndexShape
<1>9. \A u \in Tasks : u # t => task'[u] = task[u] /\ claimed'[u] = claimed[u]
  BY DEF TypeOK
<1>10. task'[t] = "link" /\ claimed'[t] = next + 1 /\ task[t] # "link"
  BY DEF TypeOK
<1>11. ClaimShape' BY <1>1, <1>9, <1>10 DEF ClaimShape
<1>12. ProcessCount'
  <2> SUFFICES ASSUME NEW f \in Files
               PROVE  processed[f] = IF f > next + 1 \/ Claims(f)' THEN 0 ELSE 1
    BY DEF ProcessCount
  <2>1. Claims(f)' <=> Claims(f) \/ f = next + 1
    BY <1>9, <1>10 DEF Claims
  <2>2. f \in Nat BY DEF Files
  <2> QED BY <1>1, <2>1, <2>2 DEF ProcessCount
<1>13. ErrorsTell' BY DEF ErrorsTell
<1>14. ResultTells' BY DEF ResultTells, Wanted
<1> QED BY <1>2, <1>3, <1>4, <1>8, <1>11, <1>12, <1>13, <1>14

\* a task links the file it has claimed
LEMMA LinkClaimedStep ==
    ASSUME IInv, NEW t \in Tasks, LinkClaimed(t)
    PROVE  IInv'
<1> USE BatchAssumption DEF IInv, groupVars
<1>0. claimed[t] \in Files /\ claimed[t] \in 1..next
  BY DEF LinkClaimed, ClaimShape
<1> PICK f \in Files : f = claimed[t] BY <1>0
<1>1. /\ task[t] = "link" /\ NativeLink(f)
      /\ claimed' = [claimed EXCEPT ![t] = NoFile]
      /\ task' = [task EXCEPT ![t] = "claim"]
      /\ UNCHANGED <<groupVars, phase, next, ignored, short, result>>
  BY DEF LinkClaimed
<1>2. f \in Files /\ f \in 1..next /\ next \in Nat
  BY <1>0 DEF TypeOK
<1>3. /\ processed' = [processed EXCEPT ![f] = @ + 1]
      /\ processed' \in [Files -> Nat]
      /\ linked' \subseteq Files /\ linked \subseteq linked'
      /\ failed' \subseteq Files
      /\ errors' \in Nat /\ (errors' = 0 => errors = 0)
      /\ errors' = 0 => f \in ignored \union linked'
  BY <1>1, <1>2, NativeLinkEffect
<1>4. \A u \in Tasks : u # t => task'[u] = task[u] /\ claimed'[u] = claimed[u]
  BY <1>1 DEF TypeOK
<1>5. task'[t] = "claim" BY <1>1 DEF TypeOK
<1>6. TypeOK'
  <2>1. task' \in [Tasks -> {"queued", "claim", "link", "done"}]
    BY <1>1 DEF TypeOK
  <2>2. claimed' \in [Tasks -> Files \union {NoFile}] BY <1>1 DEF TypeOK
  <2> QED BY <1>1, <1>3, <2>1, <2>2 DEF TypeOK
<1>7. GroupShape' BY <1>1, <1>4, <1>5 DEF GroupShape
<1>8. PhaseShape' BY <1>1 DEF PhaseShape
<1>9. IndexShape' BY <1>1 DEF IndexShape
<1>10. ClaimShape' BY <1>1, <1>4, <1>5 DEF ClaimShape
<1>11. ProcessCount'
  <2> SUFFICES ASSUME NEW g \in Files
               PROVE  processed'[g] = IF g > next \/ Claims(g)' THEN 0 ELSE 1
    BY <1>1 DEF ProcessCount
  <2>1. CASE g = f
    <3>1. Claims(f) BY <1>1 DEF Claims
    <3>2. processed[f] = 0 BY <1>2, <3>1 DEF ProcessCount
    <3>3. ~Claims(f)' BY <1>1, <1>4, <1>5 DEF Claims, ClaimShape
    <3> QED BY <1>2, <1>3, <2>1, <3>2, <3>3 DEF TypeOK
  <2>2. CASE g # f
    <3>1. Claims(g)' <=> Claims(g) BY <1>1, <1>4, <1>5, <2>2 DEF Claims
    <3>2. processed'[g] = processed[g] BY <1>3, <2>2 DEF TypeOK
    <3> QED BY <3>1, <3>2 DEF ProcessCount
  <2> QED BY <2>1, <2>2
<1>12. ErrorsTell' BY <1>1, <1>2, <1>3 DEF ErrorsTell, TypeOK
<1>13. phase \notin {"finish", "returned"} /\ result # 0
  <2>1. t \notin executed /\ t <= started BY <1>1 DEF GroupShape, Tasks
  <2>2. t \in 1..accepted BY <2>1 DEF GroupShape, Tasks
  <2> QED BY <2>1, <2>2 DEF PhaseShape, ResultTells
<1>14. ResultTells' BY <1>1, <1>13 DEF ResultTells
<1> QED BY <1>6, <1>7, <1>8, <1>9, <1>10, <1>11, <1>12, <1>14

\* a task finds no file left
LEMMA TaskEndsStep ==
    ASSUME IInv, NEW t \in Tasks, TaskEnds(t)
    PROVE  IInv'
<1> USE BatchAssumption DEF IInv, TaskEnds
<1>1. next \in Nat /\ t \notin executed /\ t \in 1..started
  BY DEF TypeOK
<1>2. GroupShape' BY <1>1 DEF GroupShape, TypeOK
<1>3. IsFiniteSet(executed) /\ Cardinality(executed) \in Nat
  <2>1. started \in 0..MaxTasks BY DEF GroupShape
  <2>2. executed \in SUBSET (1..started) BY DEF GroupShape
  <2> QED BY <2>1, <2>2, CardTasks
<1>4. Cardinality(executed') = Cardinality(executed) + 1
  BY <1>1, <1>3, FS_AddElement
<1>5. Cardinality(executed') <= MaxTasks
  <2>1. started \in 0..MaxTasks BY DEF GroupShape
  <2>2. executed' \in SUBSET (1..started) BY DEF GroupShape
  <2> QED BY <2>1, <2>2, CardTasks
<1>6. next' <= NumFiles + Cardinality(executed')
  BY <1>1, <1>3, <1>4 DEF IndexShape
<1>7. TypeOK'
  <2>1. next' \in 0..NumFiles + MaxTasks BY <1>1, <1>3, <1>4, <1>5, <1>6
  <2>2. task' \in [Tasks -> {"queued", "claim", "link", "done"}] BY DEF TypeOK
  <2> QED BY <2>1, <2>2 DEF TypeOK
<1>8. phase \in {"submit", "wait"}
  <2>1. t \in 1..accepted BY <1>1 DEF GroupShape
  <2>2. phase \notin {"release", "finish", "returned"} BY <1>1, <2>1 DEF PhaseShape
  <2>3. phase \notin {"probe", "choose", "serial"}
    BY <2>1 DEF PhaseShape, Tasks
  <2> QED BY <2>2, <2>3 DEF TypeOK, Phase
<1>9. PhaseShape' BY <1>8 DEF PhaseShape
<1>10. IndexShape' BY <1>1, <1>6, <1>8 DEF IndexShape
<1>11. \A u \in Tasks : task'[u] = "link" <=> task[u] = "link"
  BY DEF TypeOK
<1>12. ClaimShape' BY <1>1, <1>11 DEF ClaimShape
<1>13. ProcessCount'
  <2>1. \A f \in Files : Claims(f)' <=> Claims(f) BY <1>11 DEF Claims
  <2>2. \A f \in Files : ~(f > next) /\ ~(f > next') BY <1>1 DEF Files
  <2> QED BY <2>1, <2>2 DEF ProcessCount
<1>14. ErrorsTell' BY DEF ErrorsTell
<1>15. ResultTells' BY <1>8 DEF ResultTells, Wanted
<1> QED BY <1>2, <1>7, <1>9, <1>10, <1>12, <1>13, <1>14, <1>15

\* nothing happens
LEMMA StutterStep == ASSUME IInv, UNCHANGED vars PROVE IInv'
<1> USE DEF IInv, vars, groupVars, batchVars
<1>1. TypeOK' BY DEF TypeOK
<1>2. GroupShape' /\ PhaseShape' BY DEF GroupShape, PhaseShape
<1>3. IndexShape' /\ ClaimShape' BY DEF IndexShape, ClaimShape
<1>4. ProcessCount' BY DEF ProcessCount, Claims
<1>5. ErrorsTell' /\ ResultTells' BY DEF ErrorsTell, ResultTells, Wanted
<1> QED BY <1>1, <1>2, <1>3, <1>4, <1>5

-----------------------------------------------------------------------------

\* The invariant from which the safety of pass 2 follows: it holds of every
\* state of link_package, for any number of files and of pool tasks.
THEOREM Invariance == Spec => []IInv
<1>1. IInv /\ [Next]_vars => IInv'
  BY UringUnavailableStep, UringBatchStep, ChooseDriverStep, SerialLinkStep,
     SubmitTaskStep, WaitReturnsStep, ReleasePoolStep, ReturnStep,
     StartTaskStep, ClaimStep, LinkClaimedStep, TaskEndsStep, StutterStep
     DEF Next, ClientStep, TaskStep, Returned
<1> QED BY InitIInv, <1>1, PTL DEF Spec

\* The shared index never passes the number of files by more than the number
\* of tasks, and every other variable of pass 2 keeps its type.
THEOREM TypeCorrect == Spec => []TypeOK
<1>1. IInv => TypeOK BY DEF IInv
<1> QED BY <1>1, Invariance, PTL

\* No file is handed to native_link_cb twice, whichever driver links the
\* package and however its tasks interleave.
THEOREM NoFileTwice == Spec => []ProcessedOnce
<1>1. IInv => ProcessedOnce BY DEF IInv, ProcessCount, ProcessedOnce
<1> QED BY <1>1, Invariance, PTL

\* When thread_pool_wait has returned, every file has been processed and no
\* task uses the batch on link_package's stack any more.
THEOREM BarrierHolds == Spec => []BarrierCoversBatch
<1>1. IInv => BarrierCoversBatch
  <2> SUFFICES ASSUME IInv, phase \in {"release", "finish"}, accepted > 0
               PROVE  /\ \A f \in Files : processed[f] = 1
                      /\ \A t \in Tasks : task[t] = "done"
    BY DEF BarrierCoversBatch
  <2>1. accepted = MaxTasks /\ executed = 1..accepted BY DEF IInv, PhaseShape
  <2> QED BY <2>1, DoneMeansProcessed
<1> QED BY <1>1, Invariance, PTL

\* link_package returns 0 only with every file linked that is not ignored,
\* unless the ring came back early.
THEOREM ResultIsTrue == Spec => []SuccessMeansLinked
<1>1. IInv => SuccessMeansLinked BY DEF IInv, ResultTells, SuccessMeansLinked
<1> QED BY <1>1, Invariance, PTL

=============================================================================
