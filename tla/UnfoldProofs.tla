----------------------------- MODULE UnfoldProofs -----------------------------
(***************************************************************************)
(* What is proved about unfolding a directory link, for any number of      *)
(* threads and links, any children, any size of the handler's table, and   *)
(* any of the calls failing but the last rename: no staging directory is   *)
(* left behind, by a run or by a signal, and the user's view shrinks only  *)
(* between the two calls of the fallback.                                  *)
(*                                                                         *)
(* None of it holds of threads that meet one and the same link: they share *)
(* the staging path.  The invariant therefore has a part about threads     *)
(* with links of their own (Undisturbed), as long as no signal has come,   *)
(* and one about a single thread and the handler that interrupts it        *)
(* (Recorded, Survives).                                                   *)
(***************************************************************************)
EXTENDS Unfold, WellFoundedInduction, TLAPS

-----------------------------------------------------------------------------
(* The inductive invariant *)

Before  == {"walk", "find", "publish", "mkdir"}
Staging == {"opendir", "stage", "exchange", "unlink", "cleanopen", "clean", "rmdir"}
After   == {"unregister", "done"}

\* How far thread t has come with a link of its own: the link stands until it
\* is exchanged or unlinked, and what is staged is what has been gone through.
Stand(t) ==
    LET l == linkOf[t]
    IN  /\ pc[t] \in Before => at[l] = "fold" /\ tmp[l] = "none" /\ dir[t] = {}
        /\ pc[t] \in Staging => at[l] = "fold" /\ tmp[l] = t
        /\ pc[t] \in {"opendir", "rmdir"} => dir[t] = {}
        /\ pc[t] = "stage" => dir[t] = Children \ todo[t]
        /\ pc[t] \in {"exchange", "drop", "unlink", "rename"} => dir[t] = Children
        /\ pc[t] = "clean" => dir[t] = todo[t]
        /\ pc[t] = "drop" => at[l] = t /\ tmp[l] = "fold"
        /\ pc[t] = "rename" => at[l] = "none" /\ tmp[l] = t
        /\ pc[t] \in After /\ "rename" \notin Faults =>
              tmp[l] = "none" /\ (at[l] = "fold" \/ (at[l] = t /\ dir[t] = Children))

Met(l) == \E t \in Threads : linkOf[t] = l

\* Links that no thread meets stay as they are; so does the source.
Undisturbed ==
    OwnLinks /\ handling = 0 =>
        /\ \A t \in Threads : linkOf[t] \in Links => Stand(t)
        /\ \A l \in Links : ~Met(l) => at[l] = "fold" /\ tmp[l] = "none"
        /\ \A l \in Links : source[l] = Children

\* Slot s holds path l for the handler, which has not come to it yet.
Holds(s, l) == s >= handling /\ published[s] /\ body[s] = l

\* The staging path of the one thread is in the table whenever it exists.
Recorded ==
    Solo =>
        LET l == linkOf[victim]
        IN  /\ \A m \in Links \ {l} : at[m] = "fold" /\ tmp[m] = "none" /\ source[m] = Children
            /\ \A s \in Slots : published[s] => body[s] = l
            /\ pc[victim] \in {"walk", "find", "publish"} => \A s \in Slots : ~published[s]
            /\ pc[victim] = "publish" => body[slot[victim]] = l
            /\ pc[victim] \in {"walk", "find", "publish"} => tmp[l] = "none"
            /\ pc[victim] \notin {"walk", "find", "publish", "done"} /\ handling = 0 =>
                  \E s \in Slots : Holds(s, l)
            /\ handling # 0 => tmp[l] = "none" \/ \E s \in Slots : Holds(s, l)

\* What the handler finds, and leaves, of the one thread's link.
Survives ==
    Solo /\ handling # 0 /\ pc[victim] \notin {"drop", "rename"} /\ "rename" \notin Faults =>
        LET l == linkOf[victim]
        IN  /\ source[l] = Children
            /\ \/ at[l] = "fold" /\ tmp[l] # "fold"
               \/ at[l] = victim /\ dir[victim] = Children /\ tmp[l] = "none"

\* A thread has a link until it is done, and so has the interrupted one; what
\* the table holds are paths of links.
Bound ==
    /\ \A t \in Threads : pc[t] # "done" => linkOf[t] \in Links
    /\ linkOf[victim] \in Links
    /\ \A s \in Slots : published[s] => body[s] \in Links
    /\ \A t \in Threads : pc[t] = "publish" => slot[t] \in Slots /\ body[slot[t]] \in Links

IInv == TypeOK /\ Bound /\ Undisturbed /\ Recorded /\ Survives

-----------------------------------------------------------------------------
(* The initial states *)

LEMMA Distinct ==
    /\ NoLink \notin Links
    /\ \A t \in Threads : t # "none" /\ t # "fold"
BY UnfoldAssumption

LEMMA InitStep == Init => IInv
<1> SUFFICES ASSUME Init PROVE IInv
  OBVIOUS
<1>1. linkOf \in [Threads -> Links \union {NoLink}] /\ NumSlots \in Nat
  BY UnfoldAssumption DEF Init
<1>2. victim \in Threads /\ linkOf[victim] \in Links
  BY <1>1 DEF Init
<1>3. \A t \in Threads : pc[t] = IF linkOf[t] \in Links THEN "walk" ELSE "done"
  BY DEF Init
<1>4. TypeOK
  BY <1>1, <1>2 DEF Init, TypeOK, Objects, Slots
<1>5. Bound
  BY <1>2, <1>3 DEF Init, Bound
<1>6. Undisturbed
  <2>1. ASSUME NEW t \in Threads, linkOf[t] \in Links PROVE Stand(t)
    BY <1>3, <2>1 DEF Init, Stand, Before, Staging, After
  <2> QED BY <2>1 DEF Init, Undisturbed
<1>7. Recorded
  BY <1>2, <1>3 DEF Init, Recorded, Slots
<1>8. Survives
  BY DEF Init, Survives
<1> QED BY <1>4, <1>5, <1>6, <1>7, <1>8 DEF IInv

-----------------------------------------------------------------------------
(* What the steps of one thread leave alone *)

\* A step of thread t concerns its own link.
Moves(t, P, Q) ==
    /\ Runs(t) /\ pc[t] \in P /\ pc'[t] \in Q
    /\ UNCHANGED <<linkOf, handling, victim>>
    /\ \A u \in Threads \ {t} : pc'[u] = pc[u] /\ todo'[u] = todo[u]
    /\ \A l \in Links \ {linkOf[t]} : at'[l] = at[l] /\ tmp'[l] = tmp[l] /\ source'[l] = source[l]

\* What it does to the directory of another thread and to the source it does
\* through a shared staging path or one that is a link.
Harmless(t) ==
    source' = source /\ \A u \in Threads \ {t} : dir'[u] = dir[u]

Registering == {"walk", "find", "publish"}
Registered  == {"mkdir", "opendir", "stage", "exchange", "drop", "unlink", "rename",
                "cleanopen", "clean", "rmdir", "unregister"}

\* All threads but the interrupted one are idle if there is one thread only.
LEMMA SoloVictim ==
    ASSUME TypeOK, Bound, Solo
    PROVE  /\ OwnLinks
           /\ \A t \in Threads \ {victim} : linkOf[t] = NoLink /\ pc[t] = "done"
BY Distinct DEF TypeOK, Bound, Solo, OwnLinks

\* So the one that takes a step is that one, and no handler runs.
LEMMA SoloStep ==
    ASSUME TypeOK, Bound, Solo, NEW t \in Threads, Runs(t), pc[t] # "done"
    PROVE  t = victim /\ handling = 0
BY SoloVictim DEF Runs

\* The other threads and their links are where they were.
LEMMA OthersStand ==
    ASSUME IInv, NEW t \in Threads, NEW P, NEW Q, Moves(t, P, Q), "done" \notin P,
           OwnLinks /\ handling = 0 => Stand(t)' /\ Harmless(t)
    PROVE  Undisturbed'
<1> SUFFICES ASSUME OwnLinks, handling = 0
             PROVE  /\ \A u \in Threads : linkOf[u] \in Links => Stand(u)'
                    /\ \A l \in Links : ~Met(l) => at'[l] = "fold" /\ tmp'[l] = "none"
                    /\ \A l \in Links : source'[l] = Children
  BY DEF Undisturbed, Moves, OwnLinks, Met
<1> USE DEF IInv
<1>1. linkOf[t] \in Links /\ Stand(t)' /\ Harmless(t)
  BY DEF Moves, Bound
<1>2. ASSUME NEW u \in Threads \ {t}, linkOf[u] \in Links PROVE Stand(u)'
  <2>1. Stand(u) /\ linkOf[u] # linkOf[t] /\ linkOf' = linkOf
    BY <1>2, Distinct DEF Undisturbed, OwnLinks, Moves
  <2>2. /\ pc'[u] = pc[u] /\ todo'[u] = todo[u] /\ dir'[u] = dir[u]
        /\ at'[linkOf[u]] = at[linkOf[u]] /\ tmp'[linkOf[u]] = tmp[linkOf[u]]
    BY <1>1, <1>2, <2>1 DEF Moves, Harmless
  <2> QED BY <2>1, <2>2 DEF Stand
<1>3. ASSUME NEW l \in Links, ~Met(l) PROVE at'[l] = "fold" /\ tmp'[l] = "none"
  BY <1>3 DEF Met, Moves, Undisturbed
<1> QED BY <1>1, <1>2, <1>3 DEF Undisturbed, Harmless

\* A step between the registration and its end keeps the invariant if it keeps
\* what the thread knows of its own link.
LEMMA QuietStep ==
    ASSUME IInv, NEW t \in Threads, Moves(t, Registered, Registered), UNCHANGED slotVars, TypeOK',
           OwnLinks /\ handling = 0 => Stand(t)' /\ Harmless(t)
    PROVE  IInv'
<1> USE DEF IInv
<1>1. pc[t] # "done" /\ pc'[t] # "done" /\ pc[t] \notin Registering /\ pc'[t] \notin Registering
  BY DEF Moves, Registered, Registering
<1>2. Bound'
  BY <1>1 DEF Bound, Moves, slotVars, Registering
<1>3. Undisturbed'
  BY OthersStand DEF Registered
<1>4. Solo' = Solo
  BY DEF Solo, Moves
<1>5. Recorded' /\ Survives'
  <2> SUFFICES ASSUME Solo PROVE Recorded' /\ Survives'
    BY <1>4 DEF Recorded, Survives
  <2>1. t = victim /\ handling = 0 /\ victim' = victim /\ linkOf' = linkOf /\ handling' = 0
    BY <1>1, SoloStep DEF Moves
  <2>2. Recorded'
    BY <1>1, <2>1 DEF Recorded, Holds, Moves, slotVars, Registering
  <2> QED BY <2>1, <2>2 DEF Survives
<1> QED BY <1>2, <1>3, <1>5

-----------------------------------------------------------------------------
(* The steps of a thread *)

LEMMA MakeStagingKeeps ==
    ASSUME IInv, NEW t \in Threads, MakeStaging(t)
    PROVE  IInv'
<1> USE Distinct DEF IInv
<1>1. linkOf[t] \in Links
  BY DEF Bound, MakeStaging, Step
<1>2. Moves(t, Registered, Registered) /\ UNCHANGED slotVars
  BY <1>1 DEF Moves, Registered, TypeOK, Step, fsVars, sigVars, MakeStaging
<1>3. TypeOK'
  BY <1>1 DEF TypeOK, Step, fsVars, slotVars, sigVars, Objects, MakeStaging
<1>4. ASSUME OwnLinks, handling = 0 PROVE Stand(t)' /\ Harmless(t)
  <2>1. Stand(t)
    BY <1>1, <1>4 DEF Undisturbed
  <2> QED BY <1>1, <2>1
    DEF Stand, Harmless, Before, Staging, After, TypeOK, Step, fsVars, MakeStaging
<1> QED BY <1>2, <1>3, <1>4, QuietStep

LEMMA OpenSourceKeeps ==
    ASSUME IInv, NEW t \in Threads, OpenSource(t)
    PROVE  IInv'
<1> USE Distinct DEF IInv
<1>1. linkOf[t] \in Links
  BY DEF Bound, OpenSource, Step
<1>2. Moves(t, Registered, Registered) /\ UNCHANGED slotVars
  BY <1>1 DEF Moves, Registered, TypeOK, Step, fsVars, sigVars, OpenSource
<1>3. TypeOK'
  BY <1>1 DEF TypeOK, Step, fsVars, slotVars, sigVars, OpenSource
<1>4. ASSUME OwnLinks, handling = 0 PROVE Stand(t)' /\ Harmless(t)
  <2>1. Stand(t) /\ source[linkOf[t]] = Children
    BY <1>1, <1>4 DEF Undisturbed
  <2> QED BY <1>1, <2>1
    DEF Stand, Harmless, Before, Staging, After, TypeOK, Step, fsVars, OpenSource
<1> QED BY <1>2, <1>3, <1>4, QuietStep

LEMMA StageChildKeeps ==
    ASSUME IInv, NEW t \in Threads, StageChild(t)
    PROVE  IInv'
<1> USE Distinct DEF IInv
<1>1. linkOf[t] \in Links
  BY DEF Bound, StageChild, Step
<1>2. Moves(t, Registered, Registered) /\ UNCHANGED slotVars
  BY <1>1 DEF Moves, Registered, TypeOK, Step, fsVars, sigVars, StageChild
<1>3. TypeOK'
  BY <1>1 DEF TypeOK, Step, fsVars, slotVars, sigVars, StageChild
<1>4. ASSUME OwnLinks, handling = 0 PROVE Stand(t)' /\ Harmless(t)
  <2>1. Stand(t)
    BY <1>1, <1>4 DEF Undisturbed
  <2> QED BY <1>1, <2>1
    DEF Stand, Harmless, Before, Staging, After, TypeOK, Step, fsVars, StageChild
<1> QED BY <1>2, <1>3, <1>4, QuietStep

LEMMA StagedKeeps ==
    ASSUME IInv, NEW t \in Threads, Staged(t)
    PROVE  IInv'
<1> USE Distinct DEF IInv
<1>1. linkOf[t] \in Links
  BY DEF Bound, Staged, Step
<1>2. Moves(t, Registered, Registered) /\ UNCHANGED slotVars
  BY <1>1 DEF Moves, Registered, Step, fsVars, sigVars, Staged
<1>3. TypeOK'
  BY <1>1 DEF TypeOK, Step, fsVars, slotVars, sigVars, Staged
<1>4. ASSUME OwnLinks, handling = 0 PROVE Stand(t)' /\ Harmless(t)
  <2>1. Stand(t)
    BY <1>1, <1>4 DEF Undisturbed
  <2> QED BY <1>1, <2>1 DEF Stand, Harmless, Before, Staging, After, Step, fsVars, Staged
<1> QED BY <1>2, <1>3, <1>4, QuietStep

LEMMA SwapPathsKeeps ==
    ASSUME IInv, NEW t \in Threads, SwapPaths(t)
    PROVE  IInv'
<1> USE Distinct DEF IInv
<1>1. linkOf[t] \in Links
  BY DEF Bound, SwapPaths, Step
<1>2. Moves(t, Registered, Registered) /\ UNCHANGED slotVars
  BY <1>1 DEF Moves, Registered, TypeOK, Step, fsVars, sigVars, SwapPaths
<1>3. TypeOK'
  <2>1. at' \in [Links -> Objects] /\ tmp' \in [Links -> Objects]
    BY <1>1 DEF TypeOK, fsVars, SwapPaths
  <2>2. pc'[t] \in {"drop", "unlink"} /\ pc' = [pc EXCEPT ![t] = pc'[t]]
    BY DEF TypeOK, Step, SwapPaths
  <2> QED BY <2>1, <2>2 DEF TypeOK, Step, fsVars, slotVars, sigVars, SwapPaths
<1>4. ASSUME OwnLinks, handling = 0 PROVE Stand(t)' /\ Harmless(t)
  <2>1. Stand(t)
    BY <1>1, <1>4 DEF Undisturbed
  <2> QED BY <1>1, <2>1
    DEF Stand, Harmless, Before, Staging, After, TypeOK, Step, fsVars, slotVars, sigVars, SwapPaths
<1> QED BY <1>2, <1>3, <1>4, QuietStep

LEMMA DropOldLinkKeeps ==
    ASSUME IInv, NEW t \in Threads, DropOldLink(t)
    PROVE  IInv'
<1> USE Distinct DEF IInv
<1>1. linkOf[t] \in Links
  BY DEF Bound, DropOldLink, Step
<1>2. Moves(t, Registered, Registered) /\ UNCHANGED slotVars
  BY <1>1 DEF Moves, Registered, Step, sigVars, DropOldLink
<1>3. TypeOK'
  BY <1>1 DEF TypeOK, Step, slotVars, sigVars, Objects, DropOldLink
<1>4. ASSUME OwnLinks, handling = 0 PROVE Stand(t)' /\ Harmless(t)
  <2>1. Stand(t)
    BY <1>1, <1>4 DEF Undisturbed
  <2> QED BY <1>1, <2>1 DEF Stand, Harmless, Before, Staging, TypeOK, Step, DropOldLink
<1> QED BY <1>2, <1>3, <1>4, QuietStep

LEMMA UnlinkTargetKeeps ==
    ASSUME IInv, NEW t \in Threads, UnlinkTarget(t)
    PROVE  IInv'
<1> USE Distinct DEF IInv
<1>1. linkOf[t] \in Links
  BY DEF Bound, UnlinkTarget, Step
<1>2. Moves(t, Registered, Registered) /\ UNCHANGED slotVars
  BY <1>1 DEF Moves, Registered, Step, sigVars, UnlinkTarget
<1>3. TypeOK'
  BY <1>1 DEF TypeOK, Step, slotVars, sigVars, Objects, UnlinkTarget
<1>4. ASSUME OwnLinks, handling = 0 PROVE Stand(t)' /\ Harmless(t)
  <2>1. Stand(t)
    BY <1>1, <1>4 DEF Undisturbed
  <2> QED BY <1>1, <2>1 DEF Stand, Harmless, Before, Staging, After, TypeOK, Step, UnlinkTarget
<1> QED BY <1>2, <1>3, <1>4, QuietStep

LEMMA RenameStagingKeeps ==
    ASSUME IInv, NEW t \in Threads, RenameStaging(t)
    PROVE  IInv'
<1> USE Distinct DEF IInv
<1>1. linkOf[t] \in Links
  BY DEF Bound, RenameStaging, Step
<1>2. Moves(t, Registered, Registered) /\ UNCHANGED slotVars
  BY <1>1 DEF Moves, Registered, TypeOK, Step, fsVars, sigVars, RenameStaging
<1>3. TypeOK'
  BY <1>1 DEF TypeOK, Step, fsVars, slotVars, sigVars, Objects, RenameStaging
<1>4. ASSUME OwnLinks, handling = 0 PROVE Stand(t)' /\ Harmless(t)
  <2>1. Stand(t)
    BY <1>1, <1>4 DEF Undisturbed
  <2> QED BY <1>1, <2>1
    DEF Stand, Harmless, Before, Staging, TypeOK, Step, fsVars, RenameStaging, CanRename
<1> QED BY <1>2, <1>3, <1>4, QuietStep

LEMMA OpenStagingKeeps ==
    ASSUME IInv, NEW t \in Threads, OpenStaging(t)
    PROVE  IInv'
<1> USE Distinct DEF IInv
<1>1. linkOf[t] \in Links
  BY DEF Bound, OpenStaging, Step
<1>2. Moves(t, Registered, Registered) /\ UNCHANGED slotVars
  BY <1>1 DEF Moves, Registered, Step, fsVars, sigVars, OpenStaging
<1>3. TypeOK'
  BY <1>1 DEF TypeOK, Step, fsVars, slotVars, sigVars, Objects, OpenStaging, Listing
<1>4. ASSUME OwnLinks, handling = 0 PROVE Stand(t)' /\ Harmless(t)
  <2>1. Stand(t)
    BY <1>1, <1>4 DEF Undisturbed
  <2> QED BY <1>1, <2>1
    DEF Stand, Harmless, Before, Staging, After, TypeOK, Step, fsVars, OpenStaging, Listing
<1> QED BY <1>2, <1>3, <1>4, QuietStep

LEMMA RemoveEntryKeeps ==
    ASSUME IInv, NEW t \in Threads, RemoveEntry(t)
    PROVE  IInv'
<1> USE Distinct DEF IInv
<1>1. linkOf[t] \in Links
  BY DEF Bound, RemoveEntry, Step
<1>2. Moves(t, Registered, Registered) /\ UNCHANGED slotVars
  BY <1>1 DEF Moves, Registered, Step, sigVars, RemoveEntry
<1>3. TypeOK'
  BY <1>1 DEF TypeOK, Step, slotVars, sigVars, RemoveEntry
<1>4. ASSUME OwnLinks, handling = 0 PROVE Stand(t)' /\ Harmless(t)
  <2>1. Stand(t)
    BY <1>1, <1>4 DEF Undisturbed
  <2> QED BY <1>1, <2>1 DEF Stand, Harmless, Staging, TypeOK, Step, RemoveEntry
<1> QED BY <1>2, <1>3, <1>4, QuietStep

LEMMA CleanedKeeps ==
    ASSUME IInv, NEW t \in Threads, Cleaned(t)
    PROVE  IInv'
<1> USE Distinct DEF IInv
<1>1. linkOf[t] \in Links
  BY DEF Bound, Cleaned, Step
<1>2. Moves(t, Registered, Registered) /\ UNCHANGED slotVars
  BY <1>1 DEF Moves, Registered, Step, fsVars, sigVars, Cleaned
<1>3. TypeOK'
  BY <1>1 DEF TypeOK, Step, fsVars, slotVars, sigVars, Cleaned
<1>4. ASSUME OwnLinks, handling = 0 PROVE Stand(t)' /\ Harmless(t)
  <2>1. Stand(t)
    BY <1>1, <1>4 DEF Undisturbed
  <2> QED BY <1>1, <2>1 DEF Stand, Harmless, Before, Staging, After, Step, fsVars, Cleaned
<1> QED BY <1>2, <1>3, <1>4, QuietStep

LEMMA RemoveStagingKeeps ==
    ASSUME IInv, NEW t \in Threads, RemoveStaging(t)
    PROVE  IInv'
<1> USE Distinct DEF IInv
<1>1. linkOf[t] \in Links
  BY DEF Bound, RemoveStaging, Step
<1>2. Moves(t, Registered, Registered) /\ UNCHANGED slotVars
  BY <1>1 DEF Moves, Registered, Step, sigVars, RemoveStaging
<1>3. TypeOK'
  BY <1>1 DEF TypeOK, Step, slotVars, sigVars, Objects, RemoveStaging, AfterRmdir
<1>4. ASSUME OwnLinks, handling = 0 PROVE Stand(t)' /\ Harmless(t)
  <2>1. Stand(t)
    BY <1>1, <1>4 DEF Undisturbed
  <2> QED BY <1>1, <2>1 DEF Stand, Harmless, Staging, TypeOK, Step, RemoveStaging, AfterRmdir
<1> QED BY <1>2, <1>3, <1>4, QuietStep

\* The link is found as it was left; that the thread is done with it instead
\* happens to threads that share it.
LEMMA MeetKeeps ==
    ASSUME IInv, NEW t \in Threads, Meet(t)
    PROVE  IInv'
<1> USE Distinct DEF IInv
<1>1. linkOf[t] \in Links
  BY DEF Bound, Meet, Step
<1>2. Moves(t, {"walk"}, {"find", "done"}) /\ UNCHANGED slotVars
  BY <1>1 DEF Moves, TypeOK, Step, fsVars, sigVars, Meet
<1>3. TypeOK'
  BY <1>1 DEF TypeOK, Step, fsVars, slotVars, sigVars, Meet
<1>4. ASSUME OwnLinks, handling = 0 PROVE Stand(t)' /\ Harmless(t) /\ pc'[t] = "find"
  <2>1. Stand(t)
    BY <1>1, <1>4 DEF Undisturbed
  <2> QED BY <1>1, <2>1 DEF Stand, Harmless, Before, Staging, TypeOK, Step, fsVars, Meet
<1>5. Bound'
  BY <1>1, <1>2 DEF Bound, Moves, slotVars
<1>6. Undisturbed'
  BY <1>2, <1>4, OthersStand
<1>7. Recorded' /\ Survives'
  <2> SUFFICES ASSUME Solo PROVE Recorded' /\ Survives'
    BY <1>2 DEF Recorded, Survives, Solo, Moves
  <2>1. t = victim /\ handling = 0 /\ victim' = victim /\ linkOf' = linkOf /\ handling' = 0
    BY <1>2, SoloStep DEF Moves
  <2>2. pc'[t] = "find" /\ pc[t] = "walk"
    BY <1>2, <1>4, <2>1, SoloVictim DEF Moves
  <2> QED BY <1>2, <2>1, <2>2 DEF Recorded, Survives, slotVars, Meet, fsVars
<1> QED BY <1>3, <1>5, <1>6, <1>7

\* A table that is not full has a first empty slot; it may be the one that
\* another thread has found too.
LEMMA FirstEmptySlot ==
    ASSUME NEW E \in SUBSET Slots, E # {}
    PROVE  (CHOOSE s \in E : \A r \in E : s <= r) \in E
<1>1. E \subseteq Nat
  BY DEF Slots
<1>2. PICK s \in E : \A r \in E : ~ (<<r, s>> \in OpToRel(<, Nat))
  BY <1>1, NatLessThanWellFounded, WFMin, Zenon
<1>3. \A r \in E : ~ (r < s)
  BY <1>1, <1>2, Zenon DEF OpToRel
<1>4. \A r \in E : s <= r
  BY <1>1, <1>3
<1> QED BY <1>4

LEMMA FindSlotKeeps ==
    ASSUME IInv, NEW t \in Threads, FindSlot(t), UNCHANGED <<fsVars, todo>>
    PROVE  IInv'
<1> DEFINE empty == {s \in Slots : ~published[s]}
           s == CHOOSE s \in empty : \A r \in empty : s <= r
<1> USE Distinct DEF IInv
<1>1. linkOf[t] \in Links
  BY DEF Bound, FindSlot, Step
<1>2. Moves(t, {"find"}, {"publish", "mkdir"})
  BY <1>1 DEF Moves, TypeOK, Step, fsVars, sigVars, FindSlot
<1>3. \/ empty = {} /\ UNCHANGED slotVars /\ pc' = [pc EXCEPT ![t] = "mkdir"]
      \/ /\ s \in Slots /\ ~published[s] /\ pc' = [pc EXCEPT ![t] = "publish"]
         /\ slot' = [slot EXCEPT ![t] = s] /\ body' = [body EXCEPT ![s] = linkOf[t]]
         /\ UNCHANGED published
  <2>1. empty # {} => s \in empty
    BY FirstEmptySlot
  <2>2. CASE empty = {}
    BY <2>2 DEF FindSlot, Step
  <2>3. CASE empty # {}
    BY <2>1, <2>3 DEF FindSlot, Step
  <2> QED BY <2>2, <2>3
<1> HIDE DEF s
<1>4. TypeOK'
  <2>1. pc' \in [Threads -> {"walk", "find", "publish", "mkdir", "opendir", "stage", "exchange", "drop",
                             "unlink", "rename", "cleanopen", "clean", "rmdir", "unregister", "done"}]
    BY <1>3 DEF TypeOK
  <2>2. body' \in [Slots -> Links \union {NoPath}] /\ slot' \in [Threads -> Slots \union {NoSlot}]
        /\ published' = published
    BY <1>1, <1>3 DEF TypeOK, slotVars
  <2> QED BY <1>2, <2>1, <2>2 DEF TypeOK, fsVars, Moves
<1>5. ASSUME OwnLinks, handling = 0 PROVE Stand(t)' /\ Harmless(t)
  <2>1. Stand(t)
    BY <1>1, <1>5 DEF Undisturbed
  <2> QED BY <1>1, <1>2, <2>1 DEF Stand, Harmless, Before, Staging, fsVars, Moves
<1>6. Bound'
  <2>1. \A u \in Threads : pc'[u] # "done" => linkOf'[u] \in Links
    BY <1>1, <1>2 DEF Bound, Moves
  <2>2. linkOf'[victim'] \in Links
    BY <1>2 DEF Bound, Moves
  <2>3. \A r \in Slots : body'[r] = body[r] \/ body'[r] \in Links
    BY <1>1, <1>3 DEF TypeOK, slotVars
  <2>4. \A r \in Slots : published'[r] => body'[r] \in Links
    BY <1>3, <2>3 DEF Bound, slotVars
  <2>5. \A u \in Threads \ {t} : slot'[u] = slot[u]
    BY <1>3 DEF TypeOK, slotVars
  <2>6. \A u \in Threads : pc'[u] = "publish" => slot'[u] \in Slots /\ body'[slot'[u]] \in Links
    <3> SUFFICES ASSUME NEW u \in Threads, pc'[u] = "publish"
                 PROVE  slot'[u] \in Slots /\ body'[slot'[u]] \in Links
      OBVIOUS
    <3>1. CASE u = t
      BY <1>1, <1>3, <3>1 DEF TypeOK
    <3>2. CASE u # t
      BY <1>2, <2>3, <2>5, <3>2 DEF Bound, Moves
    <3> QED BY <3>1, <3>2
  <2> QED BY <2>1, <2>2, <2>4, <2>6 DEF Bound
<1>7. Undisturbed'
  BY <1>2, <1>5, OthersStand
<1>8. Recorded' /\ Survives'
  <2> SUFFICES ASSUME Solo PROVE Recorded' /\ Survives'
    BY <1>2 DEF Recorded, Survives, Solo, Moves
  <2>1. t = victim /\ handling = 0 /\ victim' = victim /\ linkOf' = linkOf /\ handling' = 0
    BY <1>2, SoloStep DEF Moves
  <2>2. pc[t] = "find" /\ \A r \in Slots : ~published[r]
    BY <1>2, <2>1 DEF Recorded, Moves
  <2>3. 1 \in empty
    BY <2>2, UnfoldAssumption DEF Slots
  <2>4. pc'[t] = "publish" /\ slot'[t] \in Slots /\ body'[slot'[t]] = linkOf[t] /\ published' = published
    BY <1>3, <2>3 DEF TypeOK
  <2> QED BY <2>1, <2>2, <2>4 DEF Recorded, Survives, Holds, fsVars
<1> QED BY <1>4, <1>6, <1>7, <1>8

LEMMA PublishSlotKeeps ==
    ASSUME IInv, NEW t \in Threads, PublishSlot(t), UNCHANGED <<fsVars, todo>>
    PROVE  IInv'
<1> USE Distinct DEF IInv
<1>1. linkOf[t] \in Links /\ slot[t] \in Slots /\ body[slot[t]] \in Links
  BY DEF Bound, PublishSlot, Step
<1>2. Moves(t, {"publish"}, {"mkdir"}) /\ UNCHANGED <<body, slot>>
  BY <1>1 DEF Moves, TypeOK, Step, fsVars, sigVars, PublishSlot
<1>3. published' = [published EXCEPT ![slot[t]] = TRUE]
  BY DEF PublishSlot
<1>4. TypeOK'
  <2>1. published' \in [Slots -> BOOLEAN]
    BY <1>1, <1>3 DEF TypeOK
  <2> QED BY <2>1 DEF TypeOK, Step, fsVars, sigVars, PublishSlot
<1>5. ASSUME OwnLinks, handling = 0 PROVE Stand(t)' /\ Harmless(t)
  <2>1. Stand(t)
    BY <1>1, <1>5 DEF Undisturbed
  <2> QED BY <1>1, <1>2, <2>1 DEF Stand, Harmless, Before, Staging, fsVars, Moves
<1>6. Bound'
  BY <1>1, <1>2, <1>3 DEF Bound, Moves, TypeOK
<1>7. Undisturbed'
  BY <1>2, <1>5, OthersStand
<1>8. Recorded' /\ Survives'
  <2> SUFFICES ASSUME Solo PROVE Recorded' /\ Survives'
    BY <1>2 DEF Recorded, Survives, Solo, Moves
  <2>1. t = victim /\ handling = 0 /\ victim' = victim /\ linkOf' = linkOf /\ handling' = 0
    BY <1>2, SoloStep DEF Moves
  <2>2. pc[t] = "publish" /\ pc'[t] = "mkdir" /\ body[slot[t]] = linkOf[t]
        /\ \A r \in Slots : ~published[r]
    BY <1>2, <2>1 DEF Recorded, Moves
  <2>3. published'[slot[t]] /\ \A r \in Slots : published'[r] => r = slot[t]
    BY <1>1, <1>3, <2>2 DEF TypeOK
  <2>4. slot[t] >= 0
    BY <1>1 DEF Slots
  <2> QED BY <1>1, <1>2, <2>1, <2>2, <2>3, <2>4 DEF Recorded, Survives, Holds, fsVars
<1> QED BY <1>4, <1>6, <1>7, <1>8

LEMMA UnregisterKeeps ==
    ASSUME IInv, NEW t \in Threads, Unregister(t)
    PROVE  IInv'
<1> USE Distinct DEF IInv
<1>1. linkOf[t] \in Links
  BY DEF Bound, Unregister, Step
<1>2. Moves(t, {"unregister"}, {"done"}) /\ UNCHANGED <<body, slot>>
  BY <1>1 DEF Moves, TypeOK, Step, fsVars, sigVars, Unregister
<1>3. \A s \in Slots : published'[s] => published[s]
  BY DEF Unregister, TypeOK
<1>4. TypeOK'
  <2>1. published' \in [Slots -> BOOLEAN]
    BY DEF TypeOK, Unregister
  <2> QED BY <2>1 DEF TypeOK, Step, fsVars, sigVars, Unregister
<1>5. ASSUME OwnLinks, handling = 0 PROVE Stand(t)' /\ Harmless(t)
  <2>1. Stand(t)
    BY <1>1, <1>5 DEF Undisturbed
  <2> QED BY <1>1, <1>2, <2>1 DEF Stand, Harmless, Before, Staging, After, fsVars, Moves, Unregister
<1>6. Bound'
  BY <1>1, <1>2, <1>3 DEF Bound, Moves
<1>7. Undisturbed'
  BY <1>2, <1>5, OthersStand
<1>8. Recorded' /\ Survives'
  <2> SUFFICES ASSUME Solo PROVE Recorded' /\ Survives'
    BY <1>2 DEF Recorded, Survives, Solo, Moves
  <2>1. t = victim /\ handling = 0 /\ victim' = victim /\ linkOf' = linkOf /\ handling' = 0
    BY <1>2, SoloStep DEF Moves
  <2>2. pc'[t] = "done"
    BY <1>2 DEF Moves
  <2> QED BY <1>2, <1>3, <2>1, <2>2 DEF Recorded, Survives, fsVars, Unregister
<1> QED BY <1>4, <1>6, <1>7, <1>8

-----------------------------------------------------------------------------
(* The steps of the handler *)

\* A signal comes while the one thread is at work: what is staged is in the
\* table, and the link is where it was or has been replaced whole.
LEMMA InterruptKeeps ==
    ASSUME IInv, Interrupt
    PROVE  IInv'
<1> USE Distinct DEF IInv
<1>1. /\ handling = 0 /\ handling' = 1 /\ 1 \in Slots /\ 1 \in 0 .. NumSlots + 1
      /\ UNCHANGED <<linkOf, fsVars, slotVars, pc, todo, victim>>
  BY UnfoldAssumption DEF Interrupt, Slots
<1>2. TypeOK'
  BY <1>1 DEF TypeOK, fsVars, slotVars
<1>3. Bound'
  BY <1>1 DEF Bound, slotVars
<1>4. Undisturbed'
  BY <1>1 DEF Undisturbed
<1>5. Recorded' /\ Survives'
  <2> SUFFICES ASSUME Solo PROVE Recorded' /\ Survives'
    BY <1>1 DEF Recorded, Survives, Solo
  <2>1. pc[victim] # "done" /\ OwnLinks
    BY SoloVictim DEF Interrupt
  <2>2. Stand(victim) /\ source[linkOf[victim]] = Children
    BY <1>1, <2>1 DEF Undisturbed, Bound, TypeOK
  <2>3. \A s \in Slots : Holds(s, linkOf[victim]) => Holds(s, linkOf[victim])'
    BY <1>1 DEF Holds, slotVars, Slots
  <2>4. Recorded'
    BY <1>1, <2>1, <2>3 DEF Recorded, slotVars, fsVars
  <2>5. Survives'
    BY <1>1, <2>2 DEF Survives, Stand, Before, Staging, After, fsVars, TypeOK
  <2> QED BY <2>4, <2>5
<1> QED BY <1>2, <1>3, <1>4, <1>5

\* The staging path goes with the slot that holds it; what the handler empties
\* is the staging directory, unless the old link is at its path.
LEMMA CleanSlotKeeps ==
    ASSUME IInv, CleanSlot
    PROVE  IInv'
<1> DEFINE l == body[handling]
           d == tmp[l]
<1> USE Distinct DEF IInv
<1>1. /\ handling \in Slots /\ handling' = handling + 1 /\ handling' # 0
      /\ handling' \in 0 .. NumSlots + 1
      /\ UNCHANGED <<linkOf, slotVars, pc, todo, victim>>
  BY UnfoldAssumption DEF CleanSlot, Slots
<1>2. published[handling] => l \in Links /\ d \in Objects
  BY <1>1 DEF Bound, TypeOK
<1>3. \/ ~published[handling] /\ UNCHANGED fsVars
      \/ /\ published[handling] /\ UNCHANGED at /\ tmp' = [tmp EXCEPT ![l] = "none"]
         /\ dir' = IF d \in Threads THEN [dir EXCEPT ![d] = {}] ELSE dir
         /\ source' = IF d = "fold" THEN [source EXCEPT ![l] = @ \intersect Subdirs] ELSE source
  BY DEF CleanSlot
<1>4. TypeOK'
  <2>1. tmp' \in [Links -> Objects] /\ at' \in [Links -> Objects]
    BY <1>2, <1>3 DEF TypeOK, Objects, fsVars
  <2>2. dir' \in [Threads -> SUBSET Children] /\ source' \in [Links -> SUBSET Children]
    BY <1>2, <1>3 DEF TypeOK, fsVars
  <2> QED BY <1>1, <2>1, <2>2 DEF TypeOK, slotVars
<1>5. Bound'
  BY <1>1 DEF Bound, slotVars
<1>6. Undisturbed'
  BY <1>1 DEF Undisturbed
<1>7. Recorded' /\ Survives'
  <2> SUFFICES ASSUME Solo PROVE Recorded' /\ Survives'
    BY <1>1 DEF Recorded, Survives, Solo
  <2>1. published[handling] => l = linkOf[victim]
    BY <1>1 DEF Recorded
  <2>2. linkOf[victim] \in Links /\ handling # 0
    BY <1>1 DEF Bound, Slots
  <2>3. \A m \in Links \ {linkOf[victim]} :
           at'[m] = at[m] /\ tmp'[m] = tmp[m] /\ source'[m] = source[m]
    BY <1>3, <2>1 DEF TypeOK, fsVars
  <2>4. CASE ~published[handling]
    <3>1. \A s \in Slots : Holds(s, linkOf[victim]) => Holds(s, linkOf[victim])'
      BY <1>1, <2>4 DEF Holds, slotVars, Slots
    <3>2. UNCHANGED fsVars
      BY <1>3, <2>4
    <3>3. Recorded'
      BY <1>1, <2>2, <3>1, <3>2 DEF Recorded, slotVars, fsVars
    <3>4. Survives'
      BY <1>1, <2>2, <3>2 DEF Survives, fsVars
    <3> QED BY <3>3, <3>4
  <2>5. CASE published[handling]
    <3>1. tmp'[linkOf[victim]] = "none" /\ at' = at
      BY <1>3, <2>1, <2>2, <2>5 DEF TypeOK
    <3>2. Recorded'
      BY <1>1, <2>2, <2>3, <3>1 DEF Recorded, slotVars
    <3>3. tmp[linkOf[victim]] # "fold" => source' = source
      BY <1>3, <2>1, <2>5
    <3>4. tmp[linkOf[victim]] = "none" => dir' = dir
      BY <1>3, <2>1, <2>5
    <3>5. Survives'
      BY <1>1, <2>2, <3>1, <3>3, <3>4 DEF Survives
    <3> QED BY <3>2, <3>5
  <2> QED BY <2>4, <2>5
<1> QED BY <1>4, <1>5, <1>6, <1>7

-----------------------------------------------------------------------------
(* The invariant, and what follows *)

LEMMA NextStep == IInv /\ [Next]_vars => IInv'
<1> SUFFICES ASSUME IInv, [Next]_vars PROVE IInv'
  OBVIOUS
<1>1. ASSUME NEW t \in Threads, Unfold(t) PROVE IInv'
  BY <1>1, MeetKeeps, FindSlotKeeps, PublishSlotKeeps, MakeStagingKeeps, OpenSourceKeeps,
       StageChildKeeps, StagedKeeps, SwapPathsKeeps, DropOldLinkKeeps, UnlinkTargetKeeps,
       RenameStagingKeeps, OpenStagingKeeps, RemoveEntryKeeps, CleanedKeeps, RemoveStagingKeeps,
       UnregisterKeeps
    DEF Unfold, Register
<1>2. CASE UNCHANGED vars
  <2> USE <1>2 DEF vars, fsVars, slotVars, sigVars, IInv
  <2>1. TypeOK'
    BY DEF TypeOK
  <2>2. Bound'
    BY DEF Bound
  <2>3. Undisturbed'
    BY DEF Undisturbed, OwnLinks, Met, Stand
  <2>4. Recorded'
    BY DEF Recorded, Solo, Holds
  <2>5. Survives'
    BY DEF Survives, Solo
  <2> QED BY <2>1, <2>2, <2>3, <2>4, <2>5
<1> QED BY <1>1, <1>2, InterruptKeeps, CleanSlotKeeps DEF Next, Stopped

\* The invariant holds in every state.
THEOREM Invariance == Spec => []IInv
BY InitStep, NextStep, PTL DEF Spec

\* The state is typed.
THEOREM TypeCorrect == Spec => []TypeOK
<1>1. IInv => TypeOK
  BY DEF IInv
<1> QED BY <1>1, Invariance, PTL

\* A signal leaves no staging directory of a single thread behind, whichever
\* call has failed before.
THEOREM HandlerCleansUp == Spec => []InterruptCleansUp
<1>1. IInv => InterruptCleansUp
  <2> SUFFICES ASSUME IInv, Exited, Solo, NEW l \in Links PROVE tmp[l] = "none"
    BY DEF InterruptCleansUp
  <2>1. handling # 0 /\ \A s \in Slots : ~(s >= handling)
    BY UnfoldAssumption DEF Exited, Slots
  <2> QED BY <2>1 DEF IInv, Recorded, Holds
<1> QED BY <1>1, Invariance, PTL

\* An unfold that runs to its end leaves no staging directory, whichever call
\* has failed, unless it is the rename that is to put it in place.
THEOREM StagingGoes ==
    ASSUME "rename" \notin Faults
    PROVE  Spec => []NothingLeftBehind
<1>1. IInv => NothingLeftBehind
  <2> SUFFICES ASSUME IInv, OwnLinks, handling = 0, NEW t \in Threads, pc[t] = "done", linkOf[t] # NoLink
               PROVE  tmp[linkOf[t]] = "none"
    BY DEF NothingLeftBehind
  <2>1. linkOf[t] \in Links
    BY UnfoldAssumption DEF IInv, TypeOK
  <2>2. Stand(t)
    BY <2>1 DEF IInv, Undisturbed
  <2> QED BY <2>2 DEF Stand, After
<1> QED BY <1>1, Invariance, PTL

\* As long as that rename does not fail, every child is there to be seen, but
\* for the window of the fallback.
THEOREM ViewShrinksInWindow ==
    ASSUME "rename" \notin Faults
    PROVE  Spec => []ViewShrinksOnlyInFallback
<1>1. IInv => ViewShrinksOnlyInFallback
  <2> SUFFICES ASSUME IInv, OwnLinks, handling = 0, NEW l \in Links,
                      ~ \E t \in Threads : linkOf[t] = l /\ pc[t] = "rename"
               PROVE  View(l) = Children /\ source[l] = Children
    BY DEF ViewShrinksOnlyInFallback
  <2> USE Distinct DEF IInv
  <2>1. source[l] = Children
    BY DEF Undisturbed
  <2>2. CASE ~Met(l)
    BY <2>1, <2>2 DEF Undisturbed, View
  <2>3. ASSUME NEW t \in Threads, linkOf[t] = l PROVE View(l) = Children
    <3>1. Stand(t) /\ pc[t] # "rename"
      BY <2>3 DEF Undisturbed
    <3>2. at[l] = "fold" \/ (at[l] = t /\ dir[t] = Children)
      BY <2>3, <3>1 DEF Stand, Before, Staging, After, TypeOK
    <3> QED BY <2>1, <3>2 DEF View
  <2> QED BY <2>1, <2>2, <2>3 DEF Met
<1> QED BY <1>1, Invariance, PTL

\* An interrupted unfold of a single thread loses nothing outside the two
\* windows, if that rename has not failed.
THEOREM LossInWindow ==
    ASSUME "rename" \notin Faults
    PROVE  Spec => []LossOnlyInWindow
<1>1. IInv => LossOnlyInWindow
  <2> SUFFICES ASSUME IInv, Exited, Solo, pc[victim] \notin {"drop", "rename"}, NEW l \in Links
               PROVE  View(l) = Children /\ source[l] = Children
    BY DEF LossOnlyInWindow
  <2> USE Distinct DEF IInv
  <2>1. handling # 0
    BY UnfoldAssumption DEF Exited
  <2>2. CASE l = linkOf[victim]
    BY <2>1, <2>2 DEF Survives, View, TypeOK
  <2>3. CASE l # linkOf[victim]
    BY <2>3 DEF Recorded, View
  <2> QED BY <2>2, <2>3
<1> QED BY <1>1, Invariance, PTL

=============================================================================
