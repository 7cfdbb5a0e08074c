-------------------------------- MODULE Unfold --------------------------------
(***************************************************************************)
(* Unfolding a directory link: unfold_symlink_cb of                        *)
(* src/src/core/linker/linker_walk.c with the calls it makes               *)
(* (register_temp_path, mkdir_p, fs_atomic_swap_or_replace,                *)
(* cleanup_temp_dir_contents), one system call per action, and the signal  *)
(* handler of src/src/utils/signal.c, which may run between any two.       *)
(*                                                                         *)
(* A folded link  target/d -> source/pkg/d  is replaced by a directory of  *)
(* links to the children of source/pkg/d.  The directory is staged at      *)
(* target/d.unfold_tmp_PID, a name that belongs to the process: two worker *)
(* threads that meet the same folded link share it.                        *)
(***************************************************************************)
EXTENDS Naturals, FiniteSets

CONSTANTS
    Threads,    \* threads that link packages at the same time
    Links,      \* folded links in the target tree
    Walks,      \* the ways the walks may meet them: [Threads -> Links \union {NoLink}]
    Children,   \* names in the source directory behind a link
    Subdirs,    \* those that are directories
    NumSlots,   \* MAX_SIGNAL_TEMP_PATHS
    Exchange,   \* whether renameat2(RENAME_EXCHANGE) may work, or not
    Faults,     \* system calls that may fail for a reason of their own
    Signals     \* whether SIGINT or SIGTERM may arrive

NoLink == "no link"

ASSUME UnfoldAssumption ==
    /\ Walks \subseteq [Threads -> Links \union {NoLink}]
    /\ NoLink \notin Links
    /\ Subdirs \subseteq Children
    /\ NumSlots \in Nat \ {0}
    /\ Exchange \subseteq BOOLEAN
    /\ Faults \subseteq {"mkdir", "opendir", "symlink", "rename"}
    /\ Signals \in BOOLEAN
    /\ {"none", "fold"} \intersect Threads = {}

Slots  == 1..NumSlots
NoSlot == 0
NoPath == "no path"

\* What a path names: nothing, a link to the source directory, or the
\* directory that some thread has made.
Objects == {"none", "fold"} \union Threads

VARIABLES
    linkOf,     \* the folded link each thread's walk meets, if any
    at,         \* at[l]: what target/d is
    tmp,        \* tmp[l]: what target/d.unfold_tmp_PID is
    dir,        \* dir[t]: the links in the directory that thread t has made
    source,     \* source[l]: what is left in the source directory behind l
    body,       \* the path in each of g_signal_temp_paths, from index 1 on
    published,  \* whether index 0 of that slot is set
    slot,       \* the slot a thread has found empty
    pc,         \* where each thread stands
    todo,       \* directory entries a thread has still to go through
    handling,   \* 0, or the slot the signal handler looks at next
    victim      \* the thread that runs the handler

fsVars   == <<at, tmp, dir, source>>
slotVars == <<body, published, slot>>
sigVars  == <<handling, victim>>
vars     == <<linkOf, fsVars, slotVars, pc, todo, sigVars>>

Exited == handling = NumSlots + 1

TypeOK ==
    /\ linkOf \in Walks
    /\ at \in [Links -> Objects]
    /\ tmp \in [Links -> Objects]
    /\ dir \in [Threads -> SUBSET Children]
    /\ source \in [Links -> SUBSET Children]
    /\ body \in [Slots -> Links \union {NoPath}]
    /\ published \in [Slots -> BOOLEAN]
    /\ slot \in [Threads -> Slots \union {NoSlot}]
    /\ pc \in [Threads -> {"walk", "find", "publish", "mkdir", "opendir",
                           "stage", "exchange", "drop", "unlink", "rename",
                           "cleanopen", "clean", "rmdir", "unregister",
                           "done"}]
    /\ todo \in [Threads -> SUBSET Children]
    /\ handling \in 0..NumSlots + 1
    /\ victim \in Threads

Init ==
    /\ linkOf \in Walks
    /\ at = [l \in Links |-> "fold"]
    /\ tmp = [l \in Links |-> "none"]
    /\ dir = [t \in Threads |-> {}]
    /\ source = [l \in Links |-> Children]
    /\ body = [s \in Slots |-> NoPath]
    /\ published = [s \in Slots |-> FALSE]
    /\ slot = [t \in Threads |-> NoSlot]
    /\ pc = [t \in Threads |-> IF linkOf[t] \in Links THEN "walk" ELSE "done"]
    /\ todo = [t \in Threads |-> {}]
    /\ handling = 0
    /\ victim \in {t \in Threads : linkOf[t] # NoLink}

-----------------------------------------------------------------------------
(* The threads *)

\* A thread stops when the process has exited, and when it runs the handler.
Runs(t) == ~Exited /\ (handling = 0 \/ t # victim)

\* Thread t is at p and goes on to q.
Step(t, p, q) ==
    /\ Runs(t)
    /\ pc[t] = p
    /\ pc' = [pc EXCEPT ![t] = q]
    /\ UNCHANGED <<linkOf, sigVars>>

\* The names a listing of the staging path yields.
Listing(l) ==
    CASE tmp[l] = "none" -> {}
      [] tmp[l] = "fold" -> source[l]
      [] OTHER           -> dir[tmp[l]]

\* lstat, is_dir and readlink of the link: what is no folded link is left
\* alone.
Meet(t) ==
    /\ Step(t, "walk", IF at[linkOf[t]] = "fold" THEN "find" ELSE "done")
    /\ UNCHANGED <<fsVars, slotVars, todo>>

\* register_temp_path looks for an empty slot and writes the path into it, all
\* but the first byte.  A full table leaves the path unregistered.
FindSlot(t) ==
    LET empty == {s \in Slots : ~published[s]}
    IN  IF empty = {}
        THEN /\ Step(t, "find", "mkdir")
             /\ UNCHANGED slotVars
        ELSE LET s == CHOOSE s \in empty : \A r \in empty : s <= r
             IN  /\ Step(t, "find", "publish")
                 /\ slot' = [slot EXCEPT ![t] = s]
                 /\ body' = [body EXCEPT ![s] = linkOf[t]]
                 /\ UNCHANGED published

PublishSlot(t) ==
    /\ Step(t, "publish", "mkdir")
    /\ published' = [published EXCEPT ![slot[t]] = TRUE]
    /\ UNCHANGED <<body, slot>>

Register(t) == (FindSlot(t) \/ PublishSlot(t)) /\ UNCHANGED <<fsVars, todo>>

\* mkdir_p of the staging path accepts whatever stat says is a directory.
MakeStaging(t) ==
    LET l == linkOf[t]
    IN  \/ /\ Step(t, "mkdir", "opendir")
           /\ tmp[l] = "none"
           /\ tmp' = [tmp EXCEPT ![l] = t]
           /\ UNCHANGED <<at, dir, source, slotVars, todo>>
        \/ /\ Step(t, "mkdir", "opendir")
           /\ tmp[l] # "none"
           /\ UNCHANGED <<fsVars, slotVars, todo>>
        \/ /\ "mkdir" \in Faults
           /\ Step(t, "mkdir", "unregister")
           /\ tmp[l] = "none"
           /\ UNCHANGED <<fsVars, slotVars, todo>>

\* Mutant of OpenSource: "." and ".." are not skipped.
OpenSourceWithDots(t) ==
    /\ Step(t, "opendir", "stage")
    /\ todo' = [todo EXCEPT ![t] = source[linkOf[t]] \union {".", ".."}]
    /\ UNCHANGED <<fsVars, slotVars>>

OpenSource(t) ==
    /\ \/ /\ Step(t, "opendir", "stage")
          /\ todo' = [todo EXCEPT ![t] = source[linkOf[t]]]
       \/ /\ "opendir" \in Faults
          /\ Step(t, "opendir", "rmdir")
          /\ UNCHANGED todo
    /\ UNCHANGED <<fsVars, slotVars>>

\* Mutant of StageChild: a failing symlink does not end the loop.
StageChildOrSkip(t) ==
    LET d == tmp[linkOf[t]]
    IN  \E c \in todo[t] :
          /\ Step(t, "stage", "stage")
          /\ todo' = [todo EXCEPT ![t] = @ \ {c}]
          /\ \/ /\ d \in Threads
                /\ dir' = [dir EXCEPT ![d] = @ \union {c}]
             \/ /\ d \notin Threads \/ "symlink" \in Faults
                /\ UNCHANGED dir
          /\ UNCHANGED <<at, tmp, source, slotVars>>

\* symlink(child_src, child_dst) of the next child.  Through a staging path
\* that is a link again, it finds the child itself or makes a link that names
\* itself.
StageChild(t) ==
    LET d == tmp[linkOf[t]]
    IN  \E c \in todo[t] :
          \/ /\ d # "none"
             /\ c \notin Listing(linkOf[t])
             /\ Step(t, "stage", "stage")
             /\ dir' = IF d = "fold" THEN dir ELSE [dir EXCEPT ![d] = @ \union {c}]
             /\ todo' = [todo EXCEPT ![t] = @ \ {c}]
             /\ UNCHANGED <<at, tmp, source, slotVars>>
          \/ /\ d = "none" \/ c \in Listing(linkOf[t]) \/ "symlink" \in Faults
             /\ Step(t, "stage", "cleanopen")
             /\ UNCHANGED <<fsVars, slotVars, todo>>

Staged(t) ==
    /\ todo[t] = {}
    /\ Step(t, "stage", "exchange")
    /\ UNCHANGED <<fsVars, slotVars, todo>>

-----------------------------------------------------------------------------
(* fs_atomic_swap_or_replace(tmp_dir, symlink_path, true) *)

\* Tier 1: renameat2(src_tmp, dst_target, RENAME_EXCHANGE)
SwapPaths(t) ==
    LET l == linkOf[t]
    IN  \/ /\ TRUE \in Exchange
           /\ Step(t, "exchange", "drop")
           /\ tmp[l] # "none" /\ at[l] # "none"
           /\ at' = [at EXCEPT ![l] = tmp[l]]
           /\ tmp' = [tmp EXCEPT ![l] = at[l]]
           /\ UNCHANGED <<dir, source, slotVars, todo>>
        \/ /\ Step(t, "exchange", "unlink")
           /\ FALSE \in Exchange \/ tmp[l] = "none" \/ at[l] = "none"
           /\ UNCHANGED <<fsVars, slotVars, todo>>

\* FS_UNLINK(src_tmp): the old link, now under the staging name
DropOldLink(t) ==
    /\ Step(t, "drop", "unregister")
    /\ tmp' = [tmp EXCEPT ![linkOf[t]] = IF @ = "fold" THEN "none" ELSE @]
    /\ UNCHANGED <<at, dir, source, slotVars, todo>>

\* Tier 2: FS_UNLINK(dst_target), which cannot remove a directory
UnlinkTarget(t) ==
    /\ Step(t, "unlink", "rename")
    /\ at' = [at EXCEPT ![linkOf[t]] = IF @ = "fold" THEN "none" ELSE @]
    /\ UNCHANGED <<tmp, dir, source, slotVars, todo>>

\* rename(2) puts a directory in the place of nothing or of an empty directory
\* and a link in the place of nothing or of a link.
CanRename(from, to) ==
    /\ from # "none"
    /\ \/ to = "none"
       \/ from = "fold" /\ to = "fold"
       \/ from \in Threads /\ to \in Threads /\ dir[to] = {}

\* FS_RENAME(src_tmp, dst_target); a failure is logged and no more
RenameStaging(t) ==
    LET l == linkOf[t]
    IN  \/ /\ Step(t, "rename", "unregister")
           /\ CanRename(tmp[l], at[l])
           /\ at' = [at EXCEPT ![l] = tmp[l]]
           /\ tmp' = [tmp EXCEPT ![l] = "none"]
           /\ UNCHANGED <<dir, source, slotVars, todo>>
        \/ /\ Step(t, "rename", "unregister")
           /\ ~CanRename(tmp[l], at[l]) \/ "rename" \in Faults
           /\ UNCHANGED <<fsVars, slotVars, todo>>

-----------------------------------------------------------------------------
(* The way out *)

\* cleanup_temp_dir_contents(tmp_dir): list the staging path, then remove each
\* entry by its name under that path, recursively.
OpenStaging(t) ==
    /\ Step(t, "cleanopen", "clean")
    /\ todo' = [todo EXCEPT ![t] = Listing(linkOf[t])]
    /\ UNCHANGED <<fsVars, slotVars>>

\* Mutant of RemoveEntry: stat for lstat, so that the links to subdirectories
\* are entered and what is behind them is removed too.
RemoveEntryFollowing(t) ==
    LET l == linkOf[t]
        d == tmp[l]
    IN  \E c \in todo[t] :
          /\ Step(t, "clean", "clean")
          /\ todo' = [todo EXCEPT ![t] = @ \ {c}]
          /\ dir' = IF d \in Threads THEN [dir EXCEPT ![d] = @ \ {c}] ELSE dir
          /\ source' = [source EXCEPT ![l] = @ \ (Subdirs \intersect {c})]
          /\ UNCHANGED <<at, tmp, slotVars>>

RemoveEntry(t) ==
    LET l == linkOf[t]
        d == tmp[l]
    IN  \E c \in todo[t] :
          /\ Step(t, "clean", "clean")
          /\ todo' = [todo EXCEPT ![t] = @ \ {c}]
          /\ dir' = IF d \in Threads THEN [dir EXCEPT ![d] = @ \ {c}] ELSE dir
          /\ source' = IF d = "fold"
                       THEN [source EXCEPT ![l] = @ \ {c}] ELSE source
          /\ UNCHANGED <<at, tmp, slotVars>>

Cleaned(t) ==
    /\ todo[t] = {}
    /\ Step(t, "clean", "rmdir")
    /\ UNCHANGED <<fsVars, slotVars, todo>>

\* What rmdir leaves at the staging path.
AfterRmdir(d) == IF d \in Threads /\ dir[d] = {} THEN "none" ELSE d

\* Mutant of RemoveStaging: the directory is emptied, and stays.
KeepStaging(t) ==
    /\ Step(t, "rmdir", "unregister")
    /\ UNCHANGED <<fsVars, slotVars, todo>>

RemoveStaging(t) ==
    /\ Step(t, "rmdir", "unregister")
    /\ tmp' = [tmp EXCEPT ![linkOf[t]] = AfterRmdir(@)]
    /\ UNCHANGED <<at, dir, source, slotVars, todo>>

\* unregister_temp_path clears every slot that holds the path.
Unregister(t) ==
    /\ Step(t, "unregister", "done")
    /\ published' = [s \in Slots |-> published[s] /\ body[s] # linkOf[t]]
    /\ UNCHANGED <<fsVars, body, slot, todo>>

-----------------------------------------------------------------------------
(* The signal handler *)

\* SIGINT or SIGTERM interrupts the thread chosen in Init.
Interrupt ==
    /\ Signals
    /\ handling = 0
    /\ \E t \in Threads : pc[t] # "done"
    /\ handling' = 1
    /\ UNCHANGED <<linkOf, fsVars, slotVars, pc, todo, victim>>

\* Mutant of CleanSlot: rmdir without unlink, for a path that was a directory
\* when it was registered.
CleanSlotByRmdir ==
    LET l == body[handling]
        d == tmp[l]
    IN  /\ handling \in Slots
        /\ handling' = handling + 1
        /\ IF published[handling] /\ d \in Threads
           THEN /\ dir' = [dir EXCEPT ![d] = {}]
                /\ tmp' = [tmp EXCEPT ![l] = "none"]
                /\ UNCHANGED <<at, source>>
           ELSE UNCHANGED fsVars
        /\ UNCHANGED <<linkOf, slotVars, pc, todo, victim>>

\* cleanup_temp_paths_signal_safe, one slot: unlinkat everything a listing of
\* the path yields (which fails for directories), unlink the path, rmdir it.
CleanSlot ==
    LET s == handling
        l == body[s]
        d == tmp[l]
    IN  /\ handling \in Slots
        /\ handling' = handling + 1
        /\ IF ~published[s]
           THEN UNCHANGED fsVars
           ELSE /\ dir' = IF d \in Threads THEN [dir EXCEPT ![d] = {}] ELSE dir
                /\ source' = IF d = "fold"
                             THEN [source EXCEPT ![l] = @ \intersect Subdirs]
                             ELSE source
                /\ tmp' = [tmp EXCEPT ![l] = "none"]
                /\ UNCHANGED at
        /\ UNCHANGED <<linkOf, slotVars, pc, todo, victim>>

-----------------------------------------------------------------------------

Unfold(t) ==
    \/ Meet(t) \/ Register(t) \/ MakeStaging(t) \/ OpenSource(t)
    \/ StageChild(t) \/ Staged(t)
    \/ SwapPaths(t) \/ DropOldLink(t) \/ UnlinkTarget(t) \/ RenameStaging(t)
    \/ OpenStaging(t) \/ RemoveEntry(t) \/ Cleaned(t) \/ RemoveStaging(t)
    \/ Unregister(t)

AllDone == \A t \in Threads : pc[t] = "done"

Stopped == (Exited \/ (handling = 0 /\ AllDone)) /\ UNCHANGED vars

Next ==
    \/ \E t \in Threads : Unfold(t)
    \/ Interrupt \/ CleanSlot
    \/ Stopped

Spec == Init /\ [][Next]_vars

-----------------------------------------------------------------------------
(* Properties *)

\* What a user finds under target/d: the children that exist and can be
\* reached, through the folded link or through the links of a real directory.
View(l) ==
    CASE at[l] = "none" -> {}
      [] at[l] = "fold" -> source[l]
      [] OTHER          -> dir[at[l]] \intersect source[l]

\* The threads that unfold meet different links.
OwnLinks == \A t, u \in Threads : linkOf[t] = linkOf[u] /\ linkOf[t] # NoLink => t = u

\* symdep runs in one thread.
Solo == \E t \in Threads : \A u \in Threads \ {t} : linkOf[u] = NoLink

\* The source repository never loses an entry to an unfold or to its clean-up
\* (docs/decisions/ADR-002: "zero file loss").
SourceIntact == \A l \in Links : source[l] = Children

\* An unfold that runs to its end, whichever call of it has failed, leaves no
\* staging directory in the user's home.
NothingLeftBehind ==
    OwnLinks /\ handling = 0 =>
        \A t \in Threads : pc[t] = "done" => linkOf[t] = NoLink \/ tmp[linkOf[t]] = "none"

\* While threads unfold links of their own, target/d shows every child at every
\* moment, and the source has them all, whichever call has failed.  The one
\* exception is the window between the unlink and the rename of the fallback
\* without RENAME_EXCHANGE (ADR-012).
ViewShrinksOnlyInFallback ==
    OwnLinks /\ handling = 0 =>
        \A l \in Links :
            \/ View(l) = Children /\ source[l] = Children
            \/ \E t \in Threads : linkOf[t] = l /\ pc[t] = "rename"

\* A signal at any point leaves no staging directory either: the path is
\* registered before it exists and until it is gone (include/utils/signal.h:
\* "for atomic cleanup on exit/signal").
InterruptCleansUp == Exited /\ Solo => \A l \in Links : tmp[l] = "none"

\* An interrupted unfold loses nothing, unless the signal falls between the
\* two calls that put the directory in place: after the exchange and before
\* the old link is dropped, or after the unlink and before the rename.
LossOnlyInWindow ==
    Exited /\ Solo /\ pc[victim] \notin {"drop", "rename"} =>
        \A l \in Links : View(l) = Children /\ source[l] = Children

=============================================================================
