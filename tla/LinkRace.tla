------------------------------- MODULE LinkRace -------------------------------
(***************************************************************************)
(* symdep link A B (unlink, relink): with two packages or more, the        *)
(* command runs each in a task of the worker pool (foreach_package of      *)
(* src/src/cli/dispatch/cmd_stow_ops.c), all in one process and on one     *)
(* target tree.  Here one thread works on one package, one system call at  *)
(* a time; without io_uring, pass 2 of link_package in a worker thread is  *)
(* a serial loop.                                                          *)
(*                                                                         *)
(* There are no links to directories in this target tree: what happens to  *)
(* those is the subject of the modules Unfold and Linker.  All backups     *)
(* fall into one second, so that their names differ in the counter only.   *)
(***************************************************************************)
EXTENDS Naturals, FiniteSets, SequencesExt

CONSTANTS
    Pkgs,        \* the packages named on the command line
    Rels,        \* relative paths of files
    Jobs,        \* the commands, with what they may meet
    MaxBackups   \* bound on the backups of one target path

DirsOf(rel) == {SubSeq(rel, 1, k) : k \in 1..Len(rel)-1}
AllDirs  == UNION {DirsOf(rel) : rel \in Rels}
Counters == 0..MaxBackups

\* What a target path is: nothing, the user's file, a link to a file that is
\* no package's, or a link to the file of a package.
None  == "none"
User  == "user"
Stale == "stale"
Objects == {None, User, Stale} \union Pkgs

\* A job: "link", "unlink" or "relink", the relative paths of each package's
\* files, the CONFLICTS line of its manifest, and what the target paths are
\* before the command.  A relative path is a sequence of names; no path is a
\* file in one package and a directory in another.
ASSUME RaceAssumption ==
    /\ Pkgs # {} /\ Pkgs \intersect {None, User, Stale} = {}
    /\ Rels \subseteq Seq(UNION {ToSet(r) : r \in Rels}) \ {<<>>}
    /\ Rels \intersect AllDirs = {}
    /\ \A j \in Jobs :
          /\ j.command \in {"link", "unlink", "relink"}
          /\ j.files \in [Pkgs -> SUBSET Rels]
          /\ j.conflicts \in [Pkgs -> SUBSET Pkgs]
          /\ j.start \in [Rels -> Objects]
    /\ MaxBackups \in Nat

VARIABLES
    job,      \* the command
    dirs,     \* the directories of the target tree
    at,       \* at[rel]: what the target path is
    tmp,      \* tmp[rel]: what target.symdep_tmp_PID is
    backup,   \* backup[rel][k]: what the k-th backup is
    pc,       \* where each package's thread stands
    todo,     \* what its loop has still to go through
    rel,      \* the relative path it works on
    num,      \* a counter of that step: path component or backup number
    victims,  \* the packages link_package has still to unlink
    victim,   \* the package its unlink loop works on
    resume,   \* where its caller goes on when that loop is done
    failed    \* pctx.errors > 0

treeVars == <<dirs, at, tmp, backup>>
unlVars  == <<victims, victim, resume>>
vars == <<job, treeVars, pc, todo, rel, num, unlVars, failed>>

Steps == {"exclude", "detect", "evict", "check", "unlink", "rmdir",
          "next-dir", "mkdir", "stat", "lstat", "readlink", "symlink-tmp", "rename-tmp",
          "probe", "rename", "symlink", "done"}

TypeOK ==
    /\ job \in Jobs
    /\ dirs \subseteq AllDirs
    /\ at \in [Rels -> Objects] /\ tmp \in [Rels -> Objects]
    /\ backup \in [Rels -> [Counters -> Objects]]
    /\ pc \in [Pkgs -> Steps]
    /\ todo \in [Pkgs -> SUBSET (Rels \union AllDirs)]
    /\ rel \in [Pkgs -> Rels \union AllDirs \union {<<>>}]
    /\ num \in [Pkgs -> Nat]
    /\ victims \in [Pkgs -> SUBSET Pkgs] /\ victim \in [Pkgs -> Pkgs]
    /\ resume \in [Pkgs -> Steps]
    /\ failed \in [Pkgs -> BOOLEAN]

Init ==
    /\ job \in Jobs
    /\ dirs = UNION {DirsOf(r) : r \in {s \in Rels : job.start[s] # None}}
    /\ at = job.start
    /\ tmp = [r \in Rels |-> None]
    /\ backup = [r \in Rels |-> [k \in Counters |-> None]]
    /\ pc = [p \in Pkgs |-> IF job.command = "link" THEN "exclude" ELSE "check"]
    /\ todo = [p \in Pkgs |-> IF job.command = "link" THEN {} ELSE job.files[p]]
    /\ rel = [p \in Pkgs |-> <<>>]
    /\ num = [p \in Pkgs |-> 0]
    /\ victims = job.conflicts
    /\ victim = [p \in Pkgs |-> p]
    /\ resume = [p \in Pkgs |-> IF job.command = "unlink" THEN "done" ELSE "exclude"]
    /\ failed = [p \in Pkgs |-> FALSE]

-----------------------------------------------------------------------------

HasParent(r) == Len(r) = 1 \/ Front(r) \in dirs

Empty(d) ==
    /\ \A e \in dirs : Len(e) = Len(d) + 1 => Front(e) # d
    /\ \A r \in Rels : Front(r) = d =>
          at[r] = None /\ tmp[r] = None /\ \A k \in Counters : backup[r][k] = None

\* Thread t is at step s and goes on to step u.
Go(t, s, u) == pc[t] = s /\ pc' = [pc EXCEPT ![t] = u] /\ UNCHANGED job

\* The loop takes up r, or is done with what it has taken up.
TakeUp(t, r) == r \in todo[t] /\ rel' = [rel EXCEPT ![t] = r]
Drop(t)      == todo' = [todo EXCEPT ![t] = @ \ {rel[t]}]

-----------------------------------------------------------------------------
(* link_package before pass 1 *)

\* The loop of unlink_package(c), after which t goes on at step s.
EnterUnlink(t, c, s) ==
    /\ victim' = [victim EXCEPT ![t] = c]
    /\ todo' = [todo EXCEPT ![t] = job.files[c]]
    /\ resume' = [resume EXCEPT ![t] = s]

\* handle_mutual_exclusions, one conflict: is_package_linked and, if so,
\* unlink_package.
Exclude(t) ==
    /\ \E c \in victims[t] :
          /\ victims' = [victims EXCEPT ![t] = @ \ {c}]
          /\ \/ /\ \E r \in job.files[c] : at[r] = c
                /\ Go(t, "exclude", "check")
                /\ EnterUnlink(t, c, "exclude")
             \/ /\ \A r \in job.files[c] : at[r] # c
                /\ Go(t, "exclude", "exclude")
                /\ UNCHANGED <<todo, victim, resume>>
    /\ UNCHANGED <<treeVars, rel, num, failed>>

\* handle_dynamic_package_conflicts: the owners of the links in the way, one
\* target path at a time ...
BeginDetect(t) ==
    /\ victims[t] = {}
    /\ Go(t, "exclude", "detect")
    /\ todo' = [todo EXCEPT ![t] = job.files[t]]
    /\ UNCHANGED <<treeVars, rel, num, unlVars, failed>>

Detect(t) ==
    /\ Go(t, "detect", "detect")
    /\ \E r \in todo[t] :
          /\ todo' = [todo EXCEPT ![t] = @ \ {r}]
          /\ victims' = [victims EXCEPT
                           ![t] = @ \union (({at[r]} \intersect Pkgs) \ {t})]
    /\ UNCHANGED <<treeVars, rel, num, victim, resume, failed>>

\* ... then each is unlinked ...
Evict(t) ==
    /\ pc[t] = "detect" => todo[t] = {}
    /\ Go(t, "detect", "check") \/ Go(t, "evict", "check")
    /\ \E c \in victims[t] :
          /\ victims' = [victims EXCEPT ![t] = @ \ {c}]
          /\ EnterUnlink(t, c, "evict")
    /\ UNCHANGED <<treeVars, rel, num, failed>>

\* Mutant of BeginMkdir: a file at the top has a parent directory too.
BeginMkdirOfRoot(t) ==
    /\ pc[t] = "detect" => todo[t] = {}
    /\ victims[t] = {}
    /\ Go(t, "detect", "next-dir") \/ Go(t, "evict", "next-dir")
    /\ todo' = [todo EXCEPT ![t] = {Front(r) : r \in job.files[t]}]
    /\ UNCHANGED <<treeVars, rel, num, unlVars, failed>>

\* ... and pass 1 begins.
BeginMkdir(t) ==
    /\ pc[t] = "detect" => todo[t] = {}
    /\ victims[t] = {}
    /\ Go(t, "detect", "next-dir") \/ Go(t, "evict", "next-dir")
    /\ todo' = [todo EXCEPT ![t] = {Front(r) : r \in job.files[t]} \ {<<>>}]
    /\ UNCHANGED <<treeVars, rel, num, unlVars, failed>>

-----------------------------------------------------------------------------
(* native_unlink_cb *)

\* is_symlink and is_symlink_pointing_to
CheckLink(t) ==
    /\ pc[t] = "check"
    /\ \E r \in todo[t] :
          /\ TakeUp(t, r)
          /\ \/ /\ at[r] = victim[t]
                /\ Go(t, "check", "unlink")
                /\ UNCHANGED todo
             \/ /\ at[r] # victim[t]
                /\ Go(t, "check", "check")
                /\ todo' = [todo EXCEPT ![t] = @ \ {r}]
    /\ UNCHANGED <<treeVars, num, unlVars, failed>>

\* FS_UNLINK removes what is there now; an error counts in the result of an
\* unlink command only.
UnlinkLink(t) ==
    /\ pc[t] = "unlink"
    /\ \/ /\ at[rel[t]] # None
          /\ Go(t, "unlink", "rmdir")
          /\ at' = [at EXCEPT ![rel[t]] = None]
          /\ num' = [num EXCEPT ![t] = Len(rel[t]) - 1]
          /\ UNCHANGED <<todo, failed>>
       \/ /\ at[rel[t]] = None
          /\ Go(t, "unlink", "check")
          /\ failed' = [failed EXCEPT ![t] = @ \/ job.command = "unlink"]
          /\ Drop(t)
          /\ UNCHANGED <<at, num>>
    /\ UNCHANGED <<dirs, tmp, backup, rel, unlVars>>

\* FS_RMDIR of one parent, the deepest first, until it fails.
RemoveParent(t) ==
    LET d == SubSeq(rel[t], 1, num[t])
    IN  /\ pc[t] = "rmdir"
        /\ \/ /\ num[t] > 0 /\ d \in dirs /\ Empty(d)
              /\ Go(t, "rmdir", "rmdir")
              /\ dirs' = dirs \ {d}
              /\ num' = [num EXCEPT ![t] = @ - 1]
              /\ UNCHANGED todo
           \/ /\ ~(num[t] > 0 /\ d \in dirs /\ Empty(d))
              /\ Go(t, "rmdir", "check")
              /\ Drop(t)
              /\ UNCHANGED <<dirs, num>>
        /\ UNCHANGED <<at, tmp, backup, rel, unlVars, failed>>

UnlinkReturns(t) ==
    /\ todo[t] = {}
    /\ Go(t, "check", resume[t])
    /\ UNCHANGED <<treeVars, todo, rel, num, unlVars, failed>>

-----------------------------------------------------------------------------
(* Pass 1: mkdir_p of each parent directory, its result ignored *)

NextDir(t) ==
    /\ pc[t] = "next-dir"
    /\ \E d \in todo[t] : TakeUp(t, d)
    /\ Go(t, "next-dir", "mkdir")
    /\ num' = [num EXCEPT ![t] = 1]
    /\ UNCHANGED <<treeVars, todo, unlVars, failed>>

\* The next component, or the end of the path.
Component(t, s) ==
    IF num[t] = Len(rel[t])
    THEN Go(t, s, "next-dir") /\ Drop(t) /\ UNCHANGED num
    ELSE /\ Go(t, s, "mkdir")
         /\ num' = [num EXCEPT ![t] = @ + 1]
         /\ UNCHANGED todo

GiveUp(t, s) == Go(t, s, "next-dir") /\ Drop(t) /\ UNCHANGED num

\* Mutant of Mkdir: EEXIST is an error like any other.
MkdirExclusive(t) ==
    LET d == SubSeq(rel[t], 1, num[t])
    IN  /\ pc[t] = "mkdir"
        /\ \/ /\ d \notin dirs /\ HasParent(d)
              /\ dirs' = dirs \union {d}
              /\ Component(t, "mkdir")
           \/ /\ d \in dirs \/ ~HasParent(d)
              /\ GiveUp(t, "mkdir")
              /\ UNCHANGED dirs
        /\ UNCHANGED <<at, tmp, backup, rel, unlVars, failed>>

Mkdir(t) ==
    LET d == SubSeq(rel[t], 1, num[t])
    IN  /\ pc[t] = "mkdir"
        /\ \/ /\ d \in dirs             \* EEXIST: ask stat
              /\ Go(t, "mkdir", "stat")
              /\ UNCHANGED <<dirs, todo, num>>
           \/ /\ d \notin dirs /\ HasParent(d)
              /\ dirs' = dirs \union {d}
              /\ Component(t, "mkdir")
           \/ /\ d \notin dirs /\ ~HasParent(d)
              /\ GiveUp(t, "mkdir")
              /\ UNCHANGED dirs
        /\ UNCHANGED <<at, tmp, backup, rel, unlVars, failed>>

StatDir(t) ==
    /\ pc[t] = "stat"
    /\ IF SubSeq(rel[t], 1, num[t]) \in dirs
       THEN Component(t, "stat") ELSE GiveUp(t, "stat")
    /\ UNCHANGED <<treeVars, rel, unlVars, failed>>

DirsMade(t) ==
    /\ todo[t] = {}
    /\ Go(t, "next-dir", "lstat")
    /\ todo' = [todo EXCEPT ![t] = job.files[t]]
    /\ UNCHANGED <<treeVars, rel, num, unlVars, failed>>

-----------------------------------------------------------------------------
(* Pass 2: native_link_cb *)

Linked(t, s) == Go(t, s, "lstat") /\ Drop(t) /\ UNCHANGED failed
Fails(t, s)  == /\ Go(t, s, "lstat") /\ Drop(t)
                /\ failed' = [failed EXCEPT ![t] = TRUE]

\* Mutant of LStat: stat for lstat, so that a file passes for a link.
LStatAsLink(t) ==
    /\ pc[t] = "lstat"
    /\ \E r \in todo[t] :
          /\ TakeUp(t, r)
          /\ Go(t, "lstat", IF at[r] = None THEN "symlink" ELSE "readlink")
    /\ UNCHANGED <<treeVars, todo, num, unlVars, failed>>

\* resolve_target_conflict_or_replace looks at the target path.
LStat(t) ==
    /\ pc[t] = "lstat"
    /\ \E r \in todo[t] :
          /\ TakeUp(t, r)
          /\ Go(t, "lstat", CASE at[r] = None -> "symlink"
                              [] at[r] = User -> "probe"
                              [] OTHER        -> "readlink")
    /\ UNCHANGED <<treeVars, todo, num, unlVars, failed>>

\* Mutant of ReadLink: the link is removed and made anew.
ReadLinkUnlinks(t) ==
    /\ pc[t] = "readlink"
    /\ \/ at[rel[t]] = t /\ Linked(t, "readlink") /\ UNCHANGED at
       \/ /\ at[rel[t]] # t
          /\ Go(t, "readlink", "symlink")
          /\ at' = [at EXCEPT ![rel[t]] = None]
          /\ UNCHANGED <<todo, failed>>
    /\ UNCHANGED <<dirs, tmp, backup, rel, num, unlVars>>

ReadLink(t) ==
    /\ pc[t] = "readlink"
    /\ \/ at[rel[t]] = t /\ Linked(t, "readlink")
       \/ at[rel[t]] # t /\ Go(t, "readlink", "symlink-tmp") /\ UNCHANGED <<todo, failed>>
    /\ UNCHANGED <<treeVars, rel, num, unlVars>>

SymlinkTmp(t) ==
    LET r == rel[t]
    IN  /\ pc[t] = "symlink-tmp"
        /\ \/ /\ HasParent(r) /\ tmp[r] = None
              /\ Go(t, "symlink-tmp", "rename-tmp")
              /\ tmp' = [tmp EXCEPT ![r] = t]
              /\ UNCHANGED <<todo, failed>>
           \/ /\ ~(HasParent(r) /\ tmp[r] = None)
              /\ Fails(t, "symlink-tmp")
              /\ UNCHANGED tmp
        /\ UNCHANGED <<dirs, at, backup, rel, num, unlVars>>

\* Mutant of RenameTmp: the link is made a second time, by link(2).
LinkTmp(t) ==
    LET r == rel[t]
    IN  /\ Linked(t, "rename-tmp")
        /\ at' = [at EXCEPT ![r] = tmp[r]]
        /\ UNCHANGED <<dirs, tmp, backup, rel, num, unlVars>>

\* The rename cannot fail: the temporary link keeps its directory.
RenameTmp(t) ==
    LET r == rel[t]
    IN  /\ Linked(t, "rename-tmp")
        /\ at' = [at EXCEPT ![r] = tmp[r]]
        /\ tmp' = [tmp EXCEPT ![r] = None]
        /\ UNCHANGED <<dirs, backup, rel, num, unlVars>>

\* build_unique_backup_path: the first counter whose path is free.
Probe(t) ==
    /\ Go(t, "probe", "rename")
    /\ \E k \in Counters :
          /\ backup[rel[t]][k] = None
          /\ \A j \in 0..k-1 : backup[rel[t]][j] # None
          /\ num' = [num EXCEPT ![t] = k]
    /\ UNCHANGED <<treeVars, todo, rel, unlVars, failed>>

\* Mutant of BackUp: the backup is taken for the end of it.
BackUpOnly(t) ==
    LET r == rel[t]
    IN  /\ Linked(t, "rename")
        /\ backup' = [backup EXCEPT ![r][num[t]] = at[r]]
        /\ at' = [at EXCEPT ![r] = None]
        /\ UNCHANGED <<dirs, tmp, rel, num, unlVars>>

\* FS_RENAME(target_path, backup_path)
BackUp(t) ==
    LET r == rel[t]
    IN  /\ pc[t] = "rename"
        /\ \/ /\ at[r] # None
              /\ Go(t, "rename", "symlink")
              /\ backup' = [backup EXCEPT ![r][num[t]] = at[r]]
              /\ at' = [at EXCEPT ![r] = None]
              /\ UNCHANGED <<todo, failed>>
           \/ /\ at[r] = None
              /\ Fails(t, "rename")
              /\ UNCHANGED <<at, backup>>
        /\ UNCHANGED <<dirs, tmp, rel, num, unlVars>>

MakeLink(t) ==
    LET r == rel[t]
    IN  /\ pc[t] = "symlink"
        /\ \/ /\ HasParent(r) /\ at[r] = None
              /\ Linked(t, "symlink")
              /\ at' = [at EXCEPT ![r] = t]
           \/ /\ ~(HasParent(r) /\ at[r] = None)
              /\ Fails(t, "symlink")
              /\ UNCHANGED at
        /\ UNCHANGED <<dirs, tmp, backup, rel, num, unlVars>>

LinkReturns(t) ==
    /\ todo[t] = {}
    /\ Go(t, "lstat", "done")
    /\ UNCHANGED <<treeVars, todo, rel, num, unlVars, failed>>

-----------------------------------------------------------------------------

Step(t) ==
    \/ Exclude(t) \/ BeginDetect(t) \/ Detect(t) \/ Evict(t) \/ BeginMkdir(t)
    \/ CheckLink(t) \/ UnlinkLink(t) \/ RemoveParent(t) \/ UnlinkReturns(t)
    \/ NextDir(t) \/ Mkdir(t) \/ StatDir(t) \/ DirsMade(t)
    \/ LStat(t) \/ ReadLink(t) \/ SymlinkTmp(t) \/ RenameTmp(t)
    \/ Probe(t) \/ BackUp(t) \/ MakeLink(t) \/ LinkReturns(t)

AllDone == \A t \in Pkgs : pc[t] = "done"

Next == (\E t \in Pkgs : Step(t)) \/ (AllDone /\ UNCHANGED vars)

Spec == Init /\ [][Next]_vars

-----------------------------------------------------------------------------
(* Properties *)

\* The packages share no file.
Disjoint == \A p, q \in Pkgs : p # q => job.files[p] \intersect job.files[q] = {}

\* The user's files are where they were, or in a backup (ADR-009: "Existing
\* user configuration files must never be clobbered or permanently deleted").
UserFilesSafe ==
    \A r \in Rels : job.start[r] = User =>
        at[r] = User \/ \E k \in Counters : backup[r][k] = User

\* That holds as long as no two packages of the command have the same file.
UserFilesKept == Disjoint => UserFilesSafe

\* Packages that share directories but no file do not get in each other's way:
\* each thread reports success, and its links are there when the command ends
\* (ADR-008: "Completely eliminates directory creation race conditions in
\* parallel threadpool workers").  Relink is excepted: its rmdir of emptied
\* parents competes with the mkdir_p of the others.
DisjointSucceed ==
    Disjoint /\ job.command # "relink" =>
        \A t \in Pkgs :
            /\ ~failed[t]
            /\ pc[t] = "done" /\ job.command = "link" =>
                  \A r \in job.files[t] : at[r] = t

\* A link that is replaced is never missing and never half made (ADR-007: "to
\* eliminate race conditions and broken intermediate states").
ReplacedInPlace ==
    [][\A r \in Rels : at[r] = Stale => at'[r] # None]_vars

\* Nothing of the command's own is left in the user's directories: no temporary
\* link and, after unlink, neither a link nor an empty directory.
NothingLeftBehind ==
    AllDone =>
        /\ \A r \in Rels : tmp[r] = None
        /\ job.command = "unlink" =>
              /\ \A r \in Rels : at[r] \notin Pkgs
              /\ \A d \in dirs : ~Empty(d)

\* A target path that all the packages have is linked to one of them when the
\* command ends: the threads that evict each other and back up what is in the
\* way do not leave it empty between them.
SharedPathLinked ==
    AllDone /\ job.command # "unlink" =>
        \A r \in {s \in Rels : \A p \in Pkgs : s \in job.files[p]} : at[r] \in Pkgs

=============================================================================
