# Verification of symdep

TLA+ models of symdep, the symlink and dependency manager in this repository,
with the TLC configurations that check them and TLAPS proofs about the worker
pool, the parallel linking of files and of packages it serves, the linker and
its unfolding of directories, the installation of dependencies and the files of
settings that the commands edit.
Source paths below are relative to the repository; `linker_ops.c` and the like
are under `src/core/linker/`, the others named without a path under `src/core/`
or `src/utils/`.

    tlc -config ThreadPool.cfg ThreadPool       (one line per run below)
    tlapm ThreadPoolProofs.tla                  (and LinkBatchProofs, UnfoldProofs, LinkerProofs,
                                                 LinkerOutcomeProofs, LinkRaceProofs, DepsProofs,
                                                 StoresProofs)

## 1. The system

symdep keeps configuration files in *packages*, directories of a source
directory, and makes them appear in a target directory (the home directory) as
symbolic links. It is one process per command; a command on several packages,
and the linking of one package, use worker threads. Nothing runs between two
commands: the only state that lasts is in the file system.

| Component | State | Operations | Talks to |
|---|---|---|---|
| Worker pool (`utils/thread_pool.c`) | FIFO task list, two counters, stop flag, two condition variables | create, add_task, wait, destroy | link drivers, dispatch |
| Link drivers (`linker_ops.c`, `io_uring_backend.c`) | batch index, error counters, a ring per thread | io_uring batch, pool tasks, serial loop | pool, conflict resolution |
| Linker (`linker_*.c`) | the target tree; per call: file list, conflicts | link, unlink, relink, link all, fix-conflicts, status | file system, manifests, ignore rules, drivers |
| Unfolding (`linker_walk.c`, `fs_symlink.c`) | staging directory beside the link | unfold, swap, clean up | signal clean-up |
| Signal clean-up (`utils/signal.c`) | table of 64 paths | register, unregister, handler | unfolding |
| Dispatch (`cli/dispatch`) | batch of packages | foreach_package and the commands | linker, pool, config, manifests |
| Collector and ignore rules (`file_collector.c`, `core/ignore`) | ignore files | collect, match, edit | linker |
| Manifests (`manifest.c`) | `.symdeps` of each package | load, edit, save, remove package | linker, checker |
| Configuration (`core/config`) | config file | load, set, save, choose directories | dispatch |
| Registry (`registry.c`) | registry files, a global cache | load, look up, add, remove | checker |
| Checker (`checker.c`), package managers (`pkg_manager.c`) | cached manager | audit, install, recover and retry | registry, manifests, external commands |
| Scanner (`scanner.c`) | none | find the tools that scripts call | collector, registry, manifests |
| Command line, help, strings, paths, environment, logging, timing | flags | parse, print | all |

What makes it hard:

* *Threads*. Pool workers share condition variables, an index and counters;
  packages of one command share the target tree, file names that contain only
  the process id, and unsynchronised caches.
* *Other people's data*. The target tree holds the user's files, links made by
  him and by GNU Stow (a whole directory *folded* into one link), and links of
  other packages. Nothing of it may be lost, and the source repository must not
  be written to through a link.
* *Failure*. Every call may fail after others have succeeded, a signal may come
  between any two, and the process may be killed and started again.

What makes each component correct: no task lost, none run twice, wait as a
barrier, no lost wake-up (pool); every file processed once and a truthful
result (drivers); user data and sources intact, links complete after a link
and gone after an unlink, other packages untouched (linker); always a complete
view, nothing left behind (unfolding); no staging path forgotten (signals); a
stored list is the old or the new one (manifests, configuration, registry); the
first matching rule decides (ignore); what is reported missing is what is
missing, one retry, an honest result (checker).

## 2. The modules

| Module | Models | In terms of |
|---|---|---|
| `ThreadPool` | `thread_pool.c`, whole | one action per critical section |
| `TaskGroup` | what the pool promises | abstract specification of `ThreadPool` |
| `ThreadPoolProofs` | | proofs about `ThreadPool` |
| `LinkBatch` | pass 2 of `link_package` | uses `TaskGroup` for the pool |
| `LinkBatchProofs` | | proofs about `LinkBatch` |
| `Unfold` | `unfold_symlink_cb`, its helpers, the signal handler | one action per system call |
| `UnfoldProofs` | | proofs about `Unfold` |
| `FileTree` | both trees as `lstat`, `realpath`, `mkdir` see them | operators |
| `Linker` | link, unlink, relink, remove, fix-conflicts | `FileTree`; one action per file or directory |
| `LinkerProofs` | | proofs about `FileTree` and `Linker`: trees, types, files of the user |
| `LinkerOutcomeProofs` | | proofs about `Linker`: what a command comes to |
| `LinkRace` | link, unlink, relink of several packages at once | one action per system call |
| `LinkRaceProofs` | | proofs about `LinkRace` |
| `Registry` | `registry.c`: lookup of names, aliases, corrections, the cache | operators, and the action that appends |
| `Deps` | `checker.c` and the choice of a manager in `pkg_manager.c` | `Registry`; one action per list, command, prompt |
| `DepsProofs` | | proofs about `Deps` and `Registry` |
| `Config` | `core/config`, the path helpers it uses: files, edits, choice of directories | operators |
| `Manifest` | `manifest.c`, `scanner.c` and its parser | operators; `Config` |
| `Ignore` | `file_collector.c`, `core/ignore` | operators; `Config` |
| `Stores` | the commands that edit, and the links that depend on the edits | `Manifest`, `Ignore`; one action per read, truncation, write |
| `Settings` | what those commands promise | abstract specification of `Stores` |
| `StoresProofs` | | proofs about `Config`, `Manifest`, `Ignore`, `Stores` and that it implements `Settings` |
| `MCUnfold`, `MCLinker`, `MCLinkRace`, `MCDeps`, `MCStores` | | instances for TLC |

They meet at these seams. `ThreadPool` implements `TaskGroup`
(`ImplementsTaskGroup`), and `LinkBatch` is written with the actions of
`TaskGroup`, so the pool under the batch need not be modelled again. `LinkBatch` knows of a file only whether it is linked; what
linking does is `native_link_cb`, in `Linker` on whole trees and in `LinkRace`
call by call. `Linker` unfolds a directory in one step, `Unfold` in ten.
`Stores` implements `Settings` (`ImplementsSettings`); in it linking a package is
one step, since only which links it makes, from where and to where, depends on
the stores. `Deps` has the corrections the registry gets from the checker,
`Stores` the tools it gets from the scanner.

### ThreadPool

`queue`, `queue_size`, `active_tasks`, `stop` are the fields of `ThreadPool` in
`thread_pool.h`. Everything between lock and unlock is one action; a
`pthread_cond_wait` ends an action, and the thread is in state `notify` (worker)
or `idle` (client) until a signal, a broadcast or `SpuriousWake` moves it.
`CreateFails` is a `pthread_create` that fails: the code then joins threads
that never were, which POSIX leaves undefined, so `JoinUnborn` returns or
crashes.

### LinkBatch

`phase` is the place in `link_package`; `next` is `batch.current_index`.
`UringBatch` is a whole call of `io_uring_link_batch`: any part of the files
gets its link, any other part is counted as an error, and the rest, after a
short `io_uring_enter`, is neither. `SubmitTask`, `WaitReturns`, `ReleasePool`
and `StartTask` are the steps of `TaskGroup` at those places.

### Unfold

Each folded link `l` has the path `at[l]` and the staging path `tmp[l]`; each is
nothing, a link to the source directory, or the directory a thread has made,
whose links are `dir[t]`. `Interrupt` starts the handler in one thread;
`CleanSlot` is one turn of its loop, and the other threads go on in between.
Subdirectories count as children that `unlinkat` cannot remove.

### FileTree and Linker

A path is its root (the target directory or a package) followed by names; `fs`
maps it to nothing, a directory, a file with its content, or a link. `Real` and
`Phys` resolve a path with and without its last link, following up to `Hops`
links; both rest on the recursive function `RealPath` of the links that may
still be followed and the path. Backups have no paths: `saved[d]` is the set of what the backups in
directory `d` hold. `stage` is the function of the linker that runs, `resume`
where its caller goes on. Files, and the paths of the walk, are taken in any
order: directory listings and hash sets promise none. Between commands the user
writes files (`UserWrite`) and makes links (`UserLink`); `Crash` kills the
command between two steps. The deletion of a package by `remove` is one step per
entry (`DeleteEntry`), files before the directory they are in, as
`cleanup_temp_dir_contents` makes it; an entry that cannot be deleted is passed
over (`DeleteFails`), and only the last `rmdir` decides what is reported.

### LinkRace

One thread per package; `at[r]` is nothing, the user's file, a stale link or a
package's link. File names made by the code, the temporary link and the
numbered backups, are variables of their own, as it is their sharing that
matters. The driver is the serial loop a worker uses without io_uring.

### Registry and Deps

`files` holds the four registry files `open_registry_file` looks for in the
source directory, `Bundled` the one that comes with symdep; `cache` is
`g_registry_cache`, `None` when it has been freed, and `Reg` is what the next
lookup sees. `Deps` follows a command (`how`: install, check, or link -y, with
its flags and whether it has a terminal) through its turns, one call of
`install_package_dependencies` or `check_package_dependencies` each, and each
turn through the two lists of missing tools. `ChooseBatch` is the answer to the
question, `RunFails` the first run of the manager's command with any part of the
names installed, `Prompt` one answer of the recovery, `Retry` the second build. `unmet` is not in the code: it collects what
was declined, skipped or requested in vain. Each name has a set of executables
it `Provides` and a set of names that occur `Within` it, which is all that
`strcasestr` can tell of it. `output` is the set of names that occur in what is kept
of the command's output: of all that it prints `run_system_cmd_with_capture` keeps
8191 bytes, so any part of the names may be missing, and the last one be kept in
part. Without a manager the code runs the sentence
"Manual compilation/installation required for: ..." as a command, which fails.

### Config, Manifest, Ignore, Stores and Settings

`Config` says what `config_load` makes of the lines of a file and `config_save`
writes back, how a path argument becomes a directory (`Prepare`: tilde, current
directory, `.`, `..` and empty names), and in which order source and target
directory are looked for. `Manifest` and `Ignore` do the same for manifests and
ignore files; `Collect` is
`collect_package_files_recursive`, `Matches` is one pattern of
`is_path_ignored`. A pattern is its names between slashes; which names a
wildcard stands for (`Fits`), and which longer paths (`Spans`), is a parameter,
as is what the text of a pattern is before a `#` (`Cut`).

In `Stores` `disk` is the text of every file and `up` the directories that are
there. A command (`cmd`) is asked for, reads what it needs (`Load`), and has a
list of writes to do (`todo`), from what it has read (`base`). `Truncate` is
`fopen(path, "w")`, `Flush` the write that `fclose` makes: over what is in the
file by then, or into a file that has been deleted. `AppendStep` is `fopen(path,
"a")` with one line, `Delete` is `unlink`. `Register` is `registry_add_tool`: it
looks a tool up in the registry the command has read (`known`), and reads the file
again after each tool that it has added; from the first one on the file hides the
installed registry. `OpenFails`, `FlushFails`, `AppendFails` and `Kill` are the
faults. On a full file system nothing of the text or the line is written, and
success is reported, since nobody looks at the result of `fclose`; that part of it
is written is not modelled, and `broken` says `full` in either case. `Premature`
lists the commands that report success before they open the file, or whether it can
be opened or not. `Mount` takes a disk away or brings it back. `LinkStep` is a
whole `link`, `unlink` or `all`, whose links are in `placed`. Three variables are
not in the code: `kept` is `disk` with, for a file that is open for writing, the
text before; `broken` collects the ways in which the promise has been broken;
`moved` the packages whose links an edit has put out of reach on purpose.

`Settings` knows one configuration, one manifest per package and one set of
rules per package and for the repository, and of a request only its effect. The
refinement reads them from `kept`, as if every listed directory were there: a
directory on an absent disk is part of the configuration. `sound` is
`broken = {}`; when it ends is what `Stores` says and `Settings` leaves open.

## 3. The runs

| Run | Instance | States | Shows |
|---|---|---|---|
| `ThreadPool` | 2 workers, 3 tasks | 529 | each task runs exactly once; wait and destroy are barriers and return; no lost wake-up; refines `TaskGroup` |
| `LinkBatch` | 3 files, 2 tasks | 6 293 | each file is processed once whatever the driver; the barrier covers the batch; 0 means linked, unless the ring returned early |
| `Unfold` | 2 threads, 2 links, 3 children, 1 slot; failing mkdir, opendir, symlink; signals | 103 304 | every child is visible at every moment save in the documented two-call window; nothing left behind after an end or a signal |
| `Linker` | 2 packages, 7 relative paths, 5 scenarios | 691 862 | see below |
| `LinkRace` | 2 packages, 4 paths two levels deep, 5 jobs | 11 536 | disjoint packages never disturb each other; user files survive; links are replaced in place |
| `Deps` | 2 packages, 2 tools, 2 commands | 1 174 416 | a correction is what the retry asks for; no tool is forgotten; whoever failed, as far as the kept output tells, is prompted for; unattended commands ask nothing and write no registry |
| `Stores` | 6 scenarios; two commands at a time, or one; 2 to 4 commands and mounts | 114 470 | edits do exactly what they promise, until one of thirteen named things happens; `unlink` finds the links that are there; files are ignored as documented |
| `LinkBatchFallback` | 2 files, 2 tasks | violation | finding 1 |
| `UnfoldSameLink` | 2 threads, 1 link, no signals, no failing calls | violation | finding 2 |
| `LinkerNested` | 2 packages sharing `d/e`, `d` folded | violation | finding 3 |
| `LinkRaceBackup` | 2 packages with the same file | violation | finding 4 |
| `DepsDefaults` | no registry file in the source directory | violation | finding 5 |

The properties of `Linker`: what the user has written is there or in a backup
(`NoUserDataLost`); no step writes into a package, and its entries go only one by
one in a remove of that package (`SourceIntact`); after a link that returns 0 its files are reachable
(`LinkedAfterLink`) and no link of a conflicting package is left
(`ExclusiveAfterLink`); after an unlink no link and no emptied directory is left
(`UnlinkedAfterUnlink`); after a remove no link to what was in the package is left,
whether or not all of it could be deleted, and also if an earlier remove was killed
halfway (`RemoveLeavesNoLink`); packages that share directories but no file keep
their links (`OthersKept`); relink gives back what was there and makes no backup
(`RelinkIdempotent`).

Exceptions the properties state, because the code is like that:

* `ExclusiveAfterLink` excepts a conflicting package that was folded when the
  command began (`handle_mutual_exclusions` comes before the unfolding),
  unlinks that fail (their results are ignored), and a manifest that lists the
  package itself, which is unlinked and then linked.
* `RemoveLeavesNoLink` excepts unlinks that fail, a directory that was folded (its
  package counts as unlinked, `manifest.c:365`, and the link dangles afterwards),
  ignored files, and a link that led nowhere before, as a killed remove may leave it:
  `unlink_package` goes through the files the package still has.
* `SuccessMeansLinked` excepts a ring that returned early.
* `ViewShrinksOnlyInFallback` and `LossOnlyInWindow` except the windows of
  `fs_atomic_swap_or_replace`: between unlink and rename in the fallback, and,
  for a signal, between the exchange and the unlink of the old link, when the
  handler empties the *source* directory through it.
* `InterruptCleansUp` speaks of a process with one thread that unfolds. With two
  the slot table is filled without a lock, and a path may be lost to it.
* `DisjointSucceed` excepts relink: its rmdir of emptied parents competes with
  the mkdir of the other packages, and a link may fail.
* `CorrectionTakesEffect` holds if the file that is appended to is the one that
  is read; with a read-only `symdep.registry` the correction goes to
  `.symdepregistry` and is not seen.
* `FailedArePrompted` excepts tools for which the registry has one name for the
  manager and another for the distribution: the command uses the first, the
  search in its output the second. It also excepts a name that lies beyond the 8191
  bytes that are kept of the output (`env.c:567`) while another lies within them: the
  user is asked about that one only.
* `CompleteAfterInstall` counts a tool as present if it is so under the aliases
  of any registry: after finding 5 the one in force may know fewer.

* `ImplementsSettings` excepts what `broken` names: two commands on one file
  (`overlap`), a kill (`crash`) between truncation and write, a `full` disk when a
  file is closed, an edit of the configuration while a listed directory is `absent`, a
  directory with a `colon`, `pkg create` on a package with a manifest
  (`created`), a pattern with a `hash`, a pattern added to a last line without
  newline (`glued`), one removed that a commented line has too (`note`), an
  ignore file cleared beside a `legacy` one, a file that cannot be opened although
  the edit has been reported or is reported all the same (`unreported`), a registry
  that hides installed tools from a scan (`hidden`, finding 5), and a rule of the
  repository that goes after `ignore add` has found it there and left it out of the
  package (`undercut`). In the model nothing else breaks it, which is also proved
  (section 4).
* `LinksStayReachable` excepts packages whose source, target or rules somebody
  changed by an edit that is meant to, and those whose links `all` or an absent
  disk have put elsewhere (`moved`). The removal of a rule is no exception.
* `IgnoredAsDocumented` excepts the patterns that finding 9 and 10 are about
  (`Peculiar`), on the paths where they matter. A pattern that begins with `!`, which
  in git brings files back, is none for it: negation is not supported (ADR-006:23).
  A pattern with a `#` further on counts there by what is left before the `#`, which
  is what is read.

### Findings

1. *Fallback after a failed io_uring batch*: the errors of the batch stay in
   the counter, so `link_package` returns -1 although the fallback has linked
   every file (ADR-007:31 "falls back seamlessly").
2. *Two threads unfold the same link*: the staging name contains the process id
   only. The clean-up of the second thread goes through the link the first has
   swapped to that name and deletes files of the source repository (ADR-002:36
   "zero file loss").
3. *Nested folding*: the walk visits paths in hash order. If `d/e` comes before
   the folded `d`, `d/e` stays a link into the other package and the new links
   are made in its repository (ADR-002:13).
4. *Backup names*: two packages of one command with the same file choose the
   same free backup name, and the user's file is overwritten (ADR-009:18).
5. *Defaults shadowed*: one registry file is read, the first that exists, and
   the first correction creates `symdep.registry`. From then on the bundled
   names and aliases are out of force (ADR-003:40 "allows both defaults and
   custom overrides"), and an `fdfind` that is there is reported missing.

Seen in `Stores`, where an exception of a property states them:

6. *Absent disks*: `config_load` drops the source directories that are not there
   and the next `config` command writes the shortened list (`config_file.c:133`;
   "Manual edits to key-values are safe", line 174).
7. *`all` and TARGET*: `cmd_all` links every package to the global target
   (`cmd_stow_ops.c:137`; ADR-011:33), and `unlink` looks elsewhere.
8. *Federation*: only the first source directory is used (`config_active.c:168`;
   ADR-011:42 "search across federated repositories sequentially").
9. *Swap files*: the default pattern `#*#` is read as a comment
   (`file_collector.c:288`; ADR-006:17).
10. *Pattern syntax*: `x/` matches at the top of a package only, and files too;
    `/x` matches nothing; `*` spans slashes (`file_collector.c:370`; the template
    promises "standard glob/gitignore pattern rules").
11. *`pkg create`* empties the manifest of a package that has one
    (`cmd_pkg_ops.c:34`).
12. *Silent failures*: the result of `manifest_save` is dropped and success
    reported (`manifest.c:255`; `include/core/manifest.h:58`). `config remove`
    and `ignore remove` report success before they write, and `ignore add` does not look
    at the result of `fclose` (`ignore_patterns.c:96`).

Met on the way and not a run: `include/utils/signal.h:30` and ADR-001:43 promise
a handler for SIGHUP, `setup_signal_handlers` installs SIGINT and SIGTERM;
`include/core/linker.h:100` describes `is_package_linked` as full linkage, the
code returns true for any linked file; `include/core/checker.h:52` promises
non-zero when an installation fails, the result is dropped (`checker.c:596`);
ADR-014:48 puts the distribution's tag first, the code passes the manager's name
and so tries `fd@debian` before `fd@ubuntu` on Ubuntu (`registry.c:308`);
`include/core/config.h:76` puts the configured source directory before the
current one, which wins if it has a registry file (`config_active.c:48`).

### Bounds, and why they are enough

* `ThreadPool`: two workers are the first number with a sleeper beside a busy
  worker; three tasks let one wait while both are busy, and let the client add a
  task after a wait. The safety properties are proved for all numbers.
* `LinkBatch`: with two tasks and three files some task claims twice and both
  run past the end. `ignored` and `linked` start as any set of files.
* `Unfold`: two threads with links of their own, with one link between them, and
  one thread alone (`Walks`); one slot for two paths is the full table; three
  children, one a directory, leave a staging directory empty, half full and full.
* `Linker`: two packages, because every interaction in the code is between the
  package of the command and one other at a time; directories one level deep
  (two in `LinkerNested`), because a link names a directory or a file in it.
  Each content is written once, so the user writes at most one file per
  scenario; `Hops` = 2 is the longest chain the scenarios make (a link to a
  link). The five scenarios: colliding packages with a folded directory and a
  user file; a conflict of A with B; one of B with A, folded; foreign links and
  calls that fail; packages that share a directory, an ignored file, folded, with
  deletions that fail. In all of them a remove may be killed at any entry.
* `LinkRace`: `MaxBackups` = 2 leaves room for a backup by each thread. All
  backups fall into one second, the worst case for their names.

* `Deps`: two tools of which one, `pacman`, is a package manager itself, so that
  an installation may change which manager the next command picks; each tool is
  required by one package and optional in the other. Two commands, because what
  the first leaves in the registry files and on `$PATH` is all the second sees. What
  is kept of an output is any set of names, down to none.
  Registry files absent, empty, with a wrong name for the manager, with
  different names for the manager and the distribution; any, one or none of the
  two files writable; a configured manager that is not installed; no manager.

* `Stores`: what one command reads and writes is at most three files, so two
  commands make every overlap of two, and a third shows what they have left; of
  the mounts, one takes the disk away and one brings it back. No command starts
  after the promise is broken. In the registry scenario two scans that run at once, or one
  after the other, add tools of which some are in the installed registry and some in
  none. In the links scenario commands run one at a time:
  four steps are a link, two edits, and an unlink or a second link. Each scenario
  has every request of its store, arguments that are in the file and that are
  not, texts with a legacy file, a doubled directory, an open last line, a
  commented pattern. The terminals are interchangeable (`Twins`), and the run
  stops when the steps are used up (`CHECK_DEADLOCK FALSE`).

### Fairness

`ThreadPool`: weak fairness of each worker, and of the client inside wait and
destroy; the operating system schedules runnable threads. Nothing obliges the
client to call. `LinkBatch`: weak fairness of `link_package` and of each task,
the latter because `TasksRun` holds of the pool. The other modules check safety
only: their loops are over finite sets that shrink, and a user need not start a
command.

## 4. The proofs

`ThreadPoolProofs` proves, for every `NumThreads >= 1` and every `MaxTasks`
(`PoolAssumption`):

| Theorem | Says |
|---|---|
| `TypeCorrect` | `[]TypeOK` |
| `CountersCorrect` | the two counters `thread_pool_wait` reads are exact outside critical sections |
| `NoTaskRunsTwice` | `[]AtMostOnce` |
| `WaitIsABarrier` | `[]WaitMeansDone` |
| `DestroyDropsNothing` | destroying without waiting still executes every accepted task |
| `NoLostWakeUp` | `[]NoTaskWaitsBesideASleeper`, and a client asleep in wait has work whose end wakes it |
| `PoolImplementsTaskGroup` | every step of the pool is a step of `TaskGroup` or a stutter |

The inductive invariant `IInv` joins the types to: the queue is the interval of
task numbers from the first not yet taken to the last submitted, in order; each
task number at or below that point is either held by exactly one worker or has
been run; the counters are exact; a thread has exited only when stopped and
with the list empty; workers beyond `created` are unborn. None of the properties is inductive
by itself: that no task runs twice needs to know that no two workers hold the
same task, which needs that the queue has no task twice; the wake-up property
needs the exact count of woken workers. There is one lemma per action
(`TakeStep`, ...); `Invariance` joins them, and the theorems follow from it.

`LinkBatchProofs` proves, for every `NumFiles` and every `MaxTasks >= 1`
(`BatchAssumption`):

| Theorem | Says |
|---|---|
| `TypeCorrect` | `[]TypeOK`; the index passes `NumFiles` by at most one per task |
| `NoFileTwice` | `[]ProcessedOnce` |
| `BarrierHolds` | `[]BarrierCoversBatch` |
| `ResultIsTrue` | `[]SuccessMeansLinked` |

Here the invariant says: the files up to the shared index are the processed
ones, except those a task holds (`ProcessCount`); no two tasks hold the same
file and none holds one beyond the index (`ClaimShape`); the index exceeds
`NumFiles` as soon as one task has ended, and by no more than the number of
ended tasks (`IndexShape`); the driver goes on only when the group has executed
every task (`PhaseShape`); and with no error counted every processed file is
ignored or linked (`ErrorsTell`). `ProcessedOnce` alone is not inductive: that
the file a task holds has not been processed is in none of the properties. With
`PoolImplementsTaskGroup`, what is proved of the batch over `TaskGroup` holds
over the pool.

`UnfoldProofs` proves, for any threads, links, children, faults and at least one
slot in the handler's table (`UnfoldAssumption`):

| Theorem | Says | Assumes |
|---|---|---|
| `TypeCorrect` | `[]TypeOK` | |
| `HandlerCleansUp` | `[]InterruptCleansUp` | |
| `StagingGoes` | `[]NothingLeftBehind` | `"rename" \notin Faults` |
| `ViewShrinksInWindow` | `[]ViewShrinksOnlyInFallback` | the same |
| `LossInWindow` | `[]LossOnlyInWindow` | the same |

The last rename of the fallback must not fail: if it does, `linker_walk.c:235`
leaves the staging directory and, the link being gone, nothing in its place. The
run does not inject that fault either, nor failing `unlink` and `rmdir` calls, after
which staging entries may stay; `mkdir`, `symlink`, `opendir` and the exchange may
fail.

Two threads that meet the same link share its staging path and destroy each
other's (finding 2), so the invariant has two parts. `Undisturbed` speaks of
threads with links of their own, before any signal: what is at a thread's link and
staging path is a function of the place it is at. `Recorded` and `Survives` speak
of a single thread and the handler in it: whenever the staging path exists it is in
a slot the handler has not come to, as the first empty slot is found at the lowest
index, the table is empty until then, and there is one slot at least; and what the
handler finds at the link is the fold or the whole directory. Neither property says
where the path is recorded, so neither is inductive.

`LinkerProofs` proves, for any packages, relative paths, contents, length of
chains of links and scenarios (`TreeAssumption`: relative paths are sequences of
names, the parent of one is one, and a link may be followed; `LinkerAssumption`: a
package is a tree of directories, files and links; `source`, `data`, `links` and
`faults` are of their types; `NoPkgAssumption`: the value that stands for no package
is none):

| Theorem | Says |
|---|---|
| `WellTyped` | `[]TypeOK` |
| `NoDataLost` | `[]NoUserDataLost` |
| `TreesStayTrees` | what exists lies in a directory, and so does every backup |
| `RealPathResolves` | the recursive `RealPath` satisfies its equation, and what it gives is a path that exists in the model, or none |
| `Recursion` | a definition by well-founded recursion has a solution, in a first-order form |

Everything the linker removes, creates or moves it names by a path that goes
through links: it may land in another directory, or in a package. What has been
written is safe only if that place is what the code takes it for, so each lemma
begins with what resolution returns. `RealPath` is recursive in two arguments; TLA+
defines it by a `CHOOSE` that must be shown to choose something. The theorem of the
library that does so takes an operator as a parameter, which the provers cannot
instantiate; `Recursion` states it with a function of functions instead and proves
it, and `BeforeWellFounded` gives the order: fewer links left, or as many and a
shorter path.

The invariant joins `NoUserDataLost` to `TreeInv`, without which an emptied parent
that `unlink` removes might have had something, or a backup, under it that the
model does not see (`Rooted`, `SavedInDirs`), and a link might lead out of the
paths (`LinksTyped`); and to `JobInv`: the linker's lists hold relative paths and
the target directory itself is never in the walk. There is a lemma for each action
that changes the trees (`UnlinkSafe`, `UnfoldSafe`, `BackUpSafe`, ...), over three
for the ways in which it does: a link is put (`LinkPut`), entries are removed
(`Removed`), directories are made (`DirsMade`). A link made by unfolding may name a
path that no package has, so the types say of links, and of the lists of the walk,
that they are sequences of names.

`LinkerOutcomeProofs` proves, under the same assumptions, what whole commands come
to in the scenarios in which the links are those of symdep and of GNU Stow
(`Stowed`): any number of packages with any files and conflicts, any ignore rules,
any files of the user's in the way, any calls that fail but that of the unfolding,
commands killed at any step.

| Theorem | Says, if `Stowed(sc)` |
|---|---|
| `PackagesStayIntact` | `SourceIntact` |
| `LinkMakesLinks` | `[]LinkedAfterLink` |
| `LinkExcludes` | `[]ExclusiveAfterLink` |
| `UnlinkUnlinks` | `[]UnlinkedAfterUnlink` |
| `OthersStayLinked` | `[]OthersKept` |
| `RelinkChangesNothing` | `[]RelinkIdempotent` |
| `RemoveLeavesNothing` | `[]RemoveLeavesNoLink` |

`Stowed` says: no package holds a link; what is linked at the start is an entry of a
package, at its own place, and no directory with a directory in it; the call that
unfolds does not fail. Four of the five scenarios of the run are stowed, which
`MCLinker` makes TLC verify. Outside it the theorems would be false or say less.
With a directory in a folded directory the walk may come to the inner one first and
links then go into the package (finding 3): `SourceIntact` is false. The same
happens when unfolding fails, which `unfold_directory_symlinks` does not tell its
caller. A link of the user's to a link to a file counts as linked for the status,
which passes the file to `is_symlink_pointing_to`, and not for `unlink`, which passes
the directory of the package: `UnlinkedAfterUnlink` is false. What remains with TLC only is the fourth scenario,
a link of the user's own in the place of a file and links that fail.

None of the seven is inductive, and `SourceIntact` not even of one step: it depends on
the order in which whole stages come. The argument has three layers. *The trees*
(`World`): every link is in the target directory and names the entry of a package
at its own place, so a path resolves in one of three ways (`Lookup`): there is no
link on the way, or one, to a directory, and then nothing of the package's is
written at the place; and `PointsTo`, `HasStatus` and `Linked`, which
follow links, become plain comparisons (`PointsToIs`, `StatusIs`, `LinkedIs`).
*The job* (`JobKind`, `WalkInv`): which package and which files each stage works on,
and that in the walk each directory on the way of a file is either yet to be visited
or not folded, since unfolding makes links to files only. When the walk is over no
path to a file of the package goes through a link: that is what keeps `mkdir_p` and
`symlink` out of the packages (`MkdirIs`, `LinkFileIs`, `WorldStep`). *The progress*
(`Progress`): what the loops have done so far. Files that have had their turn are
linked and stay so while the others are linked and backed up (`LinkedSoFar`), or
unlinked (`UnlinkedSoFar`, `NoneEmptied`); no directory is folded that was not
(`NothingFolded`); each file of a package in conflict is unlinked or still on one of
two nested lists (`ExcludedSoFar`); a package that shares no file with the one at
hand is never taken for its owner or its victim (`VictimsRelated`), and a file of
it stays linked, itself or by a directory above it that unfolding replaces
by links to what is in it (`OthersLinked`); in a relink nothing but the package's own
links comes where its links were (`Relinking`); and of a package that is removed each
link to a file of it is gone, or its file has gone before, or it is still on the list
of `unlink_package` (`RemovedSoFar`). The end of an operation, where the properties
speak, is then a matter of empty lists. Since `remove` may be killed or fail halfway,
a package is at any time what is left of what it came with (`Remains`), and its files
are those still there (`Wanted`); only `DeleteEntry` makes them fewer (`WantedStays`,
`Deletes`), and only it touches a package (`IntactStep`). That a package may be in
conflict with itself, which `ExclusiveAfterLink` excepts, came up in the proof.

`LinkRaceProofs` proves, for any number of packages, files at any depth, jobs and
`MaxBackups` (`RaceAssumption`: a relative path is a sequence of one name or
more, a job names files of packages, and a package is not called "user"):

| Theorem | Says |
|---|---|
| `TypeCorrect` | `[]TypeOK` |
| `LinksAreReplacedInPlace` | `ReplacedInPlace` |
| `DisjointPackagesLoseNothing` | `[]UserFilesKept` |
| `TemporaryLinksGo` | no temporary link is left, the first part of `NothingLeftBehind` |

A thread acts on what it has seen of a target path some steps ago. The invariant
says what is still true of it (`Stands`): no step of any thread puts a file of
the user's or a stale link where there was none (`NothingForged`), so that the
unlink removes a package's link, the rename of a temporary link replaces a link
or nothing, and what is backed up is no stale link. That nothing is at the backup
path any more would be false in general (finding 4) and is claimed for packages
that share no file. A temporary link belongs to the one thread that is between
its symlink and its rename (`Owned`), as the symlink fails where one exists: this
is what makes the rename put a link in place, and leaves none at the end.
`OthersKeep` shows once, for every action, that the other threads' part of the
invariant survives; the lemma of each action is about its own thread.

It also proves, under the same assumption, which says besides that
there is a package (with none `foreach_package` returns, `cmd_stow_ops.c:58`) and
that no relative path is a file in one package and a directory in another: a
target path of `LinkRace` is one or the other; what is done with a directory where
a link should go is in `Linker` (`BackUp`):

| Theorem | Says |
|---|---|
| `UnlinkLeavesNothing` | `NothingLeftBehind`, if links to a package are links to files it has (`LinksBelong`) |
| `UnlinksSucceed` | no thread of an unlink command reports an error, whatever they share |
| `DisjointPackagesSucceed` | `DisjointSucceed`, if the packages do not exclude each other and `LinksBelong` (`Peaceful`) |
| `SharedPathIsLinked` | `SharedPathLinked` |

The hypotheses are the code's: `unlink_package` goes through the files the package
has now, so a link to a file that was deleted since stays, and with it its
directory; and a package that excludes another one unlinks it, which is no
success of the other. Both hold in the jobs of the run where the properties say
anything of them.

*unlink*: a directory that is empty is about to be removed by some thread
(`EmptyGoes`). When two threads have taken the last two links of a directory, the rmdir of
either may be the one that removes it, and that of the other finds nothing; a
directory above it becomes empty by that rmdir, and it is that thread's turn to go
on to it. The invariant names a thread for each empty directory, and at the end no
thread is left. *link*: a thread counts on the directories it has made or seen, and nobody
removes one (`Links`); that the mkdir of two threads may cross is the case
of `EEXIST`. *A shared path*: at each moment a package's link is at it, or some
thread is still *charged* with it: it has not come to the path, or is about to
place its link there with the backup or the removal behind it. A thread that evicts
another's link is charged itself, so the charge never gets lost, which no
property about a single thread says.

`DepsProofs` proves, for all packages, registries, managers, distributions and
answers (`RegistryAssumption`, `DepsAssumption`: the manifests list tools, the
tags of a family are tags, every name occurs in itself, what is in a registry is
a name; a manager is not called "unknown"):

| Theorem | Says |
|---|---|
| `TypeCorrect` | `[]TypeOK`, which no run repeats |
| `CorrectionsReachTheRetry` | `[]CorrectionTakesEffect` |
| `UnattendedQuiet` | `UnattendedIsQuiet` |
| `EveryFailureIsPrompted` | `FailedArePrompted` |
| `NoToolForgotten` | `[]CompleteAfterInstall`, if packages are honest (`HonestPackages`) |

`CorrectionTakesEffect` speaks of the moment of the retry only. Its strengthening
says, all through a recovery, that what the user has said is in the file that is
appended to, under the manager of the failed command (`Registered`), and that
this manager is the one the retry will find (`ManagerKept`): trivially if one is
cached, and if none was found, because without a manager nothing gets installed,
so none appears on `$PATH` either. That entries survive later answers is
`MappedStep`; that the entry for the manager's own tag precedes those of its
family and the distribution is `DistroPkgFirst`; that the cache agrees with the
file is in `WorldOK`, and needs `registry_add_distro_mapping` to free it. The
prover does not expand TLC's `@@`, so `Registry` says `After` instead.

`CompleteAfterInstall` needs a fact about the world: `checker.c:223` returns at once
when the command has succeeded and does not look whether the tool is there now.
`HonestPackages` says that whatever a manager can install under a name given for a
tool (its own, the user's, a registry's) brings an executable the tool is known by;
the instance of the run satisfies it. The invariant `Accounted` is the bookkeeping of
the loops: the packages of the turns behind are settled, those of the turn at hand
but for the lists still to come, the list at hand but for its batch, and the batch
from the first failure on. A tool that has been found stays so although the registry
files change under it, since registering a name keeps the aliases (`AliasesKept`).

`StoresProofs` proves, for all packages, files, patterns, requests, terminals and
steps:

| Theorem | Says |
|---|---|
| `StoresTyped` | `[]TextsOK`: every store file holds lines of its kind |
| `IgnoresAsGit` | `[]IgnoredAsDocumented` |
| `LinksStay` | `[]LinksStayReachable` |
| `RefinesSettings` | `Spec /\ []ScansFind => ImplementsSettings` |

The assumptions: what ":" cuts a directory into has no ":" left, and "no directory" is
none (`ConfigAssumption`); a pattern is not empty, since `ignore_file.c` passes over
empty lines, and what is left of one before a `#` is a pattern or nothing
(`IgnoreAssumption`); the tools on `$PATH` are names (`ManifestAssumption`);
packages are a finite set of names, the store files of a job hold lines of their
kind, and a request is well formed: the argument of an edit of directories is what
its path means (`StoresAssumption`, `RequestOK`).

`IgnoredAsDocumented` compares two readings of the text of three files, and the text
is what overlapping commands, kills and full disks have made of it. So the
invariant is about the writes to come: each that is on the list of a command
brings lines of the file's kind (`CommandsOK`), which `Load`
gives it and which every way of ending leaves it; then so is what a write puts over
the rest of another (`FlushTyped`) or adds to a line without newline
(`AppendLineType`). `RulesWritten` says which patterns are read of those that are
written, `ReadAsGit` that a pattern that is not peculiar matches what git makes of
it; `RulesReadAsGit` takes both up the directories above a file. `RemoveLines` flattens a
sequence of sequences, and the recursion of `FlattenSeq` is proved to give one over
the same lines by induction on a set (`Upwards`), as `RealPath` is.

`LinksStayReachable` relates links to texts that commands write long after they have
read them. Its strengthening `KeepInv` looks at the plans (`PlanKeeps`): each write to
come goes to the file that is read, and either concerns only packages that are in
`moved` already, or leaves source, target and rules of every package as they are, or
removes rules only. That a plan made from an old text is still
good when it is carried out needs that the text is the same: while a command has a
file open, its text before is in `kept` and is the one it has read (`OpenAs`), nobody
else has it open, and which of two names of a file is read does not change
(`Legacy`). `SaveKeepsDirs` says that a configuration read, edited and saved gives
the same first directory and target when read again, through the recursions of
`Select` and `FlattenSeq`; `MadeIsFound` that a link just made is one `unlink` looks
for, `WrittenFound` and `WriteEnds` that it stays so.

`RefinesSettings` is the refinement, for all packages, files, jobs, terminals and
commands under way at once: each step of `Stores` is one of `Settings` or a stutter.
Its hypothesis `ScansFind` ties down the constant `Uses` of `Settings`: a scan finds,
among the rules and the tools there are when it is made, the tools that `Uses` lists,
under a registry that hides none of the installed tools; under one that does the
promise is off (`hidden`). New rules that hide the files of a package from the scanner
make it false. In the run `Stores` it holds in every state: `ScansFind` can be added to
the invariants of `Stores.cfg`.

The argument has four parts. First the operators: an edit of what a file says is what
`Settings` asks for (`EditEffect`, `ScanFacts`, `RemovedRules`, `AddedRules`), and a
text that is saved is read again as what it was saved from (`ParseSaved`), through
`Select` and `FlattenSeq`. Then the plans: `Serves` says that the writes a command
has left do what its request promises, on the texts that it has read, and
`PlanServes` that every plan is such, or an answer that is true (`Done`). The plans of
a scan are taken from what is picked in it (`PlansPick`); its registrations, whether
they add a line or pass a tool over, leave what the manifest is to get as it is. Then the
writes: one that meets the text it was planned for (`Lands`) has the effect, or what is
left of the plan still serves (`Served`); it spares every other store
(`OthersSpared`), and the plans of the other commands stay good (`ServesStays`).
The last part is a lemma for each action: with `RefInv`, which adds to `KeepInv` that
every plan serves its request until the promise is broken, the last write of a plan is
`Serve`, the text of a new ignore file before the pattern `Fill`, an end without a
write `Refuse`, and everything else a stutter.

The proof found two ways to break the promise that no scenario has: a rule of the
repository that goes between the reading and the answer of `ignore add` for a package
(`undercut`), and `ignore remove` of a pattern with a `#`, which takes the whole line and
with it the rule that the reader makes of what is before the `#` (`hash`).

Liveness (`TasksRun`, `WaitReturns`, `DestroyReturns`, `LinkReturns`) depends on
fairness and is checked by TLC only.

## 5. Not modelled

* Dry runs, which change nothing, and the commands that only show: config show,
  ignore show, deps show, diff, status, help, completions.
* The queue indices of the rings and what is left in them after a failed
  `io_uring_enter`, the mmap layout, the SIGSYS probe: the batch is one step.
* Data races within a single memory access: the caches of
  `get_symlink_owner_package`, the registry and the package manager. C gives them
  no meaning. (The slots of `signal.c` are modelled: finding and filling one are
  two steps of `Unfold`.)
* Strings, memory, arrays and hash sets as such; buffers that overflow, file
  modes, time; logging, timing and the wording of messages.
* In `Stores`: repositories other than the one (federation is not implemented),
  `-d` and `-t` with `-s`, the aliases of keys, patterns with brackets or `**`,
  the second registry file, and the bytes of two writes that overlap within a
  line (a line is there or not). A word of a script is atomic: how quotes and
  operators cut a line is not modelled.
* The prefix that elevates the manager's command; the `plugin:` paths of
  aliases, which count as executables.
* In `Deps`, that the list of missing names is cut at 2048 bytes
  (`checker.c:67`), as every buffer but the one for the manager's output.
* The exit of a worker whose package has an unusable TARGET while others link:
  whatever it leaves is a state of `LinkRace`, but for the staging directories.
* Tests, benchmarks, build files.

## 6. Plan

Done, in this order: `ThreadPool` and its proofs, `LinkBatch`, `Unfold`,
`FileTree` and `Linker`, `LinkRace`, the proofs about `LinkBatch`, `Registry` and
`Deps`, `Config`, `Manifest`, `Ignore`, `Stores` and `Settings`, the proofs about
`Deps`, `LinkRace`, `Unfold`, `Linker` and `Stores`. Next:

1. The ring as a queue with indices, under `LinkBatch`.
2. The caches that worker threads share, and the exit of one of them.
