-------------------------------- MODULE Linker --------------------------------
(***************************************************************************)
(* The linker of src/src/core/linker: link, unlink, relink and remove a    *)
(* package, and fix-conflicts, as a run of symdep performs them on the     *)
(* trees of FileTree, one file or directory per step, in any order the     *)
(* directory listings and hash sets may give.  Between two runs the user   *)
(* writes files and makes links of his own; a run may be killed between    *)
(* any two steps.                                                          *)
(*                                                                         *)
(* Unfolding one directory is a single step here; its system calls are the *)
(* subject of the module Unfold.  The drivers that hand the files of a     *)
(* package to native_link_cb are the subject of LinkBatch.                 *)
(***************************************************************************)
EXTENDS FileTree

CONSTANTS
    Manifest,    \* the relative path of a package's manifest
    Scenarios    \* what the packages, the user and the machine may be like

\* A scenario: the entries of each package by relative path, the CONFLICTS line
\* of its manifest, the relative paths an ignore pattern of the repository
\* matches, what the user may write, the links he, or GNU Stow, may make
\* (<<path, target>>), and the system calls that may fail.
ASSUME LinkerAssumption ==
    /\ Manifest \in Rels
    /\ \A x \in Scenarios :
           /\ DOMAIN x.source = Pkgs
           /\ x.conflicts \in [Pkgs -> SUBSET Pkgs]
           /\ x.data \subseteq Data
           /\ \A p \in Pkgs :
                 /\ DOMAIN x.source[p] \subseteq Rels \ {<<>>}
                 /\ \A rel \in DOMAIN x.source[p] :
                       /\ x.source[p][rel] \in {Dir} \union {File(d) : d \in Data}
                                                 \union {Link(q) : q \in Paths}
                       /\ Front(rel) = <<>> \/ /\ Front(rel) \in DOMAIN x.source[p]
                                               /\ x.source[p][Front(rel)] = Dir
           /\ \A l \in x.links : l[1] \in Paths /\ l[2] \in Paths /\ l[1][1] = Home
           /\ x.faults \subseteq {"unfold", "link", "unlink", "delete"}

VARIABLES
    sc,        \* the scenario
    written,   \* what the user has written to files under Home
    stage,     \* the part of the linker that runs, or "idle"
    op,        \* the operation ...
    pkg,       \* ... and its package
    files,     \* pctx.pkg_files of link_package
    victims,   \* packages link_package has still to look at or to unlink
    victim,    \* the package unlink_package works on
    resume,    \* the stage its caller goes on with
    todo,      \* relative paths the current loop has still to go through
    pending,   \* links the walk has found and not yet tried to unfold
    visited,   \* links it has tried to unfold
    failed,    \* pctx.errors > 0
    done,      \* the operation that has just ended, and how
    before     \* the trees when it began

treeVars == <<fs, saved>>
inputs   == <<sc, written>>
walkVars == <<pending, visited>>
unlVars  == <<victims, victim, resume>>
jobVars  == <<op, pkg, files>>
endVars  == <<done, before>>
vars == <<treeVars, inputs, stage, jobVars, unlVars, todo, walkVars, failed,
          endVars>>

Ops    == {"link", "unlink", "relink", "remove", "fix"}
Stages == {"idle", "exclude", "collide", "unlink", "unfold", "mkdir", "link",
           "delete"}
NoPkg  == "no package"

ASSUME NoPkgAssumption == NoPkg \notin Pkgs

Ended(o, p, ok) == [op |-> o, pkg |-> p, ok |-> ok]
NotEnded == Ended("none", NoPkg, FALSE)

TypeOK ==
    /\ TreeOK
    /\ sc \in Scenarios
    /\ written \subseteq sc.data
    /\ stage \in Stages /\ resume \in Stages
    /\ op \in Ops
    /\ pkg \in Pkgs \union {NoPkg} /\ victim \in Pkgs \union {NoPkg}
    /\ files \subseteq Rels /\ todo \subseteq Rels
    /\ victims \subseteq Pkgs
    /\ pending \subseteq Seq(Parts) /\ visited \subseteq Seq(Parts)
    /\ failed \in BOOLEAN
    /\ done \in {Ended(o, p, ok) : o \in Ops \union {"none"},
                                   p \in Pkgs \union {NoPkg}, ok \in BOOLEAN}

SourceEntry(q) ==
    IF q[1] = Home THEN IF q = <<Home>> THEN Dir ELSE None
    ELSE IF q = <<q[1]>> THEN Dir
    ELSE IF Tail(q) \in DOMAIN sc.source[q[1]] THEN sc.source[q[1]][Tail(q)]
    ELSE None

Init ==
    /\ sc \in Scenarios
    /\ fs = [q \in Paths |-> SourceEntry(q)]
    /\ saved = [q \in Paths |-> {}]
    /\ written = {}
    /\ stage = "idle" /\ resume = "idle"
    /\ op = "fix" /\ pkg = NoPkg /\ files = {}
    /\ victims = {} /\ victim = NoPkg
    /\ todo = {} /\ pending = {} /\ visited = {}
    /\ failed = FALSE
    /\ done = NotEnded
    /\ before = treeVars

-----------------------------------------------------------------------------
(* Questions the linker asks of the trees *)

\* collect_package_files: a directory walk that follows no link and skips what
\* is ignored.
Collect(p) ==
    {rel \in Rels :
        /\ rel # <<>>
        /\ fs[Path(p, rel)] \notin {None, Dir}
        /\ \A i \in sc.ignored : ~IsPrefix(i, rel)}

\* Mutant of IsPackageLinked: what include/core/linker.h says it returns.
IsPackageFullyLinked(p) ==
    /\ IsDir(<<p>>)
    /\ \A rel \in Collect(p) : PointsTo(Path(Home, rel), Path(p, rel), NoPath)

\* is_package_linked
IsPackageLinked(p) ==
    /\ IsDir(<<p>>)
    /\ \E rel \in Collect(p) : PointsTo(Path(Home, rel), Path(p, rel), NoPath)

\* The packages the manifest names as CONFLICTS, if it is there.
Conflicts(p) ==
    IF fs[Path(p, Manifest)].kind = "file" THEN sc.conflicts[p] ELSE {}

\* Mutant of HasStatus: a package that is linked in part does not count.
HasFullStatus(p) ==
    /\ Collect(p) # {}
    /\ \A rel \in Collect(p) :
          PointsTo(Path(Home, rel), Path(p, rel), Path(p, rel))

\* get_package_link_status(...) # LINK_STATUS_UNLINKED
HasStatus(p) ==
    \E rel \in Collect(p) :
        PointsTo(Path(Home, rel), Path(p, rel), Path(p, rel))

\* The relative paths the walk visits: those of the package, or of all
\* packages if it has no files, and their parents.
WalkRels(rels) ==
    LET all == IF rels # {} THEN rels
               ELSE UNION {Collect(p) : p \in {q \in Pkgs : IsDir(<<q>>)}}
    IN  UNION {{SubSeq(rel, 1, k) : k \in 1..Len(rel)} : rel \in all}

\* Mutant of ParentRels: the target directory is not stripped off.
ParentPaths(rels) == {Front(Path(Home, rel)) : rel \in rels}

\* The parents pass 1 creates.
ParentRels(rels) == {Front(rel) : rel \in rels}

-----------------------------------------------------------------------------
(* The user *)

\* What happened before is of no interest any more.
Forget ==
    /\ done' = NotEnded
    /\ before' = <<fs', saved'>>

\* The user writes a new file where there is none.
UserWrite ==
    /\ stage = "idle"
    /\ \E x \in sc.data \ written, rel \in Rels \ {<<>>} :
          LET q == Path(Home, rel)
          IN  /\ fs[q] = None
              /\ \A k \in 1..Len(q)-1 : fs[SubSeq(q, 1, k)] \in {None, Dir}
              /\ fs' = [r \in Paths |-> IF r = q THEN File(x)
                                        ELSE IF IsPrefix(r, q) THEN Dir
                                        ELSE fs[r]]
              /\ written' = written \union {x}
    /\ UNCHANGED <<sc, saved, stage, jobVars, unlVars, todo, walkVars, failed>>
    /\ Forget

\* A link of the user's own, or a directory GNU Stow has folded.
UserLink ==
    /\ stage = "idle"
    /\ \E l \in sc.links :
          /\ fs[l[1]] = None
          /\ fs[Front(l[1])] = Dir
          /\ fs' = [fs EXCEPT ![l[1]] = Link(l[2])]
    /\ UNCHANGED <<saved, inputs, stage, jobVars, unlVars, todo, walkVars,
                   failed>>
    /\ Forget

-----------------------------------------------------------------------------
(* Beginning and ending an operation *)

\* Mutant of EnterLink: the files are those of the operation before.
EnterLinkStale(p) ==
    /\ stage' = "exclude"
    /\ victims' = Conflicts(p)
    /\ failed' = FALSE
    /\ UNCHANGED <<files, victim, resume, todo, walkVars>>

\* The first stage of link_package, after package_context_init.
EnterLink(p) ==
    /\ stage' = "exclude"
    /\ files' = Collect(p)
    /\ victims' = Conflicts(p)
    /\ failed' = FALSE
    /\ UNCHANGED <<victim, resume, todo, walkVars>>

\* unlink_package(p), after package_context_init; it returns to stage s.
EnterUnlink(p, s) ==
    /\ stage' = "unlink"
    /\ victim' = p
    /\ todo' = Collect(p)
    /\ resume' = s

\* The deletion of package p: all its entries, and the directory itself.
EnterDelete(p) ==
    /\ stage' = "delete"
    /\ todo' = {rel \in Rels : fs[Path(p, rel)] # None}
    /\ UNCHANGED <<victim, resume>>

Begin(o, p) ==
    /\ stage = "idle"
    /\ IsDir(<<p>>)
    /\ op' = o
    /\ pkg' = p
    /\ done' = NotEnded
    /\ before' = treeVars
    /\ UNCHANGED <<treeVars, inputs>>

BeginLink(p)   == Begin("link", p) /\ EnterLink(p)

BeginUnlink(p) ==
    /\ Begin("unlink", p)
    /\ EnterUnlink(p, "idle")
    /\ failed' = FALSE
    /\ UNCHANGED <<files, victims, walkVars>>

BeginRelink(p) ==
    /\ Begin("relink", p)
    /\ EnterUnlink(p, "link")
    /\ failed' = FALSE
    /\ UNCHANGED <<files, victims, walkVars>>

BeginRemove(p) ==
    /\ Begin("remove", p)
    /\ IF HasStatus(p)
       THEN EnterUnlink(p, "delete")
       ELSE EnterDelete(p)
    /\ failed' = FALSE
    /\ UNCHANGED <<files, victims, walkVars>>

\* cmd_fix_conflicts: walk_target_dir_symlinks_targeted without a file list,
\* which looks at the entries of the target directory first.
BeginFix ==
    /\ stage = "idle"
    /\ op' = "fix" /\ pkg' = NoPkg /\ files' = {}
    /\ stage' = "unfold"
    /\ todo' = WalkRels({})
    /\ pending' = {c \in Children(<<Home>>) : fs[c].kind = "link"}
    /\ visited' = {}
    /\ failed' = FALSE
    /\ done' = NotEnded
    /\ before' = treeVars
    /\ UNCHANGED <<treeVars, inputs, unlVars>>

\* The operation returns; its local state is gone.
End(ok) ==
    /\ stage' = "idle" /\ resume' = "idle"
    /\ victims' = {} /\ victim' = NoPkg
    /\ todo' = {} /\ pending' = {} /\ visited' = {}
    /\ failed' = FALSE
    /\ done' = Ended(op, pkg, ok)
    /\ UNCHANGED <<inputs, jobVars, before>>

\* symdep is killed.
Crash ==
    /\ stage # "idle"
    /\ stage' = "idle" /\ resume' = "idle"
    /\ victims' = {} /\ victim' = NoPkg
    /\ todo' = {} /\ pending' = {} /\ visited' = {}
    /\ failed' = FALSE
    /\ UNCHANGED <<treeVars, inputs, jobVars>>
    /\ Forget

-----------------------------------------------------------------------------
(* unlink_package *)

\* native_unlink_cb of one file: unlink, then rmdir the parents left empty.
UnlinkFile ==
    /\ stage = "unlink"
    /\ \E rel \in todo :
          LET p == Path(Home, rel)
          IN  /\ todo' = todo \ {rel}
              /\ \/ /\ PointsTo(p, Path(victim, rel), <<victim>>)
                    /\ fs' = [q \in Paths |->
                                IF q \in EmptiedParents(p) \union {Phys(p)}
                                THEN None ELSE fs[q]]
                    /\ UNCHANGED failed
                 \/ /\ ~PointsTo(p, Path(victim, rel), <<victim>>)
                    /\ UNCHANGED <<fs, failed>>
                 \/ /\ "unlink" \in sc.faults
                    /\ PointsTo(p, Path(victim, rel), <<victim>>)
                    /\ failed' = (failed \/ resume = "idle")
                    /\ UNCHANGED fs
    /\ UNCHANGED <<saved, inputs, stage, jobVars, unlVars, walkVars, endVars>>

\* unlink_package returns to its caller.
UnlinkDone ==
    /\ stage = "unlink"
    /\ todo = {}
    /\ CASE resume = "idle" -> End(~failed)
         [] resume = "link" -> /\ EnterLink(pkg)
                               /\ UNCHANGED <<inputs, op, pkg, endVars>>
         [] resume = "delete" -> /\ EnterDelete(pkg)
                                 /\ UNCHANGED <<inputs, jobVars, victims, walkVars,
                                                failed, endVars>>
         [] OTHER -> /\ stage' = resume
                     /\ UNCHANGED <<inputs, jobVars, unlVars, todo, walkVars,
                                    failed, endVars>>
    /\ UNCHANGED treeVars

-----------------------------------------------------------------------------
(* package_remove, when the package is unlinked *)

\* unlink or rmdir of one entry; a directory goes only when it is empty.  The
\* backups in a directory go right before it.
Delete(q) ==
    /\ fs[q] = Dir => Children(q) = {}
    /\ fs' = [fs EXCEPT ![q] = None]
    /\ saved' = [saved EXCEPT ![q] = {}]

DeleteFails(q) ==
    /\ "delete" \in sc.faults
    /\ \E kept \in SUBSET saved[q] : saved' = [saved EXCEPT ![q] = kept]
    /\ UNCHANGED fs

\* cleanup_temp_dir_contents(pkg_dir), one entry per step, directories after what
\* is in them, and at last FS_RMDIR(pkg_dir), the only call whose result counts.
DeleteEntry ==
    /\ stage = "delete"
    /\ \E rel \in todo :
          LET q == Path(pkg, rel)
          IN  /\ \A s \in todo : ~IsStrictPrefix(rel, s)
              /\ Delete(q) \/ DeleteFails(q)
              /\ IF rel = <<>>
                 THEN End(fs'[q] = None)
                 ELSE /\ todo' = todo \ {rel}
                      /\ UNCHANGED <<inputs, stage, jobVars, unlVars, walkVars,
                                     failed, endVars>>

-----------------------------------------------------------------------------
(* link_package *)

\* handle_mutual_exclusions, one conflict
Exclude ==
    /\ stage = "exclude"
    /\ \E c \in victims :
          /\ victims' = victims \ {c}
          /\ IF IsPackageLinked(c)
             THEN EnterUnlink(c, "exclude")
             ELSE UNCHANGED <<stage, victim, resume, todo>>
    /\ UNCHANGED <<treeVars, inputs, jobVars, walkVars, failed, endVars>>

\* handle_dynamic_package_conflicts: first find the owners of the links in the
\* way ...
DetectConflicts ==
    /\ stage = "exclude"
    /\ victims = {}
    /\ stage' = "collide"
    /\ victims' = UNION {Owners(Path(Home, rel)) : rel \in files} \ {pkg}
    /\ UNCHANGED <<treeVars, inputs, jobVars, victim, resume, todo, walkVars,
                   failed, endVars>>

\* ... then unlink each; one that is gone is passed over.
UnlinkConflict ==
    /\ stage = "collide"
    /\ \E c \in victims :
          /\ victims' = victims \ {c}
          /\ IF IsDir(<<c>>)
             THEN EnterUnlink(c, "collide")
             ELSE UNCHANGED <<stage, victim, resume, todo>>
    /\ UNCHANGED <<treeVars, inputs, jobVars, walkVars, failed, endVars>>

BeginWalk ==
    /\ stage = "collide"
    /\ victims = {}
    /\ stage' = "unfold"
    /\ todo' = WalkRels(files)
    /\ pending' = {} /\ visited' = {}
    /\ UNCHANGED <<treeVars, inputs, jobVars, unlVars, failed, endVars>>

\* One path of the walk: the link itself, or the links in the directory.
WalkPath ==
    /\ stage = "unfold"
    /\ pending = {}
    /\ \E rel \in todo :
          LET p == Path(Home, rel)
          IN  /\ todo' = todo \ {rel}
              /\ pending' =
                   CASE IsSymlink(p)   -> {p}
                     [] LStat(p) = Dir -> {Append(p, Last(c)) :
                                             c \in {d \in Children(Phys(p)) :
                                                      fs[d].kind = "link"}}
                     [] OTHER          -> {}
    /\ UNCHANGED <<treeVars, inputs, stage, jobVars, unlVars, visited, failed,
                   endVars>>

\* Mutant of IsFolded: the link is looked up in the target directory.
IsFoldedAtHome(p) == IsSymlink(p) /\ IsDir(p) /\ LStat(p).to[1] = Home

\* unfold_symlink_cb: a link to a directory of the source becomes a directory
\* of links to what is in there, backups included.
IsFolded(p) == IsSymlink(p) /\ IsDir(p) /\ LStat(p).to[1] \in Pkgs

\* Mutant of Unfolded: an empty directory.
UnfoldedEmpty(p) == [fs EXCEPT ![Phys(p)] = Dir]

\* The directory that takes the place of the link p: every child of what the
\* link names becomes a link through the link's own target.
Unfolded(p) ==
    LET q  == Phys(p)
        to == fs[q].to
        d  == Real(p)
    IN  [r \in Paths |->
            IF r = q THEN Dir
            ELSE IF r # <<r[1]>> /\ Front(r) = q /\ Append(d, Last(r)) \in Children(d)
            THEN Link(Append(to, Last(r)))
            ELSE fs[r]]

UnfoldLink ==
    /\ stage = "unfold"
    /\ \E p \in pending :
          /\ pending' = pending \ {p}
          /\ visited' = visited \union {p}
          /\ \/ /\ p \notin visited /\ IsFolded(p)
                /\ fs' = Unfolded(p)
                /\ saved' = [saved EXCEPT ![Phys(p)] = {{} : b \in saved[Real(p)]}]
             \/ /\ p \in visited \/ ~IsFolded(p) \/ "unfold" \in sc.faults
                /\ UNCHANGED treeVars
    /\ UNCHANGED <<inputs, stage, jobVars, unlVars, todo, failed, endVars>>

WalkDone ==
    /\ stage = "unfold"
    /\ todo = {} /\ pending = {}
    /\ \/ op = "fix" /\ End(TRUE)
       \/ /\ op # "fix"
          /\ stage' = "mkdir"
          /\ todo' = ParentRels(files)
          /\ UNCHANGED <<inputs, jobVars, unlVars, walkVars, failed, endVars>>
    /\ UNCHANGED treeVars

\* Pass 1: mkdir_p of one parent directory; its result is not looked at.
MakeParents ==
    /\ stage = "mkdir"
    /\ \E rel \in todo :
          /\ todo' = todo \ {rel}
          /\ fs' = [q \in Paths |-> IF q \in MkdirP(Path(Home, rel)) THEN Dir
                                    ELSE fs[q]]
    /\ UNCHANGED <<saved, inputs, stage, jobVars, unlVars, walkVars, failed,
                   endVars>>

ParentsMade ==
    /\ stage = "mkdir"
    /\ todo = {}
    /\ stage' = "link"
    /\ todo' = files
    /\ UNCHANGED <<treeVars, inputs, jobVars, unlVars, walkVars, failed, endVars>>

\* Pass 2, native_link_cb of one file, by what is at the target path.
RealSource(q) == IF IsSymlink(q) /\ Real(q) # NoPath THEN Real(q) ELSE q

\* Mutant of AlreadyLinked: any link will do.
AlreadyALink(p, q) == IsSymlink(p) /\ UNCHANGED <<treeVars, failed>>

AlreadyLinked(p, q) ==
    /\ PointsTo(p, q, RealSource(q))
    /\ UNCHANGED <<treeVars, failed>>

\* A link to something else: replaced by rename.
ReplaceLink(p, q) ==
    /\ IsSymlink(p)
    /\ ~PointsTo(p, q, RealSource(q))
    /\ fs' = [fs EXCEPT ![Phys(p)] = Link(q)]
    /\ UNCHANGED <<saved, failed>>

\* Mutant of BackUp: what is in the way is removed.
Overwrite(p, q) ==
    /\ LStat(p) # None /\ ~IsSymlink(p)
    /\ fs' = [r \in Paths |-> CASE r = Phys(p)         -> Link(q)
                                [] r \in Under(Phys(p)) -> None
                                [] OTHER                -> fs[r]]
    /\ UNCHANGED <<saved, failed>>

\* A file or a directory: renamed to a backup next to it, then linked, unless
\* the second call fails.
BackUp(p, q) ==
    LET here == Phys(p)
    IN  /\ LStat(p) # None /\ ~IsSymlink(p)
        /\ saved' = [r \in Paths |->
                       IF r \in Under(here) THEN {}
                       ELSE IF r = Front(here) THEN saved[r] \union {DataUnder(here)}
                       ELSE saved[r]]
        /\ \E linked \in {TRUE} \union {"link" \notin sc.faults} :
              /\ fs' = [r \in Paths |->
                          IF r = here /\ linked THEN Link(q)
                          ELSE IF r \in Under(here) THEN None
                          ELSE fs[r]]
              /\ failed' = (failed \/ ~linked)

\* Nothing: linked, if the parent directory is there.
MakeLink(p, q) ==
    /\ LStat(p) = None
    /\ Phys(p) # NoPath /\ IsDir(Front(p))
    /\ fs' = [fs EXCEPT ![Phys(p)] = Link(q)]
    /\ UNCHANGED <<saved, failed>>

LinkFails(p, q) ==
    /\ ~PointsTo(p, q, RealSource(q))
    /\ "link" \in sc.faults \/ (LStat(p) = None /\ ~IsDir(Front(p)))
    /\ failed' = TRUE
    /\ UNCHANGED treeVars

LinkFile ==
    /\ stage = "link"
    /\ \E rel \in todo :
          LET p == Path(Home, rel)
              q == Path(pkg, rel)
          IN  /\ todo' = todo \ {rel}
              /\ \/ AlreadyLinked(p, q) \/ ReplaceLink(p, q) \/ BackUp(p, q)
                 \/ MakeLink(p, q) \/ LinkFails(p, q)
    /\ UNCHANGED <<inputs, stage, jobVars, unlVars, walkVars, endVars>>

LinkDone ==
    /\ stage = "link"
    /\ todo = {}
    /\ End(~failed)
    /\ UNCHANGED treeVars

-----------------------------------------------------------------------------

User == UserWrite \/ UserLink

Start ==
    \/ BeginFix
    \/ \E p \in Pkgs : BeginLink(p) \/ BeginUnlink(p) \/ BeginRelink(p) \/ BeginRemove(p)

Work ==
    \/ UnlinkFile \/ UnlinkDone \/ DeleteEntry
    \/ Exclude \/ DetectConflicts \/ UnlinkConflict
    \/ BeginWalk \/ WalkPath \/ UnfoldLink \/ WalkDone
    \/ MakeParents \/ ParentsMade \/ LinkFile \/ LinkDone

Next == User \/ Start \/ Work \/ Crash

Spec == Init /\ [][Next]_vars

-----------------------------------------------------------------------------
(* Properties *)

\* A scenario in which the only links are symdep's own and those of GNU Stow: no
\* package holds a link, and what the user has linked is an entry of a package, at
\* its own place.  Two cases are excepted in which a link that is folded stays so:
\* a directory that is linked with a directory in it, which the walk may visit too
\* early, and failing calls.
Shallow(src, rel) ==
    \A s \in DOMAIN src : src[s] = Dir => ~IsStrictPrefix(rel, s)

Stowed(x) ==
    /\ \A p \in Pkgs : \A rel \in DOMAIN x.source[p] : x.source[p][rel].kind # "link"
    /\ \A l \in x.links :
          \E p \in Pkgs : \E rel \in DOMAIN x.source[p] :
              /\ l = <<Path(Home, rel), Path(p, rel)>>
              /\ Shallow(x.source[p], rel)
    /\ "unfold" \notin x.faults

Unrelated(p, q) ==
    /\ p # q /\ p \notin sc.conflicts[q] /\ q \notin sc.conflicts[p]
    /\ \A r \in DOMAIN sc.source[p], s \in DOMAIN sc.source[q] :
          r = s => sc.source[p][r] = Dir /\ sc.source[q][s] = Dir

\* The entry of package p at rel is reachable at its place under Home.
Linked(p, rel) == Real(Path(Home, rel)) = Real(Path(p, rel))

\* What the user has written is still there, at its place or in a backup,
\* whatever he runs afterwards and wherever it stops (ADR-009: "Guaranteed zero
\* data loss during dotfile deployment").
NoUserDataLost == written \subseteq DataUnder(<<Home>>)

\* The linker never writes into a package (ADR-002: "write directly into
\* hyprland's repository source directory" is what unfolding is there to
\* prevent).  No step changes an entry of a package or adds one; entries go only
\* when remove deletes that very package, one by one, and what a failing or
\* killed remove leaves is as it was.
SourceIntact ==
    [][\A p \in Pkgs : \A q \in Under(<<p>>) :
          fs'[q] # fs[q] \/ saved'[q] # saved[q] =>
              stage = "delete" /\ pkg = p /\ fs'[q] = None]_vars

\* A link or relink that returns 0 has made every file of the package that is
\* not ignored reachable under Home.
LinkedAfterLink ==
    done.op \in {"link", "relink"} /\ done.ok =>
        \A rel \in Collect(done.pkg) : Linked(done.pkg, rel)

\* No directory of package c was folded when the operation began.
NotFolded(c) ==
    \A q \in Under(<<Home>>) :
        before[1][q].kind = "link" /\ before[1][q].to[1] = c => fs[before[1][q].to] # Dir

\* After a link that returns 0 no link to a file of another package its manifest
\* declares in conflict is left (README: CONFLICTS names "packages that must be
\* unlinked before linking this package").  Two cases are excepted: unlinks that
\* fail, which link_package does not look at, and folded directories, in which
\* handle_mutual_exclusions sees no link because it comes before the unfolding.
ExclusiveAfterLink ==
    done.op \in {"link", "relink"} /\ done.ok /\ "unlink" \notin sc.faults =>
        \A c \in Conflicts(done.pkg) \ {done.pkg} :
            NotFolded(c) => ~HasStatus(c)

\* An unlink that returns 0 leaves no link to a file of the package, and no
\* directory that it has emptied.
UnlinkedAfterUnlink ==
    done.op = "unlink" /\ done.ok =>
        /\ ~HasStatus(done.pkg)
        /\ \A rel \in Collect(done.pkg) :
              LET p == Path(Home, rel)
              IN  before[1][p] = Link(Path(done.pkg, rel)) =>
                      \A k \in 2..Len(p)-1 :
                          LET q == SubSeq(p, 1, k)
                          IN  fs[q] = Dir => Children(q) # {} \/ saved[q] # {}

\* A remove that has ended leaves no link to what was in the package, however much
\* of it was linked, or already deleted, when it began, and whether or not the
\* deletion succeeds (README: "Safely unlink and remove package directory from
\* disk").  Excepted are unlinks that fail, directories that were folded, ignored
\* files and links that led nowhere before.
RemoveLeavesNoLink ==
    done.op = "remove" /\ "unlink" \notin sc.faults =>
        \A q \in Under(<<Home>>) :
            fs[q].kind = "link" /\ fs[q].to[1] = done.pkg =>
                \/ before[1][fs[q].to] \in {None, Dir}
                \/ \E i \in sc.ignored : IsPrefix(i, Tail(fs[q].to))

\* Before the operation, rel or a directory on its way was a link into p.
WasLinked(p, rel) ==
    \E k \in 1..Len(rel) :
        before[1][Path(Home, SubSeq(rel, 1, k))] = Link(Path(p, SubSeq(rel, 1, k)))

\* No operation on one package breaks the links of another with which it
\* shares directories but no file and no conflict.
OthersKept ==
    done.op # "none" =>
        \A p \in Pkgs : done.pkg = NoPkg \/ Unrelated(p, done.pkg) =>
            \A rel \in Collect(p) :
                WasLinked(p, rel) => Linked(p, rel)

\* A relink of a linked package that returns 0 gives it back the links it had,
\* and makes no backup: nothing has come in their place in between.
RelinkIdempotent ==
    LET own == {Path(Home, rel) : rel \in Collect(done.pkg)}
    IN  done.op = "relink" /\ done.ok
          /\ (\A q \in own : before[1][q] = Link(Path(done.pkg, Tail(q))))
            => saved = before[2] /\ \A q \in own : fs[q] = before[1][q]

=============================================================================
