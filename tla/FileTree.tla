------------------------------- MODULE FileTree -------------------------------
(***************************************************************************)
(* The two trees the linker works on: the target directory (Home) and one  *)
(* directory per package in the source directory, as the system calls of   *)
(* the linker see them.  A path is a sequence that starts with its root.   *)
(*                                                                         *)
(* Backups (target.symdep_backup_TIME) are not given paths of their own:   *)
(* saved[d] holds, for each backup in directory d, the data it preserves.  *)
(***************************************************************************)
EXTENDS Naturals, FiniteSets, SequencesExt

CONSTANTS
    Home,      \* the target directory
    Pkgs,      \* the packages, directories of the source directory
    Rels,      \* relative paths: sequences of names
    Data,      \* contents of regular files
    Hops       \* symbolic links one path resolution follows before ELOOP

ASSUME TreeAssumption ==
    /\ Home \notin Pkgs
    /\ <<>> \in Rels
    /\ \A r \in Rels : /\ r \in Seq(ToSet(r))
                       /\ r # <<>> => Front(r) \in Rels
    /\ Hops \in Nat \ {0}

VARIABLES
    fs,        \* what each path is
    saved      \* the backups in each directory

Path(root, rel) == <<root>> \o rel
Parts == {Home} \union Pkgs \union UNION {ToSet(r) : r \in Rels}
Paths == {Path(root, rel) : root \in {Home} \union Pkgs, rel \in Rels}

\* The target of a path that does not resolve, and C's NULL.
NoPath == <<>>

None     == [kind |-> "none"]
Dir      == [kind |-> "dir"]
File(x)  == [kind |-> "file", data |-> x]
Link(p)  == [kind |-> "link", to |-> p]
Entries  == {None, Dir} \union {File(x) : x \in Data}
                        \union [kind : {"link"}, to : Seq(Parts)]

TreeOK ==
    /\ fs \in [Paths -> Entries]
    /\ saved \in [Paths -> SUBSET SUBSET Data]

-----------------------------------------------------------------------------
(* Resolution *)

\* A root is itself, if it is there at all.
AtRoot(p) == IF p \in Paths THEN p ELSE NoPath

\* RealPath[<<n, p>>]: the path that p names when every link on the way, the
\* last one included, is followed; n links may still be followed.
RealPath[x \in (0..Hops) \X Seq(Parts)] ==
    LET n == x[1]
        p == x[2]
        d == RealPath[<<n, Front(p)>>]
        q == Append(d, Last(p))
    IN  IF Len(p) <= 1 THEN AtRoot(p)
        ELSE IF d = NoPath \/ q \notin Paths THEN NoPath
        ELSE IF fs[q].kind # "link" THEN q
        ELSE IF n = 0 THEN NoPath
        ELSE RealPath[<<n - 1, fs[q].to>>]

Real(p) == RealPath[<<Hops, p>>]

\* The path that p names when its last link is not followed.
Phys(p) ==
    IF Len(p) <= 1 THEN AtRoot(p)
    ELSE LET d == Real(Front(p))
             q == Append(d, Last(p))
         IN  IF d = NoPath \/ q \notin Paths THEN NoPath ELSE q

EntryAt(q) == IF q = NoPath THEN None ELSE fs[q]

LStat(p)      == EntryAt(Phys(p))
IsDir(p)      == EntryAt(Real(p)) = Dir
IsSymlink(p)  == LStat(p).kind = "link"

\* is_symlink_pointing_to(p, q, r): the link names q or r, or it names a link
\* and resolves to r, which may be NULL.
PointsTo(p, q, r) ==
    /\ IsSymlink(p)
    /\ LET to == LStat(p).to
       IN  \/ to = q
           \/ r # NoPath /\ to = r
           \/ r # NoPath /\ IsSymlink(to) /\ Real(p) = r

\* get_symlink_owner_package: the package in whose directory the link points.
Owners(p) == IF IsSymlink(p) THEN {LStat(p).to[1]} \intersect Pkgs ELSE {}

-----------------------------------------------------------------------------
(* Directories *)

Under(q)    == {r \in Paths : IsPrefix(q, r)}
Children(q) == {r \in Paths : r # <<r[1]>> /\ Front(r) = q /\ fs[r] # None}

\* What the regular files and the backups under q hold.
DataUnder(q) ==
    {fs[r].data : r \in {s \in Under(q) : fs[s].kind = "file"}}
        \union UNION UNION {saved[r] : r \in Under(q)}

\* The directories mkdir_p(p) makes: those that are missing below the deepest
\* one that exists, unless something else is in the way.
MkdirP(p) ==
    LET up(k) == SubSeq(p, 1, k)
        have  == Max({k \in 1..Len(p) : IsDir(up(k))})
        new   == {Real(up(have)) \o SubSeq(p, have + 1, k) : k \in have+1..Len(p)}
    IN  IF have < Len(p) /\ LStat(up(have + 1)) = None /\ new \subseteq Paths
        THEN new ELSE {}

\* Mutant of EmptiedParents: rmdir before the link is gone.
NoParents(p) == {}

\* The directories native_unlink_cb removes after it has unlinked p: the
\* parents, from the deepest one up, as long as each is empty then.
EmptiedParents(p) ==
    LET up(k)     == SubSeq(p, 1, k)
        emptied(k) == /\ LStat(up(k)) = Dir
                      /\ Children(Phys(up(k))) = {Phys(up(k + 1))}
                      /\ saved[Phys(up(k))] = {}
    IN  {Phys(up(k)) : k \in {j \in 2..Len(p)-1 : \A i \in j..Len(p)-1 : emptied(i)}}

\* Every entry that exists lies in a directory.
Rooted ==
    \A q \in Paths : fs[q] # None /\ Len(q) > 1 => fs[Front(q)] = Dir

=============================================================================
