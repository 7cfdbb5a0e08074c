-------------------------- MODULE LinkerOutcomeProofs --------------------------
(***************************************************************************)
(* What a whole command comes to, for any packages, files, conflicts,      *)
(* ignore rules and failing calls but that of the unfolding, and wherever  *)
(* the one before it was killed, if the links in the target directory are  *)
(* those of symdep and of GNU Stow (Stowed): the packages stay intact, a   *)
(* link makes every link and excludes what it must, an unlink or a remove  *)
(* removes every link, and nobody else's link is touched.                  *)
(*                                                                         *)
(* World says what such a target directory looks like, and it makes the    *)
(* paths that go through links predictable: what the code sees at a path   *)
(* is one of three things (Lookup).  On it rests what a step does to the   *)
(* trees, the stages of an operation (JobKind, WalkInv) and how far it has *)
(* come (Progress).                                                        *)
(***************************************************************************)
EXTENDS LinkerProofs

-----------------------------------------------------------------------------
(* The trees of a target directory in which the only links are those of symdep and *)
(* of GNU Stow                                                                     *)

\* A link to a directory.
Folded(q) == fs[q].kind = "link" /\ fs[fs[q].to] = Dir

\* The files package p came with, ignored or not, and those a link makes links to:
\* they are still there, and not ignored.
Plain(p)  == {rel \in DOMAIN sc.source[p] : sc.source[p][rel] # Dir}
Wanted(p) == {rel \in Plain(p) : /\ fs[Path(p, rel)] # None
                                 /\ \A i \in sc.ignored : ~IsPrefix(i, rel)}

LinkedTo(tree, p, rel) == tree[Path(Home, rel)] = Link(Path(p, rel))

\* What there is of a package is as it came.
Remains ==
    \A q \in Paths : q[1] \in Pkgs => fs[q] \in {SourceEntry(q), None} /\ saved[q] = {}

\* What there is of the packages is as it came, and links name entries of a package
\* at their own place, directories only that have no directory in them.
World ==
    /\ Remains
    /\ \A q \in Paths : fs[q].kind = "link" =>
          /\ q[1] = Home
          /\ \E c \in Pkgs : /\ fs[q] = Link(Twin(q, c))
                             /\ Tail(q) \in DOMAIN sc.source[c]
                             /\ sc.source[c][Tail(q)] = Dir =>
                                   Shallow(sc.source[c], Tail(q))

Calm == TreeInv /\ World /\ sc \in Scenarios /\ Stowed(sc)

\* No link on the way, and no link to a directory.
Clear(q)  == \A a \in Paths : q \in Under(a) => fs[a].kind # "link"
NoFold(q) == \A a \in Paths : q \in Under(a) => ~Folded(a)

\* A path without links on the way is what it names.
LEMMA RealClear ==
    ASSUME LinksTyped, NEW q \in Paths, Clear(q)
    PROVE  /\ \A n \in 0..Hops : RealPath[<<n, q>>] = q
           /\ Real(q) = q
<1> DEFINE T == {r \in Paths : Clear(r) => \A n \in 0..Hops : RealPath[<<n, r>>] = r}
<1>1. ASSUME NEW r \in Paths, Len(r) > 1 => Front(r) \in T PROVE r \in T
  <2>1. SUFFICES ASSUME Clear(r), NEW n \in 0..Hops PROVE RealPath[<<n, r>>] = r
    OBVIOUS
  <2>2. r \in Seq(Parts) /\ Len(r) >= 1 /\ Len(r) > 0 /\ r # NoPath
    BY PathsShape
  <2>3. <<n, r>> \in Steps
    BY <2>2 DEF Steps
  <2>4. RealPath[<<n, r>>] = Resolve(RealPath, <<n, r>>)
    BY <2>3, RealPathResolves
  <2>5. CASE Len(r) <= 1
    BY <2>4, <2>5 DEF Resolve, AtRoot
  <2>6. CASE ~(Len(r) <= 1)
    <3>1. Len(r) > 1
      BY <2>2, <2>6
    <3>2. Front(r) \in Paths /\ Front(r) # NoPath
      BY <3>1, PathsShape
    <3>3. Clear(Front(r))
      <4>1. \A a \in Paths : Front(r) \in Under(a) => r \in Under(a)
        BY <3>1, UnderFacts
      <4> QED BY <2>1, <4>1 DEF Clear
    <3>4. RealPath[<<n, Front(r)>>] = Front(r)
      BY <1>1, <3>1, <3>3
    <3>5. Append(Front(r), Last(r)) = r
      BY <2>2, FrontLast
    <3>6. fs[r].kind # "link"
      BY <2>1, UnderFacts DEF Clear
    <3> QED BY <2>4, <2>6, <3>2, <3>4, <3>5, <3>6 DEF Resolve
  <2> QED BY <2>5, <2>6
<1>2. q \in T
  <2> HIDE DEF T
  <2> QED BY <1>1, TreeInduction
<1>3. Hops \in 0..Hops
  BY TreeAssumption
<1> QED BY <1>2, <1>3 DEF Real

\* What is not under a link is where it seems to be.
LEMMA PhysClear ==
    ASSUME LinksTyped, NEW q \in Paths, Len(q) > 1 => Clear(Front(q))
    PROVE  Phys(q) = q
<1>1. q \in Seq(Parts) /\ Len(q) >= 1 /\ Len(q) > 0
  BY PathsShape
<1>2. CASE Len(q) <= 1
  BY <1>2 DEF Phys, AtRoot
<1>3. CASE ~(Len(q) <= 1)
  <2>1. Len(q) > 1
    BY <1>1, <1>3
  <2>2. Front(q) \in Paths /\ Front(q) # NoPath
    BY <2>1, PathsShape
  <2>3. Real(Front(q)) = Front(q) /\ Append(Front(q), Last(q)) = q
    BY <1>1, <2>1, <2>2, RealClear, FrontLast
  <2> QED BY <1>3, <2>2, <2>3 DEF Phys
<1> QED BY <1>2, <1>3

\* Above an entry there are only directories.
LEMMA ClearAbove ==
    ASSUME TreeInv, NEW q \in Paths, fs[q] # None, Len(q) > 1
    PROVE  Clear(Front(q))
<1>1. SUFFICES ASSUME NEW a \in Paths, Front(q) \in Under(a) PROVE fs[a].kind # "link"
  BY DEF Clear
<1>2. q \in Under(a) /\ q # a
  BY <1>1, UnderFacts
<1>3. fs[a] = Dir
  BY <1>2, Above DEF TreeInv, Rooted
<1> QED BY <1>3, Kinds

\* What is under a link into a package is at the same place in the package.
LEMMA RealLinked ==
    ASSUME TreeInv, NEW a \in Paths, Len(a) > 1, NEW c \in Pkgs, fs[a] = Link(Twin(a, c)),
           \A b \in Paths : b[1] = c => fs[b].kind # "link",
           NEW q \in Under(a)
    PROVE  Real(q) = Twin(q, c) /\ (q # a => Phys(q) = Twin(q, c))
<1>1. LinksTyped /\ fs[a].kind = "link" /\ fs[a].to = Twin(a, c) /\ fs[a] # None
  BY Kinds DEF TreeInv
<1>2. \A b \in Paths : b[1] = c => Clear(b)
  BY UnderOrder DEF Clear
<1>3. \A r \in Paths : /\ Twin(r, c) \in Paths /\ Twin(r, c)[1] = c /\ Twin(r, c) # NoPath
                       /\ Len(r) > 1 => Append(Twin(Front(r), c), Last(r)) = Twin(r, c)
  BY Twins, PathsShape
<1>4. Hops \in Nat /\ Hops # 0 /\ Hops - 1 \in 0..Hops /\ Hops \in 0..Hops
  BY TreeAssumption
<1>5. a \in Seq(Parts) /\ Len(a) > 0 /\ ~(Len(a) <= 1)
  BY PathsShape
<1>6. Real(a) = Twin(a, c)
  <2>1. Front(a) \in Paths /\ Front(a) # NoPath /\ Clear(Front(a))
    BY <1>1, ClearAbove, PathsShape
  <2>2. RealPath[<<Hops, Front(a)>>] = Front(a) /\ Append(Front(a), Last(a)) = a
    BY <1>1, <1>4, <1>5, <2>1, RealClear, FrontLast
  <2>3. RealPath[<<Hops - 1, Twin(a, c)>>] = Twin(a, c)
    BY <1>1, <1>2, <1>3, <1>4, RealClear
  <2>4. <<Hops, a>> \in Steps
    BY <1>4, <1>5 DEF Steps
  <2>5. RealPath[<<Hops, a>>] = Resolve(RealPath, <<Hops, a>>)
    BY <1>1, <2>4, RealPathResolves
  <2> QED BY <1>1, <1>4, <1>5, <2>1, <2>2, <2>3, <2>5 DEF Resolve, Real
<1> DEFINE T == {r \in Paths : r \in Under(a) => Real(r) = Twin(r, c)}
<1>7. ASSUME NEW r \in Paths, Len(r) > 1 => Front(r) \in T PROVE r \in T
  <2>1. SUFFICES ASSUME r \in Under(a), r # a PROVE Real(r) = Twin(r, c)
    BY <1>6
  <2>2. /\ Len(r) > 1 /\ Front(r) \in Paths /\ Front(r) \in Under(a) /\ ~(Len(r) <= 1)
        /\ r \in Seq(Parts)
    BY <2>1, UnderOrder, PathsShape
  <2>3. RealPath[<<Hops, Front(r)>>] = Twin(Front(r), c)
    BY <1>7, <2>2 DEF Real
  <2>4. <<Hops, r>> \in Steps
    BY <1>4, <2>2 DEF Steps
  <2>5. RealPath[<<Hops, r>>] = Resolve(RealPath, <<Hops, r>>)
    BY <1>1, <2>4, RealPathResolves
  <2>6. /\ Twin(Front(r), c) # NoPath /\ Append(Twin(Front(r), c), Last(r)) = Twin(r, c)
        /\ Twin(r, c) \in Paths /\ fs[Twin(r, c)].kind # "link"
    BY <1>3, <2>2
  <2> QED BY <2>2, <2>3, <2>5, <2>6 DEF Resolve, Real
<1>8. \A r \in Under(a) : Real(r) = Twin(r, c)
  <2>1. Paths \subseteq T
    <3> HIDE DEF T
    <3> QED BY <1>7, TreeInduction
  <2> QED BY <2>1 DEF Under
<1>9. ASSUME q # a PROVE Phys(q) = Twin(q, c)
  <2>1. /\ q \in Paths /\ Len(q) > 1 /\ Front(q) \in Paths /\ Front(q) \in Under(a)
        /\ ~(Len(q) <= 1)
    BY <1>9, UnderOrder, PathsShape
  <2>2. Real(Front(q)) = Twin(Front(q), c)
    BY <1>8, <2>1
  <2> QED BY <1>3, <2>1, <2>2 DEF Phys
<1> QED BY <1>8, <1>9

\* An entry of a package.
LEMMA SourceAt ==
    ASSUME NEW c \in Pkgs, NEW rel \in Rels \ {<<>>}
    PROVE  SourceEntry(Path(c, rel)) =
              IF rel \in DOMAIN sc.source[c] THEN sc.source[c][rel] ELSE None
<1> DEFINE q == Path(c, rel)
<1>1. q \in Paths /\ q[1] = c
  BY PathShape
<1>2. Tail(q) = rel
  <2>1. rel \in Seq(Parts) /\ c \in Parts
    BY RelSeq DEF Parts
  <2> QED BY <2>1 DEF Path
<1>3. c # Home
  BY TreeAssumption
<1>4. q # <<c>>
  <2>1. Tail(<<c>>) = <<>>
    OBVIOUS
  <2> QED BY <1>2, <2>1
<1> QED BY <1>1, <1>2, <1>3, <1>4 DEF SourceEntry

\* What a scenario says of a package.
LEMMA SourceTyped ==
    ASSUME sc \in Scenarios, Stowed(sc), NEW c \in Pkgs, NEW rel \in DOMAIN sc.source[c]
    PROVE  /\ rel \in Rels \ {<<>>}
           /\ sc.source[c][rel] = Dir \/ \E x \in Data : sc.source[c][rel] = File(x)
           /\ sc.source[c][rel] # None /\ sc.source[c][rel].kind # "link"
<1>1. /\ DOMAIN sc.source[c] \subseteq Rels \ {<<>>}
      /\ sc.source[c][rel] \in {Dir} \union {File(d) : d \in Data} \union {Link(q) : q \in Paths}
  BY LinkerAssumption
<1>2. sc.source[c][rel].kind # "link"
  BY DEF Stowed
<1> QED BY <1>1, <1>2, Kinds

\* The directories of a package in which an entry lies.
LEMMA SourceAbove ==
    ASSUME sc \in Scenarios, Stowed(sc), NEW c \in Pkgs, NEW rel \in DOMAIN sc.source[c],
           NEW root \in {Home} \union Pkgs, NEW s \in Rels \ {<<>>}, s # rel,
           Path(root, rel) \in Under(Path(root, s))
    PROVE  s \in DOMAIN sc.source[c] /\ sc.source[c][s] = Dir
<1> DEFINE tree == [q \in Paths |-> SourceEntry(q)]
<1>1. rel \in Rels \ {<<>>} /\ sc.source[c][rel] # None
  BY SourceTyped
<1>2. Path(root, s) \in Paths /\ Path(root, rel) \in Paths
  BY <1>1, PathShape
<1>3. Twin(Path(root, s), c) = Path(c, s) /\ Twin(Path(root, rel), c) = Path(c, rel)
  <2>1. \A r \in Rels : Tail(Path(root, r)) = r
    <3>1. \A r \in Rels : r \in Seq(Parts) /\ root \in Parts
      BY RelSeq DEF Parts
    <3> QED BY <3>1 DEF Path
  <2> QED BY <1>1, <2>1 DEF Twin
<1>4. Path(c, rel) \in Under(Path(c, s)) /\ Path(c, s) \in Paths /\ Path(c, rel) \in Paths
  BY <1>1, <1>2, <1>3, TwinsUnder, PathShape
<1>5. Path(c, rel) # Path(c, s)
  <2>1. \A r \in Rels : Tail(Path(c, r)) = r
    <3>1. \A r \in Rels : r \in Seq(Parts) /\ c \in Parts
      BY RelSeq DEF Parts
    <3> QED BY <3>1 DEF Path
  <2> QED BY <1>1, <2>1
<1>6. \A q \in Paths : tree[q] # None /\ Len(q) > 1 => tree[Front(q)] = Dir
  BY SourceFacts, PathsShape
<1>7. tree[Path(c, rel)] # None
  BY <1>1, <1>4, SourceAt
<1> HIDE DEF tree
<1>8. tree[Path(c, s)] = Dir
  BY <1>4, <1>5, <1>6, <1>7, Above
<1>9. SourceEntry(Path(c, s)) = Dir
  BY <1>4, <1>8 DEF tree
<1> QED BY <1>9, SourceAt, Kinds

\* An entry of a package is as it came, or gone.
LEMMA PackageFacts ==
    ASSUME Calm, NEW q \in Paths, q[1] \in Pkgs
    PROVE  /\ saved[q] = {} /\ fs[q].kind # "link" /\ Clear(q) /\ Real(q) = q /\ Phys(q) = q
           /\ fs[q] \in {SourceEntry(q), None}
           /\ fs[<<q[1]>>] # Dir => fs[q] = None
           /\ fs[<<q[1]>>] \in {None, Dir}
<1> DEFINE c == q[1]
<1>1. c \in Pkgs /\ c # Home /\ <<c>> \in Paths /\ q \in Under(<<c>>) /\ <<c>> \in Under(<<c>>)
  BY RootPath, UnderRoot, UnderFacts, TreeAssumption
<1>2. SourceEntry(<<c>>) = Dir
  BY <1>1 DEF SourceEntry
<1>3. /\ fs[q] \in {SourceEntry(q), None} /\ saved[q] = {}
      /\ fs[<<c>>] \in {Dir, None}
  BY <1>1, <1>2 DEF Calm, World, Remains
<1>9. fs[<<c>>] # Dir => fs[q] = None
  <2>1. \A r \in Paths : fs[r] # None /\ Len(r) > 1 => fs[Front(r)] = Dir
    BY DEF Calm, TreeInv, Rooted
  <2> QED BY <1>1, <1>3, <2>1, Above
<1>4. \A r \in Paths : r[1] = c => fs[r].kind # "link"
  BY <1>1 DEF Calm, World
<1>5. Clear(q)
  BY <1>4, UnderOrder DEF Clear
<1>6. LinksTyped
  BY DEF Calm, TreeInv
<1>7. Len(q) > 1 => Clear(Front(q))
  <2>1. SUFFICES ASSUME Len(q) > 1 PROVE Clear(Front(q))
    OBVIOUS
  <2>2. \A a \in Paths : Front(q) \in Under(a) => q \in Under(a)
    BY <2>1, UnderFacts
  <2> QED BY <1>5, <2>2 DEF Clear
<1>8. Real(q) = q /\ Phys(q) = q
  BY <1>5, <1>6, <1>7, RealClear, PhysClear
<1> QED BY <1>1, <1>3, <1>4, <1>5, <1>8, <1>9, Kinds

\* The files of a package are among those it came with.
LEMMA CollectIs ==
    ASSUME Calm, NEW c \in Pkgs
    PROVE  /\ Collect(c) = Wanted(c)
           /\ Wanted(c) # {} => fs[<<c>>] = Dir
           /\ Wanted(c) \subseteq Plain(c)
           /\ Plain(c) \subseteq Rels \ {<<>>}
           /\ IsDir(<<c>>) <=> fs[<<c>>] = Dir
<1>1. ASSUME NEW rel \in Rels \ {<<>>}
      PROVE  /\ fs[Path(c, rel)] \notin {None, Dir} <=>
                    rel \in Plain(c) /\ fs[Path(c, rel)] # None
             /\ fs[<<c>>] # Dir => fs[Path(c, rel)] = None
  <2>1. Path(c, rel) \in Paths /\ Path(c, rel)[1] = c
    BY PathShape
  <2>2. /\ fs[Path(c, rel)] \in {SourceEntry(Path(c, rel)), None}
        /\ fs[<<c>>] # Dir => fs[Path(c, rel)] = None
    BY <2>1, PackageFacts
  <2> QED BY <2>2, SourceAt, SourceTyped DEF Plain, Calm
<1>2. Plain(c) \subseteq Rels \ {<<>>}
  BY SourceTyped DEF Plain, Calm
<1>3. Collect(c) = Wanted(c) /\ (Wanted(c) # {} => fs[<<c>>] = Dir)
  BY <1>1, <1>2 DEF Collect, Wanted
<1>4. Real(<<c>>) = <<c>> /\ <<c>> # NoPath
  <2>1. <<c>> \in Paths /\ <<c>>[1] = c
    BY RootPath
  <2> QED BY <2>1, PackageFacts, PathsShape
<1>5. IsDir(<<c>>) <=> fs[<<c>>] = Dir
  BY <1>4 DEF IsDir, EntryAt
<1> QED BY <1>2, <1>3, <1>5 DEF Wanted, Plain

-----------------------------------------------------------------------------
(* What the linker sees of such trees *)

\* What is at a path of the target directory: the path itself, or what is at the
\* same place in the package that a link on the way leads into.
LEMMA Lookup ==
    ASSUME Calm, NEW q \in Paths, q[1] = Home
    PROVE  \/ Clear(q) /\ Real(q) = q /\ Phys(q) = q
           \/ \E a \in Paths, c \in Pkgs :
                 /\ q \in Under(a) /\ Len(a) > 1 /\ fs[a] = Link(Twin(a, c))
                 /\ Real(q) = Twin(q, c)
                 /\ Phys(q) = IF q = a THEN q ELSE Twin(q, c)
<1>1. TreeInv /\ LinksTyped /\ fs[<<Home>>] = Dir
  BY DEF Calm, TreeInv
<1>2. CASE Clear(q)
  <2>1. Len(q) > 1 => Clear(Front(q))
    <3>1. SUFFICES ASSUME Len(q) > 1 PROVE Clear(Front(q))
      OBVIOUS
    <3>2. \A a \in Paths : Front(q) \in Under(a) => q \in Under(a)
      BY <3>1, UnderFacts
    <3> QED BY <1>2, <3>2 DEF Clear
  <2> QED BY <1>1, <1>2, <2>1, RealClear, PhysClear
<1>3. CASE ~Clear(q)
  <2>1. PICK a \in Paths : q \in Under(a) /\ fs[a].kind = "link"
    BY <1>3 DEF Clear
  <2>2. PICK c \in Pkgs : fs[a] = Link(Twin(a, c))
    BY <2>1 DEF Calm, World
  <2>3. Len(a) > 1
    <3>1. a[1] = Home /\ Len(a) >= 1 /\ Len(a) \in Nat
      BY <2>1, PathsShape, UnderOrder
    <3>2. a # <<Home>>
      BY <1>1, <2>1, Kinds
    <3>3. Len(a) # 1
      BY <3>1, <3>2, PathsShape
    <3>4. \A n \in Nat : n >= 1 /\ n # 1 => n > 1
      OBVIOUS
    <3> QED BY <3>1, <3>3, <3>4, Zenon
  <2>4. \A b \in Paths : b[1] = c => fs[b].kind # "link"
    BY TreeAssumption DEF Calm, World
  <2>5. Real(q) = Twin(q, c) /\ (q # a => Phys(q) = Twin(q, c))
    BY <1>1, <2>1, <2>2, <2>3, <2>4, RealLinked
  <2>6. Phys(a) = a
    BY <1>1, <2>2, <2>3, Kinds, ClearAbove, PhysClear
  <2> QED BY <2>1, <2>2, <2>3, <2>5, <2>6
<1> QED BY <1>2, <1>3

\* A link under Home is found where it is, and so is what it names.
LEMMA LookupLink ==
    ASSUME Calm, NEW q \in Paths, q[1] = Home
    PROVE  /\ IsSymlink(q) <=> fs[q].kind = "link"
           /\ fs[q].kind = "link" => /\ Len(q) > 1 /\ Phys(q) = q /\ LStat(q) = fs[q]
                                     /\ Real(q) = fs[q].to /\ fs[q].to \in Paths
                                     /\ IsDir(q) <=> Folded(q)
           /\ LStat(q) = None => fs[q] = None
<1>1. TreeInv /\ q # NoPath
  BY PathsShape DEF Calm
<1>2. ASSUME NEW a \in Paths, NEW c \in Pkgs, q \in Under(a), Len(a) > 1,
             fs[a] = Link(Twin(a, c)), q # a
      PROVE  fs[q] = None
  BY <1>1, <1>2, Above, Kinds DEF TreeInv, Rooted
<1>3. ASSUME NEW c \in Pkgs
      PROVE  Twin(q, c) \in Paths /\ Twin(q, c)[1] = c /\ fs[Twin(q, c)].kind # "link"
             /\ Twin(q, c) # NoPath
  <2>1. Twin(q, c) \in Paths /\ Twin(q, c)[1] = c
    BY Twins
  <2> QED BY <2>1, PackageFacts, PathsShape
<1>4. CASE Clear(q) /\ Real(q) = q /\ Phys(q) = q
  <2>1. fs[q].kind # "link"
    BY <1>4, UnderFacts DEF Clear
  <2> QED BY <1>1, <1>4, <2>1 DEF IsSymlink, LStat, EntryAt
<1>5. ASSUME NEW a \in Paths, NEW c \in Pkgs, q \in Under(a), Len(a) > 1,
             fs[a] = Link(Twin(a, c)), Real(q) = Twin(q, c),
             Phys(q) = IF q = a THEN q ELSE Twin(q, c)
      PROVE  /\ IsSymlink(q) <=> fs[q].kind = "link"
             /\ fs[q].kind = "link" => /\ Len(q) > 1 /\ Phys(q) = q /\ LStat(q) = fs[q]
                                       /\ Real(q) = fs[q].to /\ fs[q].to \in Paths
                                       /\ IsDir(q) <=> Folded(q)
             /\ LStat(q) = None => fs[q] = None
  <2>1. CASE q = a
    <3>1. fs[q].kind = "link" /\ fs[q].to = Twin(q, c) /\ fs[q] # None
      BY <1>5, <2>1, Kinds
    <3> QED BY <1>1, <1>3, <1>5, <2>1, <3>1 DEF IsSymlink, LStat, EntryAt, IsDir, Folded
  <2>2. CASE q # a
    <3>1. fs[q] = None
      BY <1>2, <1>5, <2>2
    <3> QED BY <1>3, <1>5, <2>2, <3>1, Kinds DEF IsSymlink, LStat, EntryAt
  <2> QED BY <2>1, <2>2
<1> QED BY <1>4, <1>5, Lookup

\* Where no directory is folded, what is found under Home is there.
LEMMA LookupUnfolded ==
    ASSUME Calm, NEW q \in Paths, q[1] = Home
    PROVE  /\ NoFold(q) /\ IsDir(q) => Clear(q) /\ Real(q) = q /\ fs[q] = Dir
           /\ Len(q) > 1 /\ NoFold(Front(q)) /\ LStat(q) # None =>
                 Phys(q) = q /\ LStat(q) = fs[q]
           /\ Len(q) > 1 /\ NoFold(Front(q)) /\ IsDir(Front(q)) =>
                 Phys(q) = q /\ LStat(q) = fs[q] /\ fs[Front(q)] = Dir
<1>1. TreeInv /\ LinksTyped /\ q # NoPath
  BY PathsShape DEF Calm, TreeInv
<1>2. ASSUME NEW r \in Paths, r[1] = Home, NEW a \in Paths, NEW c \in Pkgs, r \in Under(a),
             fs[a] = Link(Twin(a, c)), ~Folded(a)
      PROVE  fs[Twin(r, c)] # Dir /\ (r # a => fs[Twin(r, c)] = None)
  <2>1. fs[a].kind = "link" /\ fs[a].to = Twin(a, c) /\ fs[Twin(a, c)] # Dir
    BY <1>2, Kinds DEF Folded
  <2>2. /\ Twin(a, c) \in Paths /\ Twin(r, c) \in Under(Twin(a, c))
        /\ Tail(Twin(a, c)) = Tail(a) /\ Tail(Twin(r, c)) = Tail(r)
    BY <1>2, Twins, TwinsUnder
  <2>3. CASE r = a
    BY <2>1, <2>3
  <2>4. CASE r # a
    <3>1. Twin(r, c) # Twin(a, c)
      <4>1. r = Path(Home, Tail(r)) /\ a = Path(Home, Tail(a))
        BY <1>2, Twins, UnderOrder
      <4> QED BY <2>2, <2>4, <4>1
    <3>2. fs[Twin(r, c)] = None
      BY <1>1, <2>1, <2>2, <3>1, Above DEF TreeInv, Rooted
    <3> QED BY <3>2, Kinds
  <2> QED BY <2>3, <2>4
<1>3. ASSUME NEW r \in Paths, r[1] = Home, NoFold(r), IsDir(r)
      PROVE  Clear(r) /\ Real(r) = r /\ fs[r] = Dir
  <2>1. r # NoPath
    BY PathsShape
  <2>2. ASSUME NEW a \in Paths, NEW c \in Pkgs, r \in Under(a), fs[a] = Link(Twin(a, c)),
               Real(r) = Twin(r, c)
        PROVE  FALSE
    <3>1. ~Folded(a)
      BY <1>3, <2>2 DEF NoFold
    <3>2. fs[Twin(r, c)] # Dir
      BY <1>2, <1>3, <2>2, <3>1
    <3>3. Twin(r, c) # NoPath
      BY Twins, PathsShape
    <3> QED BY <1>3, <2>2, <3>2, <3>3 DEF IsDir, EntryAt
  <2>3. Clear(r) /\ Real(r) = r
    BY <1>3, <2>2, Lookup
  <2> QED BY <1>3, <2>1, <2>3 DEF IsDir, EntryAt
<1>4. ASSUME Len(q) > 1, NoFold(Front(q)), LStat(q) # None
      PROVE  Phys(q) = q
  <2>1. ASSUME NEW a \in Paths, NEW c \in Pkgs, q \in Under(a), fs[a] = Link(Twin(a, c)),
               q # a, Phys(q) = Twin(q, c)
        PROVE  FALSE
    <3>1. Front(q) \in Under(a)
      BY <2>1, UnderOrder
    <3>2. ~Folded(a)
      BY <1>4, <2>1, <3>1 DEF NoFold
    <3>3. fs[Twin(q, c)] = None
      BY <1>2, <2>1, <3>2
    <3>4. Twin(q, c) # NoPath
      BY Twins, PathsShape
    <3> QED BY <1>4, <2>1, <3>3, <3>4 DEF LStat, EntryAt
  <2> QED BY <2>1, Lookup
<1>5. ASSUME Len(q) > 1, NoFold(Front(q)), IsDir(Front(q))
      PROVE  Phys(q) = q /\ fs[Front(q)] = Dir
  <2>1. Front(q) \in Paths /\ Front(q)[1] = Home
    BY <1>5, PathsShape
  <2>2. Clear(Front(q)) /\ fs[Front(q)] = Dir
    BY <1>3, <1>5, <2>1
  <2> QED BY <1>1, <2>2, PhysClear
<1> QED BY <1>1, <1>3, <1>4, <1>5 DEF LStat, EntryAt

\* What is_symlink_pointing_to says of a path under Home: the link is this one.
LEMMA PointsToIs ==
    ASSUME Calm, NEW rel \in Rels \ {<<>>}, NEW c \in Pkgs,
           NEW r \in {NoPath, Path(c, rel), <<c>>}
    PROVE  /\ PointsTo(Path(Home, rel), Path(c, rel), r) <=> LinkedTo(fs, c, rel)
           /\ RealSource(Path(c, rel)) = Path(c, rel)
<1> DEFINE p == Path(Home, rel)
           q == Path(c, rel)
<1>1. p \in Paths /\ p[1] = Home /\ q \in Paths /\ q[1] = c /\ Len(q) = Len(rel) + 1
  BY PathShape
<1>2. Phys(q) = q /\ fs[q].kind # "link" /\ q # NoPath
  BY <1>1, PackageFacts, PathsShape
<1>3. RealSource(q) = q
  BY <1>2 DEF RealSource, IsSymlink, LStat, EntryAt
<1>4. <<c>> # q
  <2>1. rel \in Seq(Parts) /\ rel # <<>> /\ Len(rel) \in Nat
    BY RelSeq
  <2>2. Len(rel) # 0
    BY <2>1, EmptySeq
  <2>3. Len(q) > 1
    BY <1>1, <2>1, <2>2
  <2> HIDE DEF q
  <2> QED BY <2>3, NotRoot
<1>5. ASSUME fs[p].kind = "link"
      PROVE  \E d \in Pkgs : /\ fs[p] = Link(Path(d, rel)) /\ fs[p].to = Path(d, rel)
                             /\ Path(d, rel) # <<c>> /\ ~IsSymlink(Path(d, rel))
                             /\ Path(d, rel) # NoPath
  <2>1. PICK d \in Pkgs : fs[p] = Link(Twin(p, d))
    BY <1>1, <1>5 DEF Calm, World
  <2>2. Tail(p) = rel
    <3>1. rel \in Seq(Parts) /\ Home \in Parts
      BY RelSeq DEF Parts
    <3> QED BY <3>1 DEF Path
  <2>3. Twin(p, d) = Path(d, rel)
    BY <2>2 DEF Twin
  <2>4. Path(d, rel) \in Paths /\ Path(d, rel)[1] = d /\ Len(Path(d, rel)) = Len(rel) + 1
    BY PathShape
  <2>5. Phys(Path(d, rel)) = Path(d, rel) /\ fs[Path(d, rel)].kind # "link"
        /\ Path(d, rel) # NoPath
    BY <2>4, PackageFacts, PathsShape
  <2>6. Len(Path(d, rel)) > 1
    <3>1. rel \in Seq(Parts) /\ rel # <<>> /\ Len(rel) \in Nat
      BY RelSeq
    <3>2. Len(rel) # 0
      BY <3>1, EmptySeq
    <3> QED BY <2>4, <3>1, <3>2
  <2> HIDE DEF p, q
  <2>7. Path(d, rel) # <<c>>
    BY <2>6, NotRoot
  <2>8. ~IsSymlink(Path(d, rel))
    BY <2>5 DEF IsSymlink, LStat, EntryAt
  <2> QED BY <2>1, <2>3, <2>5, <2>7, <2>8, Kinds
<1>6. /\ IsSymlink(p) <=> fs[p].kind = "link"
      /\ fs[p].kind = "link" => LStat(p) = fs[p]
  BY <1>1, LookupLink
<1> DEFINE pt == PointsTo(p, q, r)
<1>7. pt => fs[p] = Link(q)
  <2>1. SUFFICES ASSUME pt PROVE fs[p] = Link(q)
    OBVIOUS
  <2>2. IsSymlink(p) /\ (\/ LStat(p).to = q
                         \/ r # NoPath /\ LStat(p).to = r
                         \/ IsSymlink(LStat(p).to))
    BY <2>1 DEF PointsTo
  <2>3. fs[p].kind = "link" /\ LStat(p) = fs[p]
    BY <1>6, <2>2
  <2> HIDE DEF p, q, pt
  <2> QED BY <1>5, <2>2, <2>3 DEF q
<1>8. fs[p] = Link(q) => pt
  BY <1>6, Kinds DEF PointsTo
<1> QED BY <1>3, <1>7, <1>8 DEF LinkedTo

\* Whether a package is linked, and by which files.
LEMMA StatusIs ==
    ASSUME Calm, NEW c \in Pkgs
    PROVE  /\ HasStatus(c) <=> \E rel \in Collect(c) : LinkedTo(fs, c, rel)
           /\ IsPackageLinked(c) <=> \E rel \in Collect(c) : LinkedTo(fs, c, rel)
<1>1. Collect(c) \subseteq Rels \ {<<>>} /\ (Collect(c) # {} => IsDir(<<c>>))
  BY CollectIs
<1>2. \A rel \in Collect(c) :
         /\ PointsTo(Path(Home, rel), Path(c, rel), Path(c, rel)) <=> LinkedTo(fs, c, rel)
         /\ PointsTo(Path(Home, rel), Path(c, rel), NoPath) <=> LinkedTo(fs, c, rel)
  BY <1>1, PointsToIs
<1> QED BY <1>1, <1>2 DEF HasStatus, IsPackageLinked

\* A path to a package through a link, or one above it.
LEMMA LinkedIs ==
    ASSUME Calm, NEW c \in Pkgs, NEW rel \in Rels \ {<<>>}, NEW k \in 1..Len(rel),
           LinkedTo(fs, c, SubSeq(rel, 1, k))
    PROVE  Linked(c, rel)
<1> DEFINE q == Path(Home, rel)
           s == SubSeq(rel, 1, k)
           a == Path(Home, s)
<1>1. s \in Rels \ {<<>>} /\ q \in Under(a) /\ Len(a) = k + 1
  BY RelPrefixes
<1>2. \A r \in Rels, d \in {Home} \union Pkgs : Tail(Path(Home, r)) = r /\ Path(d, r) \in Paths
                                              /\ Path(d, r)[1] = d
  <2>1. \A r \in Rels : r \in Seq(Parts) /\ Home \in Parts
    BY RelSeq DEF Parts
  <2>2. \A r \in Rels : Tail(Path(Home, r)) = r
    BY <2>1 DEF Path
  <2> QED BY <2>2, PathShape
<1>3. Twin(a, c) = Path(c, s) /\ Twin(q, c) = Path(c, rel) /\ a \in Paths /\ Path(c, rel) \in Paths
      /\ Path(c, rel)[1] = c
  BY <1>1, <1>2 DEF Twin
<1>4. fs[a] = Link(Twin(a, c))
  BY <1>3 DEF LinkedTo
<1>5. \A b \in Paths : b[1] = c => fs[b].kind # "link"
  BY TreeAssumption DEF Calm, World
<1>6. Len(a) > 1 /\ TreeInv
  BY <1>1 DEF Calm
<1> HIDE DEF a, s, q
<1>7. Real(q) = Twin(q, c)
  BY <1>1, <1>3, <1>4, <1>5, <1>6, RealLinked
<1>8. Real(Path(c, rel)) = Path(c, rel)
  BY <1>3, PackageFacts
<1> QED BY <1>3, <1>7, <1>8 DEF Linked, q

-----------------------------------------------------------------------------
(* What the steps do to such trees *)

\* p is removed, with the directories above it that are empty then.
RemovedWith(p, gone) ==
    /\ fs' = [q \in Paths |-> IF q \in gone THEN None ELSE fs[q]]
    /\ p \in gone
    /\ \A r \in gone : r = p \/ (p \in Under(r) /\ Len(r) > 1 /\ fs[r] = Dir)
    /\ \A r \in Paths : /\ r[1] = Home /\ Len(r) > 1 /\ fs[r] = Dir /\ saved[r] = {}
                        /\ Children(r) # {} /\ Children(r) \subseteq gone
                        => r \in gone

\* The parents of a link that unlink_package removes, by what is in them.
LEMMA EmptiedIs ==
    ASSUME Calm, NEW p \in Paths, p[1] = Home, fs[p].kind = "link"
    PROVE  LET gone == EmptiedParents(p) \union {Phys(p)}
           IN  /\ p \in gone /\ gone \subseteq Paths
               /\ \A r \in gone : r = p \/ (p \in Under(r) /\ Len(r) > 1 /\ fs[r] = Dir)
               /\ \A r \in Paths : /\ r[1] = Home /\ Len(r) > 1 /\ fs[r] = Dir /\ saved[r] = {}
                                   /\ Children(r) # {} /\ Children(r) \subseteq gone
                                   => r \in gone
<1> DEFINE up(k)      == SubSeq(p, 1, k)
           emptied(k) == /\ LStat(up(k)) = Dir
                         /\ Children(Phys(up(k))) = {Phys(up(k + 1))}
                         /\ saved[Phys(up(k))] = {}
           Depths     == {j \in 2..Len(p)-1 : \A i \in j..Len(p)-1 : emptied(i)}
           gone       == EmptiedParents(p) \union {Phys(p)}
<1>1. EmptiedParents(p) = {Phys(up(k)) : k \in Depths}
  BY DEF EmptiedParents
<1>2. TreeInv /\ LinksTyped /\ fs[p] # None /\ p \in Seq(Parts) /\ Len(p) \in Nat /\ Len(p) >= 1
  BY Kinds, PathsShape DEF Calm, TreeInv
<1>3. \A k \in 1..Len(p) :
         /\ up(k) \in Paths /\ Len(up(k)) = k /\ p \in Under(up(k))
         /\ k > 1 => Front(up(k)) = up(k - 1)
         /\ k < Len(p) => up(k) # p
  BY PathPrefixes
<1>4. up(Len(p)) = p
  BY <1>2
<1> HIDE DEF up
<1>5. ASSUME NEW k \in 1..Len(p) PROVE Phys(up(k)) = up(k)
  <2>1. ASSUME Len(up(k)) > 1 PROVE Clear(Front(up(k)))
    <3>1. fs[up(k)] # None
      <4>1. CASE k = Len(p)
        BY <1>2, <1>4, <4>1
      <4>2. CASE k # Len(p)
        <5>1. k < Len(p)
          BY <1>2, <4>2
        <5>2. fs[up(k)] = Dir
          BY <1>2, <1>3, <5>1, Above DEF TreeInv, Rooted
        <5> QED BY <5>2, Kinds
      <4> QED BY <4>1, <4>2
    <3> QED BY <1>2, <1>3, <2>1, <3>1, ClearAbove
  <2> QED BY <1>2, <1>3, <2>1, PhysClear
<1>6. ASSUME NEW r \in gone
      PROVE  \E k \in 2..Len(p) : /\ r = up(k)
                                  /\ k = Len(p) \/ (k \in Depths /\ fs[r] = Dir)
  <2>1. CASE r = Phys(p)
    <3>1. Len(p) > 1
      BY LookupLink
    <3>2. Len(p) \in 2..Len(p) /\ Len(p) \in 1..Len(p)
      BY <1>2, <3>1
    <3> QED BY <1>4, <1>5, <2>1, <3>2
  <2>2. CASE r \in EmptiedParents(p)
    <3>1. PICK k \in Depths : r = Phys(up(k))
      BY <1>1, <2>2
    <3>2. k \in 2..Len(p)-1 /\ emptied(k)
      <4>1. k \in 2..Len(p)-1 /\ \A i \in k..Len(p)-1 : emptied(i)
        OBVIOUS
      <4>2. k \in k..Len(p)-1
        BY <1>2, <4>1
      <4> HIDE DEF emptied
      <4> QED BY <4>1, <4>2
    <3>3. k \in 1..Len(p) /\ k \in 2..Len(p)
      BY <1>2, <3>2
    <3>4. r = up(k)
      BY <1>5, <3>1, <3>3
    <3>5. fs[r] = Dir
      BY <3>1, <3>2, Kinds DEF LStat, EntryAt
    <3> HIDE DEF Depths
    <3> QED BY <3>1, <3>3, <3>4, <3>5
  <2> QED BY <2>1, <2>2
<1>7. p \in gone
  <2>1. Len(p) \in 1..Len(p)
    BY <1>2
  <2> QED BY <1>4, <1>5, <2>1
<1>8. ASSUME NEW r \in gone
      PROVE  r \in Paths /\ (r = p \/ (p \in Under(r) /\ Len(r) > 1 /\ fs[r] = Dir))
  <2>1. PICK k \in 2..Len(p) : r = up(k) /\ (k = Len(p) \/ fs[r] = Dir)
    BY <1>6
  <2>2. k \in 1..Len(p) /\ k > 1
    BY <1>2, <2>1
  <2> HIDE DEF gone
  <2> QED BY <1>3, <1>4, <2>1, <2>2
<1>9. ASSUME NEW r \in Paths, r[1] = Home, Len(r) > 1, fs[r] = Dir, saved[r] = {},
             Children(r) # {}, Children(r) \subseteq gone
      PROVE  r \in gone
  <2>1. \A s \in Children(r) : \E k \in 2..Len(p) : /\ s = up(k) /\ Front(s) = r
                                                    /\ k = Len(p) \/ k \in Depths
    BY <1>6, <1>9 DEF Children
  <2>2. PICK s \in Children(r) : TRUE
    BY <1>9
  <2>3. PICK k \in 2..Len(p) : s = up(k) /\ Front(s) = r /\ (k = Len(p) \/ k \in Depths)
    BY <2>1
  <2>4. k \in 1..Len(p) /\ k - 1 \in 1..Len(p) /\ k > 1 /\ (k - 1) + 1 = k /\ k \in Nat
    BY <1>2, <2>3
  <2>5. r = up(k - 1) /\ Len(r) = k - 1
    BY <1>3, <2>3, <2>4
  <2>6. Children(r) = {up(k)}
    <3>1. ASSUME NEW t \in Children(r) PROVE t = up(k)
      <4>1. PICK j \in 2..Len(p) : t = up(j) /\ Front(t) = r
        BY <2>1
      <4>2. j \in 1..Len(p) /\ j > 1 /\ j - 1 \in 1..Len(p) /\ j \in Nat
        BY <1>2, <4>1
      <4>3. Len(r) = j - 1
        BY <1>3, <4>1, <4>2
      <4>4. j = k
        BY <2>4, <2>5, <4>2, <4>3
      <4> QED BY <4>1, <4>4
    <3> QED BY <2>2, <2>3, <3>1
  <2>7. emptied(k - 1)
    <3>1. Phys(r) = r /\ Phys(up(k)) = up(k) /\ r # NoPath
      BY <1>5, <2>4, <2>5, PathsShape
    <3>2. LStat(r) = Dir
      BY <1>9, <3>1 DEF LStat, EntryAt
    <3> QED BY <1>9, <2>4, <2>5, <2>6, <3>1, <3>2
  <2>8. k - 1 \in Depths
    <3>1. k - 1 \in 2..Len(p)-1
      BY <1>2, <1>9, <2>4, <2>5
    <3>2. ASSUME NEW i \in (k-1)..Len(p)-1 PROVE emptied(i)
      <4>1. CASE i = k - 1
        BY <2>7, <4>1
      <4>2. CASE i # k - 1
        <5>1. i \in k..Len(p)-1 /\ k # Len(p)
          BY <1>2, <2>4, <4>2
        <5>2. k \in Depths
          BY <2>3, <5>1
        <5>3. \A j \in k..Len(p)-1 : emptied(j)
          BY <5>2
        <5> HIDE DEF emptied, Depths
        <5> QED BY <5>1, <5>3
      <4> QED BY <4>1, <4>2
    <3> HIDE DEF emptied
    <3> QED BY <3>1, <3>2
  <2>9. r = Phys(up(k - 1))
    BY <1>5, <2>4, <2>5
  <2> HIDE DEF Depths
  <2> QED BY <1>1, <2>8, <2>9
<1>10. gone \subseteq Paths
  BY <1>8
<1> HIDE DEF gone
<1> QED BY <1>7, <1>8, <1>9, <1>10 DEF gone

\* native_unlink_cb
LEMMA UnlinkFileIs ==
    ASSUME Calm, UnlinkFile, victim \in Pkgs, todo \subseteq Rels \ {<<>>}
    PROVE  \E rel \in todo :
              /\ todo' = todo \ {rel}
              /\ \/ LinkedTo(fs, victim, rel) /\ UNCHANGED failed
                    /\ \E gone \in SUBSET Paths : RemovedWith(Path(Home, rel), gone)
                 \/ ~LinkedTo(fs, victim, rel) /\ UNCHANGED <<fs, failed>>
                 \/ /\ "unlink" \in sc.faults /\ UNCHANGED fs
                    /\ failed' = (failed \/ resume = "idle")
<1>1. PICK rel \in todo :
          LET p == Path(Home, rel)
          IN  /\ todo' = todo \ {rel}
              /\ \/ /\ PointsTo(p, Path(victim, rel), <<victim>>)
                    /\ fs' = [q \in Paths |->
                                IF q \in EmptiedParents(p) \union {Phys(p)}
                                THEN None ELSE fs[q]]
                    /\ UNCHANGED failed
                 \/ /\ ~PointsTo(p, Path(victim, rel), <<victim>>)
                    /\ UNCHANGED <<fs, failed>>
                 \/ /\ "unlink" \in sc.faults
                    /\ failed' = (failed \/ resume = "idle")
                    /\ UNCHANGED fs
  BY DEF UnlinkFile
<1> DEFINE p    == Path(Home, rel)
           gone == EmptiedParents(p) \union {Phys(p)}
<1>2. PointsTo(p, Path(victim, rel), <<victim>>) <=> LinkedTo(fs, victim, rel)
  BY PointsToIs
<1>3. ASSUME LinkedTo(fs, victim, rel),
             fs' = [q \in Paths |-> IF q \in gone THEN None ELSE fs[q]]
      PROVE  \E g \in SUBSET Paths : RemovedWith(p, g)
  <2>1. p \in Paths /\ p[1] = Home /\ fs[p].kind = "link"
    BY <1>3, Kinds, PathShape DEF LinkedTo
  <2>2. /\ p \in gone /\ gone \subseteq Paths
        /\ \A r \in gone : r = p \/ (p \in Under(r) /\ Len(r) > 1 /\ fs[r] = Dir)
        /\ \A r \in Paths : /\ r[1] = Home /\ Len(r) > 1 /\ fs[r] = Dir /\ saved[r] = {}
                            /\ Children(r) # {} /\ Children(r) \subseteq gone
                            => r \in gone
    <3> HIDE DEF p
    <3> QED BY <2>1, EmptiedIs
  <2> HIDE DEF p, gone
  <2> QED BY <1>3, <2>2 DEF RemovedWith
<1>4. CASE LinkedTo(fs, victim, rel) /\ UNCHANGED failed
           /\ fs' = [q \in Paths |-> IF q \in gone THEN None ELSE fs[q]]
  BY <1>1, <1>3, <1>4
<1>5. CASE ~LinkedTo(fs, victim, rel) /\ UNCHANGED <<fs, failed>>
  BY <1>1, <1>5
<1>6. CASE /\ "unlink" \in sc.faults /\ UNCHANGED fs
           /\ failed' = (failed \/ resume = "idle")
  BY <1>1, <1>6
<1> QED BY <1>1, <1>2, <1>4, <1>5, <1>6

\* The link p to a directory of package c becomes a directory of links.
UnfoldedInto(p, c) ==
    fs' = [r \in Paths |-> IF r = p THEN Dir
                           ELSE IF Len(r) > 1 /\ Front(r) = p /\ fs[Twin(r, c)] # None
                           THEN Link(Twin(r, c))
                           ELSE fs[r]]

\* unfold_symlink_cb
LEMMA UnfoldLinkIs ==
    ASSUME Calm, UnfoldLink, \A p \in pending : p \in Paths /\ fs[p].kind = "link"
    PROVE  /\ saved' = saved
           /\ \E p \in pending :
                 /\ pending' = pending \ {p} /\ visited' = visited \union {p}
                 /\ \/ /\ Folded(p)
                       /\ \E c \in Pkgs : fs[p] = Link(Twin(p, c)) /\ UnfoldedInto(p, c)
                    \/ /\ p \in visited \/ ~Folded(p)
                       /\ UNCHANGED fs
<1>1. PICK p \in pending :
          /\ pending' = pending \ {p}
          /\ visited' = visited \union {p}
          /\ \/ /\ p \notin visited /\ IsFolded(p)
                /\ fs' = Unfolded(p)
                /\ saved' = [saved EXCEPT ![Phys(p)] = {{} : b \in saved[Real(p)]}]
             \/ /\ p \in visited \/ ~IsFolded(p)
                /\ UNCHANGED treeVars
  BY DEF UnfoldLink, Calm, Stowed
<1>2. p \in Paths /\ fs[p].kind = "link" /\ p[1] = Home
  BY DEF Calm, World
<1>3. PICK c \in Pkgs : fs[p] = Link(Twin(p, c))
  BY <1>2 DEF Calm, World
<1>4. fs[p].to = Twin(p, c) /\ Twin(p, c)[1] = c /\ Twin(p, c) \in Paths
  BY <1>2, <1>3, Kinds, Twins
<1>5. /\ IsSymlink(p) /\ Phys(p) = p /\ LStat(p) = fs[p] /\ Real(p) = Twin(p, c)
      /\ IsDir(p) <=> Folded(p)
  BY <1>2, <1>4, LookupLink
<1>6. IsFolded(p) <=> Folded(p)
  BY <1>4, <1>5 DEF IsFolded
<1>7. ASSUME fs' = Unfolded(p) PROVE UnfoldedInto(p, c)
  <2>1. ASSUME NEW r \in Paths
        PROVE  /\ r # <<r[1]>> <=> Len(r) > 1
               /\ Len(r) > 1 /\ Front(r) = p =>
                     /\ Append(Twin(p, c), Last(r)) = Twin(r, c)
                     /\ Append(Twin(p, c), Last(r)) \in Children(Twin(p, c))
                          <=> fs[Twin(r, c)] # None
    <3>1. r # <<r[1]>> <=> Len(r) > 1
      <4>1. Len(r) > 1 => r # <<r[1]>>
        BY NotRoot, Zenon
      <4>2. Len(r) >= 1 /\ Len(r) \in Nat /\ (Len(r) = 1 => r = <<r[1]>>)
        BY PathsShape
      <4>3. \A n \in Nat : n >= 1 /\ n # 1 => n > 1
        OBVIOUS
      <4> QED BY <4>1, <4>2, <4>3, Zenon
    <3>2. ASSUME Len(r) > 1, Front(r) = p
          PROVE  /\ Append(Twin(p, c), Last(r)) = Twin(r, c)
                 /\ Append(Twin(p, c), Last(r)) \in Children(Twin(p, c))
                      <=> fs[Twin(r, c)] # None
      <4> DEFINE t == Twin(r, c)
      <4>1. Append(Twin(p, c), Last(r)) = t /\ t \in Paths /\ Front(t) = Twin(p, c) /\ Len(t) > 1
        BY <3>2, Twins
      <4> HIDE DEF t
      <4>2. t # <<t[1]>>
        BY <4>1, NotRoot, Zenon
      <4> QED BY <4>1, <4>2 DEF Children, t
    <3> QED BY <3>1, <3>2
  <2>2. Unfolded(p) =
           [r \in Paths |->
              IF r = p THEN Dir
              ELSE IF r # <<r[1]>> /\ Front(r) = p
                        /\ Append(Twin(p, c), Last(r)) \in Children(Twin(p, c))
              THEN Link(Append(Twin(p, c), Last(r)))
              ELSE fs[r]]
    BY <1>4, <1>5 DEF Unfolded
  <2> QED BY <1>7, <2>1, <2>2 DEF UnfoldedInto
<1>8. ASSUME saved' = [saved EXCEPT ![Phys(p)] = {{} : b \in saved[Real(p)]}]
      PROVE  saved' = saved
  <2>1. saved[Twin(p, c)] = {}
    BY <1>4, PackageFacts
  <2>2. saved[p] = {} /\ saved = [q \in Paths |-> saved[q]]
    BY <1>2, Kinds DEF Calm, TreeInv, SavedInDirs
  <2> QED BY <1>2, <1>5, <1>8, <2>1, <2>2
<1>9. CASE /\ p \notin visited /\ IsFolded(p)
           /\ fs' = Unfolded(p)
           /\ saved' = [saved EXCEPT ![Phys(p)] = {{} : b \in saved[Real(p)]}]
  BY <1>1, <1>3, <1>6, <1>7, <1>8, <1>9
<1>10. CASE (p \in visited \/ ~IsFolded(p)) /\ UNCHANGED treeVars
  BY <1>1, <1>6, <1>10 DEF treeVars
<1> QED BY <1>1, <1>9, <1>10

\* A path is its first names and the rest.
LEMMA SubSeqSplit ==
    ASSUME NEW p \in Seq(Parts), NEW h \in 1..Len(p), NEW k \in h+1..Len(p)
    PROVE  SubSeq(p, 1, h) \o SubSeq(p, h + 1, k) = SubSeq(p, 1, k)
<1> DEFINE a == SubSeq(p, 1, h)
           b == SubSeq(p, h + 1, k)
           c == SubSeq(p, 1, k)
<1>0. Len(p) \in Nat /\ h \in Nat /\ k \in Nat /\ h < k /\ k <= Len(p) /\ h >= 1
  OBVIOUS
<1>1. a \in Seq(Parts) /\ Len(a) = h /\ \A i \in 1..h : a[i] = p[i]
  BY <1>0
<1>2. b \in Seq(Parts) /\ Len(b) = k - h /\ \A i \in 1..k-h : b[i] = p[h + i]
  <2>1. b \in Seq(Parts) /\ Len(b) = k - (h + 1) + 1
        /\ \A i \in 1..(k - (h + 1) + 1) : b[i] = p[(h + 1) + i - 1]
    BY <1>0, SubSeqProperties
  <2>2. k - (h + 1) + 1 = k - h /\ \A i \in 1..k-h : (h + 1) + i - 1 = h + i
    BY <1>0
  <2> HIDE DEF b
  <2> QED BY <2>1, <2>2
<1>3. c \in Seq(Parts) /\ Len(c) = k /\ \A i \in 1..k : c[i] = p[i]
  BY <1>0
<1> HIDE DEF a, b, c
<1>4. a \o b \in Seq(Parts) /\ Len(a \o b) = k
  <2>1. \A m, n, j \in Nat : m = n /\ j = k - n /\ n = h => m + j = k
    BY <1>0
  <2>2. a \o b \in Seq(Parts) /\ Len(a \o b) = Len(a) + Len(b)
    BY <1>1, <1>2, ConcatProperties
  <2>3. Len(a) \in Nat /\ Len(b) \in Nat
    BY <1>1, <1>2, LenProperties
  <2> QED BY <1>0, <1>1, <1>2, <2>1, <2>2, <2>3, Zenon
<1>5. ASSUME NEW i \in 1..k PROVE (a \o b)[i] = c[i]
  <2>0. \A j \in 1..Len(a) + Len(b) :
           (a \o b)[j] = IF j <= Len(a) THEN a[j] ELSE b[j - Len(a)]
    BY <1>1, <1>2, ConcatProperties
  <2>01. Len(a) + Len(b) = k
    BY <1>0, <1>1, <1>2
  <2>02. (a \o b)[i] = IF i <= h THEN a[i] ELSE b[i - h]
    BY <1>1, <2>0, <2>01, Zenon
  <2>1. CASE i <= h
    <3>1. i \in 1..h
      BY <1>0, <2>1
    <3> QED BY <1>1, <1>3, <2>02, <2>1, <3>1, Zenon
  <2>2. CASE ~(i <= h)
    <3>1. i - h \in 1..k-h /\ h + (i - h) = i
      BY <1>0, <2>2
    <3>2. (a \o b)[i] = b[i - h]
      BY <2>02, <2>2
    <3>3. b[i - h] = p[h + (i - h)]
      BY <1>2, <3>1
    <3> QED BY <1>3, <3>1, <3>2, <3>3
  <2> QED BY <2>1, <2>2
<1>6. a \o b = c
  BY <1>3, <1>4, <1>5, SeqEqual
<1> QED BY <1>6 DEF a, b, c

\* mkdir_p makes the missing directories of the path itself.
LEMMA MkdirIs ==
    ASSUME Calm, NEW rel \in Rels, NoFold(Path(Home, rel)), NEW r \in MkdirP(Path(Home, rel))
    PROVE  r \in Paths /\ r[1] = Home /\ fs[r] = None /\ Path(Home, rel) \in Under(r)
<1> DEFINE p     == Path(Home, rel)
           up(k) == SubSeq(p, 1, k)
           Known == {k \in 1..Len(p) : IsDir(up(k))}
           h     == Max(Known)
           new   == {Real(up(h)) \o SubSeq(p, h + 1, k) : k \in h+1..Len(p)}
<1>1. p \in Paths /\ p[1] = Home /\ p \in Seq(Parts) /\ Len(p) \in Nat /\ Len(p) >= 1
  BY PathShape, PathsShape
<1>2. MkdirP(p) = IF h < Len(p) /\ LStat(up(h + 1)) = None /\ new \subseteq Paths THEN new ELSE {}
  BY DEF MkdirP
<1>3. r \in new
  BY <1>2
<1>4. fs[r] = None
  <2>1. rel \in Seq(Parts) /\ TreeInv
    BY RelSeq DEF Calm
  <2>2. \A s \in MkdirP(Path(Home, rel)) : fs[s] = None
    BY <2>1, MkdirFacts
  <2> QED BY <2>2
<1>5. h \in 1..Len(p) /\ IsDir(up(h))
  <2>0. 1 \in 1..Len(p)
    BY <1>1
  <2>1. up(1) = <<Home>>
    <3>1. up(1) \in Paths /\ Len(up(1)) = 1 /\ p \in Under(up(1))
      BY <1>1, <2>0, PathPrefixes
    <3> HIDE DEF up
    <3>2. up(1) = <<up(1)[1]>> /\ up(1)[1] = p[1]
      BY <3>1, PathsShape, UnderOrder
    <3> QED BY <1>1, <3>2
  <2>2. IsDir(<<Home>>)
    <3>1. Real(<<Home>>) = <<Home>>
      <4>1. <<Home>> \in Seq(Parts) /\ Len(<<Home>>) <= 1 /\ <<Home>> \in Paths
        BY RootPath, PathsShape
      <4> QED BY <4>1, RealIsPlace DEF Calm, TreeInv, AtRoot
    <3> QED BY <3>1, RootPath, PathsShape DEF IsDir, EntryAt, Calm, TreeInv
  <2>3. 1 \in Known
    <3>1. IsDir(up(1))
      BY <2>1, <2>2
    <3> HIDE DEF up
    <3> QED BY <2>0, <3>1
  <2>4. h \in Known
    <3>1. Known \subseteq 1..Len(p) /\ Known # {}
      BY <2>3
    <3> HIDE DEF Known
    <3> QED BY <1>1, <3>1, GreatestNat
  <2> QED BY <2>4
<1> HIDE DEF h, p
<1>6. up(h) \in Paths /\ p \in Under(up(h))
  BY <1>1, <1>5, PathPrefixes
<1>7. Real(up(h)) = up(h)
  <2>1. NoFold(up(h))
    <3>1. \A a \in Paths : up(h) \in Under(a) => p \in Under(a)
      BY <1>6, UnderOrder
    <3> QED BY <3>1 DEF NoFold, p
  <2>2. up(h)[1] = Home
    BY <1>1, <1>6, UnderOrder
  <2> HIDE DEF up
  <2> QED BY <1>5, <1>6, <2>1, <2>2, LookupUnfolded
<1>8. PICK k \in h+1..Len(p) : r = up(h) \o SubSeq(p, h + 1, k)
  BY <1>3, <1>7
<1>9. r = SubSeq(p, 1, k) /\ k \in 1..Len(p)
  BY <1>1, <1>5, <1>8, SubSeqSplit
<1>10. r \in Paths /\ p \in Under(r)
  BY <1>1, <1>9, PathPrefixes
<1>11. r[1] = Home
  BY <1>1, <1>10, UnderOrder
<1> QED BY <1>4, <1>10, <1>11 DEF p

\* What is at p goes to a backup, with all that is under it, and p may become a link.
BackedUp(p, q, linked) ==
    /\ fs' = [r \in Paths |-> IF r = p /\ linked THEN Link(q)
                              ELSE IF r \in Under(p) THEN None ELSE fs[r]]
    /\ \E b : saved' = [r \in Paths |-> IF r \in Under(p) THEN {}
                                        ELSE IF r = Front(p) THEN saved[r] \union {b}
                                        ELSE saved[r]]
    /\ failed' = (failed \/ ~linked)

\* native_link_cb
LEMMA LinkFileIs ==
    ASSUME Calm, LinkFile, pkg \in Pkgs, todo \subseteq Rels \ {<<>>},
           \A rel \in todo : NoFold(Path(Home, rel))
    PROVE  \E rel \in todo :
              LET p == Path(Home, rel)
                  q == Path(pkg, rel)
              IN  /\ todo' = todo \ {rel}
                  /\ \/ LinkedTo(fs, pkg, rel) /\ UNCHANGED <<fs, saved, failed>>
                     \/ /\ fs[p] = None \/ fs[p].kind = "link"
                        /\ fs' = [fs EXCEPT ![p] = Link(q)]
                        /\ UNCHANGED <<saved, failed>>
                     \/ /\ fs[p] # None /\ fs[p].kind # "link"
                        /\ \E linked \in BOOLEAN : BackedUp(p, q, linked)
                     \/ failed' = TRUE /\ UNCHANGED <<fs, saved>>
<1>1. PICK rel \in todo :
          LET p == Path(Home, rel)
              q == Path(pkg, rel)
          IN  /\ todo' = todo \ {rel}
              /\ \/ AlreadyLinked(p, q) \/ ReplaceLink(p, q) \/ BackUp(p, q)
                 \/ MakeLink(p, q) \/ LinkFails(p, q)
  BY DEF LinkFile
<1> DEFINE p == Path(Home, rel)
           q == Path(pkg, rel)
<1>2. rel \in Rels \ {<<>>} /\ p \in Paths /\ p[1] = Home /\ Len(p) > 1
  <2>1. rel \in Seq(Parts) /\ rel # <<>> /\ rel \in Rels /\ Len(rel) \in Nat
    BY RelSeq
  <2>2. Len(rel) # 0
    BY <2>1, EmptySeq
  <2>3. p \in Paths /\ p[1] = Home /\ Len(p) = Len(rel) + 1
    BY <2>1, PathShape
  <2> QED BY <2>1, <2>2, <2>3
<1>3. NoFold(Front(p))
  <2>1. NoFold(p) /\ \A a \in Paths : Front(p) \in Under(a) => p \in Under(a)
    BY <1>2, UnderFacts
  <2> QED BY <2>1 DEF NoFold
<1>4. PointsTo(p, q, RealSource(q)) <=> LinkedTo(fs, pkg, rel)
  BY <1>2, PointsToIs
<1> HIDE DEF p, q
<1>5. /\ IsSymlink(p) <=> fs[p].kind = "link"
      /\ fs[p].kind = "link" => Phys(p) = p
      /\ LStat(p) # None => Phys(p) = p /\ LStat(p) = fs[p]
      /\ LStat(p) = None => fs[p] = None
      /\ IsDir(Front(p)) => Phys(p) = p
  BY <1>2, <1>3, LookupLink, LookupUnfolded
<1>6. CASE AlreadyLinked(p, q)
  BY <1>1, <1>4, <1>6 DEF AlreadyLinked, treeVars, p, q
<1>7. CASE ReplaceLink(p, q)
  <2>1. fs[p].kind = "link" /\ fs' = [fs EXCEPT ![p] = Link(q)] /\ UNCHANGED <<saved, failed>>
    BY <1>5, <1>7 DEF ReplaceLink
  <2> QED BY <1>1, <2>1 DEF p, q
<1>8. CASE BackUp(p, q)
  <2>1. Phys(p) = p /\ fs[p] # None /\ fs[p].kind # "link"
    BY <1>5, <1>8 DEF BackUp
  <2>2. PICK linked \in BOOLEAN :
              /\ fs' = [r \in Paths |->
                          IF r = p /\ linked THEN Link(q)
                          ELSE IF r \in Under(p) THEN None
                          ELSE fs[r]]
              /\ failed' = (failed \/ ~linked)
    BY <1>8, <2>1 DEF BackUp
  <2>3. saved' = [r \in Paths |->
                     IF r \in Under(p) THEN {}
                     ELSE IF r = Front(p) THEN saved[r] \union {DataUnder(p)}
                     ELSE saved[r]]
    BY <1>8, <2>1 DEF BackUp
  <2>4. BackedUp(p, q, linked)
    BY <2>2, <2>3 DEF BackedUp
  <2> QED BY <1>1, <2>1, <2>4 DEF p, q
<1>9. CASE MakeLink(p, q)
  <2>1. fs[p] = None /\ fs' = [fs EXCEPT ![p] = Link(q)] /\ UNCHANGED <<saved, failed>>
    BY <1>5, <1>9 DEF MakeLink
  <2> QED BY <1>1, <2>1 DEF p, q
<1>10. CASE LinkFails(p, q)
  BY <1>1, <1>10 DEF LinkFails, treeVars, p, q
<1> QED BY <1>1, <1>6, <1>7, <1>8, <1>9, <1>10 DEF p, q

-----------------------------------------------------------------------------
(* The stages of an operation *)

\* link_package unlinks what is in its way, and the whole of it.
Clearing ==
    \/ stage \in {"exclude", "collide"}
    \/ stage = "unlink" /\ resume \in {"exclude", "collide"}

Linking ==
    \/ Clearing
    \/ stage \in {"mkdir", "link"}
    \/ stage = "unfold" /\ op # "fix"

\* What each stage works on.
JobKind ==
    /\ op = "fix" => pkg = NoPkg
    /\ stage # "idle" => done = NotEnded
    /\ stage # "idle" /\ op # "fix" => fs[<<pkg>>] = Dir
    /\ done.op # "none" => done.op = op /\ done.pkg = pkg
    /\ Linking => op \in {"link", "relink"} /\ files = Wanted(pkg)
    /\ stage = "unlink" =>
         /\ victim \in Pkgs /\ fs[<<victim>>] = Dir /\ todo \subseteq Wanted(victim)
         /\ \/ resume = "idle" /\ op = "unlink" /\ victim = pkg
            \/ resume = "link" /\ op = "relink" /\ victim = pkg
            \/ resume = "delete" /\ op = "remove" /\ victim = pkg
            \/ resume \in {"exclude", "collide"}
    /\ stage = "delete" => op = "remove"
    /\ stage = "mkdir" => todo \subseteq ParentRels(files)
    /\ stage = "link" => todo \subseteq files

\* After the walk no directory on the way of a file is folded.
WalkInv ==
    /\ stage = "unfold" =>
          /\ \A q \in pending : q \in Paths /\ fs[q].kind = "link"
          /\ \A q \in visited : q \in Paths /\ ~Folded(q)
          /\ op # "fix" =>
               \A rel \in files : \A q \in Paths :
                  Path(Home, rel) \in Under(q) /\ Len(q) > 1 =>
                     Tail(q) \in todo \/ q \in pending \/ ~Folded(q)
    /\ stage \in {"mkdir", "link"} => \A rel \in files : NoFold(Path(Home, rel))

Steady == Calm /\ IInv /\ JobTyped /\ JobKind /\ WalkInv

\* The place of an entry in a tree.
LEMMA FilePath ==
    ASSUME NEW rel \in Rels \ {<<>>}, NEW root \in {Home} \union Pkgs
    PROVE  /\ Path(root, rel) \in Paths /\ Path(root, rel)[1] = root /\ Len(Path(root, rel)) > 1
           /\ Tail(Path(root, rel)) = rel /\ rel \in Seq(Parts) /\ Len(rel) > 0
           /\ \A c : Twin(Path(root, rel), c) = Path(c, rel)
           /\ Front(rel) \in Rels /\ Front(Path(root, rel)) = Path(root, Front(rel))
<1>1. rel \in Rels /\ rel # <<>> /\ rel \in Seq(Parts) /\ Len(rel) \in Nat /\ root \in Parts
  BY RelSeq DEF Parts
<1>2. Len(rel) # 0
  BY <1>1, EmptySeq
<1>3. Tail(Path(root, rel)) = rel
  BY <1>1 DEF Path
<1>4. /\ Path(root, rel) \in Paths /\ Path(root, rel)[1] = root
      /\ Len(Path(root, rel)) = Len(rel) + 1
      /\ Front(rel) \in Rels /\ Front(Path(root, rel)) = Path(root, Front(rel))
  BY <1>1, PathShape
<1>5. Len(Path(root, rel)) > 1 /\ Len(rel) > 0
  BY <1>1, <1>2, <1>4
<1>6. \A c : Twin(Path(root, rel), c) = Path(c, rel)
  BY <1>3 DEF Twin
<1> QED BY <1>1, <1>3, <1>4, <1>5, <1>6

\* A path is a root or lies in a directory.
LEMMA RootOrNot ==
    ASSUME NEW q \in Paths
    PROVE  \/ Len(q) = 1 /\ ~(Len(q) > 1) /\ q = <<q[1]>>
           \/ Len(q) > 1 /\ q # <<q[1]>>
<1>1. q \in Seq(Parts) /\ Len(q) >= 1 /\ Len(q) \in Nat /\ (Len(q) = 1 => q = <<q[1]>>)
  BY PathsShape
<1>2. \A n \in Nat : n >= 1 => (n = 1 /\ ~(n > 1)) \/ n > 1
  OBVIOUS
<1>3. Len(q) > 1 => q # <<q[1]>>
  BY NotRoot, Zenon
<1> QED BY <1>1, <1>2, <1>3, Zenon

\* What each stage may count on.
LEMMA Ready ==
    ASSUME Steady
    PROVE  /\ stage = "unlink" =>
                /\ victim \in Pkgs /\ todo \subseteq Rels \ {<<>>} /\ todo \subseteq Plain(victim)
           /\ stage = "unfold" => \A p \in pending : p \in Paths /\ fs[p].kind = "link"
           /\ stage = "mkdir" => \A rel \in todo : rel \in Rels /\ NoFold(Path(Home, rel))
           /\ stage = "link" => /\ pkg \in Pkgs /\ todo \subseteq Rels \ {<<>>}
                                /\ todo \subseteq Plain(pkg)
                                /\ \A rel \in todo : NoFold(Path(Home, rel))
           /\ stage \notin {"idle", "unfold"} => pkg \in Pkgs
           /\ Linking => pkg \in Pkgs /\ files = Wanted(pkg)
<1>1. /\ Calm /\ IInv /\ JobTyped /\ JobKind /\ WalkInv
      /\ stage \notin {"idle", "unfold"} => op # "fix"
      /\ op # "fix" => pkg \in Pkgs
      /\ files \subseteq Rels \ {<<>>}
  BY DEF Steady, IInv, JobInv
<1>2. \A c \in Pkgs : Wanted(c) \subseteq Plain(c) /\ Plain(c) \subseteq Rels \ {<<>>}
  BY <1>1, CollectIs
<1>3. Linking => pkg \in Pkgs /\ files = Wanted(pkg)
  BY <1>1 DEF JobKind
<1>4. ASSUME stage = "mkdir", NEW rel \in todo PROVE rel \in Rels /\ NoFold(Path(Home, rel))
  <2>1. PICK f \in files : rel = Front(f)
    BY <1>1, <1>4 DEF JobKind, ParentRels
  <2>2. NoFold(Path(Home, f))
    BY <1>1, <1>4 DEF WalkInv
  <2>3. /\ Front(f) \in Rels /\ Path(Home, f) \in Paths /\ Path(Home, rel) \in Paths
        /\ Front(Path(Home, f)) = Path(Home, rel) /\ Len(Path(Home, f)) > 1
    <3>1. f \in Rels \ {<<>>}
      BY <1>1
    <3> QED BY <2>1, <3>1, FilePath, PathShape
  <2>4. \A a \in Paths : Path(Home, rel) \in Under(a) => Path(Home, f) \in Under(a)
    BY <2>3, UnderFacts
  <2> QED BY <2>1, <2>2, <2>3, <2>4 DEF NoFold
<1>5. stage = "link" => todo \subseteq files /\ \A rel \in files : NoFold(Path(Home, rel))
  BY <1>1 DEF JobKind, WalkInv
<1>6. stage = "link" => Linking
  BY DEF Linking
<1> QED BY <1>1, <1>2, <1>3, <1>4, <1>5, <1>6 DEF JobKind, WalkInv

\* The scenario never changes.
LEMMA SameScenario ==
    ASSUME Next
    PROVE  sc' = sc /\ \A c : Plain(c)' = Plain(c)
BY DEF Next, User, Start, Work, UserWrite, UserLink, BeginFix, BeginLink, BeginUnlink,
       BeginRelink, BeginRemove, Begin, UnlinkFile, UnlinkDone, DeleteEntry, Exclude,
       DetectConflicts, UnlinkConflict, BeginWalk, WalkPath, UnfoldLink, WalkDone,
       MakeParents, ParentsMade, LinkFile, LinkDone, Crash, End, inputs, Plain

\* Only package_remove changes a package.
LEMMA HomeOnly ==
    ASSUME Steady, Next, NEW q \in Paths, q[1] \in Pkgs
    PROVE  DeleteEntry \/ (fs'[q] = fs[q] /\ saved'[q] = saved[q])
<1>1. /\ Calm /\ Home \notin Pkgs /\ fs = [r \in Paths |-> fs[r]]
      /\ saved = [r \in Paths |-> saved[r]]
      /\ \A p \in Paths : q \in Under(p) => p[1] = q[1]
      /\ \A p \in Paths : p \in Under(q) => p[1] = q[1]
  BY UnderOrder, TreeAssumption DEF Steady, Calm, TreeInv
<1>2. \A rel \in Rels : Path(Home, rel) \in Paths /\ Path(Home, rel)[1] = Home
  BY PathShape
<1>3. Len(q) > 1 => Front(q)[1] = q[1]
  BY PathsShape
<1>4. CASE UserWrite
  <2>1. PICK x \in sc.data \ written, rel \in Rels \ {<<>>} :
            fs' = [r \in Paths |-> IF r = Path(Home, rel) THEN File(x)
                                   ELSE IF IsPrefix(r, Path(Home, rel)) THEN Dir
                                   ELSE fs[r]]
    BY <1>4 DEF UserWrite
  <2>2. q # Path(Home, rel) /\ ~IsPrefix(q, Path(Home, rel)) /\ saved' = saved
    BY <1>1, <1>2, <1>4 DEF Under, UserWrite
  <2> QED BY <1>1, <2>1, <2>2
<1>5. CASE UserLink
  <2>1. PICK l \in sc.links : fs' = [fs EXCEPT ![l[1]] = Link(l[2])]
    BY <1>5 DEF UserLink
  <2>2. l[1][1] = Home /\ saved' = saved
    BY <1>1, <1>5, LinkerAssumption DEF UserLink, Calm
  <2> QED BY <1>1, <2>1, <2>2
<1>6. CASE UnlinkFile
  <2>1. saved' = saved /\ stage = "unlink"
    BY <1>6 DEF UnlinkFile
  <2>2. PICK rel \in todo : \/ UNCHANGED fs
                            \/ \E gone \in SUBSET Paths : RemovedWith(Path(Home, rel), gone)
    BY <1>1, <1>6, <2>1, Ready, UnlinkFileIs
  <2>3. ASSUME NEW gone \in SUBSET Paths, RemovedWith(Path(Home, rel), gone)
        PROVE  fs'[q] = fs[q]
    <3>1. rel \in Rels
      BY <2>1, Ready
    <3>2. q \notin gone
      BY <1>1, <1>2, <2>3, <3>1 DEF RemovedWith
    <3> QED BY <2>3, <3>2 DEF RemovedWith
  <2> QED BY <2>1, <2>2, <2>3
<1>7. CASE UnfoldLink
  <2>1. stage = "unfold"
    BY <1>7 DEF UnfoldLink
  <2>2. /\ saved' = saved
        /\ \E p \in pending : UNCHANGED fs \/ \E c \in Pkgs : UnfoldedInto(p, c)
    BY <1>1, <1>7, <2>1, Ready, UnfoldLinkIs
  <2>3. ASSUME NEW p \in pending, NEW c \in Pkgs, UnfoldedInto(p, c)
        PROVE  fs'[q] = fs[q]
    <3>1. p \in Paths /\ fs[p].kind = "link"
      BY <2>1, Ready
    <3>2. p[1] = Home
      BY <1>1, <3>1 DEF Calm, World
    <3> QED BY <1>1, <1>3, <2>3, <3>2 DEF UnfoldedInto
  <2> QED BY <2>2, <2>3
<1>8. CASE MakeParents
  <2>1. PICK rel \in todo :
            fs' = [r \in Paths |-> IF r \in MkdirP(Path(Home, rel)) THEN Dir ELSE fs[r]]
    BY <1>8 DEF MakeParents
  <2>2. rel \in Rels /\ NoFold(Path(Home, rel))
    BY <1>8, Ready DEF MakeParents
  <2>3. q \notin MkdirP(Path(Home, rel))
    BY <1>1, <2>2, MkdirIs
  <2> QED BY <1>8, <2>1, <2>3 DEF MakeParents
<1>9. CASE LinkFile
  <2>1. stage = "link"
    BY <1>9 DEF LinkFile
  <2>2. PICK rel \in todo :
            \/ UNCHANGED <<fs, saved>>
            \/ fs' = [fs EXCEPT ![Path(Home, rel)] = Link(Path(pkg, rel))] /\ UNCHANGED saved
            \/ \E linked \in BOOLEAN : BackedUp(Path(Home, rel), Path(pkg, rel), linked)
    BY <1>1, <1>9, <2>1, Ready, LinkFileIs
  <2>3. Path(Home, rel) \in Paths /\ Path(Home, rel)[1] = Home /\ Len(Path(Home, rel)) > 1
    <3>1. rel \in Rels \ {<<>>}
      BY <2>1, Ready
    <3> QED BY <3>1, FilePath
  <2>4. q # Path(Home, rel) /\ q \notin Under(Path(Home, rel)) /\ q # Front(Path(Home, rel))
    <3>1. Front(Path(Home, rel))[1] = Home
      BY <2>3, PathsShape
    <3>2. q \in Under(Path(Home, rel)) => q[1] = Home
      BY <2>3, UnderOrder
    <3> QED BY <1>1, <2>3, <3>1, <3>2
  <2>5. ASSUME NEW linked \in BOOLEAN, BackedUp(Path(Home, rel), Path(pkg, rel), linked)
        PROVE  fs'[q] = fs[q] /\ saved'[q] = saved[q]
    BY <2>4, <2>5 DEF BackedUp
  <2> QED BY <1>1, <2>2, <2>4, <2>5
<1>10. CASE UNCHANGED treeVars
  BY <1>10 DEF treeVars
<1>11. DeleteEntry \/ UNCHANGED treeVars \/ UserWrite \/ UserLink \/ UnlinkFile \/ UnfoldLink
       \/ MakeParents \/ LinkFile
  BY DEF Next, User, Start, Work, BeginFix, BeginLink, BeginUnlink, BeginRelink, BeginRemove,
         Begin, UnlinkDone, Exclude, DetectConflicts, UnlinkConflict, BeginWalk, WalkPath,
         WalkDone, ParentsMade, LinkDone, Crash
<1> QED BY <1>4, <1>5, <1>6, <1>7, <1>8, <1>9, <1>10, <1>11

\* Only package_remove changes which files a link of a package makes links to, and
\* whether there is a manifest that names conflicts.
LEMMA WantedStays ==
    ASSUME Steady, Next, ~DeleteEntry, NEW c \in Pkgs
    PROVE  Wanted(c)' = Wanted(c) /\ Conflicts(c)' = Conflicts(c)
<1>1. Plain(c) \subseteq Rels \ {<<>>} /\ Manifest \in Rels
  BY CollectIs, LinkerAssumption DEF Steady
<1>2. \A rel \in Rels : fs'[Path(c, rel)] = fs[Path(c, rel)]
  BY HomeOnly, PathShape
<1> QED BY <1>1, <1>2, SameScenario DEF Wanted, Conflicts

-----------------------------------------------------------------------------
(* The trees from step to step *)

\* What package_remove does in a step: it removes one entry of the package, or
\* fails to, and it ends with the package's directory.
LEMMA Deletes ==
    ASSUME Steady, DeleteEntry
    PROVE  /\ stage = "delete" /\ pkg \in Pkgs /\ op = "remove" /\ sc' = sc
           /\ \E rel \in todo :
                 /\ rel \in Rels /\ Path(pkg, rel) \in Paths /\ Path(pkg, rel)[1] = pkg
                 /\ \A q \in Paths : q # Path(pkg, rel) =>
                       fs'[q] = fs[q] /\ saved'[q] = saved[q]
                 /\ fs'[Path(pkg, rel)] \in {None, fs[Path(pkg, rel)]}
                 /\ saved'[Path(pkg, rel)] = {}
                 /\ \/ End(fs'[<<pkg>>] = None)
                    \/ /\ Path(pkg, rel) # <<pkg>> /\ todo' = todo \ {rel}
                       /\ UNCHANGED <<stage, op, pkg, done, before>>
<1>1. /\ stage = "delete" /\ pkg \in Pkgs /\ op = "remove" /\ Calm /\ todo \subseteq Rels
      /\ fs = [r \in Paths |-> fs[r]] /\ saved = [r \in Paths |-> saved[r]]
  BY Ready DEF DeleteEntry, Steady, Calm, JobKind, JobTyped, TreeInv
<1>2. sc' = sc
  BY SameScenario DEF Next, Work
<1>3. PICK rel \in todo :
          LET q == Path(pkg, rel)
          IN  /\ Delete(q) \/ DeleteFails(q)
              /\ IF rel = <<>>
                 THEN End(fs'[q] = None)
                 ELSE todo' = todo \ {rel} /\ UNCHANGED <<stage, op, pkg, done, before>>
  BY DEF DeleteEntry, jobVars, endVars
<1> DEFINE q == Path(pkg, rel)
<1>4. rel \in Rels /\ q \in Paths /\ q[1] = pkg
  BY <1>1, <1>3, PathShape
<1>5. saved[q] = {}
  BY <1>1, <1>4, PackageFacts
<1>6. /\ \A r \in Paths : r # q => fs'[r] = fs[r] /\ saved'[r] = saved[r]
      /\ fs'[q] \in {None, fs[q]} /\ saved'[q] = {}
  BY <1>1, <1>3, <1>4, <1>5 DEF Delete, DeleteFails
<1>7. IF rel = <<>> THEN q = <<pkg>> ELSE q # <<pkg>>
  <2>1. CASE rel = <<>>
    BY <1>1, <2>1 DEF Path
  <2>2. CASE rel # <<>>
    <3>1. Len(q) > 1
      BY <1>1, <1>4, <2>2, FilePath
    <3> HIDE DEF q
    <3> QED BY <2>2, <3>1, NotRoot
  <2> QED BY <2>1, <2>2
<1> QED BY <1>1, <1>2, <1>3, <1>4, <1>6, <1>7

\* What package_remove leaves of the trees and of the files of the packages.
LEMMA Deleted ==
    ASSUME Steady, DeleteEntry
    PROVE  /\ pkg \in Pkgs /\ op = "remove" /\ sc' = sc
           /\ \A q \in Paths :
                 /\ q[1] # pkg => fs'[q] = fs[q] /\ saved'[q] = saved[q]
                 /\ q[1] = pkg => fs'[q] \in {None, fs[q]} /\ saved'[q] = {} /\ saved[q] = {}
           /\ \A c \in Pkgs : /\ Wanted(c)' \subseteq Wanted(c)
                              /\ c # pkg => Wanted(c)' = Wanted(c)
<1>1. Calm /\ pkg \in Pkgs /\ op = "remove" /\ sc' = sc
  BY Deletes DEF Steady
<1>2. ASSUME NEW q \in Paths
      PROVE  /\ q[1] # pkg => fs'[q] = fs[q] /\ saved'[q] = saved[q]
             /\ q[1] = pkg => fs'[q] \in {None, fs[q]} /\ saved'[q] = {} /\ saved[q] = {}
  <2>1. q[1] = pkg => saved[q] = {}
    BY <1>1, PackageFacts
  <2> QED BY <2>1, Deletes
<1>3. ASSUME NEW c \in Pkgs
      PROVE  /\ Wanted(c)' \subseteq Wanted(c)
             /\ c # pkg => Wanted(c)' = Wanted(c)
  <2>1. Plain(c) \subseteq Rels \ {<<>>} /\ Plain(c)' = Plain(c)
    BY <1>1, CollectIs DEF Plain
  <2>2. \A rel \in Plain(c) : Path(c, rel) \in Paths /\ Path(c, rel)[1] = c
    BY <2>1, PathShape
  <2>3. \A rel \in Plain(c) : /\ fs'[Path(c, rel)] \in {None, fs[Path(c, rel)]}
                              /\ c # pkg => fs'[Path(c, rel)] = fs[Path(c, rel)]
    BY <1>2, <2>2
  <2> QED BY <1>1, <2>1, <2>3 DEF Wanted
<1> QED BY <1>1, <1>2, <1>3

\* A link that a step of the linker makes names a file of a package, at its own place.
LEMMA LinksMade ==
    ASSUME Steady, Work, NEW q \in Paths, fs'[q].kind = "link"
    PROVE  \/ fs'[q] = fs[q]
           \/ /\ q[1] = Home /\ Len(q) > 1
              /\ \E c \in Pkgs : Tail(q) \in Plain(c) /\ fs'[q] = Link(Twin(q, c))
<1>1. /\ Calm /\ fs = [r \in Paths |-> fs[r]]
  BY DEF Steady, Calm, TreeInv
<1>2. CASE UnlinkFile
  <2>1. stage = "unlink"
    BY <1>2 DEF UnlinkFile
  <2>2. UNCHANGED fs \/ \E gone : fs' = [r \in Paths |-> IF r \in gone THEN None ELSE fs[r]]
    BY <1>1, <1>2, <2>1, Ready, UnlinkFileIs DEF RemovedWith
  <2> QED BY <2>2, Kinds
<1>3. CASE UnfoldLink
  <2>1. stage = "unfold"
    BY <1>3 DEF UnfoldLink
  <2>2. PICK p \in pending :
            \/ UNCHANGED fs
            \/ /\ Folded(p)
               /\ \E c \in Pkgs : fs[p] = Link(Twin(p, c)) /\ UnfoldedInto(p, c)
    BY <1>1, <1>3, <2>1, Ready, UnfoldLinkIs
  <2>3. p \in Paths /\ fs[p].kind = "link" /\ p[1] = Home
    BY <1>1, <2>1, Ready DEF Calm, World
  <2>4. ASSUME NEW c \in Pkgs, Folded(p), fs[p] = Link(Twin(p, c)), UnfoldedInto(p, c)
        PROVE  \/ fs'[q] = fs[q]
               \/ /\ q[1] = Home /\ Len(q) > 1
                  /\ Tail(q) \in Plain(c) /\ fs'[q] = Link(Twin(q, c))
    <3>1. q # p
      BY <2>4, Kinds DEF UnfoldedInto
    <3>2. SUFFICES ASSUME Len(q) > 1, Front(q) = p, fs[Twin(q, c)] # None,
                          fs'[q] = Link(Twin(q, c))
                   PROVE  q[1] = Home /\ Tail(q) \in Plain(c)
      BY <2>4, <3>1 DEF UnfoldedInto
    <3>3. q[1] = Home
      BY <2>3, <3>2, PathsShape
    <3>4. /\ Twin(p, c) \in Paths /\ Twin(p, c)[1] = c /\ Twin(q, c) \in Paths
          /\ Twin(q, c)[1] = c /\ Twin(q, c) = Path(c, Tail(q)) /\ Twin(p, c) = Path(c, Tail(p))
          /\ Tail(q) \in Rels \ {<<>>} /\ Tail(p) \in Rels /\ Tail(p) = Front(Tail(q))
      BY <2>3, <3>2, Twins DEF Twin
    <3>5. fs[Twin(q, c)] = SourceEntry(Twin(q, c))
      BY <1>1, <3>2, <3>4, PackageFacts
    <3>6. Tail(q) \in DOMAIN sc.source[c]
      BY <3>2, <3>4, <3>5, SourceAt
    <3>7. Shallow(sc.source[c], Tail(p))
      <4>1. PICK d \in Pkgs : /\ fs[p] = Link(Twin(p, d)) /\ Tail(p) \in DOMAIN sc.source[d]
                              /\ sc.source[d][Tail(p)] = Dir => Shallow(sc.source[d], Tail(p))
        BY <1>1, <2>3 DEF Calm, World
      <4>2. Twin(p, d)[1] = d /\ d = c
        <5>1. Twin(p, d)[1] = d
          BY <2>3, Twins
        <5>2. fs[p].to = Twin(p, d) /\ fs[p].to = Twin(p, c)
          BY <2>4, <4>1, Kinds
        <5> QED BY <3>4, <5>1, <5>2
      <4>3. fs[Twin(p, c)] = Dir
        BY <2>4, Kinds DEF Folded
      <4>4. fs[Twin(p, c)] = SourceEntry(Twin(p, c))
        BY <1>1, <3>4, <4>3, Kinds, PackageFacts
      <4>5. Tail(p) \in Rels \ {<<>>}
        BY <1>1, <4>1, <4>2, SourceTyped DEF Calm
      <4> QED BY <3>4, <4>1, <4>2, <4>3, <4>4, <4>5, SourceAt
    <3>8. IsStrictPrefix(Tail(p), Tail(q))
      <4>1. Tail(q) \in Seq(Parts) /\ Len(Tail(q)) > 0
        BY <3>4, FilePath
      <4> DEFINE t == Tail(q)
      <4> HIDE DEF t
      <4>2. t \in Seq(Parts) /\ Len(t) > 0
        BY <4>1 DEF t
      <4>3. Front(t) \in Seq(Parts) /\ Append(Front(t), Last(t)) = t /\ Last(t) \in Parts
            /\ Len(Front(t)) = Len(t) - 1 /\ \A i \in 1..Len(t)-1 : Front(t)[i] = t[i]
        BY <4>2, FrontLast
      <4>4. Front(t) = SubSeq(t, 1, Len(Front(t))) /\ Front(t) # t
        BY <4>2, <4>3
      <4>5. IsPrefix(Front(t), t)
        BY <4>2, <4>3 DEF IsPrefix
      <4> QED BY <3>4, <4>4, <4>5 DEF IsStrictPrefix, t
    <3>9. sc.source[c][Tail(q)] # Dir
      BY <3>6, <3>7, <3>8 DEF Shallow
    <3> QED BY <3>3, <3>6, <3>9 DEF Plain
  <2> QED BY <1>1, <2>2, <2>4
<1>4. CASE MakeParents
  BY <1>4, Kinds DEF MakeParents
<1>5. CASE LinkFile
  <2>1. stage = "link"
    BY <1>5 DEF LinkFile
  <2>2. PICK rel \in todo :
            \/ UNCHANGED <<fs, saved>>
            \/ fs' = [fs EXCEPT ![Path(Home, rel)] = Link(Path(pkg, rel))] /\ UNCHANGED saved
            \/ \E linked \in BOOLEAN : BackedUp(Path(Home, rel), Path(pkg, rel), linked)
    BY <1>1, <1>5, <2>1, Ready, LinkFileIs
  <2>3. rel \in Plain(pkg) /\ pkg \in Pkgs /\ rel \in Rels \ {<<>>}
    BY <2>1, Ready
  <2>4. fs'[q] = fs[q] \/ (q = Path(Home, rel) /\ fs'[q] = Link(Path(pkg, rel)))
    <3>1. ASSUME NEW linked \in BOOLEAN, BackedUp(Path(Home, rel), Path(pkg, rel), linked)
          PROVE  fs'[q] = fs[q] \/ (q = Path(Home, rel) /\ fs'[q] = Link(Path(pkg, rel)))
      BY <3>1, Kinds DEF BackedUp
    <3> QED BY <1>1, <2>2, <3>1
  <2>5. /\ Path(Home, rel)[1] = Home /\ Len(Path(Home, rel)) > 1 /\ Tail(Path(Home, rel)) = rel
        /\ Twin(Path(Home, rel), pkg) = Path(pkg, rel)
    BY <2>3, FilePath
  <2> QED BY <2>3, <2>4, <2>5
<1>6. CASE DeleteEntry
  BY <1>6, Kinds, Deletes
<1>7. CASE UNCHANGED treeVars
  BY <1>7 DEF treeVars
<1>8. UNCHANGED treeVars \/ UnlinkFile \/ UnfoldLink \/ MakeParents \/ LinkFile \/ DeleteEntry
  BY DEF Work, UnlinkDone, Exclude, DetectConflicts, UnlinkConflict, BeginWalk, WalkPath,
         WalkDone, ParentsMade, LinkDone
<1> QED BY <1>2, <1>3, <1>4, <1>5, <1>6, <1>7, <1>8

\* No step of the linker folds a directory.
LEMMA FoldedStays ==
    ASSUME Steady, Work, NEW q \in Paths, Folded(q)'
    PROVE  Folded(q) /\ fs'[q] = fs[q] /\ q[1] = Home
<1>1. Calm /\ fs'[q].kind = "link" /\ fs'[fs'[q].to] = Dir /\ Next
  BY DEF Steady, Folded, Next
<1>2. ASSUME NEW t \in Paths, t[1] \in Pkgs, fs'[t] = Dir PROVE fs[t] = Dir
  <2>1. CASE DeleteEntry
    BY <1>2, <2>1, Deleted, Kinds
  <2>2. CASE ~DeleteEntry
    BY <1>1, <1>2, <2>2, HomeOnly
  <2> QED BY <2>1, <2>2
<1>3. CASE fs'[q] = fs[q]
  <2>1. PICK c \in Pkgs : fs[q] = Link(Twin(q, c))
    BY <1>1, <1>3 DEF Calm, World
  <2>2. q[1] = Home /\ Twin(q, c) \in Paths /\ Twin(q, c)[1] = c /\ fs[q].to = Twin(q, c)
    BY <1>1, <1>3, <2>1, Kinds, Twins DEF Calm, World
  <2> QED BY <1>1, <1>2, <1>3, <2>2 DEF Folded
<1>4. CASE fs'[q] # fs[q]
  <2>1. PICK c \in Pkgs : Tail(q) \in Plain(c) /\ fs'[q] = Link(Twin(q, c))
    BY <1>1, <1>4, LinksMade
  <2>2. /\ Twin(q, c) \in Paths /\ Twin(q, c)[1] = c /\ fs'[q].to = Twin(q, c)
        /\ Twin(q, c) = Path(c, Tail(q)) /\ Tail(q) \in Rels \ {<<>>}
    BY <1>1, <2>1, Kinds, Twins, CollectIs DEF Twin
  <2>3. fs[Twin(q, c)] = Dir
    BY <1>1, <1>2, <2>2
  <2>4. fs[Twin(q, c)] = SourceEntry(Twin(q, c))
    BY <1>1, <2>2, <2>3, Kinds, PackageFacts
  <2>5. SourceEntry(Twin(q, c)) # Dir
    BY <2>1, <2>2, SourceAt DEF Plain
  <2> QED BY <2>3, <2>4, <2>5
<1> QED BY <1>3, <1>4

\* Every step keeps the links in their places.
LEMMA WorldStep ==
    ASSUME Steady, Next
    PROVE  World'
<1>1. Calm /\ IInv /\ sc \in Scenarios /\ Stowed(sc)
  BY DEF Steady, Calm
<1>2. sc' = sc
  BY SameScenario
<1>3. Remains'
  <2>1. \A q : SourceEntry(q)' = SourceEntry(q)
    BY <1>2 DEF SourceEntry
  <2>2. ASSUME NEW q \in Paths, q[1] \in Pkgs
        PROVE  fs'[q] \in {SourceEntry(q), None} /\ saved'[q] = {}
    <3>1. fs[q] \in {SourceEntry(q), None} /\ saved[q] = {}
      BY <1>1, <2>2 DEF Calm, World, Remains
    <3>2. CASE DeleteEntry
      BY <2>2, <3>1, <3>2, Deleted
    <3>3. CASE ~DeleteEntry
      BY <2>2, <3>1, <3>3, HomeOnly
    <3> QED BY <3>2, <3>3
  <2> QED BY <2>1, <2>2 DEF Remains
<1>4. ASSUME NEW q \in Paths, fs'[q].kind = "link"
      PROVE  /\ q[1] = Home
             /\ \E c \in Pkgs : /\ fs'[q] = Link(Twin(q, c))
                                /\ Tail(q) \in DOMAIN sc.source[c]
                                /\ sc.source[c][Tail(q)] = Dir =>
                                      Shallow(sc.source[c], Tail(q))
  <2>1. CASE fs'[q] = fs[q]
    BY <1>1, <1>4, <2>1 DEF Calm, World
  <2>2. CASE fs'[q] # fs[q] /\ Work
    BY <1>4, <2>2, LinksMade DEF Plain
  <2>3. CASE fs'[q] # fs[q] /\ UserWrite
    BY <1>4, <2>3, Kinds DEF UserWrite
  <2>4. CASE fs'[q] # fs[q] /\ UserLink
    <3>1. PICK l \in sc.links : fs' = [fs EXCEPT ![l[1]] = Link(l[2])]
      BY <2>4 DEF UserLink
    <3>2. PICK p \in Pkgs : \E rel \in DOMAIN sc.source[p] :
              l = <<Path(Home, rel), Path(p, rel)>> /\ Shallow(sc.source[p], rel)
      BY <1>1 DEF Stowed
    <3>3. PICK rel \in DOMAIN sc.source[p] :
              l = <<Path(Home, rel), Path(p, rel)>> /\ Shallow(sc.source[p], rel)
      BY <3>2
    <3>4. rel \in Rels \ {<<>>}
      BY <1>1, SourceTyped
    <3>5. fs = [r \in Paths |-> fs[r]]
      BY <1>1 DEF Calm, TreeInv
    <3>6. q = Path(Home, rel) /\ fs'[q] = Link(Path(p, rel))
      BY <2>4, <3>1, <3>3, <3>5
    <3>7. /\ q[1] = Home /\ Tail(q) = rel /\ Twin(q, p) = Path(p, rel)
      BY <3>4, <3>6, FilePath
    <3> QED BY <3>3, <3>6, <3>7
  <2>5. CASE fs' = fs
    BY <1>1, <1>4, <2>5 DEF Calm, World
  <2>6. fs' = fs \/ Work \/ UserWrite \/ UserLink
    BY DEF Next, User, Start, BeginFix, BeginLink, BeginUnlink, BeginRelink, BeginRemove, Begin,
           Crash, treeVars
  <2> QED BY <2>1, <2>2, <2>3, <2>4, <2>5, <2>6
<1> QED BY <1>2, <1>3, <1>4 DEF World

-----------------------------------------------------------------------------
(* The job from step to step *)

\* The end of an operation.
LEMMA EndKind ==
    ASSUME JobKind, NEW ok, End(ok)
    PROVE  JobKind'
BY DEF End, JobKind, jobVars, Ended, NotEnded, Linking, Clearing

\* Every step leaves each stage with what it works on.
LEMMA JobKindStep ==
    ASSUME Steady, Next
    PROVE  JobKind'
<1>1. /\ Calm /\ JobKind /\ JobTyped /\ sc \in Scenarios
      /\ sc.conflicts \in [Pkgs -> SUBSET Pkgs]
  BY LinkerAssumption DEF Steady, Calm
<1>2. sc' = sc
  BY SameScenario
<1>3. stage # "delete" => \A c \in Pkgs : Wanted(c)' = Wanted(c)
  BY WantedStays DEF DeleteEntry
<1>4. ASSUME NEW c \in Pkgs
      PROVE  /\ Collect(c) = Wanted(c)
             /\ IsDir(<<c>>) => fs[<<c>>] = Dir
             /\ IsPackageLinked(c) => IsDir(<<c>>)
             /\ fs[<<c>>] = Dir => DeleteEntry \/ fs'[<<c>>] = Dir
  <2>1. <<c>> \in Paths /\ <<c>>[1] = c
    BY RootPath
  <2> QED BY <1>1, <1>4, <2>1, CollectIs, HomeOnly DEF IsPackageLinked
<1>5. /\ stage \notin {"idle", "unfold"} => pkg \in Pkgs /\ op # "fix"
      /\ op # "fix" => pkg \in Pkgs
      /\ Linking => pkg \in Pkgs /\ files = Wanted(pkg)
  BY Ready DEF Steady, IInv, JobInv
<1>6. NotEnded.op = "none" /\ \A o, p, ok : Ended(o, p, ok).op = o /\ Ended(o, p, ok).pkg = p
  BY DEF NotEnded, Ended
<1> USE DEF Linking, Clearing
<1>7. CASE User \/ Crash
  BY <1>1, <1>6, <1>7 DEF User, UserWrite, UserLink, Crash, Forget, jobVars, JobKind
<1>8. CASE BeginFix
  BY <1>1, <1>6, <1>8 DEF BeginFix, JobKind
<1>9. ASSUME NEW p \in Pkgs, BeginLink(p) PROVE JobKind'
  BY <1>1, <1>3, <1>4, <1>6, <1>9 DEF BeginLink, Begin, EnterLink, JobKind, treeVars
<1>10. ASSUME NEW p \in Pkgs, BeginUnlink(p) \/ BeginRelink(p) PROVE JobKind'
  BY <1>1, <1>3, <1>4, <1>6, <1>10
    DEF BeginUnlink, BeginRelink, Begin, EnterUnlink, JobKind, treeVars
<1>11. ASSUME NEW p \in Pkgs, BeginRemove(p) PROVE JobKind'
  BY <1>1, <1>3, <1>4, <1>6, <1>11
    DEF BeginRemove, Begin, EnterUnlink, EnterDelete, JobKind, treeVars
<1>12. CASE UnlinkFile
  BY <1>1, <1>3, <1>4, <1>5, <1>6, <1>12
    DEF UnlinkFile, DeleteEntry, JobKind, jobVars, unlVars, endVars
<1>13. CASE UnlinkDone
  <2>1. CASE resume = "idle" /\ End(~failed)
    BY <1>1, <1>6, <2>1 DEF End, JobKind, jobVars
  <2>2. CASE resume = "link" /\ EnterLink(pkg) /\ UNCHANGED <<inputs, op, pkg, endVars, treeVars>>
    BY <1>1, <1>3, <1>4, <1>5, <1>6, <1>13, <2>2
      DEF UnlinkDone, EnterLink, JobKind, endVars, treeVars
  <2>4. CASE resume = "delete" /\ EnterDelete(pkg) /\ UNCHANGED <<jobVars, endVars, treeVars>>
    BY <1>1, <1>3, <1>5, <1>6, <1>13, <2>4
      DEF UnlinkDone, EnterDelete, JobKind, endVars, treeVars, jobVars
  <2>3. CASE /\ resume \notin {"idle", "link", "delete"} /\ stage' = resume
             /\ UNCHANGED <<inputs, jobVars, unlVars, todo, walkVars, failed, endVars, treeVars>>
    BY <1>1, <1>3, <1>5, <1>6, <1>13, <2>3
      DEF UnlinkDone, JobKind, endVars, treeVars, jobVars, unlVars
  <2> QED BY <1>13, <2>1, <2>2, <2>3, <2>4 DEF UnlinkDone
<1>14. CASE DeleteEntry
  <2>1. stage = "delete" /\ op = "remove" /\ pkg \in Pkgs /\ <<pkg>> \in Paths
    BY <1>14, Deletes, RootPath
  <2>2. CASE End(fs'[<<pkg>>] = None)
    BY <1>1, <2>2, EndKind
  <2>3. CASE fs'[<<pkg>>] = fs[<<pkg>>] /\ UNCHANGED <<stage, op, pkg, done, before>>
    BY <1>1, <2>1, <2>3 DEF JobKind
  <2> QED BY <1>14, <2>1, <2>2, <2>3, Deletes
<1>15. CASE Exclude \/ UnlinkConflict
  <2>1. /\ stage \in {"exclude", "collide"} /\ pkg \in Pkgs /\ op \in {"link", "relink"}
        /\ files' = Wanted(pkg) /\ \A c \in Pkgs : Wanted(c)' = Wanted(c)
        /\ UNCHANGED <<fs, jobVars, endVars>>
    BY <1>1, <1>3, <1>5, <1>15 DEF Exclude, UnlinkConflict, JobKind, treeVars, jobVars
  <2>2. \/ stage' = stage
        \/ \E c \in Pkgs : EnterUnlink(c, stage) /\ fs[<<c>>] = Dir
    BY <1>1, <1>4, <1>15, <2>1 DEF Exclude, UnlinkConflict, JobTyped
  <2> QED BY <1>1, <1>4, <2>1, <2>2 DEF EnterUnlink, JobKind, jobVars, endVars
<1>16. CASE DetectConflicts \/ BeginWalk
  BY <1>1, <1>3, <1>5, <1>6, <1>16
    DEF DetectConflicts, BeginWalk, JobKind, endVars, treeVars, jobVars
<1>17. CASE WalkPath
  BY <1>1, <1>3, <1>5, <1>6, <1>17 DEF WalkPath, JobKind, endVars, treeVars, jobVars
<1>18. CASE UnfoldLink
  BY <1>1, <1>3, <1>4, <1>5, <1>6, <1>18 DEF UnfoldLink, DeleteEntry, JobKind, endVars, jobVars
<1>19. CASE WalkDone
  <2>1. CASE End(TRUE)
    BY <1>1, <2>1, EndKind
  <2>2. CASE ~End(TRUE)
    BY <1>1, <1>3, <1>5, <1>6, <1>19, <2>2 DEF WalkDone, JobKind, endVars, treeVars, jobVars
  <2> QED BY <2>1, <2>2
<1>20. CASE MakeParents
  BY <1>1, <1>3, <1>4, <1>5, <1>6, <1>20 DEF MakeParents, DeleteEntry, JobKind, endVars, jobVars
<1>21. CASE ParentsMade
  BY <1>1, <1>3, <1>5, <1>6, <1>21 DEF ParentsMade, JobKind, endVars, treeVars, jobVars
<1>22. CASE LinkFile
  BY <1>1, <1>3, <1>4, <1>5, <1>6, <1>22 DEF LinkFile, DeleteEntry, JobKind, endVars, jobVars
<1>23. CASE LinkDone
  BY <1>1, <1>6, <1>23 DEF LinkDone, End, JobKind, jobVars
<1> QED BY <1>7, <1>8, <1>9, <1>10, <1>11, <1>12, <1>13, <1>14, <1>15, <1>16, <1>17, <1>18,
           <1>19, <1>20, <1>21, <1>22, <1>23 DEF Next, Start, Work

\* Every step leaves the walk with all the links it has still to unfold.
LEMMA WalkInvStep ==
    ASSUME Steady, Next
    PROVE  WalkInv'
<1>1. /\ Calm /\ JobKind /\ JobTyped /\ WalkInv /\ files \subseteq Rels \ {<<>>}
      /\ fs = [r \in Paths |-> fs[r]] /\ fs[<<Home>>] = Dir
  BY DEF Steady, Calm, IInv, JobInv, TreeInv
<1>2. ASSUME stage' \notin {"unfold", "mkdir", "link"} PROVE WalkInv'
  BY <1>2 DEF WalkInv
<1>3. ASSUME UNCHANGED fs PROVE \A q : Folded(q)' <=> Folded(q)
  BY <1>3 DEF Folded
<1>4. CASE BeginFix
  <2>1. Children(<<Home>>) \subseteq Paths
    BY DEF Children
  <2> QED BY <1>4, <2>1 DEF BeginFix, WalkInv, treeVars
<1>5. CASE BeginWalk
  <2>1. /\ stage' = "unfold" /\ op' = op /\ files' = files /\ pending' = {} /\ visited' = {}
        /\ todo' = WalkRels(files) /\ UNCHANGED fs
    BY <1>5 DEF BeginWalk, jobVars, treeVars
  <2>2. ASSUME NEW rel \in files, NEW q \in Paths, Path(Home, rel) \in Under(q), Len(q) > 1
        PROVE  Tail(q) \in WalkRels(files)
    <3>1. rel \in Rels \ {<<>>}
      BY <1>1
    <3>2. /\ Len(Path(Home, rel)) = Len(rel) + 1 /\ Path(Home, rel) \in Paths
          /\ Path(Home, rel)[1] = Home /\ Len(rel) \in Nat /\ rel \in Seq(Parts)
      BY <3>1, PathShape, RelSeq
    <3>3. /\ Len(q) <= Len(rel) + 1 /\ q = SubSeq(Path(Home, rel), 1, Len(q)) /\ q[1] = Home
          /\ q \in Seq(Parts) /\ Len(q) \in Nat
      BY <2>2, <3>2, UnderOrder, PathsShape
    <3>4. PICK k \in 1..Len(rel) : Len(q) = k + 1
      <4>1. Len(q) - 1 \in 1..Len(rel) /\ Len(q) = (Len(q) - 1) + 1
        BY <2>2, <3>2, <3>3
      <4> QED BY <4>1
    <3>5. q = Path(Home, SubSeq(rel, 1, k)) /\ SubSeq(rel, 1, k) \in Rels \ {<<>>}
      <4>1. rel \in Rels /\ Home \in {Home} \union Pkgs
        BY <3>1
      <4>2. /\ SubSeq(rel, 1, k) \in Rels \ {<<>>}
            /\ Path(Home, SubSeq(rel, 1, k)) = SubSeq(Path(Home, rel), 1, k + 1)
        BY <3>4, <4>1, RelPrefixes
      <4> QED BY <3>3, <3>4, <4>2
    <3>6. Tail(q) = SubSeq(rel, 1, k)
      BY <3>5, FilePath
    <3>7. files # {}
      BY <2>2
    <3> QED BY <3>4, <3>6, <3>7 DEF WalkRels
  <2> QED BY <2>1, <2>2 DEF WalkInv
<1>6. CASE WalkPath
  <2>1. PICK rel \in todo :
            /\ todo' = todo \ {rel}
            /\ pending' =
                 CASE IsSymlink(Path(Home, rel)) -> {Path(Home, rel)}
                   [] LStat(Path(Home, rel)) = Dir ->
                        {Append(Path(Home, rel), Last(c)) :
                           c \in {d \in Children(Phys(Path(Home, rel))) : fs[d].kind = "link"}}
                   [] OTHER -> {}
    BY <1>6 DEF WalkPath
  <2>2. /\ stage = "unfold" /\ stage' = "unfold" /\ op' = op /\ files' = files
        /\ visited' = visited /\ pending = {} /\ UNCHANGED fs
    BY <1>6 DEF WalkPath, jobVars, treeVars
  <2> DEFINE p == Path(Home, rel)
  <2>3. p \in Paths /\ p[1] = Home /\ Tail(p) = rel /\ rel \in Rels
    <3>1. rel \in Rels
      BY <1>1 DEF JobTyped
    <3>2. rel \in Seq(Parts) /\ Home \in Parts
      BY <3>1, RelSeq DEF Parts
    <3> QED BY <3>1, <3>2, PathShape DEF Path
  <2>10. \/ IsSymlink(p) /\ pending' = {p}
         \/ /\ ~IsSymlink(p)
            /\ \/ pending' = {Append(p, Last(c)) :
                                c \in {d \in Children(Phys(p)) : fs[d].kind = "link"}}
               \/ pending' = {}
    <3>1. IsSymlink(p) => LStat(p) # Dir
      BY Kinds DEF IsSymlink
    <3> QED BY <2>1, <3>1
  <2> HIDE DEF p
  <2>4. IsSymlink(p) <=> fs[p].kind = "link"
    BY <1>1, <2>3, LookupLink
  <2>5. ASSUME NEW r \in pending' PROVE r \in Paths /\ fs[r].kind = "link"
    <3>1. CASE IsSymlink(p)
      BY <2>3, <2>4, <2>5, <2>10, <3>1
    <3>2. CASE ~IsSymlink(p)
      <4>1. PICK d \in Children(Phys(p)) : fs[d].kind = "link" /\ r = Append(p, Last(d))
        BY <2>5, <2>10, <3>2
      <4>2. d \in Paths /\ d # <<d[1]>> /\ Front(d) = Phys(p)
        BY <4>1 DEF Children
      <4>3. Len(d) > 1 /\ d \in Seq(Parts) /\ Len(d) > 0
        BY <4>2, RootOrNot, PathsShape
      <4>4. d[1] = Home /\ Front(d)[1] = d[1]
        BY <1>1, <4>1, <4>2, <4>3, PathsShape DEF Calm, World
      <4>5. Phys(p) = p
        <5>1. ASSUME NEW c \in Pkgs, Phys(p) = Twin(p, c) PROVE FALSE
          BY <2>3, <4>2, <4>4, <5>1, Twins, TreeAssumption
        <5> QED BY <1>1, <2>3, <5>1, Lookup
      <4>6. Append(p, Last(d)) = d
        BY <4>2, <4>3, <4>5, FrontLast
      <4> QED BY <4>1, <4>2, <4>6
    <3> QED BY <3>1, <3>2
  <2>6. ASSUME NEW f \in files, NEW q \in Paths, Path(Home, f) \in Under(q), Len(q) > 1,
               op # "fix"
        PROVE  Tail(q) \in todo' \/ q \in pending' \/ ~Folded(q)
    <3>1. Tail(q) \in todo \/ ~Folded(q)
      BY <1>1, <2>2, <2>6 DEF WalkInv
    <3>2. CASE Tail(q) = rel /\ Folded(q)
      <4>1. q[1] = Home
        <5>1. f \in Rels
          BY <1>1
        <5> QED BY <2>6, <5>1, UnderOrder, PathShape
      <4>2. q = p
        BY <3>2, <4>1, Twins DEF p
      <4>3. IsSymlink(p)
        BY <2>4, <3>2, <4>2 DEF Folded
      <4> QED BY <2>10, <4>2, <4>3
    <3> QED BY <2>1, <3>1, <3>2
  <2> QED BY <1>1, <1>3, <2>2, <2>5, <2>6 DEF WalkInv
<1>7. CASE UnfoldLink
  <2>1. /\ stage = "unfold" /\ stage' = "unfold" /\ op' = op /\ files' = files /\ todo' = todo
        /\ Work
    BY <1>7 DEF UnfoldLink, jobVars, Work
  <2>2. PICK p \in pending :
            /\ pending' = pending \ {p} /\ visited' = visited \union {p}
            /\ \/ /\ Folded(p)
                  /\ \E c \in Pkgs : fs[p] = Link(Twin(p, c)) /\ UnfoldedInto(p, c)
               \/ /\ p \in visited \/ ~Folded(p)
                  /\ UNCHANGED fs
    BY <1>1, <1>7, <2>1, Ready, UnfoldLinkIs
  <2>3. p \in Paths /\ \A q \in pending : q \in Paths /\ fs[q].kind = "link"
    BY <2>1, Ready
  <2>4. ~Folded(p)'
    <3>1. CASE UNCHANGED fs
      BY <1>1, <1>3, <2>1, <2>2, <2>3, <3>1, FoldedStays, Kinds DEF WalkInv, UnfoldedInto, Folded
    <3>2. ASSUME NEW c \in Pkgs, UnfoldedInto(p, c) PROVE ~Folded(p)'
      BY <2>3, <3>2, Kinds DEF UnfoldedInto, Folded
    <3> QED BY <2>2, <3>1, <3>2
  <2>5. ASSUME NEW q \in pending, q # p PROVE fs'[q].kind = "link"
    <3>1. ASSUME NEW c \in Pkgs, UnfoldedInto(p, c) PROVE fs'[q].kind = "link"
      BY <2>3, <2>5, <3>1, Kinds DEF UnfoldedInto
    <3> QED BY <2>2, <2>3, <2>5, <3>1
  <2>6. \A q \in Paths : Folded(q)' => Folded(q)
    BY <2>1, FoldedStays
  <2> QED BY <1>1, <2>1, <2>2, <2>3, <2>4, <2>5, <2>6 DEF WalkInv
<1>8. CASE WalkDone /\ stage' = "mkdir"
  <2>1. /\ stage = "unfold" /\ todo = {} /\ pending = {} /\ op # "fix" /\ files' = files
        /\ UNCHANGED fs
    BY <1>8 DEF WalkDone, End, jobVars, treeVars
  <2>2. ASSUME NEW rel \in files, NEW q \in Paths, Path(Home, rel) \in Under(q)
        PROVE  ~Folded(q)
    <3>1. CASE Len(q) > 1
      BY <1>1, <2>1, <2>2, <3>1 DEF WalkInv
    <3>2. CASE ~(Len(q) > 1)
      <4>1. rel \in Rels
        BY <1>1
      <4>2. q[1] = Home
        BY <2>2, <4>1, UnderOrder, PathShape
      <4>3. q = <<Home>>
        BY <3>2, <4>2, RootOrNot
      <4> QED BY <1>1, <4>3, Kinds DEF Folded
    <3> QED BY <3>1, <3>2
  <2> QED BY <1>3, <1>8, <2>1, <2>2 DEF WalkInv, NoFold
<1>9. CASE MakeParents \/ ParentsMade \/ LinkFile
  <2>1. stage \in {"mkdir", "link"} /\ stage' \in {"mkdir", "link"} /\ files' = files /\ Work
    BY <1>9 DEF MakeParents, ParentsMade, LinkFile, jobVars, Work
  <2>2. \A q \in Paths : Folded(q)' => Folded(q)
    BY <2>1, FoldedStays
  <2> QED BY <1>1, <2>1, <2>2 DEF WalkInv, NoFold
<1>10. stage' \notin {"unfold", "mkdir", "link"} \/ BeginFix \/ BeginWalk \/ WalkPath \/ UnfoldLink
       \/ (WalkDone /\ stage' = "mkdir") \/ MakeParents \/ ParentsMade \/ LinkFile
  BY <1>1 DEF Next, User, Start, Work, UserWrite, UserLink, BeginLink, BeginUnlink, BeginRelink,
         BeginRemove, Begin, EnterLink, EnterUnlink, EnterDelete, UnlinkFile, UnlinkDone,
         DeleteEntry,
         Exclude, DetectConflicts, UnlinkConflict, WalkDone, LinkDone, Crash, End, JobKind
<1> QED BY <1>2, <1>4, <1>5, <1>6, <1>7, <1>8, <1>9, <1>10

-----------------------------------------------------------------------------
(* What holds in every state *)

\* The trees before an operation were trees.
Was ==
    /\ \A q \in Paths : Len(q) > 1 /\ before[1][q] # None => before[1][Front(q)] = Dir
    /\ \A q \in Paths : before[1][q].kind = "link" =>
          \E c \in Pkgs : before[1][q] = Link(Twin(q, c))

StowInv == IInv /\ JobTyped /\ (Stowed(sc) => Steady /\ Was)

\* What is true of the trees is true of those of before when it is set to them.
LEMMA WasTrees ==
    ASSUME Calm, before = treeVars
    PROVE  Was
BY DEF Was, Calm, World, TreeInv, Rooted, treeVars

\* What was when the operation began stays on record.
LEMMA WasStep ==
    ASSUME Steady, Was, Calm', Next
    PROVE  Was'
<1>1. CASE UNCHANGED before
  BY <1>1 DEF Was
<1>2. CASE before' = treeVars
  BY <1>2 DEF Was, Steady, Calm, World, TreeInv, Rooted, treeVars
<1>3. CASE before' = treeVars'
  BY <1>3 DEF Was, Calm, World, TreeInv, Rooted, treeVars
<1>4. UNCHANGED before \/ before' = treeVars \/ before' = treeVars'
  BY DEF Next, User, Start, Work, UserWrite, UserLink, BeginFix, BeginLink, BeginUnlink,
         BeginRelink, BeginRemove, Begin, UnlinkFile, UnlinkDone, DeleteEntry, Exclude,
         DetectConflicts, UnlinkConflict, BeginWalk, WalkPath, UnfoldLink, WalkDone,
         MakeParents, ParentsMade, LinkFile, LinkDone, Crash, End, Forget, endVars, treeVars
<1> QED BY <1>1, <1>2, <1>3, <1>4

\* In every state of a scenario without other links the trees are as World has them,
\* and each stage has what it works on.
LEMMA StowInit ==
    ASSUME Init, IInv, JobTyped
    PROVE  StowInv
<1>1. SUFFICES ASSUME Stowed(sc) PROVE Steady /\ Was
  BY DEF StowInv
<1>2. /\ sc \in Scenarios /\ fs = [q \in Paths |-> SourceEntry(q)]
      /\ saved = [q \in Paths |-> {}] /\ before = treeVars
  BY DEF Init
<1>3. Remains
  BY <1>2 DEF Remains
<1>4. ASSUME NEW q \in Paths PROVE fs[q].kind # "link"
  <2>1. q[1] \in {Home} \union Pkgs
    BY PathsShape
  <2> QED BY <1>1, <1>2, <2>1, SourceTyped, Kinds DEF SourceEntry
<1>5. Calm
  BY <1>1, <1>2, <1>3, <1>4 DEF Calm, World, IInv
<1>6. JobKind
  BY DEF Init, JobKind, NotEnded, Ended, Linking, Clearing
<1>7. WalkInv
  BY DEF Init, WalkInv
<1> QED BY <1>2, <1>5, <1>6, <1>7, WasTrees DEF Steady

\* Every step of a stowed scenario keeps the world calm and the job in step with it.
LEMMA StowStep ==
    ASSUME StowInv, IInv', JobTyped', [Next]_vars
    PROVE  StowInv'
<1>1. CASE Next
  <2>1. sc' = sc
    BY <1>1, SameScenario
  <2>2. SUFFICES ASSUME Stowed(sc) PROVE Steady' /\ Was'
    BY <2>1 DEF StowInv, Stowed
  <2>3. Steady /\ Was
    BY <2>2 DEF StowInv
  <2>4. World' /\ JobKind' /\ WalkInv'
    BY <1>1, <2>3, WorldStep, JobKindStep, WalkInvStep
  <2>5. Calm'
    BY <2>1, <2>2, <2>3, <2>4 DEF Calm, Steady, IInv, Stowed
  <2> QED BY <1>1, <2>3, <2>4, <2>5, WasStep DEF Steady
<1>2. CASE UNCHANGED vars
  <2>1. UNCHANGED <<fs, saved, sc, stage, op, pkg, files, victim, resume, todo, pending, visited,
                    done, before>>
    BY <1>2 DEF vars, treeVars, inputs, jobVars, unlVars, walkVars, endVars
  <2>2. SUFFICES ASSUME Stowed(sc) PROVE Steady' /\ Was'
    BY <2>1 DEF StowInv, Stowed
  <2>3. Calm' /\ JobKind' /\ WalkInv' /\ Was'
    <3>1. Calm /\ JobKind /\ WalkInv /\ Was
      BY <2>2 DEF StowInv, Steady
    <3>2. Calm' /\ Was'
      BY <2>1, <3>1 DEF Calm, World, TreeInv, LinksTyped, Rooted, SavedInDirs, Remains,
             SourceEntry, Was, Stowed
    <3>3. JobKind'
      BY <2>1, <3>1 DEF JobKind, Linking, Clearing, Wanted, Plain
    <3>4. WalkInv'
      BY <2>1, <3>1 DEF WalkInv, NoFold, Folded
    <3> QED BY <3>2, <3>3, <3>4
  <2> QED BY <2>3 DEF Steady
<1> QED BY <1>1, <1>2

\* The inductive invariant of a scenario without other links.
THEOREM StowInvariance == Spec => []StowInv
<1> DEFINE I == StowInv
<1>1. Init => JobTyped
  <2>1. NotEnded \in Endings
    BY NotEndedIsOne
  <2> QED BY <2>1 DEF Init, JobTyped, Stages, Ops
<1>2. Init => I
  BY <1>1, IInit, StowInit
<1>3. I /\ IInv' /\ [Next]_vars => I'
  <2>1. SUFFICES ASSUME StowInv, IInv', [Next]_vars PROVE StowInv'
    OBVIOUS
  <2>2. JobTyped'
    <3>1. CASE Next
      BY <2>1, <3>1, JobTypedStep DEF StowInv
    <3>2. CASE UNCHANGED vars
      BY <2>1, <3>2 DEF StowInv, vars, treeVars, inputs, jobVars, unlVars, walkVars, endVars,
             JobTyped
    <3> QED BY <2>1, <3>1, <3>2
  <2> QED BY <2>1, <2>2, StowStep
<1> HIDE DEF I
<1>4. Spec => []I
  BY <1>2, <1>3, Invariance, PTL DEF Spec
<1> QED BY <1>4 DEF I

\* A step changes a package only where package_remove takes an entry away.
LEMMA IntactStep ==
    ASSUME Steady, [Next]_vars, NEW p \in Pkgs, NEW q \in Under(<<p>>),
           fs'[q] # fs[q] \/ saved'[q] # saved[q]
    PROVE  stage = "delete" /\ pkg = p /\ fs'[q] = None
<1>1. q \in Paths /\ q[1] = p
  BY UnderRoot DEF Under
<1>2. Next
  BY DEF vars, treeVars
<1>3. DeleteEntry
  BY <1>1, <1>2, HomeOnly
<1> QED BY <1>1, <1>3, Deletes, Deleted

\* No step of a command writes into a package, neither through a folded directory,
\* which is unfolded before anything below it is linked (unfold_symlink_cb), nor in any
\* other way; only package_remove takes its entries away, one by one, and where it
\* fails or is killed what is left of the package is as it was.
THEOREM PackagesStayIntact == Spec /\ Stowed(sc) => SourceIntact
<1> DEFINE I == StowInv
           S == Stowed(sc)
           A == \A p \in Pkgs : \A q \in Under(<<p>>) :
                   fs'[q] # fs[q] \/ saved'[q] # saved[q] =>
                       stage = "delete" /\ pkg = p /\ fs'[q] = None
<1>1. S /\ [Next]_vars => S'
  <2>1. ASSUME S, UNCHANGED vars PROVE S'
    BY <2>1 DEF vars, inputs, Stowed
  <2>2. ASSUME S, Next PROVE S'
    BY <2>2, SameScenario DEF Stowed
  <2> QED BY <2>1, <2>2
<1>2. I /\ S /\ [Next]_vars => A
  BY IntactStep DEF StowInv
<1>3. Spec => []I
  BY StowInvariance
<1> HIDE DEF I, S, A
<1>4. Spec /\ S => [][A]_vars
  BY <1>1, <1>2, <1>3, PTL DEF Spec
<1> QED BY <1>4 DEF S, A, SourceIntact

-----------------------------------------------------------------------------
(* How far an operation has come *)

\* Every file that link_package has been through is linked, or it has failed.
LinkedSoFar ==
    /\ stage = "link" => \A rel \in files \ todo : failed \/ LinkedTo(fs, pkg, rel)
    /\ done.op \in {"link", "relink"} =>
          /\ fs[<<pkg>>] = Dir
          /\ done.ok => \A rel \in Wanted(pkg) : LinkedTo(fs, pkg, rel)

\* What is folded was so when the operation began.
NothingFolded ==
    stage # "idle" \/ done.op # "none" =>
        \A q \in Paths : Folded(q) => before[1][q] = fs[q]

\* No unrelated package is unlinked.
VictimsRelated ==
    /\ Clearing => \A p \in Pkgs : Unrelated(p, pkg) => p \notin victims
    /\ stage = "unlink" => \A p \in Pkgs : Unrelated(p, pkg) => p # victim

\* Every file that unlink_package has been through is unlinked, or it has failed.
UnlinkedSoFar ==
    /\ stage = "unlink" =>
          \A rel \in Wanted(victim) \ todo :
              LinkedTo(fs, victim, rel) => "unlink" \in sc.faults /\ (resume = "idle" => failed)
    /\ done.op = "unlink" /\ done.ok => \A rel \in Wanted(pkg) : ~LinkedTo(fs, pkg, rel)

\* An empty directory was empty when unlink_package began.
NoneEmptied ==
    (stage = "unlink" /\ op = "unlink") \/ done.op = "unlink" =>
        \A q \in Paths :
            q[1] = Home /\ Len(q) > 1 /\ fs[q] = Dir /\ Children(q) = {} /\ saved[q] = {} =>
                \A r \in Paths : Len(r) > 1 /\ Front(r) = q => before[1][r] = None

\* The links of the packages in conflict are gone, or will be.
ExcludedSoFar ==
    "unlink" \notin sc.faults =>
    /\ Linking =>
          \A c \in Conflicts(pkg) \ {pkg} : NotFolded(c) /\ fs[<<c>>] = Dir =>
             \A rel \in Wanted(c) : LinkedTo(fs, c, rel) =>
                \/ stage = "exclude" /\ c \in victims
                \/ /\ stage = "unlink" /\ resume = "exclude"
                   /\ c \in victims \/ (c = victim /\ rel \in todo)
    /\ done.op \in {"link", "relink"} /\ done.ok =>
          \A c \in Conflicts(pkg) \ {pkg} : NotFolded(c) /\ fs[<<c>>] = Dir =>
             \A rel \in Wanted(c) : ~LinkedTo(fs, c, rel)

\* A file of an unrelated package that was linked is linked, or a directory on its way.
OthersLinked ==
    stage # "idle" \/ done.op # "none" =>
        \A p \in Pkgs : pkg = NoPkg \/ Unrelated(p, pkg) =>
            \A rel \in Plain(p) : fs[Path(p, rel)] # None /\ WasLinked(p, rel) =>
                \E k \in 1..Len(rel) : LinkedTo(fs, p, SubSeq(rel, 1, k))

\* While a linked package is relinked nothing comes in the place of its links.
Relinking ==
    /\ op = "relink" /\ (stage # "idle" \/ done.op = "relink")
    /\ \A rel \in Wanted(pkg) : LinkedTo(before[1], pkg, rel)
    => /\ saved = before[2]
       /\ \A rel \in Wanted(pkg) :
             /\ fs[Path(Home, rel)] = None \/ LinkedTo(fs, pkg, rel)
             /\ \A q \in Paths : Path(Home, rel) \in Under(q) /\ q # Path(Home, rel) =>
                   fs[q] \in {None, Dir}

\* The end of an operation leaves how it went.
LEMMA EndIs ==
    ASSUME NEW ok, End(ok)
    PROVE  /\ stage' = "idle" /\ UNCHANGED <<op, pkg, before>>
           /\ done'.op = op /\ done'.ok = ok
BY DEF End, jobVars, Ended

\* What a step does to the operation that runs.
LEMMA Turns ==
    ASSUME Steady, Next
    PROVE  /\ sc' = sc
           /\ \A c : Plain(c)' = Plain(c)
           /\ stage # "delete" => \A c \in Pkgs : /\ Wanted(c)' = Wanted(c)
                                                 /\ Conflicts(c)' = Conflicts(c)
           /\ \A p, q : Unrelated(p, q)' = Unrelated(p, q)
           /\ \/ stage' = "idle" /\ done'.op = "none"
              \/ /\ done'.op = "none" /\ before' = treeVars /\ UNCHANGED treeVars
                 /\ BeginFix \/ \E p \in Pkgs : BeginLink(p) \/ BeginUnlink(p) \/ BeginRelink(p)
                                                             \/ BeginRemove(p)
              \/ /\ Work /\ stage # "idle" /\ stage' # "idle" /\ done'.op = "none"
                 /\ UNCHANGED <<op, pkg, before>>
              \/ /\ Work /\ stage # "idle" /\ stage' = "idle" /\ UNCHANGED <<op, pkg, before>>
                 /\ done'.op = op
                 /\ \/ op = "fix" /\ UNCHANGED treeVars
                    \/ op = "remove" /\ stage = "delete" /\ DeleteEntry
                    \/ /\ op = "unlink" /\ stage = "unlink" /\ todo = {} /\ victim = pkg
                       /\ resume = "idle" /\ UNCHANGED treeVars /\ (done'.ok => ~failed)
                    \/ /\ op \in {"link", "relink"} /\ stage = "link" /\ todo = {}
                       /\ UNCHANGED treeVars /\ (done'.ok => ~failed)
<1>1. JobKind /\ JobTyped /\ (stage \notin {"idle", "unfold"} => op # "fix")
  BY DEF Steady, IInv, JobInv
<1>2. NotEnded.op = "none" /\ \A o, p, ok : Ended(o, p, ok).op = o /\ Ended(o, p, ok).ok = ok
  BY DEF NotEnded, Ended
<1>3. sc' = sc
  BY SameScenario
<1>4. /\ \A c : Plain(c)' = Plain(c)
      /\ stage # "delete" => \A c \in Pkgs : /\ Wanted(c)' = Wanted(c)
                                            /\ Conflicts(c)' = Conflicts(c)
      /\ \A p, q : Unrelated(p, q)' = Unrelated(p, q)
  BY <1>3, SameScenario, WantedStays DEF DeleteEntry, Unrelated
<1>5. CASE User \/ Crash
  BY <1>2, <1>3, <1>4, <1>5 DEF User, UserWrite, UserLink, Crash, Forget
<1>6. CASE Start
  <2>1. done'.op = "none" /\ before' = treeVars /\ UNCHANGED treeVars
    BY <1>2, <1>6 DEF Start, BeginFix, BeginLink, BeginUnlink, BeginRelink, BeginRemove, Begin
  <2> QED BY <1>3, <1>4, <1>6, <2>1 DEF Start
<1>7. CASE Work /\ stage' # "idle"
  <2>1. stage # "idle" /\ UNCHANGED <<op, pkg, before, done>>
    <3>1. stage # "idle"
      BY <1>7 DEF Work, UnlinkFile, UnlinkDone, DeleteEntry, Exclude,
         DetectConflicts, UnlinkConflict, BeginWalk, WalkPath, UnfoldLink, WalkDone,
         MakeParents, ParentsMade, LinkFile, LinkDone
    <3>2. UNCHANGED <<op, pkg, before, done>>
      BY <1>7 DEF Work, UnlinkFile, UnlinkDone, DeleteEntry, Exclude,
         DetectConflicts, UnlinkConflict, BeginWalk, WalkPath, UnfoldLink, WalkDone,
         MakeParents, ParentsMade, LinkFile, LinkDone, End, EnterLink, EnterUnlink, EnterDelete,
         jobVars, endVars
    <3> QED BY <3>1, <3>2
  <2> QED BY <1>1, <1>2, <1>3, <1>4, <1>7, <2>1 DEF JobKind
<1>8. CASE Work /\ stage' = "idle"
  <2>1. \/ UnlinkDone /\ resume = "idle" /\ End(~failed)
        \/ DeleteEntry
        \/ WalkDone /\ op = "fix" /\ End(TRUE)
        \/ LinkDone
    BY <1>1, <1>8 DEF Work, UnlinkFile, UnlinkDone, Exclude, EnterLink, EnterUnlink, EnterDelete,
         DetectConflicts, UnlinkConflict, BeginWalk, WalkPath, UnfoldLink, WalkDone,
         MakeParents, ParentsMade, LinkFile, JobKind
  <2>2. stage # "idle"
    BY <2>1 DEF UnlinkDone, DeleteEntry, WalkDone, LinkDone
  <2>3. CASE UnlinkDone /\ resume = "idle" /\ End(~failed)
    <3> DEFINE ok == ~failed
    <3>1. End(ok) /\ (ok => ~failed)
      BY <2>3
    <3> HIDE DEF ok
    <3>2. /\ stage' = "idle" /\ UNCHANGED <<op, pkg, before>>
          /\ done'.op = op /\ done'.ok = ok
      BY <3>1, EndIs
    <3>3. op = "unlink" /\ stage = "unlink" /\ todo = {} /\ victim = pkg /\ UNCHANGED treeVars
      BY <1>1, <2>3 DEF UnlinkDone, JobKind
    <3> QED BY <1>3, <1>4, <1>8, <2>2, <2>3, <3>1, <3>2, <3>3
  <2>4. CASE DeleteEntry
    <3>1. stage = "delete" /\ op = "remove" /\ UNCHANGED <<op, pkg, before>> /\ done'.op = op
      <4> DEFINE gone == fs'[<<pkg>>] = None
      <4>1. op = "remove" /\ stage = "delete" /\ End(gone)
        BY <1>8, <2>4, Deletes
      <4> HIDE DEF gone
      <4> QED BY <4>1, EndIs
    <3> QED BY <1>3, <1>4, <1>8, <2>2, <2>4, <3>1
  <2>5. CASE WalkDone /\ op = "fix" /\ End(TRUE)
    <3>1. UNCHANGED <<op, pkg, before>> /\ done'.op = op /\ UNCHANGED treeVars
      BY <2>5, EndIs DEF WalkDone
    <3> QED BY <1>3, <1>4, <1>8, <2>2, <2>5, <3>1
  <2>6. CASE LinkDone
    <3> DEFINE ok == ~failed
    <3>1. End(ok) /\ (ok => ~failed)
      BY <2>6 DEF LinkDone
    <3> HIDE DEF ok
    <3>2. /\ stage' = "idle" /\ UNCHANGED <<op, pkg, before>>
          /\ done'.op = op /\ done'.ok = ok
      BY <3>1, EndIs
    <3>3. op \in {"link", "relink"} /\ stage = "link" /\ todo = {} /\ UNCHANGED treeVars
      BY <1>1, <2>6 DEF LinkDone, JobKind, Linking
    <3> QED BY <1>3, <1>4, <1>8, <2>2, <2>6, <3>1, <3>2, <3>3
  <2> QED BY <2>1, <2>3, <2>4, <2>5, <2>6
<1> QED BY <1>5, <1>6, <1>7, <1>8 DEF Next

\* Two entries of packages: a file is not above another entry.
LEMMA FileAbove ==
    ASSUME Calm, NEW c \in Pkgs, NEW rel \in DOMAIN sc.source[c], NEW s \in Rels \ {<<>>},
           Path(Home, rel) \in Under(Path(Home, s))
    PROVE  s \in DOMAIN sc.source[c] /\ (s = rel \/ sc.source[c][s] = Dir)
BY SourceAbove DEF Calm

\* A file in the way of another package's: the packages are not unrelated.
LEMMA InTheWay ==
    ASSUME Calm, NEW p \in Pkgs, NEW q \in Pkgs, NEW rel \in DOMAIN sc.source[p],
           NEW s \in Plain(q), Path(Home, rel) \in Under(Path(Home, s))
    PROVE  ~Unrelated(p, q)
<1>1. s \in Rels \ {<<>>} /\ s \in DOMAIN sc.source[q] /\ sc.source[q][s] # Dir
  BY CollectIs DEF Plain
<1>2. s \in DOMAIN sc.source[p]
  BY <1>1, FileAbove
<1> QED BY <1>1, <1>2 DEF Unrelated

\* Files that have their turn stay linked, whatever the step does.
LEMMA LinkedStep ==
    ASSUME Steady, LinkedSoFar, Next
    PROVE  LinkedSoFar'
<1>1. Calm /\ JobKind /\ fs = [r \in Paths |-> fs[r]]
  BY DEF Steady, Calm, TreeInv
<1>2. CASE stage' # "link" /\ done'.op \notin {"link", "relink"}
  BY <1>2 DEF LinkedSoFar
<1>3. CASE ParentsMade
  <2>1. todo' = files' /\ done'.op = "none"
    BY <1>1, <1>3 DEF ParentsMade, JobKind, jobVars, endVars, NotEnded, Ended
  <2> QED BY <2>1 DEF LinkedSoFar
<1>4. CASE LinkFile
  <2>1. /\ stage = "link" /\ UNCHANGED <<files, pkg, done>> /\ done'.op = "none"
    BY <1>1, <1>4 DEF LinkFile, JobKind, jobVars, endVars, NotEnded, Ended
  <2>2. pkg \in Pkgs /\ files = Wanted(pkg) /\ files \subseteq Plain(pkg) /\ todo \subseteq files
        /\ files \subseteq Rels \ {<<>>}
    BY <1>1, <2>1, Ready, CollectIs DEF Linking, JobKind
  <2>3. PICK rel \in todo :
              LET p == Path(Home, rel)
                  q == Path(pkg, rel)
              IN  /\ todo' = todo \ {rel}
                  /\ \/ LinkedTo(fs, pkg, rel) /\ UNCHANGED <<fs, saved, failed>>
                     \/ /\ fs[p] = None \/ fs[p].kind = "link"
                        /\ fs' = [fs EXCEPT ![p] = Link(q)]
                        /\ UNCHANGED <<saved, failed>>
                     \/ /\ fs[p] # None /\ fs[p].kind # "link"
                        /\ \E linked \in BOOLEAN : BackedUp(p, q, linked)
                     \/ failed' = TRUE /\ UNCHANGED <<fs, saved>>
    BY <1>1, <1>4, <2>1, Ready, LinkFileIs
  <2> DEFINE p == Path(Home, rel)
  <2>4. p \in Paths /\ p \in Under(p)
    BY <2>2, FilePath, UnderFacts
  <2>5. ASSUME NEW s \in files, s # rel
        PROVE  Path(Home, s) \notin Under(p) /\ Path(Home, s) \in Paths
    <3>1. s \in DOMAIN sc.source[pkg] /\ rel \in Plain(pkg) /\ rel \in Rels \ {<<>>}
      BY <2>2 DEF Plain
    <3>2. Path(Home, s) \notin Under(p)
      BY <1>1, <2>2, <2>5, <3>1, FileAbove DEF Plain
    <3> QED BY <2>2, <3>2, FilePath
  <2> HIDE DEF p
  <2>6. ASSUME NEW s \in files \ todo' PROVE failed' \/ LinkedTo(fs', pkg, s)
    <3>1. CASE s = rel
      <4>1. CASE LinkedTo(fs, pkg, rel) /\ UNCHANGED <<fs, saved, failed>>
        BY <3>1, <4>1 DEF LinkedTo
      <4>2. CASE fs' = [fs EXCEPT ![p] = Link(Path(pkg, rel))]
        BY <1>1, <2>4, <3>1, <4>2 DEF LinkedTo, p
      <4>3. ASSUME NEW linked \in BOOLEAN, BackedUp(p, Path(pkg, rel), linked)
            PROVE  failed' \/ LinkedTo(fs', pkg, rel)
        BY <2>4, <4>3 DEF BackedUp, LinkedTo, p
      <4> QED BY <2>3, <3>1, <4>1, <4>2, <4>3 DEF p
    <3>2. CASE s # rel
      <4>1. failed \/ LinkedTo(fs, pkg, s)
        BY <2>1, <2>3, <2>6, <3>2 DEF LinkedSoFar
      <4>2. Path(Home, s) \notin Under(p) /\ Path(Home, s) \in Paths /\ Path(Home, s) # p
        BY <2>4, <2>5, <2>6, <3>2
      <4>3. ASSUME NEW linked \in BOOLEAN, BackedUp(p, Path(pkg, rel), linked)
            PROVE  (failed => failed') /\ fs'[Path(Home, s)] = fs[Path(Home, s)]
        BY <4>2, <4>3 DEF BackedUp
      <4>4. (failed => failed') /\ fs'[Path(Home, s)] = fs[Path(Home, s)]
        BY <1>1, <2>3, <4>2, <4>3 DEF p
      <4> QED BY <4>1, <4>4 DEF LinkedTo
    <3> QED BY <3>1, <3>2
  <2> QED BY <2>1, <2>6 DEF LinkedSoFar
<1>5. CASE stage' # "link" /\ done'.op \in {"link", "relink"}
  <2>1. /\ stage = "link" /\ todo = {} /\ UNCHANGED <<fs, pkg>> /\ (done'.ok => ~failed)
        /\ \A c \in Pkgs : Wanted(c)' = Wanted(c)
    BY <1>5, Turns DEF treeVars
  <2>2. files = Wanted(pkg) /\ fs[<<pkg>>] = Dir /\ pkg \in Pkgs
    BY <1>1, <2>1, Ready DEF Linking, JobKind
  <2>3. Wanted(pkg)' = Wanted(pkg)
    BY <2>1, <2>2
  <2> QED BY <1>5, <2>1, <2>2, <2>3 DEF LinkedSoFar
<1>6. ParentsMade \/ LinkFile \/ stage' # "link"
  BY <1>1 DEF Next, User, Start, Work, UserWrite, UserLink, BeginFix, BeginLink, BeginUnlink,
         BeginRelink, BeginRemove, Begin, UnlinkFile, UnlinkDone, DeleteEntry, Exclude,
         DetectConflicts, UnlinkConflict, BeginWalk, WalkPath, UnfoldLink, WalkDone,
         MakeParents, LinkDone, Crash, End, EnterLink, EnterUnlink, EnterDelete, JobKind
<1> QED BY <1>2, <1>3, <1>4, <1>5, <1>6

\* After the walk no link to a directory comes up again.
LEMMA FoldedStep ==
    ASSUME Steady, NothingFolded, Next
    PROVE  NothingFolded'
<1>1. CASE stage' = "idle" /\ done'.op = "none"
  BY <1>1 DEF NothingFolded
<1>2. CASE before' = treeVars /\ UNCHANGED treeVars
  BY <1>2 DEF NothingFolded, treeVars
<1>3. CASE Work /\ stage # "idle" /\ UNCHANGED before
  BY <1>3, FoldedStays DEF NothingFolded
<1> QED BY <1>1, <1>2, <1>3, Turns

\* The packages that are unlinked for a conflict are the ones in conflict.
LEMMA VictimsStep ==
    ASSUME Steady, VictimsRelated, Next
    PROVE  VictimsRelated'
<1>1. Calm /\ JobKind /\ JobTyped /\ WalkInv /\ sc' = sc
      /\ \A p, q : Unrelated(p, q)' = Unrelated(p, q)
  BY Turns DEF Steady
<1>2. \A p, q : Unrelated(p, q) => p # q /\ p \notin sc.conflicts[q] /\ p \notin Conflicts(q)
  BY DEF Unrelated, Conflicts
<1>3. CASE stage' # "unlink" /\ ~Clearing'
  BY <1>3 DEF VictimsRelated
<1>4. ASSUME NEW p \in Pkgs, BeginLink(p) \/ BeginUnlink(p) \/ BeginRelink(p) \/ BeginRemove(p)
      PROVE  VictimsRelated'
  BY <1>1, <1>2, <1>4 DEF BeginLink, BeginUnlink, BeginRelink, BeginRemove, Begin, EnterLink,
     EnterUnlink, EnterDelete, VictimsRelated, Clearing
<1>5. CASE UnlinkFile \/ UnlinkDone
  BY <1>1, <1>2, <1>5 DEF UnlinkFile, UnlinkDone, End, EnterLink, EnterDelete, JobKind,
     VictimsRelated, Clearing,
     jobVars, unlVars
<1>6. CASE Exclude \/ UnlinkConflict
  BY <1>1, <1>2, <1>6 DEF Exclude, UnlinkConflict, EnterUnlink, VictimsRelated, Clearing, jobVars
<1>7. CASE DetectConflicts
  <2>1. /\ stage = "exclude" /\ stage' = "collide" /\ pkg' = pkg
        /\ victims' = UNION {Owners(Path(Home, rel)) : rel \in files} \ {pkg}
    BY <1>7 DEF DetectConflicts, jobVars
  <2>2. pkg \in Pkgs /\ files = Wanted(pkg) /\ files \subseteq Plain(pkg)
        /\ files \subseteq Rels \ {<<>>}
    BY <1>1, <2>1, Ready, CollectIs DEF Linking, Clearing
  <2>3. ASSUME NEW rel \in files, NEW p \in Owners(Path(Home, rel)) PROVE ~Unrelated(p, pkg)
    <3> DEFINE q == Path(Home, rel)
    <3>1. q \in Paths /\ q[1] = Home /\ Tail(q) = rel /\ q \in Under(q)
      BY <2>2, FilePath, UnderFacts
    <3> HIDE DEF q
    <3>2. p \in Pkgs /\ IsSymlink(q) /\ p = LStat(q).to[1]
      BY <2>3 DEF Owners, q
    <3>3. fs[q].kind = "link" /\ LStat(q) = fs[q]
      BY <1>1, <3>1, <3>2, LookupLink
    <3>4. PICK c \in Pkgs : fs[q] = Link(Twin(q, c)) /\ Tail(q) \in DOMAIN sc.source[c]
      BY <1>1, <3>1, <3>3 DEF Calm, World
    <3>5. c = p
      BY <3>1, <3>2, <3>3, <3>4, Twins, Kinds
    <3> QED BY <1>1, <2>2, <3>1, <3>4, <3>5, InTheWay DEF q
  <2> QED BY <1>1, <2>1, <2>3 DEF VictimsRelated, Clearing
<1>8. \/ stage' # "unlink" /\ ~Clearing'
      \/ UnlinkFile \/ UnlinkDone \/ Exclude \/ UnlinkConflict \/ DetectConflicts
      \/ \E p \in Pkgs : BeginLink(p) \/ BeginUnlink(p) \/ BeginRelink(p) \/ BeginRemove(p)
  BY <1>1 DEF Next, User, Start, Work, UserWrite, UserLink, BeginFix, DeleteEntry,
         BeginWalk, WalkPath, UnfoldLink, WalkDone, ParentsMade, LinkFile,
         MakeParents, LinkDone, Crash, End, Clearing
<1> QED BY <1>3, <1>4, <1>5, <1>6, <1>7, <1>8

-----------------------------------------------------------------------------
(* What has been unlinked *)

\* unlink_package at one file.
LEMMA Unlinks ==
    ASSUME Steady, UnlinkFile
    PROVE  /\ stage = "unlink" /\ stage' = "unlink" /\ done'.op = "none"
           /\ UNCHANGED <<saved, op, pkg, files, victims, victim, resume, before>>
           /\ victim \in Pkgs /\ todo \subseteq Wanted(victim)
           /\ \E rel \in todo :
                 /\ todo' = todo \ {rel}
                 /\ \/ LinkedTo(fs, victim, rel) /\ UNCHANGED failed
                       /\ \E gone \in SUBSET Paths : RemovedWith(Path(Home, rel), gone)
                    \/ ~LinkedTo(fs, victim, rel) /\ UNCHANGED <<fs, failed>>
                    \/ /\ "unlink" \in sc.faults /\ UNCHANGED fs
                       /\ failed' = (failed \/ resume = "idle")
<1>1. Calm /\ JobKind /\ stage = "unlink"
  BY DEF Steady, UnlinkFile
<1>2. /\ victim \in Pkgs /\ todo \subseteq Wanted(victim) /\ todo \subseteq Rels \ {<<>>}
      /\ done.op = "none"
  BY <1>1, Ready DEF JobKind, NotEnded, Ended
<1>3. /\ stage' = "unlink" /\ done'.op = "none"
      /\ UNCHANGED <<saved, op, pkg, files, victims, victim, resume, before>>
  BY <1>1, <1>2 DEF UnlinkFile, jobVars, unlVars, endVars
<1> QED BY <1>1, <1>2, <1>3, UnlinkFileIs

\* native_link_cb at one file.
LEMMA Links ==
    ASSUME Steady, LinkFile
    PROVE  /\ stage = "link" /\ stage' = "link" /\ done'.op = "none"
           /\ UNCHANGED <<op, pkg, files, before>>
           /\ pkg \in Pkgs /\ op \in {"link", "relink"} /\ files = Wanted(pkg)
           /\ \E rel \in Wanted(pkg) :
                 LET p == Path(Home, rel)
                     q == Path(pkg, rel)
                 IN  \/ UNCHANGED <<fs, saved>>
                     \/ /\ fs[p] = None \/ fs[p].kind = "link"
                        /\ fs' = [fs EXCEPT ![p] = Link(q)]
                        /\ UNCHANGED saved
                     \/ /\ fs[p] # None /\ fs[p].kind # "link"
                        /\ \E linked \in BOOLEAN : BackedUp(p, q, linked)
<1>1. Calm /\ JobKind /\ stage = "link"
  BY DEF Steady, LinkFile
<1>2. /\ pkg \in Pkgs /\ op \in {"link", "relink"} /\ files = Wanted(pkg) /\ done.op = "none"
      /\ todo \subseteq files
  BY <1>1, Ready DEF JobKind, NotEnded, Ended, Linking
<1>3. stage' = "link" /\ done'.op = "none" /\ UNCHANGED <<op, pkg, files, before>>
  BY <1>1, <1>2 DEF LinkFile, jobVars, endVars
<1>4. \E rel \in todo :
              LET p == Path(Home, rel)
                  q == Path(pkg, rel)
              IN  /\ todo' = todo \ {rel}
                  /\ \/ LinkedTo(fs, pkg, rel) /\ UNCHANGED <<fs, saved, failed>>
                     \/ /\ fs[p] = None \/ fs[p].kind = "link"
                        /\ fs' = [fs EXCEPT ![p] = Link(q)]
                        /\ UNCHANGED <<saved, failed>>
                     \/ /\ fs[p] # None /\ fs[p].kind # "link"
                        /\ \E linked \in BOOLEAN : BackedUp(p, q, linked)
                     \/ failed' = TRUE /\ UNCHANGED <<fs, saved>>
  BY <1>1, Ready, LinkFileIs
<1> QED BY <1>1, <1>2, <1>3, <1>4

\* unfold_symlink_cb at one link.
LEMMA Unfolds ==
    ASSUME Steady, UnfoldLink
    PROVE  /\ stage = "unfold" /\ stage' = "unfold" /\ done'.op = "none"
           /\ UNCHANGED <<saved, op, pkg, files, before>>
           /\ \/ UNCHANGED fs
              \/ \E p \in Paths, c \in Pkgs :
                    /\ p[1] = Home /\ Folded(p) /\ fs[p] = Link(Twin(p, c)) /\ UnfoldedInto(p, c)
<1>1. Calm /\ JobKind /\ stage = "unfold"
  BY DEF Steady, UnfoldLink
<1>2. /\ stage' = "unfold" /\ done'.op = "none" /\ UNCHANGED <<op, pkg, files, before>>
  BY <1>1 DEF UnfoldLink, JobKind, NotEnded, Ended, jobVars, endVars
<1>3. \A p \in pending : p \in Paths /\ fs[p].kind = "link" /\ p[1] = Home
  BY <1>1, Ready DEF Calm, World
<1>4. /\ saved' = saved
      /\ \E p \in pending :
            \/ Folded(p) /\ \E c \in Pkgs : fs[p] = Link(Twin(p, c)) /\ UnfoldedInto(p, c)
            \/ UNCHANGED fs
  BY <1>1, <1>3, UnfoldLinkIs
<1> QED BY <1>1, <1>2, <1>3, <1>4

\* mkdir_p of one parent.
LEMMA Makes ==
    ASSUME Steady, MakeParents
    PROVE  /\ stage = "mkdir" /\ stage' = "mkdir" /\ done'.op = "none"
           /\ UNCHANGED <<saved, op, pkg, files, before>> /\ pkg \in Pkgs
           /\ \E rel \in Wanted(pkg), new \in SUBSET Paths :
                 /\ fs' = [q \in Paths |-> IF q \in new THEN Dir ELSE fs[q]]
                 /\ \A q \in new : /\ q[1] = Home /\ fs[q] = None
                                   /\ Path(Home, rel) \in Under(q) /\ q # Path(Home, rel)
<1>1. Calm /\ JobKind /\ stage = "mkdir"
  BY DEF Steady, MakeParents
<1>2. /\ stage' = "mkdir" /\ done'.op = "none" /\ UNCHANGED <<saved, op, pkg, files, before>>
  BY <1>1 DEF MakeParents, JobKind, NotEnded, Ended, jobVars, endVars
<1>3. PICK s \in todo :
          fs' = [q \in Paths |-> IF q \in MkdirP(Path(Home, s)) THEN Dir ELSE fs[q]]
  BY DEF MakeParents
<1>4. /\ s \in Rels /\ NoFold(Path(Home, s)) /\ pkg \in Pkgs /\ files = Wanted(pkg)
      /\ todo \subseteq ParentRels(files)
  BY <1>1, Ready DEF JobKind, Linking
<1>5. PICK rel \in Wanted(pkg) : s = Front(rel)
  BY <1>4 DEF ParentRels
<1>6. rel \in Rels \ {<<>>}
  BY <1>1, <1>4, <1>5, CollectIs
<1>7. /\ Path(Home, rel) \in Paths /\ Len(Path(Home, rel)) > 1
      /\ Front(Path(Home, rel)) = Path(Home, s)
  BY <1>5, <1>6, FilePath
<1>8. ASSUME NEW q \in MkdirP(Path(Home, s))
      PROVE  /\ q \in Paths /\ q[1] = Home /\ fs[q] = None
             /\ Path(Home, rel) \in Under(q) /\ q # Path(Home, rel)
  <2>1. q \in Paths /\ q[1] = Home /\ fs[q] = None /\ Path(Home, s) \in Under(q)
    BY <1>1, <1>4, <1>8, MkdirIs
  <2>2. Path(Home, rel) \in Under(q) /\ q # Path(Home, rel)
    BY <1>7, <2>1, UnderFacts
  <2> QED BY <2>1, <2>2
<1> DEFINE new == MkdirP(Path(Home, s))
<1>9. new \in SUBSET Paths
  BY <1>8
<1>10. \A q \in new : /\ q[1] = Home /\ fs[q] = None
                      /\ Path(Home, rel) \in Under(q) /\ q # Path(Home, rel)
  BY <1>8
<1>11. fs' = [q \in Paths |-> IF q \in new THEN Dir ELSE fs[q]]
  BY <1>3
<1> HIDE DEF new
<1> QED BY <1>1, <1>2, <1>4, <1>9, <1>10, <1>11

\* What a step of the linker can do to the trees.
LEMMA WorkIs ==
    ASSUME Work
    PROVE  UNCHANGED treeVars \/ UnlinkFile \/ UnfoldLink \/ MakeParents \/ LinkFile
           \/ DeleteEntry
BY DEF Work, UnlinkDone, Exclude, DetectConflicts, UnlinkConflict, BeginWalk, WalkPath,
       WalkDone, ParentsMade, LinkDone

\* What has been unlinked stays so until the operation ends.
LEMMA UnlinkedStep ==
    ASSUME Steady, UnlinkedSoFar, Next
    PROVE  UnlinkedSoFar'
<1>1. /\ Calm /\ JobKind /\ sc' = sc /\ fs = [r \in Paths |-> fs[r]]
      /\ stage # "delete" => \A c \in Pkgs : Wanted(c)' = Wanted(c)
      /\ \A c \in Pkgs : Collect(c) = Wanted(c)
      /\ \A c \in Pkgs : IsDir(<<c>>) => fs[<<c>>] = Dir
      /\ \A c \in Pkgs : IsPackageLinked(c) => IsDir(<<c>>)
  BY Turns, CollectIs DEF Steady, Calm, TreeInv, IsPackageLinked
<1>2. CASE UnlinkFile
  <2>1. /\ stage = "unlink" /\ done'.op = "none"
        /\ UNCHANGED <<op, pkg, victim, resume>>
        /\ victim \in Pkgs /\ todo \subseteq Wanted(victim)
    BY <1>2, Unlinks
  <2>2. PICK rel \in todo :
              /\ todo' = todo \ {rel}
              /\ \/ LinkedTo(fs, victim, rel) /\ UNCHANGED failed
                    /\ \E gone \in SUBSET Paths : RemovedWith(Path(Home, rel), gone)
                 \/ ~LinkedTo(fs, victim, rel) /\ UNCHANGED <<fs, failed>>
                 \/ /\ "unlink" \in sc.faults /\ UNCHANGED fs
                    /\ failed' = (failed \/ resume = "idle")
    BY <1>2, Unlinks
  <2>3. ASSUME NEW s \in Wanted(victim) \ todo', LinkedTo(fs', victim, s)
        PROVE  "unlink" \in sc.faults /\ (resume = "idle" => failed')
    <3>1. CASE s # rel
      <4>1. LinkedTo(fs, victim, s)
        <5>1. ASSUME NEW gone \in SUBSET Paths, RemovedWith(Path(Home, rel), gone)
              PROVE  LinkedTo(fs, victim, s)
          <6>1. s \in Rels \ {<<>>}
            BY <1>1, <2>1, CollectIs
          <6>2. Path(Home, s) \in Paths
            BY <6>1, FilePath
          <6> QED BY <2>3, <5>1, <6>2, Kinds DEF RemovedWith, LinkedTo
        <5> QED BY <2>2, <2>3, <5>1
      <4>2. "unlink" \in sc.faults /\ (resume = "idle" => failed)
        BY <2>1, <2>2, <2>3, <3>1, <4>1 DEF UnlinkedSoFar
      <4> QED BY <2>2, <4>2
    <3>2. CASE s = rel
      <4>1. ASSUME NEW gone \in SUBSET Paths, RemovedWith(Path(Home, rel), gone)
            PROVE  FALSE
        <5>1. fs'[Path(Home, rel)] = None
          BY <4>1 DEF RemovedWith
        <5> QED BY <2>3, <3>2, <5>1, Kinds DEF LinkedTo
      <4> QED BY <2>2, <2>3, <3>2, <4>1
    <3> QED BY <3>1, <3>2
  <2>4. Wanted(victim)' = Wanted(victim)
    BY <1>1, <2>1
  <2>5. sc' = sc
    BY <1>1
  <2> QED BY <2>1, <2>3, <2>4, <2>5 DEF UnlinkedSoFar
<1>3. ASSUME NEW p \in Pkgs, victim' = p, stage # "delete", stage' = "unlink",
             todo' = Collect(p), done'.op = "none"
      PROVE  UnlinkedSoFar'
  <2>1. Wanted(victim)' = todo'
    BY <1>1, <1>3
  <2> QED BY <1>3, <2>1 DEF UnlinkedSoFar
<1>4. CASE stage' # "unlink" /\ (done'.op = "unlink" => ~done'.ok)
  BY <1>4 DEF UnlinkedSoFar
<1>5. CASE stage' # "unlink" /\ done'.op = "unlink" /\ done'.ok
  <2>1. /\ stage = "unlink" /\ todo = {} /\ victim = pkg /\ resume = "idle" /\ UNCHANGED <<fs, pkg>>
        /\ ~failed
    BY <1>5, Turns DEF treeVars
  <2>2. pkg \in Pkgs
    BY <1>1, <2>1, Ready DEF JobKind
  <2>3. Wanted(pkg)' = Wanted(pkg)
    BY <1>1, <2>1, <2>2
  <2> QED BY <1>5, <2>1, <2>3 DEF UnlinkedSoFar
<1>6. ASSUME NEW p \in Pkgs, BeginUnlink(p) \/ BeginRelink(p) \/ BeginRemove(p), stage' = "unlink"
      PROVE  UnlinkedSoFar'
  BY <1>3, <1>6 DEF BeginUnlink, BeginRelink, BeginRemove, Begin, EnterUnlink, EnterDelete,
         NotEnded, Ended
<1>7. CASE (Exclude \/ UnlinkConflict) /\ stage' = "unlink"
  <2>1. done'.op = "none" /\ victims \subseteq Pkgs /\ stage # "delete"
    BY <1>1, <1>7 DEF Exclude, UnlinkConflict, JobKind, JobTyped, Steady, NotEnded, Ended, endVars
  <2>2. PICK c \in victims : /\ IsDir(<<c>>) \/ IsPackageLinked(c)
                             /\ todo' = Collect(c) /\ victim' = c
    BY <1>7 DEF Exclude, UnlinkConflict, EnterUnlink
  <2>3. c \in Pkgs /\ IsDir(<<c>>)
    BY <1>1, <2>1, <2>2
  <2> QED BY <1>3, <1>7, <2>1, <2>2, <2>3
<1>8. \/ UnlinkFile \/ stage' # "unlink" \/ Exclude \/ UnlinkConflict
      \/ \E p \in Pkgs : BeginUnlink(p) \/ BeginRelink(p) \/ BeginRemove(p)
  BY <1>1 DEF Next, User, Start, Work, UserWrite, UserLink, BeginFix, BeginLink, Begin, EnterLink,
         UnlinkDone, EnterDelete, DeleteEntry, DetectConflicts, BeginWalk, WalkPath, UnfoldLink,
         WalkDone, ParentsMade, LinkFile, MakeParents, LinkDone, Crash, End, JobKind
<1> QED BY <1>2, <1>4, <1>5, <1>6, <1>7, <1>8

\* No step of an unlink leaves a directory that it has emptied.
LEMMA EmptiedStep ==
    ASSUME Steady, NoneEmptied, Next
    PROVE  NoneEmptied'
<1>1. Calm /\ JobKind /\ fs = [r \in Paths |-> fs[r]]
  BY DEF Steady, Calm, TreeInv
<1>2. \A q : Children(q)' = {r \in Paths : r # <<r[1]>> /\ Front(r) = q /\ fs'[r] # None}
  BY DEF Children
<1>3. CASE UnlinkFile /\ op = "unlink"
  <2>1. saved' = saved /\ before' = before /\ stage = "unlink"
    BY <1>3, Unlinks
  <2>2. SUFFICES ASSUME NEW q \in Paths, q[1] = Home, Len(q) > 1, fs'[q] = Dir,
                        Children(q)' = {}, saved[q] = {}, NEW r \in Paths, Len(r) > 1, Front(r) = q
                 PROVE  before[1][r] = None
    BY <2>1 DEF NoneEmptied
  <2>3. PICK rel \in todo :
            UNCHANGED fs \/ \E gone \in SUBSET Paths : RemovedWith(Path(Home, rel), gone)
    BY <1>3, Unlinks
  <2>4. fs[q] = Dir /\ Children(q) = {}
    <3>1. CASE UNCHANGED fs
      BY <2>2, <3>1 DEF Children
    <3>2. ASSUME NEW gone \in SUBSET Paths, RemovedWith(Path(Home, rel), gone)
          PROVE  fs[q] = Dir /\ Children(q) = {}
      <4>1. fs[q] = Dir /\ q \notin gone
        BY <2>2, <3>2, Kinds DEF RemovedWith
      <4>2. Children(q) \subseteq gone
        BY <1>2, <2>2, <3>2 DEF RemovedWith, Children
      <4> QED BY <2>2, <3>2, <4>1, <4>2 DEF RemovedWith
    <3> QED BY <2>3, <3>1, <3>2
  <2> QED BY <1>3, <2>1, <2>2, <2>4 DEF NoneEmptied
<1>4. ASSUME NEW p \in Pkgs, BeginUnlink(p) PROVE NoneEmptied'
  <2>1. before' = treeVars /\ UNCHANGED <<fs, saved>>
    BY <1>4 DEF BeginUnlink, Begin, treeVars
  <2>2. SUFFICES ASSUME NEW q \in Paths, Children(q) = {}, NEW r \in Paths, Len(r) > 1, Front(r) = q
                 PROVE  fs[r] = None
    BY <2>1 DEF NoneEmptied, Children, treeVars
  <2> QED BY <2>2, RootOrNot DEF Children
<1>5. CASE done'.op = "unlink"
  <2>1. /\ op = "unlink" /\ stage = "unlink" /\ UNCHANGED <<fs, saved, before>>
    BY <1>5, Turns DEF treeVars
  <2> QED BY <2>1 DEF NoneEmptied, Children
<1>6. CASE ~(stage' = "unlink" /\ op' = "unlink") /\ done'.op # "unlink"
  BY <1>6 DEF NoneEmptied
<1>7. stage' = "unlink" /\ op' = "unlink" =>
         (UnlinkFile /\ op = "unlink") \/ \E p \in Pkgs : BeginUnlink(p)
  BY <1>1 DEF Next, User, Start, Work, UserWrite, UserLink, BeginFix, BeginLink, BeginRelink,
         BeginRemove, Begin, EnterLink, EnterUnlink, UnlinkFile, Exclude, UnlinkConflict,
         UnlinkDone, DeleteEntry, DetectConflicts, BeginWalk, WalkPath, UnfoldLink, WalkDone,
         ParentsMade, LinkFile, MakeParents, LinkDone, Crash, End, JobKind, Linking, Clearing,
         jobVars
<1> QED BY <1>3, <1>4, <1>5, <1>6, <1>7

-----------------------------------------------------------------------------
(* What has been excluded *)

\* While a package is linked no link to a package that was not folded is made but its own.
LEMMA NoNewLink ==
    ASSUME Steady, NothingFolded, Linking, Work, NEW c \in Pkgs, c # pkg, NotFolded(c),
           NEW rel \in Rels \ {<<>>}, LinkedTo(fs', c, rel)
    PROVE  LinkedTo(fs, c, rel)
<1> DEFINE q == Path(Home, rel)
<1>1. /\ q \in Paths /\ q[1] = Home /\ Calm /\ fs = [r \in Paths |-> fs[r]] /\ JobKind
      /\ Path(c, rel)[1] = c
  BY FilePath DEF Steady, Calm, TreeInv
<1>2. fs'[q] = Link(Path(c, rel))
  BY DEF LinkedTo
<1> SUFFICES fs'[q] = fs[q]
  BY <1>2 DEF LinkedTo
<1> HIDE DEF q
<1>3. CASE UnlinkFile
  <2>1. UNCHANGED fs \/ \E gone : fs' = [r \in Paths |-> IF r \in gone THEN None ELSE fs[r]]
    BY <1>3, Unlinks DEF RemovedWith
  <2> QED BY <1>1, <1>2, <2>1, Kinds
<1>4. CASE UnfoldLink
  <2>1. ASSUME NEW p \in Paths, NEW d \in Pkgs, p[1] = Home, Folded(p), fs[p] = Link(Twin(p, d)),
               UnfoldedInto(p, d), fs'[q] # fs[q]
        PROVE  FALSE
    <3>1. fs'[q] = Link(Twin(q, d))
      BY <1>1, <1>2, <2>1, Kinds DEF UnfoldedInto
    <3>2. Twin(q, d)[1] = d /\ Twin(p, d)[1] = d
      BY <1>1, <2>1, Twins
    <3>3. d = c
      <4>1. Link(Twin(q, d)).to = Link(Path(c, rel)).to
        BY <1>2, <3>1
      <4>2. Twin(q, d) = Path(c, rel)
        BY <4>1, Kinds
      <4> QED BY <1>1, <3>2, <4>2
    <3>4. before[1][p] = fs[p]
      BY <1>4, <2>1, Unfolds DEF NothingFolded
    <3>5. p \in Under(<<Home>>)
      BY <2>1, UnderRoot
    <3>6. before[1][p].kind = "link" /\ before[1][p].to[1] = c
      BY <2>1, <3>2, <3>3, <3>4, Kinds
    <3>7. fs[before[1][p].to] # Dir
      BY <3>5, <3>6 DEF NotFolded
    <3> QED BY <2>1, <3>4, <3>7 DEF Folded
  <2> QED BY <1>4, <2>1, Unfolds
<1>5. CASE MakeParents
  BY <1>1, <1>2, <1>5, Kinds DEF MakeParents
<1>6. CASE LinkFile
  <2>1. PICK s \in Wanted(pkg) :
            \/ UNCHANGED fs
            \/ fs' = [fs EXCEPT ![Path(Home, s)] = Link(Path(pkg, s))]
            \/ \E linked \in BOOLEAN : BackedUp(Path(Home, s), Path(pkg, s), linked)
    BY <1>6, Links
  <2>2. fs'[q] = fs[q] \/ fs'[q] = Link(Path(pkg, s))
    <3>1. ASSUME NEW linked \in BOOLEAN, BackedUp(Path(Home, s), Path(pkg, s), linked)
          PROVE  fs'[q] = fs[q] \/ fs'[q] = Link(Path(pkg, s))
      BY <1>1, <1>2, <3>1, Kinds DEF BackedUp
    <3> QED BY <1>1, <2>1, <3>1
  <2>3. Link(Path(pkg, s)) # Link(Path(c, rel))
    <3>1. pkg \in Pkgs /\ s \in Rels \ {<<>>}
      BY <1>1, <1>6, Links, CollectIs
    <3>2. Path(pkg, s)[1] = pkg
      BY <3>1, FilePath
    <3>3. Path(pkg, s) # Path(c, rel)
      BY <1>1, <3>2
    <3> QED BY <3>3, Kinds
  <2> QED BY <1>2, <2>2, <2>3
<1>7. CASE UNCHANGED treeVars
  BY <1>7 DEF treeVars
<1>8. ~DeleteEntry
  BY <1>1 DEF DeleteEntry, Linking, Clearing
<1> QED BY <1>3, <1>4, <1>5, <1>6, <1>7, <1>8, WorkIs

\* What was folded, and is still a directory, was so before the step.
LEMMA NotFoldedStays ==
    ASSUME Steady, Was, Linking, Work, UNCHANGED before, NEW c \in Pkgs
    PROVE  /\ NotFolded(c)' => NotFolded(c)
           /\ fs'[<<c>>] = Dir => fs[<<c>>] = Dir
<1>1. ~DeleteEntry /\ Next
  BY DEF DeleteEntry, Linking, Clearing, Steady, JobKind, Next
<1>2. \A q \in Paths : q[1] \in Pkgs => fs'[q] = fs[q]
  BY <1>1, HomeOnly
<1>3. <<c>> \in Paths /\ <<c>>[1] = c
  BY RootPath
<1>4. ASSUME NotFolded(c)', NEW q \in Under(<<Home>>), before[1][q].kind = "link",
             before[1][q].to[1] = c
      PROVE  fs[before[1][q].to] # Dir
  <2>1. q \in Paths
    BY DEF Under
  <2>2. PICK d \in Pkgs : before[1][q] = Link(Twin(q, d))
    BY <1>4, <2>1 DEF Was
  <2>3. before[1][q].to = Twin(q, d) /\ Twin(q, d) \in Paths
    BY <2>1, <2>2, Kinds, Twins
  <2>4. fs'[before[1][q].to] # Dir
    BY <1>4 DEF NotFolded
  <2> QED BY <1>2, <1>4, <2>3, <2>4
<1> QED BY <1>2, <1>3, <1>4 DEF NotFolded

\* What has been excluded stays unlinked while the package is linked.
LEMMA ExcludedStep ==
    ASSUME Steady, Was, NothingFolded, ExcludedSoFar, Next
    PROVE  ExcludedSoFar'
<1>1. SUFFICES ASSUME "unlink" \notin sc.faults PROVE ExcludedSoFar'
  BY Turns DEF ExcludedSoFar
<1>2. /\ Calm /\ JobKind /\ JobTyped /\ sc' = sc
      /\ stage # "delete" => \A c \in Pkgs : /\ Wanted(c)' = Wanted(c)
                                             /\ Conflicts(c)' = Conflicts(c)
      /\ \A c \in Pkgs : Conflicts(c) \subseteq Pkgs
      /\ \A c \in Pkgs : Collect(c) = Wanted(c)
      /\ \A c \in Pkgs : Wanted(c) \subseteq Rels \ {<<>>}
      /\ \A c \in Pkgs : IsPackageLinked(c) <=> \E rel \in Collect(c) : LinkedTo(fs, c, rel)
      /\ \A c \in Pkgs : IsDir(<<c>>) <=> fs[<<c>>] = Dir
      /\ Linking => pkg \in Pkgs
  BY Turns, CollectIs, StatusIs, Ready, LinkerAssumption DEF Steady, Calm, Conflicts
<1> DEFINE ToGo(c, rel) == \/ stage = "exclude" /\ c \in victims
                           \/ /\ stage = "unlink" /\ resume = "exclude"
                              /\ c \in victims \/ (c = victim /\ rel \in todo)
<1>3. ASSUME NEW p \in Pkgs, pkg' = p, stage # "delete", stage' = "exclude",
             victims' = Conflicts(p), done'.op = "none"
      PROVE  ExcludedSoFar'
  <2>1. Conflicts(pkg)' = victims'
    BY <1>2, <1>3
  <2> QED BY <1>2, <1>3, <2>1 DEF ExcludedSoFar
<1>4. CASE ~Linking' /\ done'.op \notin {"link", "relink"}
  BY <1>4 DEF ExcludedSoFar
<1>5. ASSUME NEW p \in Pkgs, BeginLink(p) PROVE ExcludedSoFar'
  <2>1. /\ stage = "idle" /\ stage' = "exclude" /\ pkg' = p /\ victims' = Conflicts(p)
        /\ done'.op = "none"
    BY <1>5 DEF BeginLink, Begin, EnterLink, NotEnded, Ended
  <2> QED BY <1>3, <2>1
<1>6. CASE UnlinkDone /\ resume = "link"
  <2>1. /\ stage = "unlink" /\ stage' = "exclude" /\ pkg' = pkg /\ victims' = Conflicts(pkg)
        /\ done'.op = "none"
    BY <1>2, <1>6 DEF UnlinkDone, EnterLink, NotEnded, Ended, JobKind, endVars
  <2>2. pkg \in Pkgs
    BY <1>2, <2>1, Ready DEF JobKind
  <2> QED BY <1>3, <2>1, <2>2
<1>7. CASE Linking /\ Work /\ Linking'
  <2>1. UNCHANGED <<pkg, before>> /\ stage' # "idle" /\ done'.op = "none"
    <3>1. stage # "idle" /\ stage' # "idle"
      BY <1>7 DEF Linking, Clearing
    <3>2. ~(BeginFix \/ \E p \in Pkgs : BeginLink(p) \/ BeginUnlink(p) \/ BeginRelink(p)
                                                     \/ BeginRemove(p))
      BY <3>1 DEF BeginFix, BeginLink, BeginUnlink, BeginRelink, BeginRemove, Begin
    <3> QED BY <3>1, <3>2, Turns
  <2> pkg \in Pkgs /\ stage # "delete"
    BY <1>2, <1>7 DEF Linking, Clearing
  <2> Conflicts(pkg)' = Conflicts(pkg) /\ Conflicts(pkg) \subseteq Pkgs
    BY <1>2, <2>1
  <2>2. SUFFICES ASSUME NEW c \in Conflicts(pkg) \ {pkg}, NotFolded(c)', fs'[<<c>>] = Dir,
                        NEW rel \in Wanted(c), LinkedTo(fs', c, rel)
                 PROVE  ToGo(c, rel)'
    <3>1. \A c \in Conflicts(pkg) : Wanted(c)' = Wanted(c)
      BY <1>2
    <3> QED BY <2>1, <3>1 DEF ExcludedSoFar
  <2>3. c \in Pkgs /\ rel \in Rels \ {<<>>}
    BY <1>2, <1>7, <2>2
  <2>4. NotFolded(c) /\ fs[<<c>>] = Dir /\ LinkedTo(fs, c, rel)
    BY <1>7, <2>1, <2>2, <2>3, NotFoldedStays, NoNewLink
  <2>5. ToGo(c, rel)
    BY <1>1, <1>7, <2>2, <2>4 DEF ExcludedSoFar
  <2>6. CASE UnlinkFile
    <3>1. /\ stage' = stage /\ UNCHANGED <<victims, victim, resume>>
      BY <2>6, Unlinks
    <3>2. PICK s \in todo :
              /\ todo' = todo \ {s}
              /\ \/ \E gone \in SUBSET Paths : RemovedWith(Path(Home, s), gone)
                 \/ ~LinkedTo(fs, victim, s)
      BY <1>1, <2>6, Unlinks
    <3>3. ASSUME c = victim, s = rel PROVE FALSE
      <4>1. ASSUME NEW gone \in SUBSET Paths, RemovedWith(Path(Home, s), gone) PROVE FALSE
        <5>1. fs'[Path(Home, s)] = None
          BY <4>1 DEF RemovedWith
        <5> QED BY <2>2, <3>3, <5>1, Kinds DEF LinkedTo
      <4> QED BY <2>4, <3>2, <3>3, <4>1
    <3> QED BY <2>5, <3>1, <3>2, <3>3
  <2>7. CASE UnlinkDone
    BY <1>2, <2>1, <2>5, <2>7 DEF UnlinkDone, EnterLink, End, unlVars, JobKind
  <2>8. CASE Exclude
    <3>1. PICK d \in victims :
            /\ victims' = victims \ {d}
            /\ IF IsPackageLinked(d)
               THEN EnterUnlink(d, "exclude")
               ELSE UNCHANGED <<stage, victim, resume, todo>>
      BY <2>8 DEF Exclude
    <3>2. stage = "exclude" /\ c \in victims
      BY <2>5, <2>8 DEF Exclude
    <3>3. CASE d # c
      BY <3>1, <3>2, <3>3 DEF EnterUnlink
    <3>4. CASE d = c
      <4>1. IsPackageLinked(c) /\ Collect(c) = Wanted(c)
        BY <1>2, <2>2, <2>3, <2>4
      <4> QED BY <2>2, <3>1, <3>4, <4>1 DEF EnterUnlink
    <3> QED BY <3>3, <3>4
  <2>9. CASE DetectConflicts
    BY <2>5, <2>9 DEF DetectConflicts
  <2>10. stage \notin {"exclude", "unlink"} => FALSE
    BY <2>5
  <2> QED BY <1>7, <2>6, <2>7, <2>8, <2>9, <2>10 DEF Work, DeleteEntry, UnlinkConflict,
        BeginWalk, WalkPath, UnfoldLink, WalkDone, ParentsMade, LinkFile, MakeParents, LinkDone
<1>8. CASE ~Linking' /\ done'.op \in {"link", "relink"}
  <2>1. /\ stage = "link" /\ UNCHANGED <<fs, saved, pkg, before>>
    BY <1>8, Turns DEF treeVars
  <2>2. Linking
    BY <2>1 DEF Linking
  <2>3. /\ Conflicts(pkg)' = Conflicts(pkg) /\ Conflicts(pkg) \subseteq Pkgs
        /\ \A c \in Conflicts(pkg) : Wanted(c)' = Wanted(c)
    BY <1>2, <2>1, <2>2
  <2> QED BY <1>1, <1>8, <2>1, <2>2, <2>3 DEF ExcludedSoFar, NotFolded
<1>9. \/ ~Linking' \/ (Linking /\ Work) \/ (UnlinkDone /\ resume = "link")
      \/ \E p \in Pkgs : BeginLink(p)
  BY <1>2 DEF Next, User, Start, Work, UserWrite, UserLink, BeginFix, BeginUnlink, BeginRelink,
         BeginRemove, Begin, EnterUnlink, UnlinkFile, Exclude, UnlinkConflict,
         UnlinkDone, EnterDelete, DeleteEntry, DetectConflicts, BeginWalk, WalkPath, UnfoldLink,
         WalkDone, ParentsMade, LinkFile, MakeParents, LinkDone, Crash, End, JobKind, Linking,
         Clearing,
         jobVars, unlVars
<1> QED BY <1>4, <1>5, <1>6, <1>7, <1>8, <1>9

-----------------------------------------------------------------------------
(* What is left alone *)

\* The entry of package p at rel has not been deleted.
Kept(p, rel) == fs[Path(p, rel)] # None

\* A file of another package stays linked, by a link at its place or on its way.
LEMMA StaysLinked ==
    ASSUME Steady, VictimsRelated, Work, NEW p \in Pkgs, pkg = NoPkg \/ Unrelated(p, pkg),
           NEW rel \in Plain(p), Kept(p, rel),
           NEW k \in 1..Len(rel), LinkedTo(fs, p, SubSeq(rel, 1, k))
    PROVE  \E j \in 1..Len(rel) : LinkedTo(fs', p, SubSeq(rel, 1, j))
<1> DEFINE pre == SubSeq(rel, 1, k)
           a   == Path(Home, pre)
           P   == Path(Home, rel)
<1>1. /\ Calm /\ TreeInv /\ rel \in Rels \ {<<>>} /\ rel \in Rels /\ rel \in Seq(Parts)
      /\ rel \in DOMAIN sc.source[p] /\ sc.source[p][rel] # Dir /\ Home \in {Home} \union Pkgs
      /\ Home \notin Pkgs /\ Len(rel) \in Nat
  <2>1. Calm /\ TreeInv
    BY DEF Steady, Calm
  <2>2. rel \in Rels \ {<<>>}
    BY <2>1, CollectIs
  <2>3. rel \in DOMAIN sc.source[p] /\ sc.source[p][rel] # Dir
    BY DEF Plain
  <2>4. rel \in Seq(Parts) /\ Len(rel) \in Nat
    BY <2>2, RelSeq
  <2> QED BY <2>1, <2>2, <2>3, <2>4, TreeAssumption
<1>2. ASSUME NEW j \in 1..Len(rel)
      PROVE  /\ SubSeq(rel, 1, j) \in Rels \ {<<>>}
             /\ Path(Home, SubSeq(rel, 1, j)) = SubSeq(P, 1, j + 1)
             /\ P \in Under(Path(Home, SubSeq(rel, 1, j)))
             /\ SubSeq(rel, 1, j) \in DOMAIN sc.source[p]
  BY <1>1, RelPrefixes, FileAbove
<1>3. /\ pre \in Rels \ {<<>>} /\ a = SubSeq(P, 1, k + 1) /\ P \in Under(a) /\ a \in Paths
      /\ a[1] = Home /\ pre \in DOMAIN sc.source[p] /\ Tail(a) = pre /\ Len(a) > 1
      /\ Path(p, pre) \in Paths /\ Path(p, pre)[1] = p /\ Twin(a, p) = Path(p, pre)
  BY <1>2, FilePath
<1>4. fs[a] = Link(Path(p, pre)) /\ fs[a].kind = "link" /\ fs[a].to = Path(p, pre) /\ fs[a] # None
      /\ fs[a] # Dir
  BY Kinds DEF LinkedTo
<1>5. fs'[a] = fs[a] => LinkedTo(fs', p, SubSeq(rel, 1, k))
  BY <1>4 DEF LinkedTo
<1> HIDE DEF a, pre, P
<1>6. CASE UnlinkFile
  <2>1. PICK s \in todo :
            \/ UNCHANGED fs
            \/ /\ LinkedTo(fs, victim, s)
               /\ \E gone \in SUBSET Paths : RemovedWith(Path(Home, s), gone)
    BY <1>6, Unlinks
  <2>2. victim \in Pkgs /\ s \in Rels \ {<<>>} /\ pkg \in Pkgs /\ stage = "unlink"
    BY <1>1, <1>6, Unlinks, Ready, CollectIs
  <2>3. victim # p
    BY <2>2, NoPkgAssumption DEF VictimsRelated
  <2>4. ASSUME LinkedTo(fs, victim, s), NEW gone \in SUBSET Paths, RemovedWith(Path(Home, s), gone)
        PROVE  fs'[a] = fs[a]
    <3>1. a # Path(Home, s)
      <4>1. SUFFICES ASSUME a = Path(Home, s) PROVE FALSE
        OBVIOUS
      <4>2. Link(Path(victim, s)).to = Path(p, pre)
        BY <1>4, <2>4, <4>1 DEF LinkedTo
      <4>3. Path(victim, s)[1] = victim
        BY <2>2, FilePath
      <4> QED BY <1>3, <2>3, <4>2, <4>3, Kinds
    <3>2. a \notin gone
      BY <1>4, <2>4, <3>1 DEF RemovedWith
    <3> QED BY <1>3, <2>4, <3>2 DEF RemovedWith
  <2>5. fs'[a] = fs[a]
    BY <2>1, <2>4
  <2> QED BY <1>5, <2>5
<1>7. CASE UnfoldLink
  <2>1. ASSUME NEW x \in Paths, NEW c \in Pkgs, Folded(x), fs[x] = Link(Twin(x, c)),
               UnfoldedInto(x, c)
        PROVE  \E j \in 1..Len(rel) : LinkedTo(fs', p, SubSeq(rel, 1, j))
    <3>1. CASE x # a
      <4>1. Front(a) # x
        BY <1>1, <1>3, <1>4, <2>1, Kinds DEF TreeInv, Rooted, Folded
      <4> QED BY <1>3, <1>5, <2>1, <3>1, <4>1 DEF UnfoldedInto
    <3>2. CASE x = a
      <4>1. c = p
        <5>1. Twin(x, c)[1] = c /\ Link(Twin(x, c)).to = Path(p, pre)
          BY <1>4, <2>1, <3>2, Twins
        <5> QED BY <1>3, <5>1, Kinds
      <4>2. fs[Path(p, pre)] = Dir
        BY <1>4, <2>1, <3>2 DEF Folded
      <4>3. fs[<<p>>] = Dir /\ fs[Path(p, pre)] = SourceEntry(Path(p, pre))
        BY <1>1, <1>3, <4>2, PackageFacts, Kinds
      <4>4. pre # rel
        BY <1>1, <1>3, <4>2, <4>3, SourceAt
      <4>5. k # Len(rel)
        BY <1>1, <4>4 DEF pre
      <4>6. k + 1 \in 1..Len(rel) /\ k + 1 > 1
        BY <1>1, <4>5
      <4> DEFINE nxt == SubSeq(rel, 1, k + 1)
                 r   == Path(Home, nxt)
      <4>7. /\ nxt \in Rels \ {<<>>} /\ r = SubSeq(P, 1, (k + 1) + 1)
            /\ nxt \in DOMAIN sc.source[p]
        BY <1>2, <4>6
      <4>8. r \in Paths /\ Len(r) > 1 /\ Twin(r, p) = Path(p, nxt) /\ Path(p, nxt) \in Paths
            /\ Path(p, nxt)[1] = p
        <5> HIDE DEF nxt
        <5> QED BY <4>7, FilePath
      <4>9. Front(r) = a /\ r # a
        <5>1. P \in Paths /\ Len(P) = Len(rel) + 1
          BY <1>1, PathShape DEF P
        <5>2. (k + 1) + 1 \in 1..Len(P) /\ (k + 1) + 1 > 1 /\ ((k + 1) + 1) - 1 = k + 1
          BY <1>1, <4>6, <5>1
        <5>3. Front(SubSeq(P, 1, (k + 1) + 1)) = SubSeq(P, 1, ((k + 1) + 1) - 1)
          BY <5>1, <5>2, PathPrefixes
        <5>4. Front(r) = a
          BY <1>3, <4>7, <5>2, <5>3
        <5>5. Front(r) \notin Under(r) /\ r \in Under(r)
          BY <4>8, UnderFacts
        <5> QED BY <5>4, <5>5
      <4>10. fs[Path(p, nxt)] # None
        <5>1. Path(p, rel) \in Under(Path(p, nxt))
          BY <1>1, <4>6, RelPrefixes
        <5>2. Path(p, nxt) # Path(p, rel) => fs[Path(p, nxt)] = Dir
          <6> HIDE DEF nxt
          <6> QED BY <1>1, <4>8, <5>1, Above DEF TreeInv, Rooted, Kept
        <5> HIDE DEF nxt
        <5> QED BY <5>2, Kinds DEF Kept
      <4>11. fs'[r] = Link(Path(p, nxt))
        <5> HIDE DEF r
        <5> QED BY <2>1, <3>2, <4>1, <4>8, <4>9, <4>10 DEF UnfoldedInto
      <4>12. LinkedTo(fs', p, SubSeq(rel, 1, k + 1))
        BY <4>11 DEF LinkedTo
      <4> QED BY <4>6, <4>12
    <3> QED BY <3>1, <3>2
  <2> QED BY <1>5, <1>7, <2>1, Unfolds
<1>8. CASE MakeParents
  <2>1. fs'[a] = fs[a]
    BY <1>3, <1>4, <1>8, Makes
  <2> QED BY <1>5, <2>1
<1>9. CASE LinkFile
  <2>1. PICK s \in Wanted(pkg) :
            \/ UNCHANGED fs
            \/ fs' = [fs EXCEPT ![Path(Home, s)] = Link(Path(pkg, s))]
            \/ \E linked \in BOOLEAN : BackedUp(Path(Home, s), Path(pkg, s), linked)
    BY <1>9, Links
  <2>2. pkg \in Pkgs /\ s \in Plain(pkg) /\ s \in Rels \ {<<>>}
    BY <1>1, <1>9, Links, CollectIs
  <2>3. Unrelated(p, pkg)
    BY <2>2, NoPkgAssumption
  <2>4. P \notin Under(Path(Home, s))
    BY <1>1, <2>2, <2>3, InTheWay DEF P
  <2>5. Path(Home, s) \in Paths /\ Path(Home, s) \in Under(Path(Home, s))
    BY <2>2, FilePath, UnderFacts
  <2>6. a \notin Under(Path(Home, s))
    BY <1>3, <2>4, <2>5, UnderOrder
  <2>7. a # Path(Home, s)
    BY <2>5, <2>6
  <2>8. fs = [q \in Paths |-> fs[q]]
    BY <1>1 DEF TreeInv
  <2>9. fs'[a] = fs[a]
    <3>1. ASSUME NEW linked \in BOOLEAN, BackedUp(Path(Home, s), Path(pkg, s), linked)
          PROVE  fs'[a] = fs[a]
      BY <1>3, <2>6, <2>7, <3>1 DEF BackedUp
    <3> QED BY <1>3, <2>1, <2>7, <2>8, <3>1
  <2> QED BY <1>5, <2>9
<1>10. CASE DeleteEntry
  <2>1. fs'[a] = fs[a]
    BY <1>1, <1>3, <1>10, Deleted
  <2> QED BY <1>5, <2>1
<1>11. CASE UNCHANGED treeVars
  BY <1>5, <1>11 DEF treeVars
<1> QED BY <1>6, <1>7, <1>8, <1>9, <1>10, <1>11, WorkIs

\* The links of packages that are unrelated outlast every step.
LEMMA OthersStep ==
    ASSUME Steady, VictimsRelated, OthersLinked, Next
    PROVE  OthersLinked'
<1>1. /\ \A p : Plain(p)' = Plain(p)
      /\ \A p, q : Unrelated(p, q)' = Unrelated(p, q)
  BY Turns
<1>2. CASE stage' = "idle" /\ done'.op = "none"
  BY <1>2 DEF OthersLinked
<1>3. CASE before' = treeVars /\ UNCHANGED treeVars
  BY <1>3 DEF OthersLinked, WasLinked, LinkedTo, treeVars
<1>4. CASE Work /\ stage # "idle" /\ UNCHANGED <<pkg, before>>
  <2>1. SUFFICES ASSUME NEW p \in Pkgs, pkg = NoPkg \/ Unrelated(p, pkg), NEW rel \in Plain(p),
                        fs'[Path(p, rel)] # None, WasLinked(p, rel)
                 PROVE  \E k \in 1..Len(rel) : LinkedTo(fs', p, SubSeq(rel, 1, k))
    BY <1>1, <1>4 DEF OthersLinked, WasLinked
  <2>2. fs[Path(p, rel)] # None
    <3>1. rel \in Rels \ {<<>>}
      BY <2>1, CollectIs DEF Steady
    <3>2. Path(p, rel) \in Paths /\ Path(p, rel)[1] = p
      BY <3>1, FilePath
    <3>3. CASE DeleteEntry
      BY <2>1, <3>2, <3>3, Deleted
    <3>4. CASE ~DeleteEntry
      BY <2>1, <3>2, <3>4, HomeOnly
    <3> QED BY <3>3, <3>4
  <2>3. PICK k \in 1..Len(rel) : LinkedTo(fs, p, SubSeq(rel, 1, k))
    BY <1>4, <2>1, <2>2 DEF OthersLinked
  <2>4. Kept(p, rel)
    BY <2>2 DEF Kept
  <2> QED BY <1>4, <2>1, <2>3, <2>4, StaysLinked
<1> QED BY <1>2, <1>3, <1>4, Turns

\* The files of package pkg and what is above them have nothing else in their place.
OwnPlace ==
    \A rel \in Wanted(pkg) :
        /\ fs[Path(Home, rel)] = None \/ LinkedTo(fs, pkg, rel)
        /\ \A q \in Paths : Path(Home, rel) \in Under(q) /\ q # Path(Home, rel) =>
              fs[q] \in {None, Dir}

\* A step of a relink keeps them so, and makes no backup.
LEMMA OwnPlaceStays ==
    ASSUME Steady, OwnPlace, Work, op = "relink", UNCHANGED pkg
    PROVE  OwnPlace' /\ UNCHANGED saved
<1>1. /\ Calm /\ TreeInv /\ fs = [q \in Paths |-> fs[q]] /\ Wanted(pkg)' = Wanted(pkg)
      /\ pkg \in Pkgs /\ Wanted(pkg) \subseteq Plain(pkg) /\ Wanted(pkg) \subseteq Rels \ {<<>>}
  <2>1. pkg \in Pkgs /\ Next /\ stage # "delete"
    BY DEF Steady, IInv, JobInv, Next, JobKind
  <2>2. \A c \in Pkgs : Wanted(c)' = Wanted(c)
    BY <2>1, Turns
  <2> QED BY <2>1, <2>2, CollectIs DEF Steady, Calm, TreeInv
<1>2. \A rel \in Wanted(pkg) : /\ Path(Home, rel) \in Paths
                               /\ Path(Home, rel) \in Under(Path(Home, rel))
  BY <1>1, FilePath, UnderFacts
<1>3. ASSUME \A rel \in Wanted(pkg) :
                /\ \/ fs'[Path(Home, rel)] \in {fs[Path(Home, rel)], None}
                   \/ LinkedTo(fs', pkg, rel)
                /\ \A q \in Paths : Path(Home, rel) \in Under(q) /\ q # Path(Home, rel) =>
                      fs'[q] \in {fs[q], None, Dir}
      PROVE  OwnPlace'
  BY <1>1, <1>3 DEF OwnPlace, LinkedTo
<1>4. CASE UnlinkFile
  <2>1. UNCHANGED fs \/ \E gone : fs' = [r \in Paths |-> IF r \in gone THEN None ELSE fs[r]]
    BY <1>4, Unlinks DEF RemovedWith
  <2>2. \A q \in Paths : fs'[q] \in {fs[q], None}
    BY <2>1
  <2> QED BY <1>2, <1>3, <1>4, <2>2, Unlinks
<1>5. CASE UnfoldLink
  <2>1. ASSUME NEW x \in Paths, NEW c \in Pkgs, Folded(x), fs[x] = Link(Twin(x, c)),
               UnfoldedInto(x, c)
        PROVE  OwnPlace'
    <3>1. ASSUME NEW rel \in Wanted(pkg), NEW q \in Paths, Path(Home, rel) \in Under(q)
          PROVE  fs'[q] = fs[q]
      <4>1. q # x
        <5>1. CASE q # Path(Home, rel)
          BY <2>1, <3>1, <5>1, Kinds DEF OwnPlace
        <5>2. CASE q = Path(Home, rel) /\ fs[q] = None
          BY <2>1, <5>2, Kinds
        <5>3. CASE q = Path(Home, rel) /\ LinkedTo(fs, pkg, rel) /\ q = x
          <6>1. fs[Path(pkg, rel)] = Dir
            BY <2>1, <5>3, Kinds DEF Folded, LinkedTo
          <6>2. Path(pkg, rel) \in Paths /\ Path(pkg, rel)[1] = pkg /\ rel \in Rels \ {<<>>}
            BY <1>1, FilePath
          <6>3. fs[Path(pkg, rel)] = SourceEntry(Path(pkg, rel))
            BY <1>1, <6>1, <6>2, PackageFacts, Kinds
          <6> QED BY <1>1, <6>1, <6>2, <6>3, SourceAt DEF Plain
        <5> QED BY <5>1, <5>2, <5>3 DEF OwnPlace
      <4>2. ~(Len(q) > 1 /\ Front(q) = x)
        <5>1. SUFFICES ASSUME Len(q) > 1, Front(q) = x PROVE FALSE
          OBVIOUS
        <5>2. q \in Under(x) /\ q # x /\ x \in Paths
          BY <4>1, <5>1, UnderFacts
        <5>3. Path(Home, rel) \in Under(x) /\ x # Path(Home, rel)
          BY <1>2, <3>1, <5>2, UnderOrder
        <5> QED BY <2>1, <5>3, Kinds DEF OwnPlace
      <4> QED BY <2>1, <4>1, <4>2 DEF UnfoldedInto
    <3> QED BY <1>2, <1>3, <3>1
  <2>2. CASE UNCHANGED fs
    <3>1. \A q : fs'[q] = fs[q]
      BY <2>2
    <3> QED BY <1>3, <1>5, <3>1, Unfolds
  <2> QED BY <1>5, <2>1, <2>2, Unfolds
<1>6. CASE MakeParents
  <2>1. PICK s \in Wanted(pkg), new \in SUBSET Paths :
            /\ fs' = [q \in Paths |-> IF q \in new THEN Dir ELSE fs[q]]
            /\ \A q \in new : Path(Home, s) \in Under(q) /\ q # Path(Home, s)
    BY <1>6, Makes
  <2>2. ASSUME NEW rel \in Wanted(pkg) PROVE Path(Home, rel) \notin new
    <3>1. SUFFICES ASSUME Path(Home, rel) \in new PROVE FALSE
      OBVIOUS
    <3>2. Path(Home, s) \in Under(Path(Home, rel)) /\ s # rel
      BY <2>1, <3>1
    <3>3. s \in DOMAIN sc.source[pkg] /\ rel \in Rels \ {<<>>} /\ sc.source[pkg][rel] # Dir
      BY <1>1 DEF Plain
    <3> QED BY <1>1, <3>2, <3>3, FileAbove
  <2> QED BY <1>2, <1>3, <1>6, <2>1, <2>2, Makes
<1>7. CASE LinkFile
  <2>1. PICK s \in Wanted(pkg) :
            \/ UNCHANGED <<fs, saved>>
            \/ fs' = [fs EXCEPT ![Path(Home, s)] = Link(Path(pkg, s))] /\ UNCHANGED saved
            \/ fs[Path(Home, s)] # None /\ fs[Path(Home, s)].kind # "link"
    BY <1>7, Links
  <2>2. fs[Path(Home, s)] = None \/ fs[Path(Home, s)].kind = "link"
    BY Kinds DEF OwnPlace, LinkedTo
  <2>3. CASE UNCHANGED <<fs, saved>>
    BY <1>3, <2>3
  <2>4. CASE fs' = [fs EXCEPT ![Path(Home, s)] = Link(Path(pkg, s))] /\ UNCHANGED saved
    <3>1. \A q \in Paths : fs'[q] = IF q = Path(Home, s) THEN Link(Path(pkg, s)) ELSE fs[q]
      BY <1>1, <2>4
    <3>2. ASSUME NEW rel \in Wanted(pkg)
          PROVE  fs'[Path(Home, rel)] = fs[Path(Home, rel)] \/ LinkedTo(fs', pkg, rel)
      <4>1. CASE Path(Home, rel) = Path(Home, s)
        <5>1. rel = s
          <6>1. rel \in Rels \ {<<>>} /\ s \in Rels \ {<<>>}
            BY <1>1
          <6>2. Tail(Path(Home, rel)) = rel /\ Tail(Path(Home, s)) = s
            BY <6>1, FilePath
          <6> QED BY <4>1, <6>2
        <5> QED BY <1>2, <3>1, <5>1 DEF LinkedTo
      <4>2. CASE Path(Home, rel) # Path(Home, s)
        BY <1>2, <3>1, <4>2
      <4> QED BY <4>1, <4>2
    <3>3. ASSUME NEW rel \in Wanted(pkg), NEW q \in Paths, Path(Home, rel) \in Under(q),
                 q # Path(Home, rel)
          PROVE  fs'[q] = fs[q]
      <4>1. q # Path(Home, s)
        <5>1. SUFFICES ASSUME q = Path(Home, s) PROVE FALSE
          OBVIOUS
        <5>2. rel \in DOMAIN sc.source[pkg] /\ s \in Rels \ {<<>>} /\ sc.source[pkg][s] # Dir
          BY <1>1 DEF Plain
        <5>3. s # rel
          BY <3>3, <5>1
        <5> QED BY <1>1, <3>3, <5>1, <5>2, <5>3, FileAbove
      <4> QED BY <3>1, <4>1
    <3> QED BY <1>3, <2>4, <3>2, <3>3
  <2> QED BY <2>1, <2>2, <2>3, <2>4
<1>8. CASE UNCHANGED treeVars
  BY <1>3, <1>8 DEF treeVars
<1>9. ~DeleteEntry
  BY DEF DeleteEntry, Steady, JobKind
<1> QED BY <1>4, <1>5, <1>6, <1>7, <1>8, <1>9, WorkIs

\* What was there when a relink began is there or still to be linked again.
LEMMA RelinkStep ==
    ASSUME Steady, Relinking, Next
    PROVE  Relinking'
<1>1. /\ Calm /\ TreeInv
      /\ stage # "delete" => \A c \in Pkgs : Wanted(c)' = Wanted(c)
  BY Turns DEF Steady, Calm
<1>2. CASE stage' = "idle" /\ done'.op # "relink"
  BY <1>2 DEF Relinking
<1>3. CASE op' # "relink"
  BY <1>3 DEF Relinking
<1>4. ASSUME NEW p \in Pkgs, BeginRelink(p) PROVE Relinking'
  <2>1. stage = "idle" /\ pkg' = p /\ before' = <<fs, saved>> /\ UNCHANGED <<fs, saved>>
    BY <1>4 DEF BeginRelink, Begin, treeVars
  <2>2. ASSUME NEW rel \in Wanted(p), LinkedTo(fs, p, rel), NEW q \in Paths,
               Path(Home, rel) \in Under(q), q # Path(Home, rel)
        PROVE  fs[q] = Dir
    <3>1. rel \in Rels \ {<<>>}
      BY <1>1, CollectIs
    <3>2. Path(Home, rel) \in Paths /\ fs[Path(Home, rel)] # None
      BY <2>2, <3>1, FilePath, Kinds DEF LinkedTo
    <3> QED BY <1>1, <2>2, <3>2, Above DEF TreeInv, Rooted
  <2>3. Wanted(pkg)' = Wanted(p)
    BY <1>1, <2>1
  <2> QED BY <2>1, <2>2, <2>3 DEF Relinking, LinkedTo
<1>5. CASE Work /\ stage # "idle" /\ op' = "relink" /\ UNCHANGED <<op, pkg, before>>
  <2> Wanted(pkg)' = Wanted(pkg)
    <3>1. stage # "delete" /\ pkg \in Pkgs
      BY <1>5 DEF Steady, JobKind, IInv, JobInv
    <3> QED BY <1>1, <1>5, <3>1
  <2>1. SUFFICES ASSUME \A rel \in Wanted(pkg) : LinkedTo(before[1], pkg, rel)
                 PROVE  saved' = before[2] /\ OwnPlace'
    BY <1>5 DEF Relinking, LinkedTo, OwnPlace
  <2>2. saved = before[2] /\ OwnPlace
    BY <1>5, <2>1 DEF Relinking, OwnPlace
  <2> QED BY <1>5, <2>2, OwnPlaceStays
<1>6. \/ (stage' = "idle" /\ done'.op # "relink") \/ op' # "relink"
      \/ Work /\ stage # "idle" /\ op' = "relink" /\ UNCHANGED <<op, pkg, before>>
      \/ \E p \in Pkgs : BeginRelink(p)
  BY Turns DEF BeginFix, BeginLink, BeginUnlink, BeginRemove, Begin
<1> QED BY <1>2, <1>3, <1>4, <1>5, <1>6

-----------------------------------------------------------------------------
(* What a remove leaves *)

\* A link to what was in the package that is removed has no file of it to name, or
\* unlink_package has still to come to it.
Lasting(q) ==
    \/ before[1][fs[q].to] \in {None, Dir}
    \/ \E i \in sc.ignored : IsPrefix(i, Tail(fs[q].to))

RemovedSoFar ==
    op = "remove" /\ (stage # "idle" \/ done.op = "remove") /\ "unlink" \notin sc.faults =>
        \A q \in Paths : q[1] = Home /\ fs[q].kind = "link" /\ fs[q].to[1] = pkg =>
            Lasting(q) \/ (stage = "unlink" /\ Tail(q) \in todo)

\* A link into a package names the entry at its own place.
LEMMA LinkInto ==
    ASSUME Calm, NEW p \in Pkgs, NEW q \in Paths, fs[q].kind = "link", fs[q].to[1] = p
    PROVE  /\ q = Path(Home, Tail(q)) /\ Tail(q) \in Rels \ {<<>>}
           /\ fs[q].to = Path(p, Tail(q)) /\ Tail(fs[q].to) = Tail(q)
           /\ LinkedTo(fs, p, Tail(q))
<1>1. PICK c \in Pkgs : q[1] = Home /\ fs[q] = Link(Twin(q, c)) /\ Tail(q) \in DOMAIN sc.source[c]
  BY DEF Calm, World
<1>2. fs[q].to = Twin(q, c) /\ Twin(q, c)[1] = c /\ Tail(Twin(q, c)) = Tail(q) /\ Tail(q) \in Rels
      /\ q = Path(Home, Tail(q))
  BY <1>1, Kinds, Twins
<1>3. c = p
  BY <1>2
<1>4. Tail(q) \in Rels \ {<<>>}
  BY <1>1, SourceTyped DEF Calm
<1>5. Twin(q, c) = Path(c, Tail(q))
  <2>1. Twin(Path(Home, Tail(q)), c) = Path(c, Tail(q))
    BY <1>4, FilePath
  <2> QED BY <1>2, <2>1
<1> QED BY <1>1, <1>2, <1>3, <1>4, <1>5 DEF LinkedTo

\* Every link to a file of the package that is not ignored is unlinked before the
\* package goes: package_remove takes no link for no link only if there is none.
LEMMA RemovedStep ==
    ASSUME Steady, RemovedSoFar, Next
    PROVE  RemovedSoFar'
<1>1. Calm /\ JobKind /\ sc' = sc
  BY Turns DEF Steady
<1>2. SUFFICES ASSUME "unlink" \notin sc.faults, op' = "remove",
                      stage' # "idle" \/ done'.op = "remove",
                      NEW q \in Paths, q[1] = Home, fs'[q].kind = "link", fs'[q].to[1] = pkg'
               PROVE  Lasting(q)' \/ (stage' = "unlink" /\ Tail(q) \in todo')
  BY <1>1 DEF RemovedSoFar
<1>3. ASSUME NEW p \in Pkgs, BeginRemove(p)
      PROVE  Lasting(q)' \/ (stage' = "unlink" /\ Tail(q) \in todo')
  <2>1. /\ pkg' = p /\ before' = treeVars /\ UNCHANGED fs
        /\ HasStatus(p) => stage' = "unlink" /\ todo' = Collect(p)
    BY <1>3 DEF BeginRemove, Begin, EnterUnlink, treeVars
  <2>2. SUFFICES ASSUME fs[fs[q].to] \notin {None, Dir},
                        \A i \in sc.ignored : ~IsPrefix(i, Tail(fs[q].to))
                 PROVE  stage' = "unlink" /\ Tail(q) \in todo'
    BY <1>1, <2>1 DEF Lasting, treeVars
  <2>3. /\ Tail(q) \in Rels \ {<<>>} /\ fs[q].to = Path(p, Tail(q)) /\ Tail(fs[q].to) = Tail(q)
        /\ LinkedTo(fs, p, Tail(q))
    BY <1>1, <1>2, <2>1, LinkInto
  <2>4. Tail(q) \in Collect(p)
    BY <2>2, <2>3 DEF Collect
  <2>5. HasStatus(p)
    BY <1>1, <2>3, <2>4, StatusIs
  <2> QED BY <2>1, <2>4, <2>5
<1>4. ASSUME stage # "idle", UNCHANGED <<op, pkg, before>>, fs'[q] = fs[q],
             stage = "unlink" /\ Tail(q) \in todo => stage' = "unlink" /\ Tail(q) \in todo'
      PROVE  Lasting(q)' \/ (stage' = "unlink" /\ Tail(q) \in todo')
  <2>1. Lasting(q) \/ (stage = "unlink" /\ Tail(q) \in todo)
    BY <1>2, <1>4 DEF RemovedSoFar
  <2> QED BY <1>1, <1>4, <2>1 DEF Lasting
<1>5. CASE UnlinkFile
  <2>1. /\ stage = "unlink" /\ stage' = "unlink" /\ UNCHANGED <<op, pkg, victim, before>>
        /\ victim \in Pkgs
    BY <1>5, Unlinks
  <2>2. PICK rel \in todo :
              /\ todo' = todo \ {rel}
              /\ \/ \E gone \in SUBSET Paths : RemovedWith(Path(Home, rel), gone)
                 \/ ~LinkedTo(fs, victim, rel) /\ UNCHANGED fs
    BY <1>2, <1>5, Unlinks
  <2>3. fs'[q] = fs[q]
    BY <1>2, <2>2, Kinds DEF RemovedWith
  <2>4. victim = pkg /\ pkg \in Pkgs
    BY <1>1, <1>2, <2>1 DEF JobKind, Linking, Clearing
  <2>5. q = Path(Home, Tail(q)) /\ LinkedTo(fs, pkg, Tail(q))
    BY <1>1, <1>2, <2>1, <2>3, <2>4, LinkInto
  <2>6. Tail(q) # rel
    <3>1. SUFFICES ASSUME Tail(q) = rel PROVE FALSE
      OBVIOUS
    <3>2. PICK gone \in SUBSET Paths : RemovedWith(Path(Home, rel), gone)
      BY <2>2, <2>4, <2>5, <3>1
    <3>3. fs'[q] = None
      BY <2>5, <3>1, <3>2 DEF RemovedWith
    <3> QED BY <1>2, <3>3, Kinds
  <2> QED BY <1>4, <2>1, <2>2, <2>3, <2>6
<1>6. CASE UnlinkDone
  <2>1. stage = "unlink" /\ todo = {} /\ UNCHANGED fs
    BY <1>6 DEF UnlinkDone, treeVars
  <2>2. UNCHANGED <<op, pkg, before>>
    BY <1>6 DEF UnlinkDone, End, jobVars, endVars
  <2> QED BY <1>4, <2>1, <2>2
<1>7. CASE DeleteEntry
  <2>1. stage = "delete" /\ pkg \in Pkgs /\ fs'[q] = fs[q]
    BY <1>2, <1>7, Deletes, Deleted, TreeAssumption
  <2>2. UNCHANGED <<op, pkg, before>>
    BY <1>7 DEF DeleteEntry, End, jobVars, endVars
  <2> QED BY <1>4, <2>1, <2>2
<1>8. UnlinkFile \/ UnlinkDone \/ DeleteEntry \/ \E p \in Pkgs : BeginRemove(p)
  BY <1>1, <1>2 DEF Next, User, Start, Work, UserWrite, UserLink, BeginFix, BeginLink, BeginUnlink,
         BeginRelink, Begin, Exclude, DetectConflicts, UnlinkConflict, BeginWalk, WalkPath,
         UnfoldLink, WalkDone, MakeParents, ParentsMade, LinkFile, LinkDone, Crash, End, Forget,
         NotEnded, Ended, jobVars, JobKind, Linking, Clearing
<1> QED BY <1>3, <1>5, <1>6, <1>7, <1>8

-----------------------------------------------------------------------------
(* What an operation that has ended has done *)

Progress ==
    /\ LinkedSoFar /\ NothingFolded /\ VictimsRelated /\ UnlinkedSoFar
    /\ NoneEmptied /\ ExcludedSoFar /\ OthersLinked /\ Relinking /\ RemovedSoFar

\* All of it, in every state of a scenario without other links.
LEMMA ProgressInit ==
    ASSUME Init
    PROVE  Progress
<1>1. stage = "idle" /\ done.op = "none" /\ ~Clearing /\ ~Linking
  BY DEF Init, NotEnded, Ended, Clearing, Linking
<1> QED BY <1>1 DEF Progress, LinkedSoFar, NothingFolded, VictimsRelated, UnlinkedSoFar,
           NoneEmptied, ExcludedSoFar, OthersLinked, Relinking, RemovedSoFar

\* Each part of Progress is kept, given the others.
LEMMA ProgressStep ==
    ASSUME Steady, Was, Progress, [Next]_vars
    PROVE  Progress'
<1>1. CASE Next
  BY <1>1, LinkedStep, FoldedStep, VictimsStep, UnlinkedStep, EmptiedStep, ExcludedStep,
     OthersStep, RelinkStep, RemovedStep DEF Progress
<1>2. CASE UNCHANGED vars
  <2>1. UNCHANGED <<fs, saved, sc, stage, op, pkg, files, victims, victim, resume, todo, failed,
                    done, before>>
    BY <1>2 DEF vars, treeVars, inputs, jobVars, unlVars, walkVars, endVars
  <2>2. /\ \A c : Wanted(c)' = Wanted(c) /\ Plain(c)' = Plain(c) /\ Conflicts(c)' = Conflicts(c)
        /\ \A p, q : Unrelated(p, q)' = Unrelated(p, q) /\ WasLinked(p, q)' = WasLinked(p, q)
        /\ \A c : NotFolded(c)' = NotFolded(c) /\ Children(c)' = Children(c)
        /\ \A q : Folded(q)' = Folded(q)
        /\ Linking' = Linking /\ Clearing' = Clearing
    BY <2>1 DEF Wanted, Plain, Conflicts, Unrelated, WasLinked, NotFolded, Children, Folded,
         Linking, Clearing
  <2>3. LinkedSoFar' /\ NothingFolded'
    BY <2>1, <2>2 DEF Progress, LinkedSoFar, NothingFolded
  <2>4. VictimsRelated' /\ UnlinkedSoFar'
    BY <2>1, <2>2 DEF Progress, VictimsRelated, UnlinkedSoFar
  <2>5. NoneEmptied' /\ ExcludedSoFar'
    BY <2>1, <2>2 DEF Progress, NoneEmptied, ExcludedSoFar
  <2>6. OthersLinked' /\ Relinking'
    BY <2>1, <2>2 DEF Progress, OthersLinked, Relinking
  <2>7. RemovedSoFar'
    BY <2>1, <2>2 DEF Progress, RemovedSoFar, Lasting
  <2> QED BY <2>3, <2>4, <2>5, <2>6, <2>7 DEF Progress
<1> QED BY <1>1, <1>2

ProgressInv == Stowed(sc) => Steady /\ Was /\ Progress

\* How far an operation has come is as Progress says, in every state.
THEOREM ProgressInvariance == Spec => []ProgressInv
<1> DEFINE I == StowInv
           P == ProgressInv
<1>1. Spec => []I
  BY StowInvariance
<1>2. Init /\ I => P
  BY ProgressInit DEF StowInv, ProgressInv
<1>3. I /\ I' /\ P /\ [Next]_vars => P'
  <2>1. SUFFICES ASSUME StowInv, StowInv', ProgressInv, [Next]_vars, Stowed(sc)'
                 PROVE  Steady' /\ Was' /\ Progress'
    BY DEF ProgressInv
  <2>2. sc' = sc
    BY <2>1, SameScenario DEF inputs, vars
  <2>3. Stowed(sc)
    BY <2>1, <2>2 DEF Stowed
  <2>4. Steady' /\ Was'
    BY <2>1 DEF StowInv
  <2> QED BY <2>1, <2>3, <2>4, ProgressStep DEF ProgressInv
<1> HIDE DEF I, P
<1>4. Spec => []P
  BY <1>1, <1>2, <1>3, PTL DEF Spec
<1> QED BY <1>4 DEF P

\* At the end of a link all the files of the package have had their turn.
LEMMA LinkedIsAfterLink ==
    ASSUME ProgressInv, Stowed(sc)
    PROVE  LinkedAfterLink
<1>1. Calm /\ JobKind /\ JobTyped /\ LinkedSoFar /\ (op # "fix" => pkg \in Pkgs)
  BY DEF ProgressInv, Steady, Progress, IInv, JobInv
<1>2. SUFFICES ASSUME done.op \in {"link", "relink"}, done.ok, NEW rel \in Collect(done.pkg)
               PROVE  Linked(done.pkg, rel)
  BY DEF LinkedAfterLink
<1>3. done.pkg = pkg /\ pkg \in Pkgs
  BY <1>1, <1>2 DEF JobKind
<1>4. rel \in Wanted(pkg) /\ rel \in Rels \ {<<>>}
  BY <1>1, <1>2, <1>3, CollectIs
<1>5. LinkedTo(fs, pkg, rel)
  BY <1>1, <1>2, <1>4 DEF LinkedSoFar
<1>6. Len(rel) \in 1..Len(rel) /\ SubSeq(rel, 1, Len(rel)) = rel
  <2>1. rel \in Seq(Parts) /\ Len(rel) > 0
    BY <1>4, FilePath
  <2> QED BY <2>1
<1>7. Linked(pkg, rel)
  BY <1>1, <1>3, <1>4, <1>5, <1>6, LinkedIs
<1> QED BY <1>3, <1>7

\* At the end of a link all the packages it excludes have had their turn.
LEMMA ExcludedIsExclusive ==
    ASSUME ProgressInv, Stowed(sc)
    PROVE  ExclusiveAfterLink
<1>1. /\ Calm /\ JobKind /\ JobTyped /\ ExcludedSoFar /\ (op # "fix" => pkg \in Pkgs)
      /\ \A c \in Pkgs : Conflicts(c) \subseteq Pkgs
  BY LinkerAssumption DEF ProgressInv, Steady, Calm, Progress, IInv, JobInv, Conflicts
<1>2. SUFFICES ASSUME done.op \in {"link", "relink"}, done.ok, "unlink" \notin sc.faults,
                      NEW c \in Conflicts(done.pkg) \ {done.pkg}, NotFolded(c)
               PROVE  ~HasStatus(c)
  BY DEF ExclusiveAfterLink
<1>3. done.pkg = pkg /\ pkg \in Pkgs /\ c \in Pkgs
  BY <1>1, <1>2 DEF JobKind
<1>4. ASSUME NEW rel \in Collect(c), LinkedTo(fs, c, rel) PROVE FALSE
  <2>1. fs[<<c>>] = Dir /\ rel \in Wanted(c)
    BY <1>1, <1>3, <1>4, CollectIs
  <2> QED BY <1>1, <1>2, <1>3, <1>4, <2>1 DEF ExcludedSoFar
<1> QED BY <1>1, <1>3, <1>4, StatusIs

\* At the end of an unlink no file is left to take, so no link is left either.
LEMMA UnlinkedIsAfterUnlink ==
    ASSUME ProgressInv, Stowed(sc)
    PROVE  UnlinkedAfterUnlink
<1>1. /\ Calm /\ JobKind /\ UnlinkedSoFar /\ NoneEmptied /\ Was /\ (op # "fix" => pkg \in Pkgs)
  BY DEF ProgressInv, Steady, Progress, IInv, JobInv
<1>2. SUFFICES ASSUME done.op = "unlink", done.ok
               PROVE  /\ ~HasStatus(done.pkg)
                      /\ \A rel \in Collect(done.pkg) :
                            LET p == Path(Home, rel)
                            IN  before[1][p] = Link(Path(done.pkg, rel)) =>
                                    \A k \in 2..Len(p)-1 :
                                        LET q == SubSeq(p, 1, k)
                                        IN  fs[q] = Dir => Children(q) # {} \/ saved[q] # {}
  BY DEF UnlinkedAfterUnlink
<1>3. done.pkg = pkg /\ pkg \in Pkgs
  BY <1>1, <1>2 DEF JobKind
<1>4. ~HasStatus(pkg)
  BY <1>1, <1>2, <1>3, StatusIs, CollectIs DEF UnlinkedSoFar
<1>5. ASSUME NEW rel \in Collect(pkg), before[1][Path(Home, rel)] = Link(Path(pkg, rel)),
             NEW k \in 2..Len(Path(Home, rel))-1, fs[SubSeq(Path(Home, rel), 1, k)] = Dir,
             Children(SubSeq(Path(Home, rel), 1, k)) = {},
             saved[SubSeq(Path(Home, rel), 1, k)] = {}
      PROVE  FALSE
  <2> DEFINE p == Path(Home, rel)
             q == SubSeq(p, 1, k)
             r == SubSeq(p, 1, k + 1)
  <2>1. rel \in Rels \ {<<>>}
    BY <1>1, <1>3, <1>5, CollectIs
  <2>2. p \in Paths /\ p[1] = Home /\ p \in Seq(Parts) /\ Len(p) \in Nat
    BY <2>1, FilePath, PathsShape
  <2> HIDE DEF p
  <2>3. k \in 2..Len(p)-1
    BY <1>5 DEF p
  <2>4. k \in 1..Len(p) /\ k + 1 \in 1..Len(p) /\ k > 1 /\ k + 1 > 1 /\ (k + 1) - 1 = k
    BY <2>2, <2>3
  <2>5. q \in Paths /\ Len(q) = k /\ p \in Under(q)
    BY <2>2, <2>4, PathPrefixes
  <2>6. r \in Paths /\ Len(r) = k + 1 /\ p \in Under(r) /\ Front(r) = q
    BY <2>2, <2>4, PathPrefixes
  <2> HIDE DEF q, r
  <2>7. q[1] = Home /\ Len(q) > 1 /\ Len(r) > 1
    BY <2>2, <2>4, <2>5, <2>6, UnderOrder
  <2>8. before[1][p] # None
    BY <1>5, Kinds DEF p
  <2>9. before[1][r] # None
    <3>1. CASE r = p
      BY <2>8, <3>1
    <3>2. CASE r # p
      <4> DEFINE tree == before[1]
      <4>1. \A x \in Paths : tree[x] # None /\ Len(x) > 1 => tree[Front(x)] = Dir
        BY <1>1 DEF Was
      <4>2. tree[p] # None
        BY <2>8
      <4> HIDE DEF tree
      <4>3. tree[r] = Dir
        BY <2>6, <3>2, <4>1, <4>2, Above
      <4> QED BY <4>3, Kinds DEF tree
    <3> QED BY <3>1, <3>2
  <2>10. fs[q] = Dir /\ Children(q) = {} /\ saved[q] = {}
    BY <1>5 DEF p, q
  <2> QED BY <1>1, <1>2, <2>5, <2>6, <2>7, <2>9, <2>10 DEF NoneEmptied
<1> QED BY <1>3, <1>4, <1>5

\* What other packages had linked at the beginning is linked at the end.
LEMMA LinkedIsKept ==
    ASSUME ProgressInv, Stowed(sc)
    PROVE  OthersKept
<1>1. Calm /\ JobKind /\ OthersLinked
  BY DEF ProgressInv, Steady, Progress
<1>2. SUFFICES ASSUME done.op # "none", NEW p \in Pkgs,
                      done.pkg = NoPkg \/ Unrelated(p, done.pkg),
                      NEW rel \in Collect(p), WasLinked(p, rel)
               PROVE  Linked(p, rel)
  BY DEF OthersKept
<1>3. done.pkg = pkg
  BY <1>1, <1>2 DEF JobKind
<1>4. rel \in Plain(p) /\ rel \in Rels \ {<<>>}
  BY <1>1, <1>2, CollectIs
<1>5. fs[Path(p, rel)] # None
  BY <1>2 DEF Collect
<1>6. PICK k \in 1..Len(rel) : LinkedTo(fs, p, SubSeq(rel, 1, k))
  BY <1>1, <1>2, <1>3, <1>4, <1>5 DEF OthersLinked
<1> QED BY <1>1, <1>4, <1>6, LinkedIs

\* At the end of a relink nothing is still to be linked again.
LEMMA RelinkingIsIdempotent ==
    ASSUME ProgressInv, Stowed(sc)
    PROVE  RelinkIdempotent
<1> DEFINE own == {Path(Home, rel) : rel \in Collect(done.pkg)}
<1>1. Calm /\ JobKind /\ LinkedSoFar /\ Relinking /\ (op # "fix" => pkg \in Pkgs)
  BY DEF ProgressInv, Steady, Progress, IInv, JobInv
<1>2. SUFFICES ASSUME done.op = "relink", done.ok,
                      \A q \in own : before[1][q] = Link(Path(done.pkg, Tail(q)))
               PROVE  saved = before[2] /\ \A q \in own : fs[q] = before[1][q]
  BY DEF RelinkIdempotent
<1>3. done.pkg = pkg /\ pkg \in Pkgs /\ op = "relink" /\ fs[<<pkg>>] = Dir
  BY <1>1, <1>2 DEF JobKind, LinkedSoFar
<1>4. Collect(pkg) = Wanted(pkg) /\ Wanted(pkg) \subseteq Rels \ {<<>>}
  BY <1>1, <1>3, CollectIs
<1>5. ASSUME NEW rel \in Wanted(pkg)
      PROVE  LinkedTo(before[1], pkg, rel) /\ fs[Path(Home, rel)] = before[1][Path(Home, rel)]
  <2>1. Tail(Path(Home, rel)) = rel
    BY <1>4, FilePath
  <2>2. Path(Home, rel) \in own
    BY <1>3, <1>4
  <2>3. before[1][Path(Home, rel)] = Link(Path(pkg, rel))
    BY <1>2, <1>3, <2>1, <2>2
  <2>4. fs[Path(Home, rel)] = Link(Path(pkg, rel))
    BY <1>1, <1>2 DEF LinkedSoFar, LinkedTo
  <2> QED BY <2>3, <2>4 DEF LinkedTo
<1>6. saved = before[2]
  BY <1>1, <1>2, <1>3, <1>5 DEF Relinking
<1>7. \A q \in own : fs[q] = before[1][q]
  BY <1>3, <1>4, <1>5
<1> QED BY <1>6, <1>7

\* At the end of a remove no link to a file of the package is left.
LEMMA RemovedIsGone ==
    ASSUME ProgressInv, Stowed(sc)
    PROVE  RemoveLeavesNoLink
<1>1. Calm /\ JobKind /\ JobTyped /\ RemovedSoFar
  BY DEF ProgressInv, Steady, Progress
<1>2. SUFFICES ASSUME done.op = "remove", "unlink" \notin sc.faults, NEW q \in Under(<<Home>>),
                      fs[q].kind = "link", fs[q].to[1] = done.pkg
               PROVE  Lasting(q)
  BY DEF RemoveLeavesNoLink, Lasting
<1>3. q \in Paths /\ q[1] = Home
  <2>1. q \in Paths
    BY DEF Under
  <2> QED BY <2>1, UnderRoot
<1>4. op = "remove" /\ done.pkg = pkg /\ stage # "unlink"
  BY <1>1, <1>2 DEF JobKind, NotEnded, Ended
<1> QED BY <1>1, <1>2, <1>3, <1>4 DEF RemovedSoFar

\* A link or relink that returns 0 has made every file of the package that is not
\* ignored reachable under Home (native_link_cb, and all that comes before it).
THEOREM LinkMakesLinks == Spec => [](Stowed(sc) => LinkedAfterLink)
<1> DEFINE I == ProgressInv
           P == Stowed(sc) => LinkedAfterLink
<1>1. I => P
  BY LinkedIsAfterLink
<1>2. Spec => []I
  BY ProgressInvariance
<1> HIDE DEF I, P
<1>3. Spec => []P
  BY <1>1, <1>2, PTL
<1> QED BY <1>3 DEF P

\* A link or relink that returns 0 has left no link to a file of another package its
\* manifest declares in conflict (handle_mutual_exclusions).
THEOREM LinkExcludes == Spec => [](Stowed(sc) => ExclusiveAfterLink)
<1> DEFINE I == ProgressInv
           P == Stowed(sc) => ExclusiveAfterLink
<1>1. I => P
  BY ExcludedIsExclusive
<1>2. Spec => []I
  BY ProgressInvariance
<1> HIDE DEF I, P
<1>3. Spec => []P
  BY <1>1, <1>2, PTL
<1> QED BY <1>3 DEF P

\* An unlink that returns 0 has left no link to a file of the package and no directory
\* it has emptied (native_unlink_cb).
THEOREM UnlinkUnlinks == Spec => [](Stowed(sc) => UnlinkedAfterUnlink)
<1> DEFINE I == ProgressInv
           P == Stowed(sc) => UnlinkedAfterUnlink
<1>1. I => P
  BY UnlinkedIsAfterUnlink
<1>2. Spec => []I
  BY ProgressInvariance
<1> HIDE DEF I, P
<1>3. Spec => []P
  BY <1>1, <1>2, PTL
<1> QED BY <1>3 DEF P

\* No operation on one package breaks the links of an unrelated one (the unfolding of
\* unfold_symlink_cb, and who handle_dynamic_package_conflicts takes for an owner).
THEOREM OthersStayLinked == Spec => [](Stowed(sc) => OthersKept)
<1> DEFINE I == ProgressInv
           P == Stowed(sc) => OthersKept
<1>1. I => P
  BY LinkedIsKept
<1>2. Spec => []I
  BY ProgressInvariance
<1> HIDE DEF I, P
<1>3. Spec => []P
  BY <1>1, <1>2, PTL
<1> QED BY <1>3 DEF P

\* A relink of a linked package that returns 0 gives it back its links and makes no
\* backup (relink_package).
THEOREM RelinkChangesNothing == Spec => [](Stowed(sc) => RelinkIdempotent)
<1> DEFINE I == ProgressInv
           P == Stowed(sc) => RelinkIdempotent
<1>1. I => P
  BY RelinkingIsIdempotent
<1>2. Spec => []I
  BY ProgressInvariance
<1> HIDE DEF I, P
<1>3. Spec => []P
  BY <1>1, <1>2, PTL
<1> QED BY <1>3 DEF P

\* A remove leaves no link to a file of the package, although it calls unlink_package
\* only for a package that get_package_link_status does not call unlinked, and may
\* find it deleted in part (package_remove).
THEOREM RemoveLeavesNothing == Spec => [](Stowed(sc) => RemoveLeavesNoLink)
<1> DEFINE I == ProgressInv
           P == Stowed(sc) => RemoveLeavesNoLink
<1>1. I => P
  BY RemovedIsGone
<1>2. Spec => []I
  BY ProgressInvariance
<1> HIDE DEF I, P
<1>3. Spec => []P
  BY <1>1, <1>2, PTL
<1> QED BY <1>3 DEF P

=============================================================================
