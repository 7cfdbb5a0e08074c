----------------------------- MODULE LinkerProofs -----------------------------
(***************************************************************************)
(* What is proved about the linker, for any packages, files, scenarios and *)
(* lengths of chains of links, whatever calls fail and wherever a command  *)
(* is killed: nothing the user has written is lost, and the trees stay     *)
(* trees.                                                                  *)
(*                                                                         *)
(* Every step acts on a path through the links on the way to it, so each   *)
(* part of the proof starts from what RealPath returns: a place whose      *)
(* parent is a directory.  RealPath is recursive in two arguments, the     *)
(* links that are left and the path; Recursion and RealPathResolves show   *)
(* that it satisfies its equation.                                         *)
(***************************************************************************)
EXTENDS Linker, SequenceTheorems, WellFoundedInduction, TLAPS

-----------------------------------------------------------------------------
(* Recursive definitions *)

\* G[x][f] is the value at x of the function to be defined, if f is that function;
\* it depends on the values of f at what is below x only.
Recursive(G, R, D, V) ==
    /\ V # {}
    /\ IsWellFoundedOn(R, D)
    /\ IsTransitivelyClosedOn(R, D)
    /\ \A x \in D : \A f \in [D -> V] : G[x][f] \in V
    /\ \A x \in D : \A f, g \in [D -> V] :
          (\A y \in D : <<y, x>> \in R => f[y] = g[y]) => G[x][f] = G[x][g]

Solves(f, G, D, V) == f \in [D -> V] /\ \A x \in D : f[x] = G[x][f]

\* The first-order form of the library's WFInductiveDef, whose operator
\* parameter the provers cannot instantiate.
THEOREM Recursion ==
    ASSUME NEW D, NEW V, NEW R, NEW G, Recursive(G, R, D, V)
    PROVE  \E f : Solves(f, G, D, V)
<1> DEFINE Fs == [D -> V]
<1>e. V # {} /\ IsWellFoundedOn(R, D) /\ IsTransitivelyClosedOn(R, D)
  BY DEF Recursive
<1>f. PICK v : v \in V
  BY <1>e
<1>a. \A T \in SUBSET D : T # {} => \E x \in T : \A y \in T : <<y, x>> \notin R
  BY <1>e, WFMin, Zenon
<1>b. \A x, y, z \in D : <<x, y>> \in R /\ <<y, z>> \in R => <<x, z>> \in R
  BY <1>e, Zenon DEF IsTransitivelyClosedOn
<1>c. \A x \in D : \A f \in Fs : G[x][f] \in V
  BY Zenon DEF Recursive
<1>d. \A x \in D : \A f, g \in Fs :
          (\A y \in D : <<y, x>> \in R => f[y] = g[y]) => G[x][f] = G[x][g]
  BY Zenon DEF Recursive
<1>g. Fs = [D -> V]
  OBVIOUS
<1> HIDE DEF Fs
<1> USE <1>a, <1>b, <1>c, <1>d, <1>f, <1>g
<1> DEFINE Below(z) == {y \in D : y = z \/ <<y, z>> \in R}
           Good(f, z) == \A y \in Below(z) : f[y] = G[y][f]
           F(z) == CHOOSE f \in Fs : Good(f, z)
<1>1. ASSUME NEW f \in Fs, NEW g \in Fs, NEW z \in D, Good(f, z), Good(g, z)
      PROVE  \A y \in Below(z) : f[y] = g[y]
  <2> DEFINE T == {y \in Below(z) : f[y] # g[y]}
  <2>1. SUFFICES ASSUME T # {} PROVE FALSE
    BY Zenon
  <2>2. T \in SUBSET D
    BY Zenon
  <2>3. PICK y \in T : \A w \in T : <<w, y>> \notin R
    BY <2>1, <2>2, Zenon
  <2>4. ASSUME NEW w \in D, <<w, y>> \in R
        PROVE  w \in Below(z) /\ f[w] = g[w]
    BY <2>2, <2>3, <2>4, Zenon
  <2>5. y \in D /\ \A w \in D : <<w, y>> \in R => f[w] = g[w]
    BY <2>2, <2>4, Zenon
  <2>6. G[y][f] = G[y][g]
    <3> HIDE DEF T, Good, Below
    <3> QED BY <2>5
  <2> QED
    BY <1>1, <2>6, Zenon
<1>2. ASSUME NEW z \in D, NEW y \in Below(z), NEW f, Good(f, z)
      PROVE  Good(f, y)
  BY <1>2, Zenon
<1>3. ASSUME NEW z \in D, NEW h \in Fs, \A y \in D : <<y, z>> \in R => Good(h, y)
      PROVE  \E f \in Fs : Good(f, z)
  <2> DEFINE k == [h EXCEPT ![z] = G[z][h]]
  <2>1. G[z][h] \in V
    BY Zenon
  <2>2. k \in Fs /\ k[z] = G[z][h] /\ \A y \in D : y # z => k[y] = h[y]
    BY <2>1
  <2>3. \A y \in D : <<y, z>> \in R => y # z
    <3>1. {z} \in SUBSET D /\ {z} # {}
      OBVIOUS
    <3> QED BY <3>1
  <2> HIDE DEF k
  <2>4. ASSUME NEW y \in Below(z) PROVE G[y][h] = G[y][k]
    <3>1. y \in D /\ (y = z \/ <<y, z>> \in R)
      BY Zenon
    <3>2. ASSUME NEW w \in D, <<w, y>> \in R PROVE h[w] = k[w]
      BY <2>2, <2>3, <3>1, <3>2, Zenon
    <3> HIDE DEF Good, Below
    <3> QED BY <2>2, <3>1, <3>2
  <2>5. ASSUME NEW y \in Below(z) PROVE k[y] = G[y][k]
    <3>1. CASE y = z
      BY <2>2, <2>4, <3>1, Zenon
    <3>2. CASE y # z
      <4>1. y \in D /\ <<y, z>> \in R /\ y \in Below(y)
        BY <3>2, Zenon
      <4>2. h[y] = G[y][h]
        BY <1>3, <4>1, Zenon
      <4> QED BY <2>2, <2>4, <3>2, <4>1, <4>2, Zenon
    <3> QED BY <3>1, <3>2, Zenon
  <2> QED BY <2>2, <2>5, Zenon
<1>4. ASSUME NEW S \in SUBSET D, \A z \in S : \E f \in Fs : Good(f, z),
             \A y \in D : \A z \in S : <<y, z>> \in R => y \in S
      PROVE  \E h \in Fs : \A z \in S : Good(h, z)
  <2> DEFINE h == [z \in D |-> IF z \in S THEN F(z)[z] ELSE v]
  <2>1. ASSUME NEW z \in S PROVE F(z) \in Fs /\ Good(F(z), z)
    BY <1>4, <2>1, Zenon
  <2>2. ASSUME NEW z \in S PROVE F(z)[z] \in V
    <3>1. z \in D /\ F(z) \in Fs
      BY <2>1, <2>2
    <3> HIDE DEF F, Good
    <3> QED BY <3>1
  <2> HIDE DEF F, Good
  <2>3. h \in Fs /\ \A z \in S : h[z] = F(z)[z]
    BY <2>2
  <2> HIDE DEF h
  <2>4. ASSUME NEW z \in S, NEW w \in S, w \in Below(z) PROVE F(w)[w] = F(z)[w]
    <3>1. Good(F(z), w) /\ w \in Below(w)
      BY <1>2, <2>1, <2>4, Zenon DEF Good
    <3>2. F(w) \in Fs /\ Good(F(w), w) /\ F(z) \in Fs /\ w \in D
      BY <2>1
    <3> DEFINE f == F(w)
               g == F(z)
    <3>3. f \in Fs /\ g \in Fs /\ Good(f, w) /\ Good(g, w) /\ w \in D
      BY <3>1, <3>2
    <3> HIDE DEF f, g, Below
    <3>4. f[w] = g[w]
      BY <1>1, <3>1, <3>3
    <3> QED BY <3>4 DEF f, g
  <2>5. ASSUME NEW z \in S PROVE h[z] = G[z][h]
    <3>1. ASSUME NEW w \in D, <<w, z>> \in R PROVE h[w] = F(z)[w]
      BY <1>4, <2>3, <2>4, <2>5, <3>1, Zenon
    <3>2. G[z][h] = G[z][F(z)]
      <4>1. z \in D /\ F(z) \in Fs /\ h \in Fs
        BY <2>1, <2>3, <2>5
      <4> HIDE DEF Good, Below
      <4> QED BY <3>1, <4>1
    <3>3. z \in Below(z)
      BY Zenon
    <3>4. F(z)[z] = G[z][F(z)]
      BY <2>1, <3>3, Zenon DEF Good
    <3> QED BY <2>3, <3>2, <3>4, Zenon
  <2>6. ASSUME NEW z \in S PROVE Good(h, z)
    BY <1>4, <2>5, <2>6, Zenon DEF Good
  <2> QED BY <2>3, <2>6, Zenon
<1>5. \A z \in D : \E f \in Fs : Good(f, z)
  <2> DEFINE T == {z \in D : ~ \E f \in Fs : Good(f, z)}
  <2>1. SUFFICES ASSUME T # {} PROVE FALSE
    BY Zenon
  <2>2. PICK z \in T : \A w \in T : <<w, z>> \notin R
    BY <2>1, Zenon
  <2> DEFINE S == {y \in D : <<y, z>> \in R}
  <2>3. \E h \in Fs : \A y \in S : Good(h, y)
    <3>1. S \in SUBSET D
      BY Zenon
    <3>2. \A y \in S : \E f \in Fs : Good(f, y)
      BY <2>2, Zenon
    <3>3. \A y \in D : \A x \in S : <<y, x>> \in R => y \in S
      BY <2>2, Zenon
    <3> HIDE DEF S, Good
    <3> QED BY <1>4, <3>1, <3>2, <3>3, Zenon
  <2> QED BY <1>3, <2>2, <2>3, Zenon
<1>6. \E f \in Fs : \A z \in D : Good(f, z)
  <2>1. D \in SUBSET D /\ \A y \in D : \A z \in D : <<y, z>> \in R => y \in D
    BY Zenon
  <2> HIDE DEF Good
  <2> QED BY <1>4, <1>5, <2>1, Zenon
<1>7. PICK f \in Fs : \A z \in D : Good(f, z)
  BY <1>6
<1>8. \A z \in D : f[z] = G[z][f]
  BY <1>7, Zenon
<1> QED
  BY <1>8, Zenon DEF Solves

-----------------------------------------------------------------------------
(* Sequences and paths *)

\* A sequence is its front and its last element.
LEMMA FrontLast ==
    ASSUME NEW S, NEW p \in Seq(S), Len(p) > 0
    PROVE  /\ Front(p) \in Seq(S) /\ Len(Front(p)) = Len(p) - 1
           /\ Last(p) \in S
           /\ \A i \in 1..Len(p)-1 : Front(p)[i] = p[i]
           /\ Append(Front(p), Last(p)) = p
<1>1. Front(p) = SubSeq(p, 1, Len(p) - 1) /\ Last(p) = p[Len(p)]
  BY DEF Front, Last
<1>2. Len(p) \in Nat /\ Len(p) - 1 \in Nat
  OBVIOUS
<1>3. Front(p) \in Seq(S) /\ Len(Front(p)) = Len(p) - 1
      /\ \A i \in 1..Len(p)-1 : Front(p)[i] = p[i]
  <2> DEFINE n == Len(p) - 1
  <2>1. n \in Nat /\ n <= Len(p) /\ \A i \in 1..n : i \in 1..Len(p)
    BY <1>2
  <2>2. SubSeq(p, 1, n) \in Seq(S) /\ Len(SubSeq(p, 1, n)) = n
        /\ \A i \in 1..n : SubSeq(p, 1, n)[i] = p[i]
    <3> HIDE DEF n
    <3> QED BY <2>1
  <2> QED BY <1>1, <2>2
<1>4. Last(p) \in S
  BY <1>1
<1>5. Append(Front(p), Last(p)) = p
  BY <1>1, <1>2, <1>3
<1> QED BY <1>3, <1>4, <1>5

\* Front and Append undo each other.
LEMMA AppendFront ==
    ASSUME NEW S, NEW p \in Seq(S), NEW x \in S
    PROVE  /\ Append(p, x) \in Seq(S) /\ Len(Append(p, x)) = Len(p) + 1
           /\ Front(Append(p, x)) = p /\ Last(Append(p, x)) = x
<1> DEFINE q == Append(p, x)
<1>1. q \in Seq(S) /\ Len(q) = Len(p) + 1
  OBVIOUS
<1>2. Front(q) = SubSeq(q, 1, Len(p)) /\ Last(q) = q[Len(p) + 1]
  BY <1>1 DEF Front, Last
<1>3. SubSeq(q, 1, Len(p)) = p
  OBVIOUS
<1> QED BY <1>1, <1>2, <1>3

\* Relative paths are sequences of parts.
LEMMA RelSeq ==
    ASSUME NEW rel \in Rels
    PROVE  rel \in Seq(Parts)
<1>1. rel \in Seq(ToSet(rel))
  BY TreeAssumption
<1>2. ToSet(rel) \subseteq Parts
  BY DEF Parts
<1> HIDE DEF Parts
<1> QED BY <1>1, <1>2

\* A path of the trees starts with its root, and its parents are paths too.
LEMMA PathShape ==
    ASSUME NEW root \in {Home} \union Pkgs, NEW rel \in Rels
    PROVE  LET q == Path(root, rel)
           IN  /\ q \in Paths /\ q \in Seq(Parts)
               /\ Len(q) = Len(rel) + 1 /\ Len(rel) \in Nat
               /\ q[1] = root
               /\ rel = <<>> => q = <<root>>
               /\ rel # <<>> => Front(q) = Path(root, Front(rel)) /\ Front(rel) \in Rels
<1> DEFINE q == Path(root, rel)
<1>1. rel \in Seq(Parts) /\ root \in Parts
  BY RelSeq DEF Parts
<1>2. q = <<root>> \o rel /\ q \in Paths
  <2>1. q = <<root>> \o rel
    BY DEF Path
  <2>2. Path(root, rel) \in Paths
    <3>1. \E a \in {Home} \union Pkgs, b \in Rels : Path(root, rel) = Path(a, b)
      BY Zenon
    <3> QED BY <3>1 DEF Paths
  <2> QED BY <2>1, <2>2
<1>3. q \in Seq(Parts) /\ Len(q) = Len(rel) + 1 /\ Len(rel) \in Nat /\ q[1] = root
  BY <1>1, <1>2
<1>4. rel = <<>> => q = <<root>>
  BY <1>2
<1>5. ASSUME rel # <<>>
      PROVE  Front(q) = Path(root, Front(rel)) /\ Front(rel) \in Rels
  <2>1. Front(rel) \in Rels
    BY <1>5, TreeAssumption
  <2>2. Len(rel) > 0
    BY <1>1, <1>5
  <2> DEFINE r == Path(root, Front(rel))
  <2>3. /\ Front(rel) \in Seq(Parts) /\ Len(Front(rel)) = Len(rel) - 1
        /\ \A i \in 1..Len(rel)-1 : Front(rel)[i] = rel[i]
    BY <1>1, <2>2, FrontLast
  <2>4. /\ Front(q) \in Seq(Parts) /\ Len(Front(q)) = Len(q) - 1
        /\ \A i \in 1..Len(q)-1 : Front(q)[i] = q[i]
    BY <1>3, FrontLast
  <2>5. r = <<root>> \o Front(rel)
    BY DEF Path
  <2>6. r \in Seq(Parts) /\ Len(r) = Len(rel)
    BY <1>1, <2>3, <2>5
  <2>7. ASSUME NEW i \in 1..Len(rel) PROVE r[i] = q[i]
    <3>1. CASE i = 1
      BY <1>1, <1>2, <2>3, <2>5, <3>1
    <3>2. CASE i # 1
      <4>1. i - 1 \in 1..Len(rel)-1 /\ i - 1 \in 1..Len(rel)
        BY <1>3, <3>2
      <4>2. Front(rel)[i - 1] = rel[i - 1]
        BY <2>3, <4>1
      <4>3. r[i] = Front(rel)[i - 1]
        BY <1>1, <2>3, <2>5, <3>2, <4>1
      <4>4. q[i] = rel[i - 1]
        BY <1>1, <1>2, <3>2, <4>1
      <4> QED BY <4>2, <4>3, <4>4
    <3> QED BY <3>1, <3>2
  <2>8. ASSUME NEW i \in 1..Len(rel) PROVE Front(q)[i] = r[i]
    BY <1>3, <2>4, <2>7
  <2> HIDE DEF q, r
  <2>9. Front(q) = r
    BY <1>3, <2>4, <2>6, <2>8, SeqEqual
  <2> QED BY <2>1, <2>9 DEF r
<1> QED BY <1>2, <1>3, <1>4, <1>5

\* What a path is: a root, and names that are a relative path.
LEMMA PathsShape ==
    ASSUME NEW q \in Paths
    PROVE  /\ q \in Seq(Parts) /\ Len(q) >= 1 /\ q # NoPath
           /\ q[1] \in {Home} \union Pkgs /\ q[1] \in Parts
           /\ Len(q) = 1 => q = <<q[1]>>
           /\ Len(q) > 1 => Front(q) \in Paths /\ Front(q)[1] = q[1]
<1>1. PICK root \in {Home} \union Pkgs, rel \in Rels : q = Path(root, rel)
  BY DEF Paths
<1>2. /\ q \in Seq(Parts) /\ Len(q) = Len(rel) + 1 /\ Len(rel) \in Nat
      /\ q[1] = root
      /\ rel # <<>> => Front(q) = Path(root, Front(rel)) /\ Front(rel) \in Rels
  BY <1>1, PathShape
<1>3. q # NoPath /\ Len(q) >= 1
  BY <1>2 DEF NoPath
<1>4. ASSUME Len(q) = 1 PROVE q = <<q[1]>>
  <2>1. rel = <<>>
    <3>1. Len(rel) = 0
      <4>1. \A n \in Nat : n + 1 = 1 => n = 0
        OBVIOUS
      <4> QED BY <1>2, <1>4, <4>1, Zenon
    <3> QED BY <3>1, RelSeq, EmptySeq
  <2> QED BY <1>1, <1>2, <2>1, PathShape
<1>5. ASSUME Len(q) > 1 PROVE Front(q) \in Paths /\ Front(q)[1] = q[1]
  <2>1. rel # <<>>
    <3>1. \A n \in Nat : n + 1 > 1 => n # 0
      OBVIOUS
    <3>2. Len(rel) # 0
      BY <1>2, <1>5, <3>1, Zenon
    <3> QED BY <3>2
  <2>2. Front(q) = Path(root, Front(rel)) /\ Front(rel) \in Rels
    BY <1>2, <2>1
  <2>3. Path(root, Front(rel)) \in Paths /\ Path(root, Front(rel))[1] = root
    BY <2>2, PathShape
  <2> QED BY <1>2, <2>2, <2>3
<1> QED BY <1>2, <1>3, <1>4, <1>5 DEF Parts

\* A root is the path with no names after it.
LEMMA RootPath ==
    ASSUME NEW root \in {Home} \union Pkgs
    PROVE  <<root>> \in Paths /\ Path(root, <<>>) = <<root>>
BY TreeAssumption, PathShape

-----------------------------------------------------------------------------
(* Resolution *)

Steps == (0..Hops) \X Seq(Parts)

\* A resolution uses those of paths with fewer links left to follow, or as many
\* and a shorter path.
Before ==
    {xy \in Steps \X Steps :
        \/ xy[1][1] < xy[2][1]
        \/ xy[1][1] = xy[2][1] /\ Len(xy[1][2]) < Len(xy[2][2])}

\* A set of numbers has a least one.
LEMMA LeastNat ==
    ASSUME NEW T, T \subseteq Nat, T # {}
    PROVE  \E n \in T : \A m \in T : n <= m
<1>1. PICK n \in T : \A m \in T : ~ (<<m, n>> \in OpToRel(<, Nat))
  BY NatLessThanWellFounded, WFMin, Zenon
<1>2. \A m \in T : ~ (m < n)
  BY <1>1, Zenon DEF OpToRel
<1> QED BY <1>2

\* No resolution goes on for ever.
LEMMA BeforeWellFounded ==
    IsWellFoundedOn(Before, Steps) /\ IsTransitivelyClosedOn(Before, Steps)
<1>1. ASSUME NEW T \in SUBSET Steps, T # {}
      PROVE  \E x \in T : \A y \in T : ~ (<<y, x>> \in Before)
  <2> DEFINE Hopss == {x[1] : x \in T}
  <2>1. Hopss \subseteq Nat /\ Hopss # {}
    BY <1>1, TreeAssumption DEF Steps
  <2>2. PICK n \in Hopss : \A m \in Hopss : n <= m
    <3> HIDE DEF Hopss
    <3> QED BY <2>1, LeastNat
  <2> DEFINE Lens == {Len(x[2]) : x \in {y \in T : y[1] = n}}
  <2>3. Lens \subseteq Nat /\ Lens # {}
    <3>1. \A x \in T : Len(x[2]) \in Nat
      BY DEF Steps
    <3>2. \E x \in T : x[1] = n
      BY <2>2
    <3> QED BY <3>1, <3>2
  <2>4. PICK l \in Lens : \A m \in Lens : l <= m
    <3> HIDE DEF Lens
    <3> QED BY <2>3, LeastNat
  <2>5. PICK x \in T : x[1] = n /\ Len(x[2]) = l
    OBVIOUS
  <2>6. ASSUME NEW y \in T, <<y, x>> \in Before PROVE FALSE
    <3>1. y[1] \in Hopss /\ (y[1] = n => Len(y[2]) \in Lens)
      OBVIOUS
    <3>2. y[1] < n \/ (y[1] = n /\ Len(y[2]) < l)
      BY <2>5, <2>6 DEF Before
    <3>3. n <= y[1] /\ (y[1] = n => l <= Len(y[2]))
      BY <2>2, <2>4, <3>1
    <3>4. n \in Nat /\ y[1] \in Nat /\ l \in Nat /\ Len(y[2]) \in Nat
      BY <2>1, <2>3, <3>1 DEF Steps
    <3> QED BY <3>2, <3>3, <3>4
  <2> QED BY <2>6
<1>2. IsWellFoundedOn(Before, Steps)
  BY <1>1, MinWF, Zenon
<1>3. ASSUME NEW x \in Steps, NEW y \in Steps, NEW z \in Steps,
             <<x, y>> \in Before, <<y, z>> \in Before
      PROVE  <<x, z>> \in Before
  <2>1. /\ x[1] \in Nat /\ y[1] \in Nat /\ z[1] \in Nat
        /\ Len(x[2]) \in Nat /\ Len(y[2]) \in Nat /\ Len(z[2]) \in Nat
    BY TreeAssumption DEF Steps
  <2>2. x[1] < y[1] \/ (x[1] = y[1] /\ Len(x[2]) < Len(y[2]))
    BY <1>3 DEF Before
  <2>3. y[1] < z[1] \/ (y[1] = z[1] /\ Len(y[2]) < Len(z[2]))
    BY <1>3 DEF Before
  <2>4. x[1] < z[1] \/ (x[1] = z[1] /\ Len(x[2]) < Len(z[2]))
    BY <2>1, <2>2, <2>3
  <2> QED BY <2>4 DEF Before
<1>4. IsTransitivelyClosedOn(Before, Steps)
  BY <1>3, Zenon DEF IsTransitivelyClosedOn
<1> QED BY <1>2, <1>4

\* The body of RealPath, for a function f in its place.
Resolve(f, x) ==
    LET n == x[1]
        p == x[2]
        d == f[<<n, Front(p)>>]
        q == Append(d, Last(p))
    IN  IF Len(p) <= 1 THEN AtRoot(p)
        ELSE IF d = NoPath \/ q \notin Paths THEN NoPath
        ELSE IF fs[q].kind # "link" THEN q
        ELSE IF n = 0 THEN NoPath
        ELSE f[<<n - 1, fs[q].to>>]

LinksTyped == \A q \in Paths : fs[q].kind = "link" => fs[q].to \in Seq(Parts)

Places == Paths \union {NoPath}

\* Resolving the parent comes before resolving the path ...
LEMMA FrontBefore ==
    ASSUME NEW x \in Steps, Len(x[2]) > 1
    PROVE  <<x[1], Front(x[2])>> \in Steps /\ <<<<x[1], Front(x[2])>>, x>> \in Before
<1> DEFINE y == <<x[1], Front(x[2])>>
<1>1. x[1] \in 0..Hops /\ x[2] \in Seq(Parts)
  BY DEF Steps
<1>2. Front(x[2]) \in Seq(Parts) /\ Len(Front(x[2])) = Len(x[2]) - 1
  <2>1. Len(x[2]) > 0
    BY <1>1
  <2> QED BY <1>1, <2>1, FrontLast
<1>3. y \in Steps
  BY <1>1, <1>2 DEF Steps
<1>4. Len(Front(x[2])) < Len(x[2])
  BY <1>1, <1>2
<1> QED BY <1>3, <1>4 DEF Before

\* ... and so does resolving what a link names, as one link fewer is left.
LEMMA LinkBefore ==
    ASSUME LinksTyped, NEW x \in Steps, x[1] # 0, NEW q \in Paths, fs[q].kind = "link"
    PROVE  <<x[1] - 1, fs[q].to>> \in Steps /\ <<<<x[1] - 1, fs[q].to>>, x>> \in Before
<1>1. x[1] \in 0..Hops /\ Hops \in Nat
  BY TreeAssumption DEF Steps
<1>2. x[1] - 1 \in 0..Hops /\ x[1] - 1 < x[1]
  BY <1>1
<1>3. fs[q].to \in Seq(Parts)
  BY DEF LinksTyped
<1>4. <<x[1] - 1, fs[q].to>> \in Steps
  BY <1>2, <1>3 DEF Steps
<1> QED BY <1>2, <1>4 DEF Before

\* Only what comes before x is used to resolve x.
LEMMA ResolveIsLocal ==
    ASSUME LinksTyped, NEW x \in Steps, NEW f, NEW g,
           \A y \in Steps : <<y, x>> \in Before => f[y] = g[y]
    PROVE  Resolve(f, x) = Resolve(g, x)
<1>1. CASE Len(x[2]) <= 1
  BY <1>1 DEF Resolve
<1>2. CASE ~ (Len(x[2]) <= 1)
  <2>1. Len(x[2]) > 1
    BY <1>2 DEF Steps
  <2>2. f[<<x[1], Front(x[2])>>] = g[<<x[1], Front(x[2])>>]
    BY <2>1, FrontBefore
  <2> DEFINE q == Append(f[<<x[1], Front(x[2])>>], Last(x[2]))
  <2>3. ASSUME q \in Paths, fs[q].kind = "link", x[1] # 0
        PROVE  f[<<x[1] - 1, fs[q].to>>] = g[<<x[1] - 1, fs[q].to>>]
    BY <2>3, LinkBefore
  <2> QED BY <1>2, <2>2, <2>3 DEF Resolve
<1> QED BY <1>1, <1>2

\* If the resolutions that come before give places, so does this one.
LEMMA ResolveToPlace ==
    ASSUME LinksTyped, NEW x \in Steps, NEW f,
           \A y \in Steps : <<y, x>> \in Before => f[y] \in Places
    PROVE  Resolve(f, x) \in Places
<1>1. CASE Len(x[2]) <= 1
  BY <1>1 DEF Resolve, AtRoot, Places
<1>2. CASE ~ (Len(x[2]) <= 1)
  <2> DEFINE q == Append(f[<<x[1], Front(x[2])>>], Last(x[2]))
  <2>1. ASSUME q \in Paths, fs[q].kind = "link", x[1] # 0
        PROVE  f[<<x[1] - 1, fs[q].to>>] \in Places
    BY <2>1, LinkBefore
  <2> QED BY <1>2, <2>1 DEF Resolve, Places
<1> QED BY <1>1, <1>2

\* The recursive definition of RealPath has a solution, as far as the links of
\* the trees name paths at all: resolution follows it.
THEOREM RealPathResolves ==
    ASSUME LinksTyped
    PROVE  /\ RealPath \in [Steps -> Places]
           /\ \A x \in Steps : RealPath[x] = Resolve(RealPath, x)
<1> DEFINE Fs == [Steps -> Places]
           G  == [x \in Steps |-> [f \in Fs |-> Resolve(f, x)]]
<1>1. \A x \in Steps : \A f \in Fs : G[x][f] = Resolve(f, x)
  OBVIOUS
<1>2. Recursive(G, Before, Steps, Places)
  <2>1. Places # {}
    BY DEF Places
  <2>2. ASSUME NEW x \in Steps, NEW f \in Fs PROVE G[x][f] \in Places
    <3>1. \A y \in Steps : f[y] \in Places
      OBVIOUS
    <3>2. Resolve(f, x) \in Places
      BY <3>1, ResolveToPlace
    <3> QED BY <1>1, <3>2
  <2>3. ASSUME NEW x \in Steps, NEW f \in Fs, NEW g \in Fs,
               \A y \in Steps : <<y, x>> \in Before => f[y] = g[y]
        PROVE  G[x][f] = G[x][g]
    <3>1. Resolve(f, x) = Resolve(g, x)
      BY <2>3, ResolveIsLocal
    <3> HIDE DEF G, Fs
    <3> QED BY <1>1, <3>1
  <2> HIDE DEF G
  <2> QED BY <2>1, <2>2, <2>3, BeforeWellFounded, Zenon DEF Recursive
<1>3. PICK f : Solves(f, G, Steps, Places)
  <2> HIDE DEF G
  <2> QED BY <1>2, Recursion, Zenon
<1>4. f = [x \in Steps |-> Resolve(f, x)]
  <2>1. \A x \in Steps : f[x] = Resolve(f, x)
    BY <1>1, <1>3 DEF Solves
  <2>2. f \in Fs
    BY <1>3 DEF Solves
  <2> HIDE DEF G
  <2> QED BY <2>1, <2>2
<1>5. RealPath = CHOOSE g : g = [x \in Steps |-> Resolve(g, x)]
  BY Zenon DEF RealPath, Steps, Resolve
<1>6. RealPath = [x \in Steps |-> Resolve(RealPath, x)]
  BY <1>4, <1>5, Zenon
<1>7. \A x \in Steps : RealPath[x] = Resolve(RealPath, x)
  BY <1>6
<1>8. \A x \in Steps : RealPath[x] \in Places
  <2> DEFINE T == {x \in Steps : RealPath[x] \notin Places}
  <2>1. SUFFICES ASSUME T # {} PROVE FALSE
    OBVIOUS
  <2>2. PICK x \in T : \A y \in T : <<y, x>> \notin Before
    BY <2>1, BeforeWellFounded, WFMin, Zenon
  <2>3. Resolve(RealPath, x) \in Places
    BY <2>2, ResolveToPlace
  <2> QED BY <1>7, <2>3
<1> QED BY <1>6, <1>7, <1>8

\* RealPathResolves at the full number of links.
LEMMA RealIsPlace ==
    ASSUME LinksTyped, NEW p \in Seq(Parts)
    PROVE  /\ Real(p) \in Places
           /\ Len(p) <= 1 => Real(p) = AtRoot(p)
<1>1. <<Hops, p>> \in Steps
  BY TreeAssumption DEF Steps
<1>2. Real(p) = RealPath[<<Hops, p>>]
  BY DEF Real
<1>3. Real(p) \in Places /\ Real(p) = Resolve(RealPath, <<Hops, p>>)
  BY <1>1, <1>2, RealPathResolves
<1> QED BY <1>3 DEF Resolve

-----------------------------------------------------------------------------
(* The trees *)

\* A backup lies in a directory.
SavedInDirs == \A q \in Paths : saved[q] # {} => fs[q] = Dir

TreeInv ==
    /\ fs = [q \in Paths |-> fs[q]]
    /\ saved = [q \in Paths |-> saved[q]]
    /\ LinksTyped
    /\ Rooted
    /\ SavedInDirs
    /\ fs[<<Home>>] = Dir

\* The four kinds of entry are told apart.
LEMMA Kinds ==
    /\ None # Dir /\ None.kind = "none" /\ Dir.kind = "dir"
    /\ \A to : Link(to).kind = "link" /\ Link(to).to = to /\ Link(to) # None /\ Link(to) # Dir
    /\ \A x : File(x).kind = "file" /\ File(x).data = x /\ File(x) # None /\ File(x) # Dir
BY DEF None, Dir, Link, File

\* What an unresolved path names is in the directory that its parent resolves to.
LEMMA PhysPlace ==
    ASSUME LinksTyped, NEW p \in Seq(Parts), Phys(p) # NoPath
    PROVE  /\ Phys(p) \in Paths
           /\ Len(p) > 1 => /\ Len(Phys(p)) > 1
                            /\ Front(Phys(p)) = Real(Front(p))
                            /\ Last(Phys(p)) = Last(p)
<1>1. CASE Len(p) <= 1
  BY <1>1 DEF Phys, AtRoot
<1>2. CASE ~ (Len(p) <= 1)
  <2> DEFINE d == Real(Front(p))
  <2>1. Len(p) > 1 /\ Len(p) > 0
    BY <1>2
  <2>2. Front(p) \in Seq(Parts) /\ Last(p) \in Parts
    BY <2>1, FrontLast
  <2>3. d # NoPath /\ Phys(p) = Append(d, Last(p)) /\ Phys(p) \in Paths
    BY <1>2 DEF Phys
  <2>4. d \in Paths
    BY <2>2, <2>3, RealIsPlace DEF Places
  <2>5. d \in Seq(Parts) /\ Len(d) >= 1
    BY <2>4, PathsShape
  <2> HIDE DEF d
  <2>6. Len(Phys(p)) = Len(d) + 1 /\ Front(Phys(p)) = d /\ Last(Phys(p)) = Last(p)
    BY <2>2, <2>3, <2>5, AppendFront
  <2> QED BY <2>3, <2>5, <2>6 DEF d
<1> QED BY <1>1, <1>2

\* A path under another continues it.
LEMMA PrefixOf ==
    ASSUME NEW q \in Paths, NEW r \in Paths
    PROVE  r \in Under(q) <=> Len(q) <= Len(r) /\ \A i \in 1..Len(q) : q[i] = r[i]
<1>1. q \in Seq(Parts) /\ r \in Seq(Parts)
  BY PathsShape
<1>2. SubSeq(q, 1, Len(q)) = q
  BY <1>1
<1>3. ASSUME Len(q) <= Len(r)
      PROVE  SubSeq(r, 1, Len(q)) = q <=> \A i \in 1..Len(q) : q[i] = r[i]
  <2> DEFINE s == SubSeq(r, 1, Len(q))
  <2>1. s \in Seq(Parts) /\ Len(s) = Len(q) /\ \A i \in 1..Len(q) : s[i] = r[i]
    BY <1>1, <1>3
  <2> HIDE DEF s
  <2>2. s = q <=> \A i \in 1..Len(q) : s[i] = q[i]
    BY <1>1, <2>1, SeqEqual
  <2> QED BY <2>1, <2>2 DEF s
<1>4. IsPrefix(q, r) <=> Len(q) <= Len(r) /\ \A i \in 1..Len(q) : q[i] = r[i]
  BY <1>2, <1>3 DEF IsPrefix
<1> QED BY <1>4 DEF Under

\* A path of two parts or more is no root.
LEMMA NotRoot ==
    ASSUME NEW r, Len(r) > 1
    PROVE  \A x : r # <<x>>
<1>1. \A x : Len(<<x>>) = 1
  OBVIOUS
<1>2. \A n : n > 1 => n # 1
  OBVIOUS
<1>3. Len(r) # 1
  BY <1>2, Zenon
<1> QED BY <1>1, <1>3, Zenon

\* What is under a root has that root.
LEMMA UnderRoot ==
    ASSUME NEW root \in {Home} \union Pkgs, NEW r \in Paths
    PROVE  r \in Under(<<root>>) <=> r[1] = root
<1> DEFINE q == <<root>>
<1>1. q \in Paths /\ Len(q) = 1 /\ q[1] = root
  BY RootPath
<1>2. Len(r) >= 1 /\ Len(r) \in Nat
  BY PathsShape
<1> HIDE DEF q
<1>3. r \in Under(q) <=> r[1] = root
  BY <1>1, <1>2, PrefixOf
<1> QED BY <1>3 DEF q

\* What is under a path: the path itself, and everything in a directory that is.
LEMMA UnderFacts ==
    ASSUME NEW q \in Paths
    PROVE  /\ q \in Under(q)
           /\ Under(q) \subseteq Paths
           /\ \A r \in Under(q) : r[1] = q[1]
           /\ \A r \in Paths : Len(r) > 1 /\ Front(r) \in Under(q) => r \in Under(q)
           /\ Len(q) > 1 => Front(q) \notin Under(q)
<1>1. q \in Seq(Parts) /\ Len(q) >= 1 /\ Len(q) \in Nat
  BY PathsShape
<1>2. q \in Under(q)
  BY <1>1, PrefixOf
<1>3. Under(q) \subseteq Paths
  BY DEF Under
<1>4. ASSUME NEW r \in Under(q) PROVE r[1] = q[1]
  <2>1. 1 \in 1..Len(q)
    BY <1>1
  <2> QED BY <1>3, <2>1, PrefixOf
<1>5. ASSUME NEW r \in Paths, Len(r) > 1, Front(r) \in Under(q) PROVE r \in Under(q)
  <2>1. r \in Seq(Parts) /\ Len(r) > 0 /\ Len(r) \in Nat
    BY <1>5, PathsShape
  <2>2. Len(Front(r)) = Len(r) - 1 /\ \A i \in 1..Len(r)-1 : Front(r)[i] = r[i]
    BY <2>1, FrontLast
  <2>3. Len(q) <= Len(r) - 1 /\ \A i \in 1..Len(q) : q[i] = Front(r)[i]
    BY <1>3, <1>5, <2>2, PrefixOf
  <2>4. \A i \in 1..Len(q) : i \in 1..Len(r)-1
    BY <1>1, <2>1, <2>3
  <2>5. Len(q) <= Len(r) /\ \A i \in 1..Len(q) : q[i] = r[i]
    BY <1>1, <2>1, <2>2, <2>3, <2>4
  <2> QED BY <2>5, PrefixOf
<1>6. ASSUME Len(q) > 1 PROVE Front(q) \notin Under(q)
  <2>1. Len(Front(q)) = Len(q) - 1 /\ Front(q) \in Paths
    BY <1>1, <1>6, FrontLast, PathsShape
  <2> QED BY <1>1, <2>1, PrefixOf
<1> QED BY <1>2, <1>3, <1>4, <1>5, <1>6

\* Where the data under a path is: in a file or in a backup.
LEMMA InData ==
    ASSUME NEW q, NEW x
    PROVE  x \in DataUnder(q) <=>
              \E r \in Under(q) : \/ fs[r].kind = "file" /\ fs[r].data = x
                                  \/ \E b \in saved[r] : x \in b
BY DEF DataUnder

\* The same for the whole target tree.
LEMMA InDataOfHome ==
    ASSUME NEW x
    PROVE  x \in DataUnder(<<Home>>) <=>
              \E r \in Paths : /\ r[1] = Home
                               /\ \/ fs[r].kind = "file" /\ fs[r].data = x
                                  \/ \E b \in saved[r] : x \in b
<1>1. \A r : r \in Under(<<Home>>) <=> r \in Paths /\ r[1] = Home
  BY UnderRoot DEF Under
<1> QED BY <1>1, InData, Zenon

\* Nothing is lost where files and backups under Home stay.
LEMMA DataKept ==
    ASSUME NoUserDataLost,
           \A r \in Paths : r[1] = Home /\ fs[r].kind = "file" => fs'[r] = fs[r],
           \A r \in Paths : r[1] = Home => saved[r] \subseteq saved'[r]
    PROVE  written \subseteq DataUnder(<<Home>>)'
<1>1. ASSUME NEW x \in written
      PROVE  \E r \in Paths : /\ r[1] = Home
                              /\ \/ fs'[r].kind = "file" /\ fs'[r].data = x
                                 \/ \E b \in saved'[r] : x \in b
  <2>1. x \in DataUnder(<<Home>>)
    BY DEF NoUserDataLost
  <2>2. PICK r \in Paths : /\ r[1] = Home
                           /\ \/ fs[r].kind = "file" /\ fs[r].data = x
                              \/ \E b \in saved[r] : x \in b
    BY <2>1, InDataOfHome
  <2> QED BY <2>2
<1>2. \A r : r \in Under(<<Home>>) <=> r \in Paths /\ r[1] = Home
  BY UnderRoot DEF Under
<1>3. ASSUME NEW x \in written PROVE x \in DataUnder(<<Home>>)'
  BY <1>1, <1>2 DEF DataUnder
<1> QED BY <1>3

-----------------------------------------------------------------------------
(* The inductive invariant *)

\* What the linker remembers names packages, and paths of which resolution knows
\* what to make.
JobInv ==
    /\ sc \in Scenarios
    /\ op # "fix" => pkg \in Pkgs
    /\ stage \notin {"idle", "unfold"} => op # "fix"
    /\ files \subseteq Rels \ {<<>>}
    /\ todo \subseteq Seq(Parts)
    /\ stage = "link" => <<>> \notin todo
    /\ pending \subseteq Seq(Parts)

IInv == TreeInv /\ JobInv /\ NoUserDataLost

Safe == TreeInv /\ NoUserDataLost

-----------------------------------------------------------------------------
(* The steps that change the trees *)

\* A step that leaves the trees alone keeps what is said of them.
LEMMA Unchanged ==
    ASSUME TreeInv, NoUserDataLost, UNCHANGED <<fs, saved, written>>
    PROVE  Safe'
BY DEF Safe, TreeInv, LinksTyped, Rooted, SavedInDirs, NoUserDataLost, DataUnder

\* A path of the shape the walks use is one resolution is defined on.
LEMMA PathTyped ==
    ASSUME NEW root \in {Home} \union Pkgs, NEW rel \in Seq(Parts)
    PROVE  /\ Path(root, rel) \in Seq(Parts)
           /\ Len(Path(root, rel)) = Len(rel) + 1
           /\ Path(root, rel)[1] = root
<1>1. root \in Parts
  BY DEF Parts
<1>2. Path(root, rel) = <<root>> \o rel
  BY DEF Path
<1> QED BY <1>1, <1>2

\* A link may be put where nothing or a link was.
LEMMA LinkPut ==
    ASSUME Safe, NEW q \in Paths, NEW to \in Seq(Parts),
           fs[q] = None \/ fs[q].kind = "link",
           Len(q) > 1 => fs[Front(q)] = Dir,
           fs' = [fs EXCEPT ![q] = Link(to)], UNCHANGED <<saved, written>>
    PROVE  Safe'
<1>1. TreeInv /\ NoUserDataLost
  BY DEF Safe
<1>2. \A r \in Paths : fs'[r] = IF r = q THEN Link(to) ELSE fs[r]
  BY <1>1 DEF TreeInv
<1>3. fs[q] # Dir /\ fs[q].kind # "file"
  BY Kinds
<1>4. fs' = [r \in Paths |-> fs'[r]] /\ saved' = [r \in Paths |-> saved'[r]]
  BY <1>1, <1>2 DEF TreeInv
<1>5. LinksTyped'
  BY <1>1, <1>2, Kinds DEF TreeInv, LinksTyped
<1>6. Rooted'
  <2>1. SUFFICES ASSUME NEW r \in Paths, fs'[r] # None, Len(r) > 1
                 PROVE  fs'[Front(r)] = Dir
    BY DEF Rooted
  <2>2. Front(r) \in Paths
    BY <2>1, PathsShape
  <2>3. fs[Front(r)] = Dir
    BY <1>1, <1>2, <2>1 DEF TreeInv, Rooted
  <2> QED BY <1>2, <1>3, <2>2, <2>3
<1>7. SavedInDirs'
  BY <1>1, <1>2, <1>3 DEF TreeInv, SavedInDirs
<1>8. fs'[<<Home>>] = Dir
  BY <1>1, <1>2, <1>3, RootPath DEF TreeInv
<1>9. NoUserDataLost'
  BY <1>1, <1>2, <1>3, DataKept DEF NoUserDataLost
<1> QED BY <1>4, <1>5, <1>6, <1>7, <1>8, <1>9 DEF Safe, TreeInv

\* Entries are removed with all that is in them; what a directory holds of data
\* is not what the user has written, or nothing at all.
LEMMA Removed ==
    ASSUME Safe, NEW gone \in SUBSET Paths, <<Home>> \notin gone,
           \A r \in Paths : Len(r) > 1 /\ fs[r] # None /\ Front(r) \in gone => r \in gone,
           \A r \in gone : r[1] = Home => fs[r].kind # "file" /\ saved[r] = {},
           fs' = [r \in Paths |-> IF r \in gone THEN None ELSE fs[r]],
           saved' = [r \in Paths |-> IF r \in gone THEN {} ELSE saved[r]],
           written' = written
    PROVE  Safe'
<1>1. TreeInv /\ NoUserDataLost
  BY DEF Safe
<1>2. \A r \in Paths : /\ fs'[r] = IF r \in gone THEN None ELSE fs[r]
                       /\ saved'[r] = IF r \in gone THEN {} ELSE saved[r]
  OBVIOUS
<1>3. fs' = [r \in Paths |-> fs'[r]] /\ saved' = [r \in Paths |-> saved'[r]]
  BY <1>2
<1>4. LinksTyped'
  BY <1>1, <1>2, Kinds DEF TreeInv, LinksTyped
<1>5. Rooted'
  <2>1. SUFFICES ASSUME NEW r \in Paths, fs'[r] # None, Len(r) > 1
                 PROVE  fs'[Front(r)] = Dir
    BY DEF Rooted
  <2>2. Front(r) \in Paths /\ r \notin gone /\ fs[r] # None
    BY <1>2, <2>1, PathsShape
  <2>3. fs[Front(r)] = Dir
    BY <1>1, <2>1, <2>2 DEF TreeInv, Rooted
  <2> QED BY <1>2, <2>1, <2>2, <2>3
<1>6. SavedInDirs'
  BY <1>1, <1>2 DEF TreeInv, SavedInDirs
<1>7. fs'[<<Home>>] = Dir
  BY <1>1, <1>2, RootPath DEF TreeInv
<1>8. NoUserDataLost'
  <2>1. \A r \in Paths : r[1] = Home /\ fs[r].kind = "file" => fs'[r] = fs[r]
    BY <1>2
  <2>2. \A r \in Paths : r[1] = Home => saved[r] \subseteq saved'[r]
    BY <1>2
  <2> QED BY <1>1, <2>1, <2>2, DataKept DEF NoUserDataLost
<1> QED BY <1>3, <1>4, <1>5, <1>6, <1>7, <1>8 DEF Safe, TreeInv

\* remove deletes an entry of a package, or fails to: nothing of the target tree
\* goes with it.
LEMMA DeleteSafe ==
    ASSUME IInv, DeleteEntry
    PROVE  Safe'
<1>1. TreeInv /\ NoUserDataLost /\ pkg \in Pkgs /\ Home \notin Pkgs /\ LinksTyped
      /\ Rooted /\ SavedInDirs /\ fs[<<Home>>] = Dir
  BY TreeAssumption DEF IInv, JobInv, DeleteEntry, TreeInv
<1>2. PICK rel \in todo : Delete(Path(pkg, rel)) \/ DeleteFails(Path(pkg, rel))
  BY DEF DeleteEntry
<1> DEFINE q    == Path(pkg, rel)
           gone == {q} \intersect Paths
<1>3. rel \in Seq(Parts)
  BY <1>1 DEF IInv, JobInv
<1>4. q[1] = pkg /\ q[1] # Home /\ q # <<Home>>
  <2>1. q[1] = pkg
    BY <1>1, <1>3, PathTyped
  <2>2. <<Home>>[1] = Home
    OBVIOUS
  <2> HIDE DEF q
  <2> QED BY <1>1, <2>1, <2>2
<1>5. written' = written
  BY DEF DeleteEntry, End, inputs
<1>6. fs = [r \in Paths |-> fs[r]] /\ saved = [r \in Paths |-> saved[r]]
  BY <1>1 DEF TreeInv
<1>7. CASE Delete(q)
  <2>1. \A r \in Paths : Len(r) > 1 /\ fs[r] # None /\ Front(r) \in gone => r \in gone
    <3>1. SUFFICES ASSUME NEW r \in Paths, Len(r) > 1, fs[r] # None, Front(r) = q
                   PROVE  FALSE
      OBVIOUS
    <3>2. fs[q] = Dir
      BY <1>1, <3>1 DEF Rooted
    <3>3. r # <<r[1]>>
      BY <3>1, NotRoot
    <3>4. r \in Children(q)
      BY <3>1, <3>3 DEF Children
    <3> QED BY <1>7, <3>2, <3>4 DEF Delete
  <2>2. /\ fs' = [r \in Paths |-> IF r \in gone THEN None ELSE fs[r]]
        /\ saved' = [r \in Paths |-> IF r \in gone THEN {} ELSE saved[r]]
    BY <1>6, <1>7 DEF Delete
  <2>3. <<Home>> \notin gone /\ gone \subseteq Paths /\ \A r \in gone : r[1] # Home
    BY <1>4
  <2>4. Safe
    BY <1>1 DEF Safe
  <2> HIDE DEF gone
  <2> QED BY <1>5, <2>1, <2>2, <2>3, <2>4, Removed
<1>8. CASE DeleteFails(q)
  <2>1. PICK kept \in SUBSET saved[q] : saved' = [saved EXCEPT ![q] = kept]
    BY <1>8 DEF DeleteFails
  <2>2. fs' = fs
    BY <1>8 DEF DeleteFails
  <2>3. \A r \in Paths : /\ saved'[r] \subseteq saved[r]
                         /\ r[1] = Home => saved'[r] = saved[r]
    BY <1>4, <1>6, <2>1
  <2>4. saved' = [r \in Paths |-> saved'[r]]
    BY <1>6, <2>1
  <2>5. NoUserDataLost'
    <3>1. \A r \in Paths : r[1] = Home => saved[r] \subseteq saved'[r]
      BY <2>3
    <3>2. \A r \in Paths : r[1] = Home /\ fs[r].kind = "file" => fs'[r] = fs[r]
      BY <2>2
    <3> QED BY <1>1, <1>5, <3>1, <3>2, DataKept DEF NoUserDataLost
  <2>6. SavedInDirs'
    BY <1>1, <2>2, <2>3 DEF SavedInDirs
  <2>7. LinksTyped' /\ Rooted' /\ fs'[<<Home>>] = Dir /\ fs' = [r \in Paths |-> fs'[r]]
    BY <1>1, <1>6, <2>2 DEF LinksTyped, Rooted
  <2> QED BY <2>4, <2>5, <2>6, <2>7 DEF Safe, TreeInv
<1> QED BY <1>2, <1>7, <1>8

\* The user makes a link where nothing was.
LEMMA UserLinkSafe ==
    ASSUME IInv, UserLink
    PROVE  Safe'
<1>1. TreeInv /\ NoUserDataLost /\ sc \in Scenarios
  BY DEF IInv, JobInv
<1>2. PICK l \in sc.links : /\ fs[l[1]] = None
                            /\ fs[Front(l[1])] = Dir
                            /\ fs' = [fs EXCEPT ![l[1]] = Link(l[2])]
  BY DEF UserLink
<1>3. l[1] \in Paths /\ l[2] \in Paths
  BY <1>1, LinkerAssumption
<1>4. l[2] \in Seq(Parts)
  BY <1>3, PathsShape
<1>5. UNCHANGED <<saved, written>>
  BY DEF UserLink, inputs
<1> QED BY <1>1, <1>2, <1>3, <1>4, <1>5, LinkPut DEF Safe

\* The parents unlink_package removes are directories with no backup and nothing
\* in them but what it removes as well.
LEMMA EmptiedFacts ==
    ASSUME LinksTyped, NEW p \in Seq(Parts), NEW r \in EmptiedParents(p)
    PROVE  /\ r \in Paths /\ Len(r) > 1 /\ fs[r] = Dir /\ saved[r] = {}
           /\ \E s \in EmptiedParents(p) \union {Phys(p)} : Children(r) = {s}
<1> DEFINE up(k)      == SubSeq(p, 1, k)
           emptied(k) == /\ LStat(up(k)) = Dir
                         /\ Children(Phys(up(k))) = {Phys(up(k + 1))}
                         /\ saved[Phys(up(k))] = {}
           Depths     == {j \in 2..Len(p)-1 : \A i \in j..Len(p)-1 : emptied(i)}
<1>1. EmptiedParents(p) = {Phys(up(k)) : k \in Depths}
  BY DEF EmptiedParents
<1>2. PICK k \in Depths : r = Phys(up(k))
  BY <1>1
<1>3. k \in 2..Len(p)-1 /\ \A i \in k..Len(p)-1 : emptied(i)
  OBVIOUS
<1>4. k \in Nat /\ k >= 2 /\ k <= Len(p) - 1 /\ Len(p) \in Nat /\ k \in k..Len(p)-1
  BY <1>3
<1>5. emptied(k)
  BY <1>3, <1>4
<1>6. up(k) \in Seq(Parts) /\ Len(up(k)) = k
  BY <1>4
<1>7. r # NoPath /\ fs[r] = Dir /\ saved[r] = {}
  BY <1>2, <1>5, Kinds DEF LStat, EntryAt
<1>8. r \in Paths /\ Len(r) > 1
  <2>1. Len(up(k)) > 1 /\ Phys(up(k)) # NoPath
    BY <1>2, <1>4, <1>6, <1>7
  <2> HIDE DEF up
  <2> QED BY <1>2, <1>6, <2>1, PhysPlace
<1>9. Phys(up(k + 1)) \in EmptiedParents(p) \union {Phys(p)}
  <2>1. CASE k = Len(p) - 1
    <3>1. k + 1 = Len(p)
      BY <1>4, <2>1
    <3>2. up(k + 1) = p
      BY <3>1
    <3> QED BY <3>2
  <2>2. CASE k # Len(p) - 1
    <3>1. k + 1 \in 2..Len(p)-1 /\ \A i \in (k+1)..Len(p)-1 : i \in k..Len(p)-1
      BY <1>4, <2>2
    <3>2. k + 1 \in Depths
      BY <1>3, <3>1
    <3> HIDE DEF Depths, up
    <3> QED BY <1>1, <3>2
  <2> QED BY <2>1, <2>2
<1>10. Children(r) = {Phys(up(k + 1))}
  BY <1>2, <1>5
<1> QED BY <1>7, <1>8, <1>9, <1>10

\* unlink removes links, and directories that are empty then, with no backup in them.
LEMMA UnlinkSafe ==
    ASSUME IInv, UnlinkFile
    PROVE  Safe'
<1>1. TreeInv /\ NoUserDataLost /\ todo \subseteq Seq(Parts) /\ LinksTyped /\ Rooted /\ SavedInDirs
      /\ fs[<<Home>>] = Dir
  BY DEF IInv, JobInv, TreeInv
<1>2. PICK rel \in todo :
          LET p == Path(Home, rel)
          IN  \/ /\ IsSymlink(p)
                 /\ fs' = [q \in Paths |-> IF q \in EmptiedParents(p) \union {Phys(p)}
                                           THEN None ELSE fs[q]]
              \/ UNCHANGED fs
  BY DEF UnlinkFile, PointsTo
<1> DEFINE p    == Path(Home, rel)
           gone == EmptiedParents(p) \union {Phys(p)}
<1>3. UNCHANGED <<saved, written>>
  BY DEF UnlinkFile, inputs
<1>4. CASE UNCHANGED fs
  BY <1>1, <1>3, <1>4, Unchanged
<1>5. CASE /\ IsSymlink(p)
           /\ fs' = [q \in Paths |-> IF q \in gone THEN None ELSE fs[q]]
  <2>1. p \in Seq(Parts)
    BY <1>1, PathTyped
  <2> HIDE DEF p
  <2>2. Phys(p) # NoPath /\ fs[Phys(p)].kind = "link"
    BY <1>5, Kinds DEF IsSymlink, LStat, EntryAt
  <2>3. Phys(p) \in Paths /\ fs[Phys(p)] # Dir /\ saved[Phys(p)] = {}
    BY <1>1, <2>1, <2>2, PhysPlace, Kinds DEF SavedInDirs
  <2>4. \A r \in EmptiedParents(p) :
            /\ r \in Paths /\ Len(r) > 1 /\ fs[r] = Dir /\ saved[r] = {}
            /\ \E s \in gone : Children(r) = {s}
    BY <1>1, <2>1, EmptiedFacts
  <2>5. gone \in SUBSET Paths /\ <<Home>> \notin gone
    <3>1. \A r \in EmptiedParents(p) : r # <<r[1]>>
      BY <2>4, NotRoot, Zenon
    <3>2. <<Home>> \notin EmptiedParents(p)
      <4>1. <<Home>>[1] = Home
        OBVIOUS
      <4> QED BY <3>1, <4>1, Zenon
    <3>3. <<Home>> # Phys(p)
      BY <1>1, <2>3
    <3> QED BY <2>3, <2>4, <3>2, <3>3, Zenon
  <2>6. ASSUME NEW r \in Paths, Len(r) > 1, fs[r] # None, Front(r) \in gone
        PROVE  r \in gone
    <3>1. fs[Front(r)] = Dir
      BY <1>1, <2>6 DEF Rooted
    <3>2. Front(r) \in EmptiedParents(p)
      BY <2>3, <2>6, <3>1
    <3>3. r # <<r[1]>>
      BY <2>6, NotRoot, Zenon
    <3>4. r \in Children(Front(r))
      BY <2>6, <3>3 DEF Children
    <3> QED BY <2>4, <3>2, <3>4
  <2>7. \A r \in gone : fs[r].kind # "file" /\ saved[r] = {}
    BY <2>2, <2>3, <2>4, Kinds
  <2>8. saved' = [r \in Paths |-> IF r \in gone THEN {} ELSE saved[r]]
    <3>1. saved = [r \in Paths |-> saved[r]]
      BY <1>1 DEF TreeInv
    <3> HIDE DEF gone
    <3> QED BY <1>3, <2>7, <3>1
  <2>9. fs' = [r \in Paths |-> IF r \in gone THEN None ELSE fs[r]]
    BY <1>5
  <2> HIDE DEF gone
  <2> QED BY <1>1, <1>3, <2>5, <2>6, <2>7, <2>8, <2>9, Removed DEF Safe
<1> QED BY <1>2, <1>4, <1>5

\* The user writes a file where nothing was, and the directories it needs.
LEMMA UserWriteSafe ==
    ASSUME IInv, UserWrite
    PROVE  Safe'
<1>1. TreeInv /\ NoUserDataLost
  BY DEF IInv
<1>2. PICK x \in sc.data \ written, rel \in Rels \ {<<>>} :
          LET q == Path(Home, rel)
          IN  /\ fs[q] = None
              /\ \A k \in 1..Len(q)-1 : fs[SubSeq(q, 1, k)] \in {None, Dir}
              /\ fs' = [r \in Paths |-> IF r = q THEN File(x)
                                        ELSE IF IsPrefix(r, q) THEN Dir
                                        ELSE fs[r]]
              /\ written' = written \union {x}
  BY DEF UserWrite
<1> DEFINE q == Path(Home, rel)
<1>3. /\ fs[q] = None
      /\ \A k \in 1..Len(q)-1 : fs[SubSeq(q, 1, k)] \in {None, Dir}
      /\ \A r \in Paths : fs'[r] = IF r = q THEN File(x)
                                   ELSE IF IsPrefix(r, q) THEN Dir
                                   ELSE fs[r]
      /\ fs' = [r \in Paths |-> fs'[r]]
      /\ written' = written \union {x}
      /\ saved' = saved
  <2>1. saved' = saved
    BY DEF UserWrite
  <2> HIDE DEF q
  <2> QED BY <1>2, <2>1 DEF q
<1>4. q \in Paths /\ q[1] = Home
  BY PathShape
<1> HIDE DEF q
<1>5. ASSUME NEW r \in Paths, IsPrefix(r, q), r # q
      PROVE  fs[r] \in {None, Dir} /\ Len(r) < Len(q)
  <2>1. r \in Seq(Parts) /\ q \in Seq(Parts) /\ Len(r) >= 1
    BY <1>4, PathsShape
  <2>2. Len(r) <= Len(q) /\ r = SubSeq(q, 1, Len(r))
    BY <1>5, <2>1 DEF IsPrefix
  <2>3. Len(r) # Len(q)
    BY <1>5, <2>1, <2>2
  <2>4. Len(r) \in 1..Len(q)-1
    BY <2>1, <2>2, <2>3
  <2>5. fs[SubSeq(q, 1, Len(r))] \in {None, Dir}
    BY <1>3, <2>4, Zenon
  <2>6. Len(r) < Len(q)
    BY <2>1, <2>2, <2>3
  <2> QED BY <2>2, <2>5, <2>6, Zenon
<1>6. ASSUME NEW r \in Paths, IsPrefix(r, q), Len(r) > 1
      PROVE  Front(r) \in Paths /\ IsPrefix(Front(r), q) /\ Front(r) # q
  <2>1. r \in Seq(Parts) /\ q \in Seq(Parts) /\ Front(r) \in Paths /\ Len(r) > 0
    BY <1>4, <1>6, PathsShape
  <2>2. Len(Front(r)) = Len(r) - 1 /\ \A i \in 1..Len(r)-1 : Front(r)[i] = r[i]
    BY <2>1, FrontLast
  <2>3. Len(r) <= Len(q) /\ \A i \in 1..Len(r) : r[i] = q[i]
    BY <1>4, <1>6, PrefixOf DEF Under
  <2>4. Len(Front(r)) <= Len(q) /\ \A i \in 1..Len(Front(r)) : Front(r)[i] = q[i]
    BY <2>1, <2>2, <2>3
  <2>5. q \in Under(Front(r))
    BY <1>4, <2>1, <2>4, PrefixOf
  <2>6. Front(r) # q
    BY <2>1, <2>2, <2>3
  <2> QED BY <2>1, <2>5, <2>6 DEF Under
<1>7. LinksTyped'
  BY <1>1, <1>3, Kinds DEF TreeInv, LinksTyped
<1>8. Rooted'
  <2>1. SUFFICES ASSUME NEW r \in Paths, fs'[r] # None, Len(r) > 1
                 PROVE  fs'[Front(r)] = Dir
    BY DEF Rooted
  <2>2. CASE IsPrefix(r, q)
    BY <1>3, <1>6, <2>1, <2>2
  <2>3. CASE ~IsPrefix(r, q)
    <3>1. r # q
      BY <1>4, <2>3, UnderFacts DEF Under
    <3>2. fs[r] # None /\ Front(r) \in Paths
      BY <1>3, <2>1, <2>3, <3>1, PathsShape
    <3>3. fs[Front(r)] = Dir
      BY <1>1, <2>1, <3>2 DEF TreeInv, Rooted
    <3> QED BY <1>3, <3>2, <3>3, Kinds
  <2> QED BY <2>2, <2>3
<1>9. SavedInDirs'
  BY <1>1, <1>3, Kinds DEF TreeInv, SavedInDirs
<1>10. fs'[<<Home>>] = Dir
  BY <1>1, <1>3, RootPath, Kinds DEF TreeInv
<1>11. NoUserDataLost'
  <2>1. \A r \in Paths : fs[r].kind = "file" => fs'[r] = fs[r]
    BY <1>3, <1>5, Kinds
  <2>2. written \subseteq DataUnder(<<Home>>)'
    BY <1>1, <1>3, <2>1, DataKept
  <2>3. q \in Under(<<Home>>)
    BY <1>4, UnderRoot
  <2>4. fs'[q].kind = "file" /\ fs'[q].data = x
    BY <1>3, <1>4, Kinds
  <2>5. x \in DataUnder(<<Home>>)'
    BY <2>3, <2>4 DEF DataUnder
  <2> QED BY <1>3, <2>2, <2>5 DEF NoUserDataLost
<1> QED BY <1>1, <1>3, <1>7, <1>8, <1>9, <1>10, <1>11 DEF Safe, TreeInv

\* A link becomes a directory of links: nothing was under the link itself.
LEMMA UnfoldSafe ==
    ASSUME IInv, UnfoldLink
    PROVE  Safe'
<1>1. TreeInv /\ NoUserDataLost /\ pending \subseteq Seq(Parts) /\ LinksTyped /\ Rooted
      /\ SavedInDirs /\ fs[<<Home>>] = Dir
      /\ fs = [r \in Paths |-> fs[r]] /\ saved = [r \in Paths |-> saved[r]]
  BY DEF IInv, JobInv, TreeInv
<1>2. written' = written
  BY DEF UnfoldLink, inputs
<1>3. PICK p \in pending :
          \/ /\ IsFolded(p)
             /\ fs' = Unfolded(p)
             /\ saved' = [saved EXCEPT ![Phys(p)] = {{} : b \in saved[Real(p)]}]
          \/ UNCHANGED treeVars
  BY DEF UnfoldLink
<1>4. CASE UNCHANGED treeVars
  BY <1>1, <1>2, <1>4, Unchanged DEF treeVars
<1>5. CASE /\ IsFolded(p)
           /\ fs' = Unfolded(p)
           /\ saved' = [saved EXCEPT ![Phys(p)] = {{} : b \in saved[Real(p)]}]
  <2> DEFINE q    == Phys(p)
             to   == fs[q].to
             In(r) == /\ r # <<r[1]>> /\ Front(r) = q
                      /\ Append(Real(p), Last(r)) \in Children(Real(p))
  <2>1. p \in Seq(Parts)
    BY <1>1
  <2>2. q # NoPath /\ fs[q].kind = "link"
    BY <1>5, Kinds DEF IsFolded, IsSymlink, LStat, EntryAt
  <2>3. q \in Paths /\ fs[q] # Dir /\ fs[q] # None /\ saved[q] = {} /\ to \in Seq(Parts)
    BY <1>1, <2>1, <2>2, PhysPlace, Kinds DEF SavedInDirs, LinksTyped
  <2>4. \A r \in Paths : fs'[r] = IF r = q THEN Dir
                                  ELSE IF In(r) THEN Link(Append(to, Last(r)))
                                  ELSE fs[r]
    BY <1>5 DEF Unfolded
  <2>5. fs' = [r \in Paths |-> fs'[r]]
    BY <1>5 DEF Unfolded
  <2>6. \A r \in Paths : r # q => saved'[r] = saved[r]
    BY <1>1, <1>5
  <2>7. saved' = [r \in Paths |-> saved'[r]]
    BY <1>1, <1>5
  <2> HIDE DEF q, to
  <2>8. ASSUME NEW r \in Paths, In(r)
        PROVE  fs[r] = None /\ Len(r) > 1 /\ Append(to, Last(r)) \in Seq(Parts)
    <3>1. r \in Seq(Parts) /\ Len(r) >= 1 /\ Len(r) \in Nat /\ Len(r) # 1
      BY <2>8, PathsShape
    <3>2. Len(r) > 1 /\ Len(r) > 0
      <4>1. \A n \in Nat : n >= 1 /\ n # 1 => n > 1 /\ n > 0
        OBVIOUS
      <4> QED BY <3>1, <4>1, Zenon
    <3>3. fs[r] = None
      BY <1>1, <2>3, <2>8, <3>2 DEF Rooted
    <3>4. Last(r) \in Parts
      BY <3>1, <3>2, FrontLast
    <3> QED BY <2>3, <3>2, <3>3, <3>4, AppendFront
  <2>9. LinksTyped'
    <3>1. SUFFICES ASSUME NEW r \in Paths, fs'[r].kind = "link"
                   PROVE  fs'[r].to \in Seq(Parts)
      BY DEF LinksTyped
    <3>2. CASE r # q /\ In(r)
      <4>1. fs'[r] = Link(Append(to, Last(r)))
        BY <2>4, <3>2
      <4> HIDE DEF In
      <4> QED BY <2>8, <3>2, <4>1, Kinds
    <3>3. CASE r # q /\ ~In(r)
      <4>1. fs'[r] = fs[r]
        BY <2>4, <3>3
      <4> QED BY <1>1, <3>1, <4>1 DEF LinksTyped
    <3>4. CASE r = q
      BY <2>3, <2>4, <3>1, <3>4, Kinds
    <3> QED BY <3>2, <3>3, <3>4
  <2>10. Rooted'
    <3>1. SUFFICES ASSUME NEW r \in Paths, fs'[r] # None, Len(r) > 1
                   PROVE  fs'[Front(r)] = Dir
      BY DEF Rooted
    <3>2. Front(r) \in Paths
      BY <3>1, PathsShape
    <3>3. CASE Front(r) = q
      BY <2>3, <2>4, <3>3
    <3>4. CASE Front(r) # q
      <4>1. ~In(r)
        BY <3>4
      <4>2. fs[r] # None
        BY <2>3, <2>4, <3>1, <4>1
      <4>3. fs[Front(r)] = Dir
        BY <1>1, <3>1, <4>2 DEF Rooted
      <4>4. ~In(Front(r))
        <5> HIDE DEF In
        <5> QED BY <2>8, <3>2, <4>3, Kinds
      <4> HIDE DEF In
      <4> QED BY <2>4, <3>2, <3>4, <4>3, <4>4
    <3> QED BY <3>3, <3>4
  <2> HIDE DEF In
  <2>11. SavedInDirs'
    <3>1. SUFFICES ASSUME NEW r \in Paths, saved'[r] # {}
                   PROVE  fs'[r] = Dir
      BY DEF SavedInDirs
    <3>2. CASE r = q
      BY <2>4, <3>2
    <3>3. CASE r # q
      <4>1. fs[r] = Dir
        BY <1>1, <2>6, <3>1, <3>3 DEF SavedInDirs
      <4>2. ~In(r)
        BY <2>8, <4>1, Kinds
      <4> QED BY <2>4, <3>3, <4>1, <4>2
    <3> QED BY <3>2, <3>3
  <2>12. fs'[<<Home>>] = Dir
    <3>1. <<Home>> \in Paths
      BY RootPath
    <3>2. ~In(<<Home>>)
      BY <1>1, <2>8, <3>1, Kinds
    <3> QED BY <1>1, <2>4, <3>1, <3>2
  <2>13. NoUserDataLost'
    <3>1. \A r \in Paths : r[1] = Home /\ fs[r].kind = "file" => fs'[r] = fs[r]
      BY <2>2, <2>4, <2>8, Kinds
    <3>2. \A r \in Paths : r[1] = Home => saved[r] \subseteq saved'[r]
      BY <2>3, <2>6
    <3> QED BY <1>1, <1>2, <3>1, <3>2, DataKept DEF NoUserDataLost
  <2> QED BY <2>5, <2>7, <2>9, <2>10, <2>11, <2>12, <2>13 DEF Safe, TreeInv
<1> QED BY <1>3, <1>4, <1>5

\* Directories may be made where nothing was, if the parents are there.
LEMMA DirsMade ==
    ASSUME Safe, NEW new \in SUBSET Paths,
           \A r \in new : /\ fs[r] = None
                          /\ Len(r) > 1 => Front(r) \in new \/ fs[Front(r)] = Dir,
           fs' = [r \in Paths |-> IF r \in new THEN Dir ELSE fs[r]],
           UNCHANGED <<saved, written>>
    PROVE  Safe'
<1>1. TreeInv /\ NoUserDataLost
  BY DEF Safe
<1>2. \A r \in Paths : fs'[r] = IF r \in new THEN Dir ELSE fs[r]
  OBVIOUS
<1>3. fs' = [r \in Paths |-> fs'[r]] /\ saved' = [r \in Paths |-> saved'[r]]
  BY <1>1, <1>2 DEF TreeInv
<1>4. LinksTyped'
  BY <1>1, <1>2, Kinds DEF TreeInv, LinksTyped
<1>5. Rooted'
  <2>1. SUFFICES ASSUME NEW r \in Paths, fs'[r] # None, Len(r) > 1
                 PROVE  fs'[Front(r)] = Dir
    BY DEF Rooted
  <2>2. Front(r) \in Paths
    BY <2>1, PathsShape
  <2>3. CASE r \in new
    BY <1>2, <2>1, <2>2, <2>3
  <2>4. CASE r \notin new
    <3>1. fs[Front(r)] = Dir
      BY <1>1, <1>2, <2>1, <2>4 DEF TreeInv, Rooted
    <3> QED BY <1>2, <2>2, <3>1
  <2> QED BY <2>3, <2>4
<1>6. SavedInDirs'
  BY <1>1, <1>2 DEF TreeInv, SavedInDirs
<1>7. fs'[<<Home>>] = Dir
  BY <1>1, <1>2, RootPath DEF TreeInv
<1>8. NoUserDataLost'
  <2>1. \A r \in Paths : fs[r].kind = "file" => fs'[r] = fs[r]
    BY <1>2, Kinds
  <2> QED BY <1>1, <2>1, DataKept DEF NoUserDataLost
<1> QED BY <1>3, <1>4, <1>5, <1>6, <1>7, <1>8 DEF Safe, TreeInv

\* A bounded set of numbers has a greatest one.
LEMMA GreatestNat ==
    ASSUME NEW n \in Nat, NEW T, T \subseteq 1..n, T # {}
    PROVE  Max(T) \in T
<1> DEFINE S == {n - k : k \in T}
<1>1. S \subseteq Nat /\ S # {}
  <2>1. \A k \in T : n - k \in Nat
    <3>1. \A k \in 1..n : n - k \in Nat
      OBVIOUS
    <3> QED BY <3>1
  <2> QED BY <2>1
<1>2. PICK s \in S : \A m \in S : s <= m
  <2> HIDE DEF S
  <2> QED BY <1>1, LeastNat
<1>3. PICK k \in T : s = n - k
  OBVIOUS
<1>4. \A y \in T : k >= y
  <2>1. TAKE y \in T
  <2>2. n - k <= n - y
    BY <1>2, <1>3
  <2>3. k \in Nat /\ y \in Nat
    OBVIOUS
  <2> QED BY <2>2, <2>3
<1> QED BY <1>4 DEF Max

\* The names below a directory, one more at a time.
LEMMA Extended ==
    ASSUME NEW d \in Seq(Parts), NEW p \in Seq(Parts), NEW h \in Nat,
           NEW k \in h+1..Len(p)
    PROVE  /\ d \o SubSeq(p, h + 1, k) \in Seq(Parts)
           /\ Len(d \o SubSeq(p, h + 1, k)) = Len(d) + (k - h)
           /\ Front(d \o SubSeq(p, h + 1, k)) = d \o SubSeq(p, h + 1, k - 1)
           /\ Last(d \o SubSeq(p, h + 1, k)) = p[k]
           /\ SubSeq(p, h + 1, h) = <<>> /\ d \o <<>> = d
<1> DEFINE t == SubSeq(p, h + 1, k - 1)
<1>1. k \in Nat /\ h + 1 \in 1..Len(p) /\ k \in h+1..Len(p) /\ k \in 1..Len(p)
      /\ k - 1 \in Nat /\ Len(p) \in Nat
  OBVIOUS
<1>2. SubSeq(p, h + 1, k) = t \o <<p[k]>>
  BY <1>1, SubSeqRecursiveSecond
<1>3. t \in Seq(Parts) /\ Len(t) = (k - 1) - h
  BY <1>1, SubSeqProperties
<1>4. p[k] \in Parts
  BY <1>1
<1> HIDE DEF t
<1>5. d \o (t \o <<p[k]>>) = (d \o t) \o <<p[k]>>
  BY <1>3, <1>4, ConcatAssociative
<1>6. d \o t \in Seq(Parts) /\ Len(d \o t) = Len(d) + Len(t)
  BY <1>3
<1>7. d \o SubSeq(p, h + 1, k) = Append(d \o t, p[k])
  BY <1>2, <1>4, <1>5, <1>6, AppendIsConcat
<1>8. /\ Append(d \o t, p[k]) \in Seq(Parts) /\ Len(Append(d \o t, p[k])) = Len(d \o t) + 1
      /\ Front(Append(d \o t, p[k])) = d \o t /\ Last(Append(d \o t, p[k])) = p[k]
  BY <1>4, <1>6, AppendFront
<1>9. Len(d) \in Nat /\ Len(d) + ((k - 1) - h) + 1 = Len(d) + (k - h)
  BY <1>1
<1>10. SubSeq(p, h + 1, h) = <<>> /\ d \o <<>> = d
  OBVIOUS
<1> QED BY <1>3, <1>6, <1>7, <1>8, <1>9, <1>10 DEF t

\* The directories mkdir_p makes are missing ones, each in the one before.
LEMMA MkdirFacts ==
    ASSUME TreeInv, NEW rel \in Seq(Parts), NEW new, new = MkdirP(Path(Home, rel))
    PROVE  /\ new \in SUBSET Paths
           /\ \A r \in new : fs[r] = None /\ (Front(r) \in new \/ fs[Front(r)] = Dir)
<1> DEFINE p     == Path(Home, rel)
           up(k) == SubSeq(p, 1, k)
           Known == {k \in 1..Len(p) : IsDir(up(k))}
           h     == Max(Known)
           d     == Real(up(h))
           N(k)  == d \o SubSeq(p, h + 1, k)
           all   == {N(k) : k \in h+1..Len(p)}
<1>1. p \in Seq(Parts) /\ p[1] = Home /\ Len(p) \in Nat /\ Len(p) >= 1
  <2>1. p \in Seq(Parts) /\ p[1] = Home /\ Len(p) = Len(rel) + 1
    BY PathTyped
  <2>2. Len(rel) \in Nat
    OBVIOUS
  <2> HIDE DEF p
  <2> QED BY <2>1, <2>2
<1>2. \/ new = {}
      \/ h < Len(p) /\ LStat(up(h + 1)) = None /\ all \subseteq Paths /\ new = all
  BY DEF MkdirP
<1>3. SUFFICES ASSUME h < Len(p), LStat(up(h + 1)) = None, all \subseteq Paths, new = all
               PROVE  \A r \in all : fs[r] = None /\ (Front(r) \in all \/ fs[Front(r)] = Dir)
  BY <1>2
<1>4. LinksTyped /\ Rooted /\ fs[<<Home>>] = Dir
  BY DEF TreeInv
<1> HIDE DEF p
<1>5. 1 \in Known
  <2> DEFINE q == <<Home>>
             t == SubSeq(p, 1, 1)
  <2>1. Len(q) = 1 /\ q[1] = Home
    OBVIOUS
  <2>2. q \in Paths /\ q \in Seq(Parts) /\ q # NoPath /\ fs[q] = Dir
    BY <1>4, RootPath, PathsShape
  <2>3. t \in Seq(Parts) /\ Len(t) = 1 /\ t[1] = Home
    BY <1>1
  <2> HIDE DEF q, t
  <2>4. t = q
    BY <2>1, <2>2, <2>3, SeqEqual
  <2>5. Real(q) = q
    <3>1. Len(q) <= 1
      BY <2>1
    <3>2. Real(q) = AtRoot(q)
      BY <1>4, <2>2, <3>1, RealIsPlace
    <3> QED BY <2>2, <3>2 DEF AtRoot
  <2>6. IsDir(q)
    BY <2>2, <2>5 DEF IsDir, EntryAt
  <2>7. IsDir(up(1))
    BY <2>4, <2>6 DEF t
  <2> HIDE DEF up
  <2> QED BY <1>1, <2>7
<1>6. h \in 1..Len(p) /\ IsDir(up(h))
  <2>1. Known \subseteq 1..Len(p) /\ Known # {}
    BY <1>5
  <2> HIDE DEF Known, up
  <2>2. h \in Known
    BY <1>1, <2>1, GreatestNat
  <2> QED BY <2>2 DEF Known
<1> HIDE DEF h
<1>7. /\ h \in Nat /\ h >= 1 /\ h + 1 \in 1..Len(p) /\ h + 1 \in h+1..Len(p)
      /\ h + 1 > 1 /\ (h + 1) - 1 = h
  BY <1>1, <1>3, <1>6
<1>8. up(h) \in Seq(Parts) /\ up(h + 1) \in Seq(Parts) /\ Len(up(h + 1)) = h + 1
  BY <1>1, <1>6, <1>7
<1>9. d \in Paths /\ fs[d] = Dir
  <2>1. d # NoPath /\ fs[d] = Dir
    BY <1>6, Kinds DEF IsDir, EntryAt
  <2> HIDE DEF up
  <2> QED BY <1>4, <1>8, <2>1, RealIsPlace DEF Places
<1>10. d \in Seq(Parts) /\ Len(d) >= 1
  BY <1>9, PathsShape
<1>11. Front(up(h + 1)) = up(h) /\ Last(up(h + 1)) = p[h + 1]
  <2>1. up(h + 1) = Append(up(h), p[h + 1]) /\ p[h + 1] \in Parts
    BY <1>1, <1>7
  <2> DEFINE s == up(h)
             x == p[h + 1]
  <2>2. s \in Seq(Parts) /\ x \in Parts /\ up(h + 1) = Append(s, x)
    BY <1>8, <2>1
  <2> HIDE DEF s, x, up
  <2>3. Front(Append(s, x)) = s /\ Last(Append(s, x)) = x
    BY <2>2, AppendFront
  <2> QED BY <2>2, <2>3 DEF s, x
<1>12. ASSUME NEW k \in h+1..Len(p)
       PROVE  N(k) \in Seq(Parts) /\ Len(N(k)) > 1 /\ Front(N(k)) = N(k - 1) /\ Last(N(k)) = p[k]
  <2>1. /\ N(k) \in Seq(Parts) /\ Len(N(k)) = Len(d) + (k - h)
        /\ Front(N(k)) = N(k - 1) /\ Last(N(k)) = p[k]
    <3> HIDE DEF d, up, Known, all
    <3>1. /\ d \o SubSeq(p, h + 1, k) \in Seq(Parts)
          /\ Len(d \o SubSeq(p, h + 1, k)) = Len(d) + (k - h)
          /\ Front(d \o SubSeq(p, h + 1, k)) = d \o SubSeq(p, h + 1, k - 1)
          /\ Last(d \o SubSeq(p, h + 1, k)) = p[k]
      <4>1. p \in Seq(Parts) /\ d \in Seq(Parts) /\ h \in Nat
        BY <1>1, <1>7, <1>10
      <4> QED BY <4>1, Extended
    <3> QED BY <3>1
  <2>2. k - h \in Nat /\ k - h >= 1 /\ Len(d) \in Nat
    BY <1>7, <1>10
  <2> HIDE DEF N, d
  <2> QED BY <1>10, <2>1, <2>2
<1>13. N(h) = d
  <2> HIDE DEF d
  <2> QED BY <1>1, <1>7, <1>10, Extended
<1>14. N(h + 1) \in Paths /\ fs[N(h + 1)] = None
  <2>1. N(h + 1) \in Paths
    BY <1>3, <1>7
  <2>2. Front(N(h + 1)) = d /\ Last(N(h + 1)) = p[h + 1] /\ N(h + 1) \in Seq(Parts)
        /\ Len(N(h + 1)) > 1
    BY <1>7, <1>12, <1>13
  <2> HIDE DEF N, d
  <2>3. N(h + 1) = Append(d, p[h + 1])
    <3>1. Len(N(h + 1)) > 0
      BY <2>2
    <3> QED BY <2>2, <3>1, FrontLast
  <2>4. Phys(up(h + 1)) = N(h + 1)
    <3>1. ~ (Len(up(h + 1)) <= 1)
      BY <1>7, <1>8
    <3>2. d # NoPath
      BY <1>9, PathsShape
    <3> HIDE DEF up
    <3> QED BY <1>11, <2>1, <2>3, <3>1, <3>2 DEF Phys, d
  <2>5. N(h + 1) # NoPath
    BY <2>1, PathsShape
  <2> QED BY <1>3, <2>1, <2>4, <2>5 DEF LStat, EntryAt
<1>15. \A k \in h+1..Len(p) : N(k) \in Paths
  BY <1>3
<1> HIDE DEF N, up, d
<1>16. \A k \in h+1..Len(p) : fs[N(k)] = None
  <2> DEFINE Bad == {k \in h+1..Len(p) : fs[N(k)] # None}
  <2>1. SUFFICES ASSUME Bad # {} PROVE FALSE
    OBVIOUS
  <2>2. Bad \subseteq Nat
    BY <1>7
  <2>3. PICK k \in Bad : \A m \in Bad : k <= m
    <3> HIDE DEF Bad
    <3> QED BY <2>1, <2>2, LeastNat
  <2>4. k \in Nat /\ k >= h + 1 /\ k <= Len(p) /\ fs[N(k)] # None /\ k \in h+1..Len(p)
    BY <1>7
  <2>5. k # h + 1
    BY <1>14, <2>4
  <2>6. k - 1 \in h+1..Len(p) /\ k - 1 < k
    BY <1>1, <1>7, <2>4, <2>5
  <2>7. fs[N(k - 1)] = Dir
    BY <1>4, <1>12, <1>15, <2>4 DEF Rooted
  <2>8. k - 1 \in Bad
    BY <2>6, <2>7, Kinds
  <2>9. k <= k - 1
    BY <2>3, <2>8
  <2> QED BY <2>4, <2>9
<1>17. ASSUME NEW k \in h+1..Len(p)
       PROVE  Front(N(k)) \in all \/ fs[Front(N(k))] = Dir
  <2>1. CASE k = h + 1
    BY <1>7, <1>9, <1>12, <1>13, <2>1
  <2>2. CASE k # h + 1
    <3>1. k - 1 \in h+1..Len(p)
      BY <1>1, <1>7, <2>2
    <3> QED BY <1>12, <3>1
  <2> QED BY <2>1, <2>2
<1> QED BY <1>16, <1>17

\* mkdir_p makes directories and touches nothing else.
LEMMA MakeParentsSafe ==
    ASSUME IInv, MakeParents
    PROVE  Safe'
<1>1. TreeInv /\ NoUserDataLost /\ todo \subseteq Seq(Parts)
  BY DEF IInv, JobInv
<1>2. PICK rel \in todo :
          fs' = [q \in Paths |-> IF q \in MkdirP(Path(Home, rel)) THEN Dir ELSE fs[q]]
  BY DEF MakeParents
<1>3. UNCHANGED <<saved, written>>
  BY DEF MakeParents, inputs
<1> DEFINE new == MkdirP(Path(Home, rel))
<1>4. fs' = [r \in Paths |-> IF r \in new THEN Dir ELSE fs[r]] /\ rel \in Seq(Parts)
  BY <1>1, <1>2
<1>5. new = MkdirP(Path(Home, rel))
  OBVIOUS
<1> HIDE DEF new
<1>6. /\ new \in SUBSET Paths
      /\ \A r \in new : fs[r] = None /\ (Front(r) \in new \/ fs[Front(r)] = Dir)
  BY <1>1, <1>4, <1>5, MkdirFacts
<1> QED BY <1>1, <1>3, <1>4, <1>6, DirsMade DEF Safe

\* What is in the way goes to a backup in the same directory, with all that is
\* under it.
LEMMA BackUpSafe ==
    ASSUME Safe, NEW p \in Seq(Parts), Len(p) > 1, NEW q \in Seq(Parts), BackUp(p, q),
           written' = written
    PROVE  Safe'
<1> DEFINE here == Phys(p)
<1>1. TreeInv /\ NoUserDataLost /\ LinksTyped /\ Rooted /\ SavedInDirs /\ fs[<<Home>>] = Dir
  BY DEF Safe, TreeInv
<1>2. here # NoPath /\ fs[here] # None /\ fs[here].kind # "link"
  BY Kinds DEF BackUp, LStat, EntryAt, IsSymlink
<1>3. here \in Paths /\ Len(here) > 1
  BY <1>1, <1>2, PhysPlace
<1>4. PICK linked \in BOOLEAN :
          /\ saved' = [r \in Paths |->
                         IF r \in Under(here) THEN {}
                         ELSE IF r = Front(here) THEN saved[r] \union {DataUnder(here)}
                         ELSE saved[r]]
          /\ fs' = [r \in Paths |->
                      IF r = here /\ linked THEN Link(q)
                      ELSE IF r \in Under(here) THEN None
                      ELSE fs[r]]
  <2>1. \A b \in {TRUE} \union {"link" \notin sc.faults} : b \in BOOLEAN
    OBVIOUS
  <2> QED BY <2>1 DEF BackUp
<1> HIDE DEF here
<1>5. \A r \in Paths : /\ saved'[r] = IF r \in Under(here) THEN {}
                                      ELSE IF r = Front(here)
                                           THEN saved[r] \union {DataUnder(here)}
                                      ELSE saved[r]
                       /\ fs'[r] = IF r = here /\ linked THEN Link(q)
                                   ELSE IF r \in Under(here) THEN None
                                   ELSE fs[r]
  BY <1>4
<1>6. fs' = [r \in Paths |-> fs'[r]] /\ saved' = [r \in Paths |-> saved'[r]]
  BY <1>4
<1>7. /\ here \in Under(here) /\ Under(here) \subseteq Paths
      /\ \A r \in Under(here) : r[1] = here[1]
      /\ \A r \in Paths : Len(r) > 1 /\ Front(r) \in Under(here) => r \in Under(here)
      /\ Front(here) \notin Under(here)
  BY <1>3, UnderFacts
<1>8. Front(here) \in Paths /\ Front(here)[1] = here[1] /\ fs[Front(here)] = Dir
  BY <1>1, <1>2, <1>3, PathsShape DEF Rooted
<1>9. <<Home>> \in Paths /\ <<Home>> \notin Under(here)
  <2> DEFINE home == <<Home>>
  <2>1. home \in Paths /\ Len(home) = 1
    BY RootPath
  <2>2. Len(here) \in Nat
    BY <1>3, PathsShape
  <2> HIDE DEF home
  <2>3. home \notin Under(here)
    BY <1>3, <2>1, <2>2, PrefixOf
  <2> QED BY <2>1, <2>3 DEF home
<1>10. LinksTyped'
  <2>1. SUFFICES ASSUME NEW r \in Paths, fs'[r].kind = "link"
                 PROVE  fs'[r].to \in Seq(Parts)
    BY DEF LinksTyped
  <2>2. fs'[r] = Link(q) \/ fs'[r] = None \/ fs'[r] = fs[r]
    BY <1>5
  <2> QED BY <1>1, <2>1, <2>2, Kinds DEF LinksTyped
<1>11. Rooted'
  <2>1. SUFFICES ASSUME NEW r \in Paths, fs'[r] # None, Len(r) > 1
                 PROVE  fs'[Front(r)] = Dir
    BY DEF Rooted
  <2>2. Front(r) \in Paths
    BY <2>1, PathsShape
  <2>3. CASE r = here
    BY <1>5, <1>7, <1>8, <2>3
  <2>4. CASE r # here
    <3>1. r \notin Under(here) /\ fs[r] # None
      BY <1>5, <2>1, <2>4
    <3>2. Front(r) \notin Under(here)
      BY <1>7, <2>1, <3>1
    <3>3. fs[Front(r)] = Dir
      BY <1>1, <2>1, <3>1 DEF Rooted
    <3> QED BY <1>5, <1>7, <2>2, <3>2, <3>3
  <2> QED BY <2>3, <2>4
<1>12. SavedInDirs'
  <2>1. SUFFICES ASSUME NEW r \in Paths, saved'[r] # {}
                 PROVE  fs'[r] = Dir
    BY DEF SavedInDirs
  <2>2. r \notin Under(here) /\ fs[r] = Dir
    BY <1>1, <1>5, <1>8, <2>1 DEF SavedInDirs
  <2> QED BY <1>5, <1>7, <2>2
<1>13. fs'[<<Home>>] = Dir
  BY <1>1, <1>5, <1>7, <1>9
<1>14. NoUserDataLost'
  <2>1. SUFFICES ASSUME NEW x \in written
                 PROVE  \E r \in Under(<<Home>>) : \/ fs'[r].kind = "file" /\ fs'[r].data = x
                                                   \/ \E b \in saved'[r] : x \in b
    BY DEF NoUserDataLost, DataUnder
  <2>2. x \in DataUnder(<<Home>>)
    BY <1>1 DEF NoUserDataLost
  <2>3. PICK r \in Paths : /\ r[1] = Home
                           /\ \/ fs[r].kind = "file" /\ fs[r].data = x
                              \/ \E b \in saved[r] : x \in b
    BY <2>2, InDataOfHome
  <2>4. CASE r \in Under(here)
    <3>1. x \in DataUnder(here)
      BY <2>3, <2>4, InData
    <3>2. Front(here) \in Under(<<Home>>)
      BY <1>7, <1>8, <2>3, <2>4, UnderRoot
    <3>3. DataUnder(here) \in saved'[Front(here)]
      BY <1>5, <1>7, <1>8
    <3> QED BY <3>1, <3>2, <3>3
  <2>5. CASE r \notin Under(here)
    <3>1. r \in Under(<<Home>>)
      BY <2>3, UnderRoot
    <3>2. fs'[r] = fs[r] /\ saved[r] \subseteq saved'[r]
      BY <1>5, <1>7, <2>5
    <3> QED BY <2>3, <3>1, <3>2
  <2> QED BY <2>4, <2>5
<1> QED BY <1>6, <1>10, <1>11, <1>12, <1>13, <1>14 DEF Safe, TreeInv

\* native_link_cb: a link where nothing or a link was, or after the backup.
LEMMA LinkSafe ==
    ASSUME IInv, LinkFile
    PROVE  Safe'
<1>1. /\ TreeInv /\ NoUserDataLost /\ LinksTyped /\ Rooted
      /\ todo \subseteq Seq(Parts) /\ <<>> \notin todo /\ pkg \in Pkgs
  BY DEF IInv, JobInv, TreeInv, LinkFile
<1>2. PICK rel \in todo :
          LET p == Path(Home, rel)
              q == Path(pkg, rel)
          IN  \/ AlreadyLinked(p, q) \/ ReplaceLink(p, q) \/ BackUp(p, q)
              \/ MakeLink(p, q) \/ LinkFails(p, q)
  BY DEF LinkFile
<1> DEFINE p == Path(Home, rel)
           q == Path(pkg, rel)
<1>3. written' = written
  BY DEF LinkFile, inputs
<1>4. p \in Seq(Parts) /\ Len(p) > 1 /\ q \in Seq(Parts)
  <2>1. p \in Seq(Parts) /\ Len(p) = Len(rel) + 1 /\ q \in Seq(Parts)
    BY <1>1, PathTyped
  <2>2. rel \in Seq(Parts) /\ rel # <<>>
    BY <1>1
  <2>3. Len(rel) \in Nat /\ Len(rel) # 0
    BY <2>2, EmptySeq
  <2> HIDE DEF p, q
  <2> QED BY <2>1, <2>3
<1>5. Safe
  BY <1>1 DEF Safe
<1> HIDE DEF p, q
<1>6. CASE UNCHANGED treeVars
  BY <1>1, <1>3, <1>6, Unchanged DEF treeVars
<1>7. CASE ReplaceLink(p, q)
  <2>1. /\ Phys(p) # NoPath /\ fs[Phys(p)].kind = "link"
        /\ fs' = [fs EXCEPT ![Phys(p)] = Link(q)] /\ saved' = saved
    BY <1>7, Kinds DEF ReplaceLink, IsSymlink, LStat, EntryAt
  <2>2. Phys(p) \in Paths
    BY <1>1, <1>4, <2>1, PhysPlace
  <2>3. Len(Phys(p)) > 1 => fs[Front(Phys(p))] = Dir
    BY <1>1, <2>1, <2>2, Kinds DEF Rooted
  <2> QED BY <1>3, <1>4, <1>5, <2>1, <2>2, <2>3, LinkPut
<1>8. CASE BackUp(p, q)
  BY <1>3, <1>4, <1>5, <1>8, BackUpSafe
<1>9. CASE MakeLink(p, q)
  <2>1. /\ Phys(p) # NoPath /\ fs[Phys(p)] = None /\ IsDir(Front(p))
        /\ fs' = [fs EXCEPT ![Phys(p)] = Link(q)] /\ saved' = saved
    BY <1>9 DEF MakeLink, LStat, EntryAt
  <2>2. Phys(p) \in Paths /\ Front(Phys(p)) = Real(Front(p))
    BY <1>1, <1>4, <2>1, PhysPlace
  <2>3. fs[Front(Phys(p))] = Dir
    BY <2>1, <2>2, Kinds DEF IsDir, EntryAt
  <2> QED BY <1>3, <1>4, <1>5, <2>1, <2>2, <2>3, LinkPut
<1>10. \/ UNCHANGED treeVars \/ ReplaceLink(p, q) \/ BackUp(p, q) \/ MakeLink(p, q)
  BY <1>2 DEF p, q, AlreadyLinked, LinkFails
<1> QED BY <1>6, <1>7, <1>8, <1>9, <1>10

-----------------------------------------------------------------------------
(* The job *)

\* The files of a package.
LEMMA CollectFacts ==
    ASSUME NEW p
    PROVE  /\ Collect(p) \subseteq Rels \ {<<>>}
           /\ Collect(p) \subseteq Seq(Parts)
<1>1. Collect(p) \subseteq Rels \ {<<>>}
  BY DEF Collect
<1> QED BY <1>1, RelSeq

\* The prefixes the walk visits.
LEMMA WalkRelsTyped ==
    ASSUME NEW rels \in SUBSET Rels
    PROVE  WalkRels(rels) \subseteq Seq(Parts)
<1> DEFINE all == IF rels # {} THEN rels
                  ELSE UNION {Collect(p) : p \in {q \in Pkgs : IsDir(<<q>>)}}
<1>1. all \subseteq Seq(Parts)
  BY RelSeq, CollectFacts
<1> HIDE DEF all
<1>2. ASSUME NEW rel \in all, NEW k \in 1..Len(rel)
      PROVE  SubSeq(rel, 1, k) \in Seq(Parts)
  BY <1>1
<1>3. WalkRels(rels) = UNION {{SubSeq(rel, 1, k) : k \in 1..Len(rel)} : rel \in all}
  BY DEF WalkRels, all
<1> QED BY <1>2, <1>3

\* The parents that unlink tries to remove.
LEMMA ParentRelsTyped ==
    ASSUME NEW rels \in SUBSET (Rels \ {<<>>})
    PROVE  ParentRels(rels) \subseteq Seq(Parts)
<1>1. \A rel \in rels : Front(rel) \in Rels
  BY TreeAssumption
<1> QED BY <1>1, RelSeq DEF ParentRels

\* Resolution is defined on every path.
LEMMA PathsTyped == Paths \subseteq Seq(Parts)
BY PathsShape

\* Every step keeps what the linker remembers well-formed.
LEMMA JobStep ==
    ASSUME IInv, Next
    PROVE  JobInv'
<1>1. JobInv /\ LinksTyped
  BY DEF IInv, TreeInv
<1>2. CASE User
  BY <1>1, <1>2 DEF User, UserWrite, UserLink, JobInv, jobVars, walkVars, inputs
<1>3. CASE BeginFix
  <2>1. todo' \subseteq Seq(Parts)
    BY <1>3, WalkRelsTyped DEF BeginFix
  <2>2. pending' \subseteq Seq(Parts)
    BY <1>3, PathsTyped DEF BeginFix, Children
  <2> QED BY <1>1, <1>3, <2>1, <2>2 DEF BeginFix, JobInv, inputs
<1>4. ASSUME NEW p \in Pkgs, BeginLink(p) PROVE JobInv'
  BY <1>1, <1>4, CollectFacts DEF BeginLink, Begin, EnterLink, JobInv, inputs, walkVars
<1>5. ASSUME NEW p \in Pkgs, BeginUnlink(p) PROVE JobInv'
  BY <1>1, <1>5, CollectFacts DEF BeginUnlink, Begin, EnterUnlink, JobInv, inputs, walkVars
<1>6. ASSUME NEW p \in Pkgs, BeginRelink(p) PROVE JobInv'
  BY <1>1, <1>6, CollectFacts DEF BeginRelink, Begin, EnterUnlink, JobInv, inputs, walkVars
<1>7. ASSUME NEW p \in Pkgs, BeginRemove(p) PROVE JobInv'
  BY <1>1, <1>7, CollectFacts, RelSeq
    DEF BeginRemove, Begin, EnterUnlink, EnterDelete, JobInv, inputs, walkVars
<1>8. CASE UnlinkFile
  BY <1>1, <1>8 DEF UnlinkFile, JobInv, inputs, jobVars, walkVars
<1>9. CASE UnlinkDone
  <2>1. stage = "unlink" /\ todo = {}
    BY <1>9 DEF UnlinkDone
  <2>2. CASE resume = "idle" /\ End(~failed)
    BY <1>1, <2>2 DEF End, JobInv, inputs, jobVars
  <2>3. CASE EnterLink(pkg) /\ UNCHANGED <<inputs, op, pkg, endVars>>
    BY <1>1, <2>1, <2>3, CollectFacts DEF EnterLink, JobInv, inputs, walkVars
  <2>4. CASE UNCHANGED <<inputs, jobVars, unlVars, todo, walkVars, failed, endVars>>
    BY <1>1, <2>1, <2>4 DEF JobInv, inputs, jobVars, walkVars
  <2>5. CASE EnterDelete(pkg) /\ UNCHANGED <<inputs, jobVars, walkVars>>
    BY <1>1, <2>1, <2>5, RelSeq DEF EnterDelete, JobInv, inputs, jobVars, walkVars
  <2> QED BY <1>9, <2>2, <2>3, <2>4, <2>5 DEF UnlinkDone
<1>10. CASE DeleteEntry
  BY <1>1, <1>10 DEF DeleteEntry, End, JobInv, inputs, jobVars, walkVars
<1>11. CASE Exclude
  BY <1>1, <1>11, CollectFacts DEF Exclude, EnterUnlink, JobInv, inputs, jobVars, walkVars
<1>12. CASE DetectConflicts
  BY <1>1, <1>12 DEF DetectConflicts, JobInv, inputs, jobVars, walkVars
<1>13. CASE UnlinkConflict
  BY <1>1, <1>13, CollectFacts DEF UnlinkConflict, EnterUnlink, JobInv, inputs, jobVars, walkVars
<1>14. CASE BeginWalk
  <2>1. todo' \subseteq Seq(Parts)
    BY <1>1, <1>14, WalkRelsTyped DEF BeginWalk, JobInv
  <2> QED BY <1>1, <1>14, <2>1 DEF BeginWalk, JobInv, inputs, jobVars
<1>15. CASE WalkPath
  <2>1. PICK rel \in todo :
            LET p == Path(Home, rel)
            IN  /\ todo' = todo \ {rel}
                /\ pending' = {p} \/ pending' = {}
                   \/ pending' = {Append(p, Last(c)) :
                                    c \in {d \in Children(Phys(p)) : fs[d].kind = "link"}}
    BY <1>15 DEF WalkPath
  <2> DEFINE p == Path(Home, rel)
  <2>2. p \in Seq(Parts)
    BY <1>1, PathTyped DEF JobInv
  <2> HIDE DEF p
  <2>3. \A c \in Paths : Append(p, Last(c)) \in Seq(Parts)
    <3>1. TAKE c \in Paths
    <3>2. c \in Seq(Parts) /\ Len(c) > 0
      BY PathsShape
    <3>3. Last(c) \in Parts
      BY <3>2, FrontLast
    <3> QED BY <2>2, <3>3
  <2>4. Children(Phys(p)) \subseteq Paths
    BY DEF Children
  <2>5. pending' \subseteq Seq(Parts)
    BY <2>1, <2>2, <2>3, <2>4 DEF p
  <2>6. todo' \subseteq todo
    BY <2>1
  <2> QED BY <1>1, <1>15, <2>5, <2>6 DEF WalkPath, JobInv, inputs, jobVars
<1>16. CASE UnfoldLink
  BY <1>1, <1>16 DEF UnfoldLink, JobInv, inputs, jobVars
<1>17. CASE WalkDone
  <2>1. CASE op = "fix" /\ End(TRUE)
    BY <1>1, <2>1 DEF End, JobInv, inputs, jobVars
  <2>2. CASE /\ op # "fix"
             /\ stage' = "mkdir"
             /\ todo' = ParentRels(files)
             /\ UNCHANGED <<inputs, jobVars, unlVars, walkVars, failed, endVars>>
    <3>1. todo' \subseteq Seq(Parts)
      BY <1>1, <2>2, ParentRelsTyped DEF JobInv
    <3> QED BY <1>1, <2>2, <3>1 DEF JobInv, inputs, jobVars, walkVars
  <2> QED BY <1>17, <2>1, <2>2 DEF WalkDone
<1>18. CASE MakeParents
  BY <1>1, <1>18 DEF MakeParents, JobInv, inputs, jobVars, walkVars
<1>19. CASE ParentsMade
  <2>1. files \subseteq Seq(Parts) /\ <<>> \notin files
    BY <1>1, RelSeq DEF JobInv
  <2> QED BY <1>1, <1>19, <2>1 DEF ParentsMade, JobInv, inputs, jobVars, walkVars
<1>20. CASE LinkFile
  BY <1>1, <1>20 DEF LinkFile, JobInv, inputs, jobVars, walkVars
<1>21. CASE LinkDone
  BY <1>1, <1>21 DEF LinkDone, End, JobInv, inputs, jobVars
<1>22. CASE Crash
  BY <1>1, <1>22 DEF Crash, JobInv, inputs, jobVars
<1> QED BY <1>2, <1>3, <1>4, <1>5, <1>6, <1>7, <1>8, <1>9, <1>10, <1>11, <1>12, <1>13,
           <1>14, <1>15, <1>16, <1>17, <1>18, <1>19, <1>20, <1>21, <1>22
        DEF Next, Start, Work

-----------------------------------------------------------------------------
(* The theorems *)

\* The packages of a scenario are trees.
LEMMA SourceFacts ==
    ASSUME sc \in Scenarios, NEW q \in Paths
    PROVE  /\ SourceEntry(q).kind = "link" => SourceEntry(q).to \in Seq(Parts)
           /\ SourceEntry(q) # None /\ Len(q) > 1 => SourceEntry(Front(q)) = Dir
<1>1. PICK root \in {Home} \union Pkgs, rel \in Rels : q = Path(root, rel)
  BY DEF Paths
<1>2. /\ q[1] = root /\ Len(q) = Len(rel) + 1 /\ Len(rel) \in Nat
      /\ rel = <<>> => q = <<root>>
      /\ rel # <<>> => Front(q) = Path(root, Front(rel)) /\ Front(rel) \in Rels
  BY <1>1, PathShape
<1>3. rel \in Seq(Parts) /\ q = <<root>> \o rel /\ Tail(q) = rel
  <2>1. rel \in Seq(Parts) /\ root \in Parts
    BY RelSeq DEF Parts
  <2> QED BY <1>1, <2>1 DEF Path
<1>4. CASE rel = <<>>
  <2>1. q = <<root>>
    BY <1>2, <1>4
  <2>2. ~ (Len(q) > 1)
    BY <1>2, <1>4
  <2>3. SourceEntry(q) = Dir
    BY <1>2, <2>1 DEF SourceEntry
  <2> QED BY <2>2, <2>3, Kinds
<1>5. CASE rel # <<>> /\ root = Home
  <2>1. q # <<Home>>
    <3>1. Len(rel) # 0
      BY <1>3, <1>5, EmptySeq
    <3>2. Len(q) > 1
      BY <1>2, <3>1
    <3> QED BY <3>2, NotRoot
  <2>2. SourceEntry(q) = None
    BY <1>2, <1>5, <2>1 DEF SourceEntry
  <2> QED BY <2>2, Kinds
<1>6. CASE rel # <<>> /\ root # Home
  <2>1. root \in Pkgs
    BY <1>6
  <2>2. Len(q) > 1
    <3>1. Len(rel) # 0
      BY <1>3, <1>6, EmptySeq
    <3> QED BY <1>2, <3>1
  <2>3. q # <<root>>
    BY <2>2, NotRoot
  <2> DEFINE src == sc.source[root]
  <2>4. SourceEntry(q) = IF rel \in DOMAIN src THEN src[rel] ELSE None
    BY <1>2, <1>3, <1>6, <2>3 DEF SourceEntry
  <2>5. CASE rel \notin DOMAIN src
    BY <2>4, <2>5, Kinds
  <2>6. CASE rel \in DOMAIN src
    <3>1. /\ src[rel] \in {Dir} \union {File(d) : d \in Data} \union {Link(t) : t \in Paths}
          /\ Front(rel) = <<>> \/ (Front(rel) \in DOMAIN src /\ src[Front(rel)] = Dir)
          /\ DOMAIN src \subseteq Rels \ {<<>>}
      <4>1. \A p \in Pkgs :
               /\ DOMAIN sc.source[p] \subseteq Rels \ {<<>>}
               /\ \A r \in DOMAIN sc.source[p] :
                     /\ sc.source[p][r] \in {Dir} \union {File(d) : d \in Data}
                                                \union {Link(t) : t \in Paths}
                     /\ Front(r) = <<>> \/ /\ Front(r) \in DOMAIN sc.source[p]
                                           /\ sc.source[p][Front(r)] = Dir
        BY LinkerAssumption
      <4>2. DOMAIN src \subseteq Rels \ {<<>>}
        BY <2>1, <4>1, Zenon
      <4>3. /\ src[rel] \in {Dir} \union {File(d) : d \in Data} \union {Link(t) : t \in Paths}
            /\ Front(rel) = <<>> \/ (Front(rel) \in DOMAIN src /\ src[Front(rel)] = Dir)
        BY <2>1, <2>6, <4>1, Zenon
      <4> QED BY <4>2, <4>3, Zenon
    <3>2. SourceEntry(q) = src[rel]
      BY <2>4, <2>6
    <3>3. SourceEntry(q).kind = "link" => SourceEntry(q).to \in Seq(Parts)
      BY <3>1, <3>2, Kinds, PathsTyped
    <3> DEFINE f == Front(q)
    <3>4. f = Path(root, Front(rel)) /\ Front(rel) \in Rels
      BY <1>2, <1>6
    <3>5. f[1] = root /\ (Front(rel) = <<>> => f = <<root>>)
      BY <3>4, PathShape
    <3>6. Front(rel) \in Seq(Parts) /\ Tail(f) = Front(rel)
      <4>1. Front(rel) \in Seq(Parts) /\ root \in Parts
        BY <2>1, <3>4, RelSeq DEF Parts
      <4>2. f = <<root>> \o Front(rel)
        BY <3>4 DEF Path
      <4> HIDE DEF f
      <4> QED BY <4>1, <4>2
    <3> HIDE DEF f, src
    <3>7. CASE Front(rel) = <<>>
      BY <1>6, <3>3, <3>5, <3>7 DEF SourceEntry, f
    <3>8. CASE Front(rel) # <<>>
      <4>1. Front(rel) \in DOMAIN src /\ src[Front(rel)] = Dir
        BY <3>1, <3>8
      <4>2. f # <<root>>
        <5>1. Tail(<<root>>) = <<>>
          OBVIOUS
        <5> QED BY <3>6, <3>8, <5>1
      <4>3. SourceEntry(f) = Dir
        BY <1>6, <3>5, <3>6, <4>1, <4>2 DEF SourceEntry, src
      <4> QED BY <3>3, <4>3 DEF f
    <3> QED BY <3>7, <3>8
  <2> QED BY <2>5, <2>6
<1> QED BY <1>4, <1>5, <1>6

\* The trees of a scenario are as the invariant says.
LEMMA IInit == Init => IInv
<1> SUFFICES ASSUME Init PROVE IInv
  OBVIOUS
<1>1. /\ sc \in Scenarios /\ fs = [q \in Paths |-> SourceEntry(q)]
      /\ saved = [q \in Paths |-> {}] /\ written = {}
  BY DEF Init
<1>2. fs = [q \in Paths |-> fs[q]] /\ saved = [q \in Paths |-> saved[q]]
      /\ \A q \in Paths : fs[q] = SourceEntry(q) /\ saved[q] = {}
  BY <1>1
<1>3. LinksTyped
  BY <1>1, <1>2, SourceFacts DEF LinksTyped
<1>4. Rooted
  BY <1>1, <1>2, SourceFacts, PathsShape DEF Rooted
<1>5. fs[<<Home>>] = Dir
  <2>1. SourceEntry(<<Home>>) = Dir
    BY DEF SourceEntry
  <2> QED BY <1>2, <2>1, RootPath
<1>6. TreeInv
  BY <1>2, <1>3, <1>4, <1>5 DEF TreeInv, SavedInDirs
<1>7. NoUserDataLost
  BY <1>1 DEF NoUserDataLost
<1>8. JobInv
  BY DEF Init, JobInv
<1> QED BY <1>6, <1>7, <1>8 DEF IInv

\* Every step keeps the trees and the user's data.
LEMMA TreeStep ==
    ASSUME IInv, Next
    PROVE  Safe'
<1>1. TreeInv /\ NoUserDataLost
  BY DEF IInv
<1>2. CASE UNCHANGED <<treeVars, written>>
  BY <1>1, <1>2, Unchanged DEF treeVars
<1>3. CASE User
  BY <1>3, UserWriteSafe, UserLinkSafe DEF User
<1>4. CASE Start \/ Crash
  BY <1>2, <1>4
    DEF Start, Crash, BeginFix, BeginLink, BeginUnlink, BeginRelink, BeginRemove, Begin, inputs
<1>5. CASE UnlinkFile \/ DeleteEntry \/ UnfoldLink \/ MakeParents \/ LinkFile
  BY <1>5, UnlinkSafe, DeleteSafe, UnfoldSafe, MakeParentsSafe, LinkSafe
<1>6. CASE UnlinkDone \/ Exclude \/ DetectConflicts \/ UnlinkConflict
  BY <1>2, <1>6 DEF UnlinkDone, Exclude, DetectConflicts, UnlinkConflict, End, inputs
<1>7. CASE BeginWalk \/ WalkPath \/ WalkDone \/ ParentsMade \/ LinkDone
  BY <1>2, <1>7 DEF BeginWalk, WalkPath, WalkDone, ParentsMade, LinkDone, End, inputs
<1> QED BY <1>3, <1>4, <1>5, <1>6, <1>7 DEF Next, Work

\* The inductive invariant: entries lie in directories and backups too, links name
\* paths, what the linker remembers names packages and relative paths, and what the
\* user has written is under the target directory.
THEOREM Invariance == Spec => []IInv
<1>1. IInv /\ [Next]_vars => IInv'
  <2>1. ASSUME IInv, Next PROVE IInv'
    BY <2>1, TreeStep, JobStep DEF IInv, Safe
  <2>2. ASSUME IInv, UNCHANGED vars PROVE IInv'
    <3>1. Safe'
      BY <2>2, Unchanged DEF vars, treeVars, inputs, IInv
    <3>2. JobInv'
      BY <2>2 DEF vars, inputs, jobVars, walkVars, IInv, JobInv
    <3> QED BY <3>1, <3>2 DEF IInv, Safe
  <2> QED BY <2>1, <2>2
<1> QED BY <1>1, IInit, PTL DEF Spec

\* Whatever the user links, unlinks, relinks and removes, in whatever state of the
\* trees, wherever a system call fails or symdep is killed: each file he has written
\* under the target directory is at its place or in a backup there (ADR-009).
THEOREM NoDataLost == Spec => []NoUserDataLost
<1>1. IInv => NoUserDataLost
  BY DEF IInv
<1> QED BY <1>1, Invariance, PTL

\* The linker's steps leave trees: what exists lies in a directory, and so does
\* every backup, though links are followed on the way to most of what is changed.
THEOREM TreesStayTrees == Spec => [](Rooted /\ SavedInDirs)
<1>1. IInv => Rooted /\ SavedInDirs
  BY DEF IInv, TreeInv
<1> QED BY <1>1, Invariance, PTL

-----------------------------------------------------------------------------
(* Paths as a tree *)

\* What holds of a path if it holds of its parent holds of all paths.
LEMMA TreeInduction ==
    ASSUME NEW T, \A q \in Paths : (Len(q) > 1 => Front(q) \in T) => q \in T
    PROVE  Paths \subseteq T
<1> SUFFICES ASSUME Paths \ T # {} PROVE FALSE
  OBVIOUS
<1> DEFINE Lens == {Len(q) : q \in Paths \ T}
<1>1. Lens \subseteq Nat /\ Lens # {}
  <2>1. \A q \in Paths : Len(q) \in Nat
    BY PathsShape
  <2> QED BY <2>1
<1>2. PICK n \in Lens : \A m \in Lens : n <= m
  <2> HIDE DEF Lens
  <2> QED BY <1>1, LeastNat
<1>3. PICK q \in Paths \ T : Len(q) = n
  OBVIOUS
<1>4. Len(q) > 1 /\ Front(q) \notin T
  BY <1>3
<1>5. q \in Seq(Parts) /\ Len(q) > 0 /\ Front(q) \in Paths
  BY <1>3, <1>4, PathsShape
<1>6. Len(Front(q)) = Len(q) - 1 /\ Len(q) \in Nat
  BY <1>5, FrontLast
<1>7. Len(Front(q)) \in Lens
  BY <1>4, <1>5
<1>8. n <= Len(Front(q))
  BY <1>2, <1>7
<1> QED BY <1>3, <1>6, <1>8

\* Being under is an order, total among what a path is under, and a path other than
\* what it is under has a parent that is under it too.
LEMMA UnderOrder ==
    ASSUME NEW a \in Paths, NEW q \in Under(a)
    PROVE  /\ q \in Paths /\ Len(a) <= Len(q) /\ q[1] = a[1]
           /\ q # a => /\ Len(q) > 1 /\ Front(q) \in Paths /\ Front(q) \in Under(a)
                       /\ a \notin Under(q)
           /\ a = SubSeq(q, 1, Len(a))
           /\ \A b \in Paths : a \in Under(b) => q \in Under(b)
           /\ \A b \in Paths : q \in Under(b) => a \in Under(b) \/ b \in Under(a)
<1>1. q \in Paths /\ q[1] = a[1]
  BY UnderFacts
<1>2. /\ a \in Seq(Parts) /\ q \in Seq(Parts) /\ Len(a) >= 1
      /\ Len(a) \in Nat /\ Len(q) \in Nat
  BY <1>1, PathsShape
<1>3. Len(a) <= Len(q) /\ \A i \in 1..Len(a) : a[i] = q[i]
  BY <1>1, PrefixOf
<1>4. a = SubSeq(q, 1, Len(a))
  <2> DEFINE s == SubSeq(q, 1, Len(a))
  <2>1. s \in Seq(Parts) /\ Len(s) = Len(a) /\ \A i \in 1..Len(a) : s[i] = q[i]
    BY <1>2, <1>3
  <2> HIDE DEF s
  <2>2. s = a
    BY <1>2, <1>3, <2>1, SeqEqual
  <2> QED BY <2>2 DEF s
<1>5. ASSUME q # a
      PROVE  Len(q) > 1 /\ Front(q) \in Paths /\ Front(q) \in Under(a) /\ a \notin Under(q)
  <2>1. Len(q) # Len(a)
    <3>1. SubSeq(q, 1, Len(q)) = q
      BY <1>2
    <3> QED BY <1>4, <1>5, <3>1
  <2>2. Len(q) > 1 /\ Len(a) <= Len(q) - 1 /\ Len(q) > 0
    BY <1>2, <1>3, <2>1
  <2>3. Front(q) \in Paths
    BY <1>1, <2>2, PathsShape
  <2>4. Len(Front(q)) = Len(q) - 1 /\ \A i \in 1..Len(q)-1 : Front(q)[i] = q[i]
    BY <1>2, <2>2, FrontLast
  <2>5. \A i \in 1..Len(a) : i \in 1..Len(q)-1
    BY <1>2, <2>2
  <2>6. Len(a) <= Len(Front(q)) /\ \A i \in 1..Len(a) : a[i] = Front(q)[i]
    BY <1>3, <2>2, <2>4, <2>5
  <2>7. Front(q) \in Under(a)
    BY <2>3, <2>6, PrefixOf
  <2>8. a \notin Under(q)
    <3>1. ~ (Len(q) <= Len(a))
      BY <1>2, <2>2
    <3> QED BY <1>1, <3>1, PrefixOf
  <2> QED BY <2>2, <2>3, <2>7, <2>8
<1>6. ASSUME NEW b \in Paths, a \in Under(b) PROVE q \in Under(b)
  <2>1. b \in Seq(Parts) /\ Len(b) <= Len(a) /\ \A i \in 1..Len(b) : b[i] = a[i]
    BY <1>6, PrefixOf, PathsShape
  <2>2. Len(b) <= Len(q) /\ \A i \in 1..Len(b) : b[i] = q[i]
    BY <1>2, <1>3, <2>1
  <2> QED BY <1>1, <2>2, PrefixOf
<1>7. ASSUME NEW b \in Paths, q \in Under(b) PROVE a \in Under(b) \/ b \in Under(a)
  <2>1. b \in Seq(Parts) /\ Len(b) <= Len(q) /\ \A i \in 1..Len(b) : b[i] = q[i]
    BY <1>1, <1>7, PrefixOf, PathsShape
  <2>2. CASE Len(b) <= Len(a)
    <3>1. \A i \in 1..Len(b) : b[i] = a[i]
      BY <1>2, <1>3, <2>1, <2>2
    <3> QED BY <2>2, <3>1, PrefixOf
  <2>3. CASE ~(Len(b) <= Len(a))
    <3>1. Len(a) <= Len(b)
      BY <1>2, <2>1, <2>3
    <3>2. \A i \in 1..Len(a) : a[i] = b[i]
      BY <1>2, <1>3, <2>1, <3>1
    <3> QED BY <3>1, <3>2, PrefixOf
  <2> QED BY <2>2, <2>3
<1> QED BY <1>1, <1>3, <1>4, <1>5, <1>6, <1>7

\* What a path is under are its prefixes.
LEMMA PathPrefixes ==
    ASSUME NEW q \in Paths, NEW k \in 1..Len(q)
    PROVE  /\ SubSeq(q, 1, k) \in Paths /\ Len(SubSeq(q, 1, k)) = k
           /\ q \in Under(SubSeq(q, 1, k))
           /\ SubSeq(q, 1, Len(q)) = q
           /\ k > 1 => Front(SubSeq(q, 1, k)) = SubSeq(q, 1, k - 1)
           /\ k < Len(q) => SubSeq(q, 1, k) # q
<1>1. q \in Seq(Parts) /\ Len(q) \in Nat /\ Len(q) >= 1 /\ q # NoPath
  BY PathsShape
<1> DEFINE T == {r \in Paths : \A i \in 1..Len(r) : SubSeq(r, 1, i) \in Paths}
<1>2. ASSUME NEW r \in Paths, Len(r) > 1 => Front(r) \in T
      PROVE  r \in T
  <2>1. r \in Seq(Parts) /\ Len(r) \in Nat /\ Len(r) >= 1 /\ Len(r) > 0
    BY PathsShape
  <2>2. SubSeq(r, 1, Len(r)) = r
    BY <2>1
  <2>3. ASSUME NEW i \in 1..Len(r), i # Len(r) PROVE SubSeq(r, 1, i) \in Paths
    <3>1. Len(r) > 1 /\ i \in 1..Len(r)-1
      BY <2>1, <2>3
    <3>2. Front(r) = SubSeq(r, 1, Len(r) - 1) /\ Len(Front(r)) = Len(r) - 1
      BY <2>1, FrontLast DEF Front
    <3>3. SubSeq(Front(r), 1, i) = SubSeq(r, 1, i)
      <4> DEFINE s == Front(r)
      <4>1. s \in Seq(Parts) /\ Len(s) = Len(r) - 1 /\ \A j \in 1..Len(r)-1 : s[j] = r[j]
        BY <2>1, FrontLast
      <4> DEFINE u == SubSeq(s, 1, i)
                 v == SubSeq(r, 1, i)
      <4> HIDE DEF s
      <4>2. u \in Seq(Parts) /\ Len(u) = i /\ \A j \in 1..i : u[j] = s[j]
        BY <2>1, <3>1, <4>1
      <4>3. v \in Seq(Parts) /\ Len(v) = i /\ \A j \in 1..i : v[j] = r[j]
        BY <2>1, <3>1
      <4> HIDE DEF u, v
      <4>4. \A j \in 1..i : u[j] = v[j]
        BY <2>1, <3>1, <4>1, <4>2, <4>3
      <4>5. u = v
        BY <4>2, <4>3, <4>4, SeqEqual
      <4> QED BY <4>5 DEF s, u, v
    <3>4. i \in 1..Len(Front(r))
      BY <3>1, <3>2
    <3> QED BY <1>2, <3>1, <3>3, <3>4
  <2> QED BY <2>2, <2>3
<1>3. q \in T
  <2> HIDE DEF T
  <2> QED BY <1>2, TreeInduction
<1> DEFINE s == SubSeq(q, 1, k)
<1>4. /\ s \in Seq(Parts) /\ Len(s) = k /\ \A i \in 1..k : s[i] = q[i]
      /\ SubSeq(q, 1, Len(q)) = q
  BY <1>1
<1>5. s \in Paths
  BY <1>3
<1>6. k > 1 => Front(s) = SubSeq(q, 1, k - 1)
  <2> SUFFICES ASSUME k > 1 PROVE Front(s) = SubSeq(q, 1, k - 1)
    OBVIOUS
  <2> DEFINE u == SubSeq(q, 1, k - 1)
  <2>1. u \in Seq(Parts) /\ Len(u) = k - 1 /\ \A i \in 1..k-1 : u[i] = q[i]
    BY <1>1
  <2> HIDE DEF s, u
  <2>2. Front(s) \in Seq(Parts) /\ Len(Front(s)) = k - 1 /\ \A i \in 1..k-1 : Front(s)[i] = s[i]
    BY <1>4, FrontLast
  <2>3. \A i \in 1..k-1 : Front(s)[i] = u[i]
    BY <1>1, <1>4, <2>1, <2>2
  <2>4. Front(s) = u
    BY <2>1, <2>2, <2>3, SeqEqual
  <2> QED BY <2>4 DEF u
<1>0. s = SubSeq(q, 1, k)
  OBVIOUS
<1> HIDE DEF s
<1>7. q \in Under(s)
  BY <1>1, <1>4, <1>5, PrefixOf
<1>8. k < Len(q) => s # q
  BY <1>1, <1>4
<1>9. s \in Paths /\ Len(s) = k
  BY <1>4, <1>5
<1> QED BY <1>0, <1>4, <1>6, <1>7, <1>8, <1>9, Zenon

\* What is above an entry that exists is a directory.
LEMMA Above ==
    ASSUME NEW tree, \A q \in Paths : tree[q] # None /\ Len(q) > 1 => tree[Front(q)] = Dir,
           NEW a \in Paths, NEW q \in Under(a), q # a, tree[q] # None
    PROVE  tree[a] = Dir
<1> DEFINE T == {r \in Paths : r \in Under(a) /\ r # a /\ tree[r] # None => tree[a] = Dir}
<1>1. ASSUME NEW r \in Paths, Len(r) > 1 => Front(r) \in T PROVE r \in T
  <2>1. SUFFICES ASSUME r \in Under(a), r # a, tree[r] # None PROVE tree[a] = Dir
    OBVIOUS
  <2>2. Len(r) > 1 /\ Front(r) \in Paths /\ Front(r) \in Under(a)
    BY <2>1, UnderOrder
  <2>3. tree[Front(r)] = Dir
    BY <2>1, <2>2
  <2>4. CASE Front(r) = a
    BY <2>3, <2>4
  <2>5. CASE Front(r) # a
    BY <1>1, <2>2, <2>3, <2>5, Kinds
  <2> QED BY <2>4, <2>5
<1>2. q \in T
  <2>1. q \in Paths
    BY DEF Under
  <2> HIDE DEF T
  <2> QED BY <1>1, <2>1, TreeInduction
<1> QED BY <1>2

\* The path of the same name in another root.
Twin(q, c) == Path(c, Tail(q))

\* Twins have the same names and the same parents.
LEMMA Twins ==
    ASSUME NEW q \in Paths, NEW c \in {Home} \union Pkgs
    PROVE  /\ Tail(q) \in Rels /\ q = Path(q[1], Tail(q))
           /\ Twin(q, c) \in Paths /\ Twin(q, c)[1] = c /\ Tail(Twin(q, c)) = Tail(q)
           /\ Len(Twin(q, c)) = Len(q)
           /\ Twin(q, q[1]) = q
           /\ \A d : Twin(Twin(q, c), d) = Twin(q, d)
           /\ Len(q) > 1 <=> Tail(q) # <<>>
           /\ Len(q) > 1 => /\ Front(Twin(q, c)) = Twin(Front(q), c)
                            /\ Last(Twin(q, c)) = Last(q)
                            /\ Append(Twin(Front(q), c), Last(q)) = Twin(q, c)
                            /\ Tail(Front(q)) = Front(Tail(q))
<1>1. PICK root \in {Home} \union Pkgs, rel \in Rels : q = Path(root, rel)
  BY DEF Paths
<1>2. rel \in Seq(Parts) /\ root \in Parts /\ c \in Parts /\ Len(rel) \in Nat
  BY RelSeq DEF Parts
<1>3. ASSUME NEW r \in {Home} \union Pkgs, NEW s \in Rels
      PROVE  Tail(Path(r, s)) = s
  <2>1. s \in Seq(Parts) /\ r \in Parts
    BY RelSeq DEF Parts
  <2> QED BY <2>1 DEF Path
<1>4. q \in Paths /\ q[1] = root /\ Tail(q) = rel /\ Len(q) = Len(rel) + 1
  BY <1>1, <1>3, PathShape
<1> DEFINE t == Twin(q, c)
<1>5. t = Path(c, rel) /\ t \in Paths /\ t[1] = c /\ Len(t) = Len(rel) + 1 /\ Tail(t) = rel
  BY <1>3, <1>4, PathShape DEF Twin
<1>6. ASSUME Len(q) > 1
      PROVE  /\ Front(t) = Twin(Front(q), c) /\ Last(t) = Last(q)
             /\ Append(Twin(Front(q), c), Last(q)) = t /\ Tail(Front(q)) = Front(Tail(q))
  <2>1. rel # <<>>
    BY <1>2, <1>4, <1>6
  <2>2. /\ Front(q) = Path(root, Front(rel)) /\ Front(t) = Path(c, Front(rel))
        /\ Front(rel) \in Rels
    BY <1>1, <1>5, <2>1, PathShape
  <2>3. Tail(Front(q)) = Front(rel)
    BY <1>3, <2>2
  <2>4. Last(t) = Last(q)
    <3>1. Len(t) = Len(q) /\ Len(q) \in Nat /\ t = <<c>> \o rel /\ q = <<root>> \o rel
      BY <1>1, <1>2, <1>4, <1>5 DEF Path
    <3>2. t[Len(q)] = rel[Len(q) - 1] /\ q[Len(q)] = rel[Len(q) - 1]
      <4> HIDE DEF t
      <4>1. Len(q) = Len(rel) + 1 /\ Len(q) >= 2
        BY <1>2, <1>4, <1>6
      <4> QED BY <1>2, <3>1, <4>1
    <3> QED BY <3>1, <3>2 DEF Last
  <2>5. t \in Seq(Parts) /\ Len(t) > 0
    BY <1>4, <1>5, <1>6, PathsShape
  <2>6. Append(Front(t), Last(t)) = t
    <3> HIDE DEF t
    <3> QED BY <2>5, FrontLast
  <2> QED BY <1>4, <2>2, <2>3, <2>4, <2>6 DEF Twin
<1>7. Len(q) > 1 <=> Tail(q) # <<>>
  <2>1. Len(rel) = 0 <=> rel = <<>>
    BY <1>2, EmptySeq
  <2> QED BY <1>2, <1>4, <2>1
<1>8. Twin(q, q[1]) = q /\ \A d : Twin(t, d) = Twin(q, d)
  BY <1>1, <1>4, <1>5 DEF Twin
<1> HIDE DEF t
<1> QED BY <1>1, <1>4, <1>5, <1>6, <1>7, <1>8 DEF t

\* Twins of paths under each other are under each other.
LEMMA TwinsUnder ==
    ASSUME NEW a \in Paths, NEW q \in Under(a), NEW c \in {Home} \union Pkgs
    PROVE  Twin(q, c) \in Under(Twin(a, c))
<1> DEFINE T == {r \in Paths : r \in Under(a) => Twin(r, c) \in Under(Twin(a, c))}
<1>1. ASSUME NEW r \in Paths, Len(r) > 1 => Front(r) \in T PROVE r \in T
  <2>1. SUFFICES ASSUME r \in Under(a) PROVE Twin(r, c) \in Under(Twin(a, c))
    OBVIOUS
  <2>2. CASE r = a
    BY <2>2, Twins, UnderFacts
  <2>3. CASE r # a
    <3>1. Len(r) > 1 /\ Front(r) \in Paths /\ Front(r) \in Under(a)
      BY <2>1, <2>3, UnderOrder
    <3>2. Twin(Front(r), c) \in Under(Twin(a, c))
      BY <1>1, <3>1
    <3>3. /\ Twin(r, c) \in Paths /\ Len(Twin(r, c)) > 1 /\ Twin(a, c) \in Paths
          /\ Front(Twin(r, c)) = Twin(Front(r), c)
      BY <3>1, Twins
    <3> QED BY <3>2, <3>3, UnderFacts
  <2> QED BY <2>2, <2>3
<1>2. q \in T
  <2>1. q \in Paths
    BY DEF Under
  <2> HIDE DEF T
  <2> QED BY <1>1, <2>1, TreeInduction
<1> QED BY <1>2

\* The prefixes of a relative path, and the paths they name.
LEMMA RelPrefixes ==
    ASSUME NEW rel \in Rels, NEW k \in 1..Len(rel), NEW c \in {Home} \union Pkgs
    PROVE  /\ SubSeq(rel, 1, k) \in Rels \ {<<>>}
           /\ Path(c, SubSeq(rel, 1, k)) = SubSeq(Path(c, rel), 1, k + 1)
           /\ Path(c, rel) \in Under(Path(c, SubSeq(rel, 1, k)))
           /\ Len(Path(c, SubSeq(rel, 1, k))) = k + 1
<1> DEFINE q == Path(c, rel)
           s == SubSeq(rel, 1, k)
           u == SubSeq(q, 1, k + 1)
<1>1. rel \in Seq(Parts) /\ c \in Parts /\ Len(rel) \in Nat
  BY RelSeq DEF Parts
<1>2. q \in Paths /\ Len(q) = Len(rel) + 1
  BY PathShape
<1>3. s \in Seq(Parts) /\ Len(s) = k /\ \A i \in 1..k : s[i] = rel[i]
  BY <1>1
<1>4. k + 1 \in 1..Len(q)
  BY <1>1, <1>2
<1>5. u \in Paths /\ Len(u) = k + 1 /\ q \in Under(u)
  <2> DEFINE j == k + 1
  <2> HIDE DEF q, j
  <2>1. j \in 1..Len(q)
    BY <1>4 DEF j
  <2>2. SubSeq(q, 1, j) \in Paths /\ Len(SubSeq(q, 1, j)) = j /\ q \in Under(SubSeq(q, 1, j))
    BY <1>2, <2>1, PathPrefixes
  <2> QED BY <2>2 DEF j
<1>6. u = Path(c, s)
  <2>1. Path(c, s) = <<c>> \o s /\ q = <<c>> \o rel
    BY DEF Path
  <2> HIDE DEF s, q
  <2>2. Path(c, s) \in Seq(Parts) /\ Len(Path(c, s)) = k + 1 /\ q \in Seq(Parts)
    BY <1>1, <1>3, <2>1
  <2>3. u \in Seq(Parts) /\ \A i \in 1..k+1 : u[i] = q[i]
    BY <1>2, <1>4, <2>2
  <2>4. ASSUME NEW i \in 1..k+1 PROVE u[i] = Path(c, s)[i]
    <3>1. CASE i = 1
      BY <1>1, <1>3, <2>1, <2>3, <3>1
    <3>2. CASE i # 1
      <4>1. i - 1 \in 1..k /\ i - 1 \in 1..Len(rel)
        BY <1>1, <3>2
      <4>2. q[i] = rel[i - 1] /\ Path(c, s)[i] = s[i - 1]
        BY <1>1, <1>3, <2>1, <3>2, <4>1
      <4> QED BY <1>3, <2>3, <4>1, <4>2
    <3> QED BY <3>1, <3>2
  <2> HIDE DEF u
  <2> QED BY <1>5, <2>2, <2>3, <2>4, SeqEqual
<1>7. s = Tail(u)
  <2>1. Tail(<<c>> \o s) = s
    <3> HIDE DEF s
    <3> QED BY <1>1, <1>3
  <2> QED BY <1>6, <2>1 DEF Path
<1>8. s \in Rels /\ s # <<>>
  <2>1. Tail(u) \in Rels
    <3> HIDE DEF u
    <3> QED BY <1>5, Twins
  <2>2. k # 0
    OBVIOUS
  <2> HIDE DEF s, u
  <2> QED BY <1>3, <1>7, <2>1, <2>2
<1> HIDE DEF q, s, u
<1> QED BY <1>5, <1>6, <1>8 DEF q, s, u

-----------------------------------------------------------------------------
(* Types *)

\* The entries and backups of well-typed trees, after a step.
LEMMA TypedTrees ==
    ASSUME TreeOK, TreeInv',
           \A q \in Paths : \/ fs'[q] = fs[q]
                            \/ fs'[q] \in {None, Dir}
                            \/ \E x \in Data : fs'[q] = File(x)
                            \/ \E to : fs'[q] = Link(to),
           \A q \in Paths : saved'[q] \subseteq SUBSET Data
    PROVE  TreeOK'
<1>1. /\ fs' = [q \in Paths |-> fs'[q]] /\ saved' = [q \in Paths |-> saved'[q]]
      /\ \A q \in Paths : fs'[q].kind = "link" => fs'[q].to \in Seq(Parts)
  BY DEF TreeInv, LinksTyped
<1>2. \A to \in Seq(Parts) : Link(to) \in Entries
  BY DEF Link, Entries
<1>3. None \in Entries /\ Dir \in Entries /\ \A x \in Data : File(x) \in Entries
  BY DEF Entries
<1>4. ASSUME NEW q \in Paths PROVE fs'[q] \in Entries
  <2>1. fs[q] \in Entries
    BY DEF TreeOK
  <2>2. ASSUME NEW to, fs'[q] = Link(to) PROVE fs'[q] \in Entries
    BY <1>1, <1>2, <2>2, Kinds
  <2> QED BY <1>3, <2>1, <2>2
<1>5. fs' \in [Paths -> Entries]
  BY <1>1, <1>4
<1>6. saved' \in [Paths -> SUBSET SUBSET Data]
  BY <1>1
<1> QED BY <1>5, <1>6 DEF TreeOK

\* What files and backups hold is data.
LEMMA DataTyped ==
    ASSUME TreeOK, NEW q
    PROVE  DataUnder(q) \subseteq Data
<1>1. SUFFICES ASSUME NEW x \in DataUnder(q) PROVE x \in Data
  OBVIOUS
<1>2. PICK r \in Under(q) : \/ fs[r].kind = "file" /\ fs[r].data = x
                            \/ \E b \in saved[r] : x \in b
  BY <1>1, InData
<1>3. r \in Paths
  BY DEF Under
<1>4. CASE fs[r].kind = "file" /\ fs[r].data = x
  <2>1. fs[r] \in Entries
    BY <1>3 DEF TreeOK
  <2>2. \A e \in [kind : {"link"}, to : Seq(Parts)] : e.kind = "link"
    OBVIOUS
  <2>3. \E y \in Data : fs[r] = File(y)
    BY <1>4, <2>1, <2>2, Kinds DEF Entries
  <2> QED BY <1>4, <2>3, Kinds
<1>5. CASE \E b \in saved[r] : x \in b
  BY <1>3, <1>5 DEF TreeOK
<1> QED BY <1>2, <1>4, <1>5

\* The steps of the linker and of the user leave well-typed trees.
LEMMA TreeTyped ==
    ASSUME TreeOK, IInv, IInv', Next
    PROVE  TreeOK'
<1> DEFINE Typed == \A q \in Paths : \/ fs'[q] = fs[q]
                                     \/ fs'[q] \in {None, Dir}
                                     \/ \E x \in Data : fs'[q] = File(x)
                                     \/ \E to : fs'[q] = Link(to)
<1>1. /\ TreeInv /\ JobInv /\ TreeInv' /\ fs = [q \in Paths |-> fs[q]]
      /\ saved = [q \in Paths |-> saved[q]] /\ sc \in Scenarios
  BY DEF IInv, TreeInv, JobInv
<1>2. \A q \in Paths : saved[q] \subseteq SUBSET Data
  BY DEF TreeOK
<1>3. ASSUME Typed, \A q \in Paths : saved'[q] \subseteq SUBSET Data PROVE TreeOK'
  BY <1>1, <1>3, TypedTrees
<1>4. ASSUME Typed, UNCHANGED saved PROVE TreeOK'
  BY <1>2, <1>3, <1>4
<1>5. CASE UNCHANGED treeVars
  BY <1>5 DEF treeVars, TreeOK
<1>6. CASE UserWrite
  <2>1. PICK x \in sc.data : \E q :
            fs' = [r \in Paths |-> IF r = q THEN File(x)
                                   ELSE IF IsPrefix(r, q) THEN Dir ELSE fs[r]]
    BY <1>6 DEF UserWrite
  <2>2. x \in Data
    BY <1>1, LinkerAssumption
  <2>3. Typed
    BY <2>1, <2>2
  <2> QED BY <1>4, <1>6, <2>3 DEF UserWrite
<1>7. CASE UserLink
  <2>1. PICK q, to : fs' = [fs EXCEPT ![q] = Link(to)]
    BY <1>7 DEF UserLink
  <2>2. Typed
    BY <1>1, <2>1
  <2> QED BY <1>4, <1>7, <2>2 DEF UserLink
<1>8. CASE UnlinkFile
  <2>1. UNCHANGED fs \/ \E gone : fs' = [q \in Paths |-> IF q \in gone THEN None ELSE fs[q]]
    BY <1>8 DEF UnlinkFile
  <2>2. Typed
    BY <2>1
  <2> QED BY <1>4, <1>8, <2>2 DEF UnlinkFile
<1>9. CASE DeleteEntry
  <2>1. \E q, kept : /\ fs' = [fs EXCEPT ![q] = None] \/ fs' = fs
                    /\ saved' = [saved EXCEPT ![q] = kept] /\ kept \subseteq saved[q]
    BY <1>9 DEF DeleteEntry, Delete, DeleteFails
  <2> QED BY <1>1, <1>2, <1>3, <2>1
<1>10. CASE UnfoldLink
  <2>1. UNCHANGED treeVars
        \/ \E p : /\ fs' = Unfolded(p)
                  /\ saved' = [saved EXCEPT ![Phys(p)] = {{} : b \in saved[Real(p)]}]
    BY <1>10 DEF UnfoldLink
  <2>2. ASSUME NEW p, fs' = Unfolded(p),
               saved' = [saved EXCEPT ![Phys(p)] = {{} : b \in saved[Real(p)]}]
        PROVE  TreeOK'
    <3>1. Typed
      BY <2>2 DEF Unfolded
    <3>2. {{} : b \in saved[Real(p)]} \subseteq SUBSET Data
      OBVIOUS
    <3>3. \A q \in Paths : saved'[q] \subseteq SUBSET Data
      BY <1>1, <1>2, <2>2, <3>2
    <3> QED BY <1>3, <3>1, <3>3
  <2> QED BY <1>5, <2>1, <2>2
<1>11. CASE MakeParents
  <2>1. \E new : fs' = [q \in Paths |-> IF q \in new THEN Dir ELSE fs[q]]
    BY <1>11 DEF MakeParents
  <2>2. Typed
    BY <2>1
  <2> QED BY <1>4, <1>11, <2>2 DEF MakeParents
<1>12. CASE LinkFile
  <2>1. \E p, q : \/ UNCHANGED treeVars \/ ReplaceLink(p, q) \/ BackUp(p, q) \/ MakeLink(p, q)
    BY <1>12 DEF LinkFile, AlreadyLinked, LinkFails
  <2>2. ASSUME NEW p, NEW q, ReplaceLink(p, q) \/ MakeLink(p, q) PROVE TreeOK'
    <3>1. \E r : fs' = [fs EXCEPT ![r] = Link(q)]
      BY <2>2 DEF ReplaceLink, MakeLink
    <3>2. Typed
      BY <1>1, <3>1
    <3> QED BY <1>4, <2>2, <3>2 DEF ReplaceLink, MakeLink
  <2>3. ASSUME NEW p, NEW q, BackUp(p, q) PROVE TreeOK'
    <3> DEFINE here == Phys(p)
               held == DataUnder(here)
    <3>1. /\ \E linked : fs' = [r \in Paths |-> IF r = here /\ linked THEN Link(q)
                                                ELSE IF r \in Under(here) THEN None
                                                ELSE fs[r]]
          /\ saved' = [r \in Paths |-> IF r \in Under(here) THEN {}
                                       ELSE IF r = Front(here) THEN saved[r] \union {held}
                                       ELSE saved[r]]
      BY <2>3 DEF BackUp
    <3>2. held \subseteq Data
      BY DataTyped
    <3> HIDE DEF here, held
    <3>3. Typed
      BY <3>1
    <3>4. \A r \in Paths : saved'[r] \subseteq SUBSET Data
      BY <1>2, <3>1, <3>2
    <3> QED BY <1>3, <3>3, <3>4
  <2> QED BY <1>5, <2>1, <2>2, <2>3
<1>13. CASE Start \/ Crash
  BY <1>5, <1>13
    DEF Start, Crash, BeginFix, BeginLink, BeginUnlink, BeginRelink, BeginRemove, Begin
<1>14. CASE UnlinkDone \/ Exclude \/ DetectConflicts \/ UnlinkConflict
  BY <1>5, <1>14 DEF UnlinkDone, Exclude, DetectConflicts, UnlinkConflict
<1>15. CASE BeginWalk \/ WalkPath \/ WalkDone \/ ParentsMade \/ LinkDone
  BY <1>5, <1>15 DEF BeginWalk, WalkPath, WalkDone, ParentsMade, LinkDone
<1> QED BY <1>6, <1>7, <1>8, <1>9, <1>10, <1>11, <1>12, <1>13, <1>14, <1>15
        DEF Next, User, Work

\* The walk visits relative paths.
LEMMA WalkRelsRel ==
    ASSUME NEW rels \in SUBSET Rels
    PROVE  WalkRels(rels) \subseteq Rels \ {<<>>}
<1> DEFINE all == IF rels # {} THEN rels
                  ELSE UNION {Collect(p) : p \in {q \in Pkgs : IsDir(<<q>>)}}
<1>1. all \subseteq Rels
  BY CollectFacts
<1> HIDE DEF all
<1>2. ASSUME NEW rel \in all, NEW k \in 1..Len(rel)
      PROVE  SubSeq(rel, 1, k) \in Rels \ {<<>>}
  BY <1>1, RelPrefixes
<1>3. WalkRels(rels) = UNION {{SubSeq(rel, 1, k) : k \in 1..Len(rel)} : rel \in all}
  BY DEF WalkRels, all
<1>4. ASSUME NEW s \in WalkRels(rels) PROVE s \in Rels \ {<<>>}
  <2>1. PICK rel \in all : s \in {SubSeq(rel, 1, k) : k \in 1..Len(rel)}
    BY <1>3, Zenon
  <2> QED BY <1>2, <2>1
<1> QED BY <1>4

\* How an operation may have ended.
Endings == {Ended(o, p, ok) : o \in Ops \union {"none"},
                              p \in Pkgs \union {NoPkg}, ok \in BOOLEAN}

\* Before any operation has ended, done is what it may be.
LEMMA NotEndedIsOne == NotEnded \in Endings
<1> DEFINE no == FALSE
<1>1. no \in BOOLEAN /\ NotEnded = Ended("none", NoPkg, no)
  BY DEF NotEnded
<1> HIDE DEF no
<1> QED BY <1>1 DEF Endings

\* Everything but the trees.
JobTyped ==
    /\ written \subseteq sc.data
    /\ stage \in Stages /\ resume \in Stages
    /\ op \in Ops
    /\ pkg \in Pkgs \union {NoPkg} /\ victim \in Pkgs \union {NoPkg}
    /\ files \subseteq Rels /\ todo \subseteq Rels
    /\ victims \subseteq Pkgs
    /\ visited \subseteq Seq(Parts)
    /\ failed \in BOOLEAN
    /\ done \in Endings

\* An operation that ends.
LEMMA EndTyped ==
    ASSUME JobTyped, NEW ok \in BOOLEAN, End(ok)
    PROVE  JobTyped'
<1>1. done' \in Endings
  <2>1. done' = Ended(op, pkg, ok) /\ op \in Ops /\ pkg \in Pkgs \union {NoPkg}
    BY DEF JobTyped, End
  <2> QED BY <2>1 DEF Endings
<1> QED BY <1>1 DEF JobTyped, End, inputs, jobVars, Stages

\* Every step keeps the types of what the linker remembers.
LEMMA JobTypedStep ==
    ASSUME JobTyped, IInv, Next
    PROVE  JobTyped'
<1>1. /\ sc \in Scenarios /\ Pkgs = Pkgs /\ sc' = sc
      /\ sc.conflicts \in [Pkgs -> SUBSET Pkgs]
      /\ op # "fix" => pkg \in Pkgs
      /\ stage \notin {"idle", "unfold"} => op # "fix"
      /\ files \subseteq Rels \ {<<>>} /\ pending \subseteq Seq(Parts)
  <2>1. sc' = sc
    BY DEF Next, User, Start, Work, UserWrite, UserLink, BeginFix, BeginLink, BeginUnlink,
           BeginRelink, BeginRemove, Begin, UnlinkFile, UnlinkDone, DeleteEntry, Exclude,
           DetectConflicts, UnlinkConflict, BeginWalk, WalkPath, UnfoldLink, WalkDone,
           MakeParents, ParentsMade, LinkFile, LinkDone, Crash, End, inputs
  <2> QED BY <2>1, LinkerAssumption DEF IInv, JobInv
<1>2. NotEnded \in Endings
  BY NotEndedIsOne
<1>3. \A p \in Pkgs : Collect(p) \subseteq Rels
  BY CollectFacts
<1> USE DEF Stages, Ops
<1>4. CASE UserWrite
  BY <1>2, <1>4 DEF JobTyped, UserWrite, Forget, jobVars, unlVars, walkVars
<1>5. CASE UserLink
  BY <1>2, <1>5 DEF JobTyped, UserLink, Forget, jobVars, unlVars, walkVars, inputs
<1>6. CASE BeginFix
  <2>1. todo' \subseteq Rels
    BY <1>6, WalkRelsRel DEF JobTyped, BeginFix
  <2> QED BY <1>2, <1>6, <2>1 DEF JobTyped, BeginFix, unlVars, inputs
<1>7. ASSUME NEW p \in Pkgs, BeginLink(p) \/ BeginUnlink(p) \/ BeginRelink(p) \/ BeginRemove(p)
      PROVE  JobTyped'
  BY <1>1, <1>2, <1>3, <1>7
    DEF JobTyped, BeginLink, BeginUnlink, BeginRelink, BeginRemove, Begin, EnterLink, EnterUnlink,
        EnterDelete, Conflicts, inputs, walkVars
<1>8. CASE UnlinkFile
  BY <1>1, <1>8 DEF JobTyped, UnlinkFile, jobVars, unlVars, walkVars, inputs, endVars
<1>9. CASE UnlinkDone
  <2>1. CASE resume = "idle" /\ End(~failed)
    <3>1. (~failed) \in BOOLEAN
      OBVIOUS
    <3> QED BY <2>1, <3>1, EndTyped
  <2>2. CASE EnterLink(pkg) /\ UNCHANGED <<inputs, op, pkg, endVars>>
    <3>1. pkg \in Pkgs
      BY <1>1, <1>9 DEF UnlinkDone
    <3> QED BY <1>1, <1>3, <2>2, <3>1
            DEF JobTyped, EnterLink, Conflicts, inputs, endVars, walkVars
  <2>3. CASE /\ stage' = resume
             /\ UNCHANGED <<inputs, jobVars, unlVars, todo, walkVars, failed, endVars>>
    BY <2>3 DEF JobTyped, inputs, jobVars, unlVars, walkVars, endVars
  <2>4. CASE EnterDelete(pkg) /\ UNCHANGED <<inputs, jobVars, victims, walkVars, failed, endVars>>
    BY <2>4 DEF JobTyped, EnterDelete, inputs, jobVars, walkVars, endVars
  <2> QED BY <1>9, <2>1, <2>2, <2>3, <2>4 DEF UnlinkDone
<1>10. CASE DeleteEntry
  <2>1. PICK rel \in todo : \/ End(fs'[Path(pkg, rel)] = None)
                           \/ /\ todo' = todo \ {rel}
                              /\ UNCHANGED <<inputs, stage, jobVars, unlVars, walkVars,
                                             failed, endVars>>
    BY <1>10 DEF DeleteEntry
  <2>2. CASE End(fs'[Path(pkg, rel)] = None)
    <3> DEFINE gone == fs'[Path(pkg, rel)] = None
    <3>1. gone \in BOOLEAN /\ End(gone)
      BY <2>2
    <3> HIDE DEF gone
    <3> QED BY <3>1, EndTyped
  <2> QED BY <2>1, <2>2 DEF JobTyped, inputs, jobVars, unlVars, walkVars, endVars
<1>11. CASE Exclude \/ UnlinkConflict
  BY <1>1, <1>3, <1>11
    DEF JobTyped, Exclude, UnlinkConflict, EnterUnlink, inputs, jobVars, walkVars, endVars
<1>12. CASE DetectConflicts
  BY <1>12 DEF JobTyped, DetectConflicts, Owners, inputs, jobVars, walkVars, endVars
<1>13. CASE BeginWalk
  <2>1. todo' \subseteq Rels
    BY <1>1, <1>13, WalkRelsRel DEF JobTyped, BeginWalk
  <2> QED BY <1>1, <1>13, <2>1 DEF JobTyped, BeginWalk, inputs, jobVars, unlVars, endVars
<1>14. CASE WalkPath
  BY <1>14 DEF JobTyped, WalkPath, inputs, jobVars, unlVars, endVars
<1>15. CASE UnfoldLink
  BY <1>1, <1>15 DEF JobTyped, UnfoldLink, inputs, jobVars, unlVars, endVars
<1>16. CASE WalkDone
  <2>1. CASE End(TRUE)
    BY <2>1, EndTyped
  <2>2. CASE /\ stage' = "mkdir" /\ todo' = ParentRels(files)
             /\ UNCHANGED <<inputs, jobVars, unlVars, walkVars, failed, endVars>>
    <3>1. ParentRels(files) \subseteq Rels
      BY <1>1, TreeAssumption DEF ParentRels
    <3> QED BY <2>2, <3>1 DEF JobTyped, inputs, jobVars, unlVars, walkVars, endVars
  <2> QED BY <1>16, <2>1, <2>2 DEF WalkDone
<1>17. CASE MakeParents \/ ParentsMade
  BY <1>17 DEF JobTyped, MakeParents, ParentsMade, inputs, jobVars, unlVars, walkVars, endVars
<1>18. CASE LinkFile
  <2>1. failed' \in BOOLEAN
    BY <1>18 DEF JobTyped, LinkFile, AlreadyLinked, ReplaceLink, BackUp, MakeLink, LinkFails
  <2> QED BY <1>18, <2>1 DEF JobTyped, LinkFile, inputs, jobVars, unlVars, walkVars, endVars
<1>19. CASE LinkDone
  BY <1>19, EndTyped DEF LinkDone
<1>20. CASE Crash
  BY <1>2, <1>20 DEF JobTyped, Crash, Forget, inputs, jobVars
<1> QED BY <1>4, <1>5, <1>6, <1>7, <1>8, <1>9, <1>10, <1>11, <1>12, <1>13, <1>14, <1>15,
           <1>16, <1>17, <1>18, <1>19, <1>20 DEF Next, User, Start, Work

\* Every variable keeps its type: what the linker reads from the trees and
\* remembers between two steps is what its code takes it for.
THEOREM WellTyped == Spec => []TypeOK
<1> DEFINE TInv == IInv /\ TreeOK /\ JobTyped
<1>1. Init => TInv
  <2> SUFFICES ASSUME Init PROVE TreeOK /\ JobTyped
    BY IInit
  <2>1. sc \in Scenarios /\ fs = [q \in Paths |-> SourceEntry(q)] /\ saved = [q \in Paths |-> {}]
    BY DEF Init
  <2>2. ASSUME NEW q \in Paths PROVE SourceEntry(q) \in Entries
    <3>1. /\ q[1] \in {Home} \union Pkgs
          /\ \A p \in Pkgs : \A rel \in DOMAIN sc.source[p] :
                sc.source[p][rel] \in {Dir} \union {File(d) : d \in Data}
                                         \union {Link(t) : t \in Paths}
      BY <2>1, LinkerAssumption, PathsShape
    <3>2. \A t \in Paths : Link(t) \in Entries
      BY PathsTyped DEF Link, Entries
    <3>3. None \in Entries /\ Dir \in Entries /\ \A x \in Data : File(x) \in Entries
      BY DEF Entries
    <3> QED BY <3>1, <3>2, <3>3 DEF SourceEntry
  <2>3. TreeOK
    BY <2>1, <2>2 DEF TreeOK
  <2>4. JobTyped
    <3>1. NotEnded \in Endings
      BY NotEndedIsOne
    <3> QED BY <3>1 DEF Init, JobTyped, Stages, Ops
  <2> QED BY <2>3, <2>4
<1>2. TInv /\ IInv' /\ [Next]_vars => TInv'
  <2>1. ASSUME TInv, IInv', Next PROVE TInv'
    BY <2>1, TreeTyped, JobTypedStep
  <2>2. ASSUME TInv, IInv', UNCHANGED vars PROVE TInv'
    BY <2>2 DEF vars, treeVars, inputs, jobVars, unlVars, walkVars, endVars, TreeOK, JobTyped
  <2> QED BY <2>1, <2>2
<1>3. TInv => TypeOK
  BY DEF TypeOK, IInv, JobInv, JobTyped, Endings
<1> HIDE DEF TInv
<1> QED BY <1>1, <1>2, <1>3, Invariance, PTL DEF Spec

=============================================================================
